---------------------------- MODULE LinkConsent ----------------------------
(***************************************************************************)
(* What family links promise, without threads, statements or a table: a    *)
(* link is agreed only on a press of the approve button by its target,     *)
(* made while the request was open; it becomes ready one cooldown after    *)
(* that press; once withdrawn it never comes back.                         *)
(***************************************************************************)
EXTENDS Naturals

CONSTANTS
  Members,
  Ids,        \* of requests
  Ttl,        \* how long a request stays open
  Cooldown    \* from the press to the link's being ready

VARIABLES
  clock,
  asked,      \* requests: [id, from, to, until]
  presses,    \* presses of the approve button: [id, by, at]
  agreed,     \* links in force: [id, ready]
  gone        \* ids withdrawn

cvars == <<clock, asked, presses, agreed, gone>>

Fresh(id) == id \notin gone /\ \A l \in agreed : l.id # id

CInit ==
  /\ clock = 0
  /\ asked = {} /\ presses = {} /\ agreed = {} /\ gone = {}

Ask(id, from, to, until) ==
  /\ from # to
  /\ until <= clock + Ttl
  /\ \A r \in asked : r.id # id
  /\ asked' = asked \cup {[id |-> id, from |-> from, to |-> to, until |-> until]}
  /\ UNCHANGED <<clock, presses, agreed, gone>>

Press(request) ==
  /\ clock <= request.until
  /\ Fresh(request.id)
  /\ presses' = presses \cup {[id |-> request.id, by |-> request.to, at |-> clock]}
  /\ UNCHANGED <<clock, asked, agreed, gone>>

Agree(press) ==
  /\ Fresh(press.id)
  /\ agreed' = agreed \cup {[id |-> press.id, ready |-> press.at + Cooldown]}
  /\ UNCHANGED <<clock, asked, presses, gone>>

Withdraw(id) ==
  /\ gone' = gone \cup {id}
  /\ agreed' = {l \in agreed : l.id # id}
  /\ UNCHANGED <<clock, asked, presses>>

Advance ==
  /\ clock' = clock + 1
  /\ UNCHANGED <<asked, presses, agreed, gone>>

CNext ==
  \/ \E id \in Ids, from \in Members, to \in Members, until \in 0..(clock + Ttl) :
       Ask(id, from, to, until)
  \/ \E request \in asked : Press(request)
  \/ \E press \in presses : Agree(press)
  \/ \E request \in asked : Withdraw(request.id)
  \/ Advance

CSpec == CInit /\ [][CNext]_cvars
=============================================================================
