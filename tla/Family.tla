------------------------------- MODULE Family -------------------------------
(***************************************************************************)
(* Family links (services/family.py): request, approve, revoke, and who is *)
(* told.  One action per SQL statement, as in Recovery; a worker is a      *)
(* thread that runs a handler of family_router.py.                         *)
(*                                                                         *)
(* The table is a sequence: rows are never deleted, a row's index is its   *)
(* id.  Nothing in the code changes a member's tier or type back, so the   *)
(* eligible requesters are a constant and the three reads of accounts are  *)
(* part of the statement that follows them.                                *)
(***************************************************************************)
EXTENDS Naturals, Integers, FiniteSets, Sequences

CONSTANTS
  Workers,
  Members,      \* addresses with a row in accounts
  Eligible,     \* those at tier2_identity and not guardian_managed
  NONE,         \* no member: a worker at rest
  Ttl,          \* REQUEST_TTL_SECONDS
  Cooldown,     \* FAMILY_LINK_COOLDOWN_HOURS
  PairCap,      \* requests per unordered pair and day
  Day,
  MaxTime,      \* bound: the clock stops here
  MaxLinks,     \* bound: rows of the table
  MaxDeaths     \* bound: kinds of death: of handlers of one link with one kind of news

ASSUME FamilyAssumption ==
  /\ IsFiniteSet(Workers)
  /\ Eligible \subseteq Members
  /\ NONE \notin Members
  /\ {Ttl, Cooldown, PairCap, Day, MaxTime, MaxLinks, MaxDeaths} \subseteq Nat

VARIABLES
  clock,
  links,        \* table family_links
  notes,        \* table notifications: who was told what about which link
  job,          \* what each worker is doing
  presses,      \* history: approve calls let through by the checks, and when
  died          \* history: handlers that died half way: their link, and the news they had

vars == <<clock, links, notes, job, presses, died>>

\* The states a row is ever in; the column's fourth, expired, has no writer.
Status == {"requested", "approved", "revoked"}
Row    == [from : Members, to : Members, status : Status,
           created : Nat, exp : Nat, usable : Nat]

\* The local variables of a handler, when the table has n rows and the clock
\* shows t.
Label        == {"idle", "request_insert", "approve_update", "revoke_update", "look", "tell"}
Locals(n, t) == [pc : Label, from : Members \cup {NONE}, to : Members \cup {NONE},
                 id : 0..n, now : 0..t, kind : Status \cup {"none"},
                 tell : SUBSET Members]

\* Mutant of LinkRow: born in the column's reserved state.
MutBornExpired(from, to, created, exp) ==
  [from |-> from, to |-> to, status |-> "expired",
   created |-> created, exp |-> exp, usable |-> 0]

LinkRow(from, to, created, exp) ==
  [from |-> from, to |-> to, status |-> "requested",
   created |-> created, exp |-> exp, usable |-> 0]

Idle == [pc |-> "idle", from |-> NONE, to |-> NONE, id |-> 0, now |-> 0,
         kind |-> "none", tell |-> {}]

\* A handler that has just taken `now`, and one whose write is done.
Begun(pc, from, to, id) ==
  [pc |-> pc, from |-> from, to |-> to, id |-> id, now |-> clock,
   kind |-> "none", tell |-> {}]
Ending(pc, id, kind, tell) ==
  [pc |-> pc, from |-> NONE, to |-> NONE, id |-> id, now |-> 0,
   kind |-> kind, tell |-> tell]

Parties(id) == {links[id].from, links[id].to}

\* Mutant of PairCount: revoked requests do not count.
MutLiveCount(from, to, since) ==
  Cardinality({i \in DOMAIN links : /\ Parties(i) = {from, to} /\ links[i].created >= since
                                    /\ links[i].status # "revoked"})

\* _pair_request_count: either direction, every status.
PairCount(from, to, since) ==
  Cardinality({i \in DOMAIN links : Parties(i) = {from, to} /\ links[i].created >= since})

\* active_links_for: approved, and the cooldown has elapsed.
ActiveLinks(member) ==
  {i \in DOMAIN links : /\ links[i].status = "approved"
                        /\ links[i].usable <= clock
                        /\ member \in Parties(i)}

Neighborhood(member) == UNION {Parties(i) : i \in ActiveLinks(member)}

Init ==
  /\ clock = 0
  /\ links = <<>>
  /\ notes = {}
  /\ job = [w \in Workers |-> Idle]
  /\ presses = {}
  /\ died = {}

-----------------------------------------------------------------------------
(* POST /family/requests                                                   *)

\* Refused for a managed or tier-1 requester, an unknown or own target, and
\* above the pair's cap: none of the refusals changes anything.  The day is
\* counted back from a reading taken before the SELECT; the model takes it with
\* the SELECT, because an earlier one counts more and so lets through less.
RequestCheck(w, from, to) ==
  /\ job[w].pc = "idle"
  /\ Len(links) < MaxLinks
  /\ from \in Eligible /\ from # to
  /\ PairCount(from, to, clock - Day) < PairCap
  /\ job' = [job EXCEPT ![w] = Begun("request_insert", from, to, 0)]
  /\ UNCHANGED <<clock, links, notes, presses, died>>

\* expires_at counts from `now`, a second reading of the clock taken some time
\* between the count and the INSERT; created_at is the database's own.
RequestInsert(w, now) ==
  /\ job[w].pc = "request_insert"
  /\ Len(links) < MaxLinks
  /\ links' = Append(links, LinkRow(job[w].from, job[w].to, clock, now + Ttl))
  /\ job' = [job EXCEPT ![w] = Ending("tell", Len(links) + 1, "requested",
                                     {job[w].from, job[w].to})]
  /\ UNCHANGED <<clock, notes, presses, died>>

-----------------------------------------------------------------------------
(* POST /family/requests/{id}/approve and .../revoke                       *)

\* A handler that has read the row and passed _require_actor.
Reached(label, id) == Begun(label, NONE, NONE, id)

\* Mutant of ApproveGet: an approve call may come from the requester.
MutEitherApproves(w, id, actor) ==
  /\ job[w].pc = "idle"
  /\ actor \in Parties(id)
  /\ links[id].status = "requested"
  /\ clock <= links[id].exp
  /\ presses' = presses \cup {[id |-> id, by |-> actor, at |-> clock]}
  /\ job' = [job EXCEPT ![w] = Reached("approve_update", id)]
  /\ UNCHANGED <<clock, links, notes, died>>

\* `now` is read after the SELECT: taken with it nothing is lost, for a row that
\* changed in between makes the UPDATE void, and an expiry is never rewritten.
ApproveGet(w, id, actor) ==
  /\ job[w].pc = "idle"
  /\ actor = links[id].to
  /\ links[id].status = "requested"
  /\ clock <= links[id].exp
  /\ presses' = presses \cup {[id |-> id, by |-> actor, at |-> clock]}
  /\ job' = [job EXCEPT ![w] = Reached("approve_update", id)]
  /\ UNCHANGED <<clock, links, notes, died>>

\* Mutant of Approved: the UPDATE has no guard, like revoke's.
MutApprovedAnyway(row, now) ==
  [row EXCEPT !.status = "approved", !.usable = now + Cooldown]

\* Mutant of Approved: the guard names the wrong state.
MutApprovedWrongly(row, now) ==
  IF row.status = "approved"
  THEN [row EXCEPT !.status = "approved", !.usable = now + Cooldown] ELSE row

\* UPDATE ... WHERE link_id=%s AND status='requested': on any other row it
\* changes nothing, and the handler does not learn of it.
Approved(row, now) ==
  IF row.status = "requested"
  THEN [row EXCEPT !.status = "approved", !.usable = now + Cooldown] ELSE row

ApproveUpdate(w) ==
  /\ job[w].pc = "approve_update"
  /\ links' = [links EXCEPT ![job[w].id] = Approved(@, job[w].now)]
  /\ job' = [job EXCEPT ![w] = Ending("look", job[w].id, "approved", {})]
  /\ UNCHANGED <<clock, notes, presses, died>>

RevokeGet(w, id, actor) ==
  /\ job[w].pc = "idle"
  /\ actor \in Parties(id)
  /\ job' = [job EXCEPT ![w] = Reached("revoke_update", id)]
  /\ UNCHANGED <<clock, links, notes, presses, died>>

\* No guard: whatever the row was, and however often.
RevokeUpdate(w) ==
  /\ job[w].pc = "revoke_update"
  /\ links' = [links EXCEPT ![job[w].id].status = "revoked"]
  /\ job' = [job EXCEPT ![w] = Ending("look", job[w].id, "revoked", {})]
  /\ UNCHANGED <<clock, notes, presses, died>>

-----------------------------------------------------------------------------
(* Notifications, to the parties and to the members found through usable   *)
(* links of either: request_link tells the parties alone.                  *)

\* The two SELECTs of _neighborhood are one step: they only decide who is
\* told.
Look(w) ==
  /\ job[w].pc = "look"
  /\ job' = [job EXCEPT ![w].pc = "tell",
       ![w].tell = Parties(job[w].id) \cup UNION {Neighborhood(m) : m \in Parties(job[w].id)}]
  /\ UNCHANGED <<clock, links, notes, presses, died>>

Notes(w, recipients) ==
  [who : recipients, kind : {job[w].kind}, id : {job[w].id}]

\* Mutant of Tell: the member the requester asked is forgotten.
MutTellRequester(w) ==
  /\ job[w].pc = "tell"
  /\ notes' = notes \cup Notes(w, job[w].tell \ {links[job[w].id].to})
  /\ job' = [job EXCEPT ![w] = Idle]
  /\ UNCHANGED <<clock, links, presses, died>>

\* The whole fan-out is one step: no handler reads these rows.
Tell(w) ==
  /\ job[w].pc = "tell"
  /\ notes' = notes \cup Notes(w, job[w].tell)
  /\ job' = [job EXCEPT ![w] = Idle]
  /\ UNCHANGED <<clock, links, presses, died>>

-----------------------------------------------------------------------------

\* The process ends, or a statement raises: the locals are gone, and of a
\* fan-out under way some have been told and some have not.
Crash(w, told) ==
  /\ Cardinality(died) < MaxDeaths
  /\ job[w].pc # "idle"
  /\ told \subseteq (IF job[w].pc = "tell" THEN job[w].tell ELSE {})
  /\ notes' = notes \cup Notes(w, told)
  /\ job' = [job EXCEPT ![w] = Idle]
  /\ died' = died \cup {[id |-> job[w].id, kind |-> job[w].kind]}
  /\ UNCHANGED <<clock, links, presses>>

Tick ==
  /\ clock < MaxTime
  /\ clock' = clock + 1
  /\ UNCHANGED <<links, notes, job, presses, died>>

\* The rest of a handler that has begun.
Continue(w) ==
  \/ \E now \in job[w].now..clock : RequestInsert(w, now)
  \/ ApproveUpdate(w)
  \/ RevokeUpdate(w)
  \/ Look(w)
  \/ Tell(w)

Next ==
  \/ \E w \in Workers :
       \/ \E from \in Members, to \in Members : RequestCheck(w, from, to)
       \/ \E id \in DOMAIN links, actor \in Members :
            ApproveGet(w, id, actor) \/ RevokeGet(w, id, actor)
       \/ Continue(w)
       \/ \E told \in SUBSET job[w].tell : Crash(w, told)
  \/ Tick

Spec == Init /\ [][Next]_vars

-----------------------------------------------------------------------------
(* Properties                                                              *)

\* Every row, local and note has the shape the code gives it, and a handler
\* past its first statement refers to a row of the table.
TypeOK ==
  /\ clock \in Nat
  /\ links \in Seq(Row)
  /\ notes \subseteq [who : Members, kind : Status, id : DOMAIN links]
  /\ job \in [Workers -> Locals(Len(links), clock)]
  /\ presses \subseteq [id : DOMAIN links, by : Members, at : 0..clock]
  /\ died \subseteq [id : 0..Len(links), kind : Status \cup {"none"}]

Consent == INSTANCE LinkConsent WITH
  Ids    <- 1..MaxLinks,
  asked  <- {[id |-> i, from |-> links[i].from, to |-> links[i].to,
              until |-> links[i].exp] : i \in DOMAIN links},
  agreed <- {[id |-> i, ready |-> links[i].usable] :
               i \in {j \in DOMAIN links : links[j].status = "approved"}},
  gone   <- {i \in DOMAIN links : links[i].status = "revoked"}

\* The table implements LinkConsent whatever handlers interleave or die: an
\* approve that read the row before a revoke cannot bring it back, two
\* approves do not restart the cooldown, and only the target's press counts.
ImplementsConsent == Consent!CSpec

\* A pair that active_links_for calls linked has a row that the target
\* approved in time, at least a cooldown ago.
UsableAfterCooldown ==
  \A m \in Members : \A i \in ActiveLinks(m) :
    \E p \in presses : /\ p.id = i /\ p.by = links[i].to
                       /\ p.at + Cooldown <= clock /\ p.at <= links[i].exp

\* The pair's daily cap, counted in one statement and used in another: in any
\* day that a request opens, a pair's requests, of either direction and
\* whatever became of them, exceed the cap by no more than one for each other
\* thread that can be between its count and its INSERT.
PairOverrunBounded ==
  \A i \in DOMAIN links :
    Cardinality({j \in DOMAIN links :
      /\ Parties(j) = Parties(i)
      /\ links[j].created \in links[i].created..(links[i].created + Day)})
    <= PairCap + Cardinality(Workers) - 1

Told(who, kind, id) == [who |-> who, kind |-> kind, id |-> id] \in notes
Revoked(i) == links[i].status = "revoked"

\* No revocation is kept from either party: each has been told, or a handler
\* that revoked it is on its way to telling, or such a handler died between
\* its UPDATE and the last of its notes.
RevocationNotLost ==
  \A i \in DOMAIN links : Revoked(i) =>
    \/ \A who \in Parties(i) : Told(who, "revoked", i)
    \/ \E w \in Workers : job[w].pc \in {"look", "tell"} /\ job[w].id = i
                        /\ job[w].kind = "revoked"
    \/ [id |-> i, kind |-> "revoked"] \in died

\* An approval is never announced for a link that is still only requested:
\* the UPDATE comes first, and when it changed nothing another handler had
\* approved or revoked the link.
ApprovalAnnouncedTruly ==
  \A n \in notes : n.kind = "approved" =>
    links[n.id].status # "requested"

\* "No duplicate active link" (the design's section 12): a pair never holds two
\* approved links, so that one revocation parts it.
NoDuplicateActiveLink ==
  \A i, j \in DOMAIN links :
    (Parties(i) = Parties(j) /\ links[i].status = "approved" /\ links[j].status = "approved")
      => i = j
=============================================================================
