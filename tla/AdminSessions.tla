--------------------------- MODULE AdminSessions ---------------------------
(***************************************************************************)
(* The dashboard (admin_router.py): the cookie sessions its callback makes *)
(* out of a login of OidcLogin, the pages, the reviews decided through the *)
(* form or the API, and the restart that forgets logins and sessions.      *)
(*                                                                         *)
(* A session id and its CSRF token are secrets drawn together, and a       *)
(* session is named by its place in the order of creation.  Synchronous    *)
(* handlers are threads; review_decide is a coroutine, which awaits the    *)
(* body and then runs to its end, the SQL of decide_review included,       *)
(* without giving the event loop away.                                     *)
(***************************************************************************)
EXTENDS OidcLogin

CONSTANTS
  Reviews,
  NONE, BEARER,   \* no session; a verified bearer token with the role
  SessionTTL,     \* ADMIN_SESSION_TTL_SECONDS
  MaxSessions,    \* bound: sessions ever made
  MaxRestarts     \* bound

ASSUME SessionAssumption ==
  /\ IsFiniteSet(Reviews)
  /\ NONE \notin Reviews
  /\ BEARER \notin Nat
  /\ {SessionTTL, MaxSessions, MaxRestarts} \subseteq Nat

VARIABLES
  sessions,   \* every session ever made: its login, "t", the process that made
              \* it, and whether _sessions still has it
  reviews,    \* table verification_reviews: the status of a review
  visit,      \* what each handler of the dashboard is doing
  decided,    \* history: decisions that took effect on a review, by way
  left,       \* history: sessions whose cookie was presented to /admin/logout
  restarts

sessionState == <<sessions, reviews, visit, decided, left, restarts>>
vars == <<clock, loginState, sessionState>>

Decisions == {"approved", "rejected"}

\* The locals of a handler: its kind, the session it was let in by, the
\* review and the decision.
Visit == [pc : {"idle", "render", "body", "select", "tx"},
          kind : {"none", "page", "form", "api"}, sid : Nat \cup {BEARER},
          review : Reviews \cup {NONE}, decision : Decisions]

Enter(kind, label, sid, review) ==
  [pc |-> label, kind |-> kind, sid |-> sid, review |-> review, decision |-> "approved"]

Resting == Enter("none", "idle", 0, NONE)

Init ==
  /\ LoginInit
  /\ sessions = <<>>
  /\ reviews = [r \in Reviews |-> "pending"]
  /\ visit = [w \in Workers |-> Resting]
  /\ decided = [r \in Reviews |-> <<>>]
  /\ left = {}
  /\ restarts = 0

Free(w) == visit[w].pc = "idle" /\ At(w, "idle")
Leave(w) == visit' = [visit EXCEPT ![w] = Resting]

\* Mutant of Young: the hour is never over.
MutAgeless(sid) == TRUE

\* A session that has not outlived its hour.
Young(sid) == clock - sessions[sid].t <= SessionTTL

\* _session_from_cookie: what it returns, and the pop of an entry it finds
\* expired.
Valid(sid) == sessions[sid].kept /\ Young(sid)
Looked(sid) ==
  sessions' = [sessions EXCEPT ![sid].kept = @ /\ Young(sid)]

\* Mutant of OnLoop: the handler is a thread.
MutNoLoop == {}

\* Coroutines that hold the event loop between two awaits.
OnLoop == {w \in Workers : visit[w].kind = "form" /\ visit[w].pc \in {"select", "tx"}}
-----------------------------------------------------------------------------
\* The end of admin_callback: the token is verified and carries the role ...
OpenSession(w) ==
  /\ At(w, "tokens")
  /\ Len(sessions) < MaxSessions
  /\ sessions' = Append(sessions, [login |-> job[w].login, t |-> clock,
                                   born |-> restarts, kept |-> TRUE])
  /\ Finish(w)
  /\ UNCHANGED <<clock, stores, current, cached, logins, exchanges, waiting, raced>>
  /\ UNCHANGED <<reviews, visit, decided, left, restarts>>

\* ... or it does not: a 401 or a 403.
RefuseSession(w) ==
  /\ At(w, "tokens")
  /\ Finish(w)
  /\ UNCHANGED <<clock, stores, current, cached, logins, exchanges, waiting, raced>>
  /\ UNCHANGED sessionState

\* admin_home, review_detail: without a session, a redirect to the login.
PageOpen(w, sid) ==
  /\ Free(w)
  /\ Looked(sid)
  /\ IF Valid(sid) THEN visit' = [visit EXCEPT ![w] = Enter("page", "render", sid, NONE)]
     ELSE UNCHANGED visit
  /\ UNCHANGED <<clock, loginState, reviews, decided, left, restarts>>

\* _page reads the session again after the query; `sess["csrf"]` raises when
\* it has gone.
PageRender(w) ==
  /\ visit[w].pc = "render"
  /\ Looked(visit[w].sid)
  /\ Leave(w)
  /\ UNCHANGED <<clock, loginState, reviews, decided, left, restarts>>

\* review_decide up to its await.
FormOpen(w, sid, review) ==
  /\ Free(w)
  /\ OnLoop = {}
  /\ Looked(sid)
  /\ IF Valid(sid) THEN visit' = [visit EXCEPT ![w] = Enter("form", "body", sid, review)]
     ELSE UNCHANGED visit
  /\ UNCHANGED <<clock, loginState, reviews, decided, left, restarts>>

\* Mutant of FormArrive: the session read before the await is good enough.
MutFormTrusting(w, csrf, decision) ==
  /\ visit[w].pc = "body"
  /\ OnLoop = {}
  /\ IF csrf = visit[w].sid /\ decision \in Decisions
     THEN visit' = [visit EXCEPT ![w].pc = "select", ![w].decision = decision]
     ELSE Leave(w)
  /\ UNCHANGED <<clock, loginState, sessions, reviews, decided, left, restarts>>

\* Mutant of FormArrive: the decision is left to decide_review to refuse.
MutAnyDecision(w, csrf, decision) ==
  /\ visit[w].pc = "body"
  /\ OnLoop = {}
  /\ Looked(visit[w].sid)
  /\ IF Valid(visit[w].sid) /\ csrf = visit[w].sid
     THEN visit' = [visit EXCEPT ![w].pc = "select", ![w].decision = decision]
     ELSE Leave(w)
  /\ UNCHANGED <<clock, loginState, reviews, decided, left, restarts>>

\* The body is there: check_csrf reads the session again (403), and a form
\* that says neither approved nor rejected is a 422.
FormArrive(w, csrf, decision) ==
  /\ visit[w].pc = "body"
  /\ OnLoop = {}
  /\ Looked(visit[w].sid)
  /\ IF Valid(visit[w].sid) /\ csrf = visit[w].sid /\ decision \in Decisions
     THEN visit' = [visit EXCEPT ![w].pc = "select", ![w].decision = decision]
     ELSE Leave(w)
  /\ UNCHANGED <<clock, loginState, reviews, decided, left, restarts>>

\* require_admin, by token or by session, lets api_approve in.
ApiOpen(w, sid, review) ==
  /\ Free(w)
  /\ IF sid = BEARER THEN UNCHANGED sessions ELSE Looked(sid)
  /\ IF sid = BEARER \/ Valid(sid)
     THEN visit' = [visit EXCEPT ![w] = Enter("api", "select", sid, review)]
     ELSE UNCHANGED visit
  /\ UNCHANGED <<clock, loginState, reviews, decided, left, restarts>>

\* decide_review: a review that is not pending is left alone ...
DecideSelect(w) ==
  /\ visit[w].pc = "select"
  /\ IF reviews[visit[w].review] = "pending"
     THEN visit' = [visit EXCEPT ![w].pc = "tx"] ELSE Leave(w)
  /\ UNCHANGED <<clock, loginState, sessions, reviews, decided, left, restarts>>

\* ... but the UPDATE does not look at the status again.
DecideTx(w) ==
  /\ visit[w].pc = "tx"
  /\ reviews' = [reviews EXCEPT ![visit[w].review] = visit[w].decision]
  /\ decided' = [decided EXCEPT ![visit[w].review] = Append(@, visit[w].kind)]
  /\ Leave(w)
  /\ UNCHANGED <<clock, loginState, sessions, left, restarts>>

\* AccountMissingForReview: the transaction is rolled back.
DecideNoAccount(w) ==
  /\ visit[w].pc = "tx"
  /\ visit[w].decision = "approved"
  /\ Leave(w)
  /\ UNCHANGED <<clock, loginState, sessions, reviews, decided, left, restarts>>

Logout(sid) ==
  /\ sessions' = [sessions EXCEPT ![sid].kept = FALSE]
  /\ left' = left \cup {sid}
  /\ UNCHANGED <<clock, loginState, reviews, visit, decided, restarts>>

Restart ==
  /\ restarts < MaxRestarts
  /\ restarts' = restarts + 1
  /\ MemoryLost
  /\ sessions' = [i \in DOMAIN sessions |-> [sessions[i] EXCEPT !.kept = FALSE]]
  /\ visit' = [w \in Workers |-> Resting]
  /\ UNCHANGED <<reviews, decided, left>>

Tick ==
  /\ clock < MaxTime
  /\ clock' = clock + 1
  /\ UNCHANGED <<loginState, sessionState>>

\* Threads of one pool: a handler of either kind keeps its thread busy.
Login(w) ==
  /\ visit[w].pc = "idle"
  /\ LoginStep(w)
  /\ UNCHANGED sessionState

Session(w) ==
  \/ OpenSession(w) \/ RefuseSession(w)
  \/ \E sid \in DOMAIN sessions : PageOpen(w, sid)
  \/ PageRender(w)

Decide(w) ==
  \/ \E sid \in DOMAIN sessions, review \in Reviews : FormOpen(w, sid, review)
  \/ \E csrf \in DOMAIN sessions, decision \in Decisions \cup {"other"} : FormArrive(w, csrf, decision)
  \/ \E sid \in DOMAIN sessions \cup {BEARER}, review \in Reviews : ApiOpen(w, sid, review)
  \/ DecideSelect(w) \/ DecideTx(w) \/ DecideNoAccount(w)

Next ==
  \/ Tick \/ Restart
  \/ \E sid \in DOMAIN sessions : Logout(sid)
  \/ \E w \in Workers : Login(w) \/ Session(w) \/ Decide(w)

Spec == Init /\ [][Next]_vars
-----------------------------------------------------------------------------
\* Every variable keeps its shape, the logins' included.
TypeOK ==
  /\ LoginTypeOK
  /\ sessions \in Seq([login : 1..Len(logins), t : Nat, born : Nat, kept : BOOLEAN])
  /\ reviews \in [Reviews -> Decisions \cup {"pending"}]
  /\ visit \in [Workers -> Visit]
  /\ \A w \in Workers :
       /\ visit[w].pc # "idle" /\ visit[w].sid # BEARER => visit[w].sid \in DOMAIN sessions
       /\ visit[w].pc \in {"select", "tx"} => visit[w].review \in Reviews
  /\ decided \in [Reviews -> Seq({"form", "api"})]
  /\ left \subseteq DOMAIN sessions
  /\ restarts \in Nat

\* A session's life: to the first of its logout, the restart of the process
\* that made it, and its hour.
Alive(sid) ==
  /\ sid \notin left
  /\ sessions[sid].born = restarts
  /\ clock <= sessions[sid].t + SessionTTL

\* A session serves for its life and no longer: _sessions has every one that is
\* alive, however many handlers look at it, and a cookie lets a handler of the
\* dashboard in only while its session is alive, whatever _sessions still has.
SessionLivesItsHour ==
  /\ [](\A sid \in DOMAIN sessions : Alive(sid) => sessions[sid].kept)
  /\ [][\A w \in Workers :
          (visit[w].pc = "idle" /\ visit'[w].pc # "idle" /\ visit'[w].sid # BEARER)
            => Alive(visit'[w].sid)]_vars

\* A session that ended while its form was on the way decides nothing: what
\* gets to decide_review came through a session alive when the last of the
\* request had arrived, or by a bearer token.
EndedSessionDecidesNothing ==
  [][\A w \in Workers :
       (visit'[w].pc = "select" /\ visit[w].pc # "select" /\ visit'[w].sid # BEARER)
         => Alive(visit'[w].sid)]_vars

\* decide_review reads the status and writes it in two transactions, but two
\* forms never both take effect on a review: the event loop runs one to its
\* end before the other's.  Only an API call can come between.
DoubleDecisionOnlyByApi ==
  \A r \in Reviews :
    Len(decided[r]) > 1 => \E k \in DOMAIN decided[r] : decided[r][k] = "api"
=============================================================================
