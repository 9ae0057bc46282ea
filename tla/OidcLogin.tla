----------------------------- MODULE OidcLogin -----------------------------
(***************************************************************************)
(* The OIDC login in memory: keycloak.py's discovery cache and login-state *)
(* stores, with the two pairs of handlers that use them, members' (/login  *)
(* and /auth/callback) and the dashboard's (/admin/login, /admin/callback).*)
(*                                                                         *)
(* The handlers run in a pool of threads; a step is one access to the      *)
(* memory they share, or one call of Keycloak.  State tokens are secrets   *)
(* drawn afresh, so a login is named by its place in the order in which    *)
(* they were put, and whether Keycloak accepts a code is its own choice.   *)
(***************************************************************************)
EXTENDS Integers, Sequences, FiniteSets

CONSTANTS
  Workers,       \* threads of the server's pool
  LoginTTL,      \* LoginStateStore's ttl_seconds
  DiscoveryTTL,  \* how long get_discovery keeps a document
  MaxTime,       \* bound: the clock stops here
  MaxLogins      \* bound: logins ever begun

ASSUME LoginAssumption ==
  /\ IsFiniteSet(Workers)
  /\ {LoginTTL, DiscoveryTTL, MaxTime, MaxLogins} \subseteq Nat

VARIABLES
  clock,
  stores,     \* contents of each LoginStateStore of this process
  current,    \* the global _state_store: an index in stores, 0 for None
  cached,     \* when the cached discovery document was stored, or NEVER
  job,        \* what each thread is doing
  logins,     \* every state ever put: whose login it is, and its "t"
  exchanges,  \* history: token requests sent, with the time of the pop
  waiting,    \* history: logins put by this process and not yet called back
  raced       \* history: two threads of this process saw no store at once

loginState == <<stores, current, cached, job, logins, exchanges, waiting, raced>>

Flows == {"member", "admin"}
AdminStore == 1      \* admin_router._login_states, made at import
NEVER == -1

Labels == {"idle", "discover", "fetch", "load", "assign", "state", "exchange", "tokens"}

\* The locals of a handler: which it is, the state it was called with, the
\* store it loaded (0: None) and the time of its pop.
Job == [pc : Labels, kind : {"none", "login", "callback"}, flow : Flows,
        login : Nat, loaded : Nat, popped : Nat]

Call(kind, label, flow, login) ==
  [pc |-> label, kind |-> kind, flow |-> flow, login |-> login, loaded |-> 0, popped |-> 0]

Idle == Call("none", "idle", "member", 0)

\* Both modules are imported, and no store of the members' exists yet.
LoginInit ==
  /\ clock = 0
  /\ stores = <<{}>>
  /\ current = 0
  /\ cached = NEVER
  /\ job = [w \in Workers |-> Idle]
  /\ logins = <<>>
  /\ exchanges = <<>>
  /\ waiting = {}
  /\ raced = FALSE

At(w, label) == job[w].pc = label
Goto(w, label) == job' = [job EXCEPT ![w].pc = label]
Finish(w) == job' = [job EXCEPT ![w] = Idle]

\* The members' handlers look up their store first, the dashboard's has one.
StateLabel(flow) == IF flow = "admin" THEN "state" ELSE "load"

\* Where a handler goes on once it has the discovery document.
Discovered(w) ==
  Goto(w, IF job[w].kind = "callback" THEN "exchange" ELSE StateLabel(job[w].flow))
-----------------------------------------------------------------------------
LoginBegin(w, flow) ==
  /\ At(w, "idle")
  /\ Len(logins) + Cardinality({v \in Workers : job[v].kind = "login"}) < MaxLogins
  /\ job' = [job EXCEPT ![w] = Call("login", "discover", flow, 0)]
  /\ UNCHANGED <<clock, stores, current, cached, logins, exchanges, waiting, raced>>

\* Any state a browser holds, at either callback: its own or the other one's.
CallbackBegin(w, flow, login) ==
  /\ At(w, "idle")
  /\ job' = [job EXCEPT ![w] = Call("callback", StateLabel(flow), flow, login)]
  /\ UNCHANGED <<clock, stores, current, cached, logins, exchanges, waiting, raced>>

\* get_discovery: a document younger than the TTL is served from memory.
DiscoveryLookup(w) ==
  /\ At(w, "discover")
  /\ IF cached # NEVER /\ clock - cached < DiscoveryTTL THEN Discovered(w) ELSE Goto(w, "fetch")
  /\ UNCHANGED <<clock, stores, current, cached, logins, exchanges, waiting, raced>>

DiscoveryFetched(w) ==
  /\ At(w, "fetch")
  /\ cached' = clock
  /\ Discovered(w)
  /\ UNCHANGED <<clock, stores, current, logins, exchanges, waiting, raced>>

\* KeycloakUnavailable: a 503; a state popped before is spent.
DiscoveryFails(w) ==
  /\ At(w, "fetch")
  /\ Finish(w)
  /\ UNCHANGED <<clock, stores, current, cached, logins, exchanges, waiting, raced>>

\* `_state_store or LoginStateStore()` reads the global ...
StoreLoad(w) ==
  /\ At(w, "load")
  /\ job' = [job EXCEPT ![w].pc = "assign", ![w].loaded = current]
  /\ raced' = (raced \/ \E v \in Workers : current = 0 /\ At(v, "assign") /\ job[v].loaded = 0)
  /\ UNCHANGED <<clock, stores, current, cached, logins, exchanges, waiting>>

\* Mutant of StoreAssign: a store for every call.
MutStorePerCall(w) ==
  /\ At(w, "assign")
  /\ stores' = Append(stores, {})
  /\ current' = Len(stores')
  /\ Goto(w, "state")
  /\ UNCHANGED <<clock, cached, logins, exchanges, waiting, raced>>

\* ... and its assignment writes what was read, or the new store, over
\* whatever the global has become.
StoreAssign(w) ==
  /\ At(w, "assign")
  /\ \/ job[w].loaded = 0 /\ stores' = Append(stores, {}) /\ current' = Len(stores')
     \/ job[w].loaded # 0 /\ current' = job[w].loaded /\ UNCHANGED stores
  /\ Goto(w, "state")
  /\ UNCHANGED <<clock, cached, logins, exchanges, waiting, raced>>

\* get_state_store returns the global, read once more.
StoreOf(w) == IF job[w].flow = "admin" THEN AdminStore ELSE current

LoginPut(w) ==
  LET login == Len(logins) + 1
  IN  /\ At(w, "state") /\ job[w].kind = "login"
      /\ logins' = Append(logins, [flow |-> job[w].flow, t |-> clock])
      /\ stores' = [stores EXCEPT ![StoreOf(w)] = @ \cup {login}]
      /\ waiting' = waiting \cup {login}
      /\ Finish(w)
      /\ UNCHANGED <<clock, current, cached, exchanges, raced>>

\* Mutant of Popped: the state stays in the store.
MutReadState(w) == UNCHANGED stores

Popped(w) == stores' = [stores EXCEPT ![StoreOf(w)] = @ \ {job[w].login}]

\* LoginStateStore.pop: out of the store first, then the age is looked at.
CallbackPop(w) ==
  LET login == job[w].login
  IN  /\ At(w, "state") /\ job[w].kind = "callback"
      /\ Popped(w)
      /\ job' = [job EXCEPT ![w] =
                   IF login \in stores[StoreOf(w)] /\ clock - logins[login].t <= LoginTTL
                   THEN [@ EXCEPT !.pc = "discover", !.popped = clock] ELSE Idle]
      /\ waiting' = IF logins[login].flow = job[w].flow THEN waiting \ {login} ELSE waiting
      /\ UNCHANGED <<clock, current, cached, logins, exchanges, raced>>

\* exchange_code: one token request, whatever becomes of it.  A member gets
\* the tokens back as they are, the dashboard goes on to verify its own.
Exchange(w, accepted) ==
  /\ At(w, "exchange")
  /\ exchanges' = Append(exchanges, [login |-> job[w].login, flow |-> job[w].flow,
                                     popped |-> job[w].popped])
  /\ IF accepted /\ job[w].flow = "admin" THEN Goto(w, "tokens") ELSE Finish(w)
  /\ UNCHANGED <<clock, stores, current, cached, logins, waiting, raced>>

\* The process starts anew: what it kept in memory is gone.
MemoryLost ==
  /\ stores' = <<{}>>
  /\ current' = 0
  /\ cached' = NEVER
  /\ job' = [w \in Workers |-> Idle]
  /\ waiting' = {}
  /\ raced' = FALSE
  /\ UNCHANGED <<clock, logins, exchanges>>

LoginStep(w) ==
  \/ \E flow \in Flows : LoginBegin(w, flow)
  \/ \E flow \in Flows, login \in DOMAIN logins : CallbackBegin(w, flow, login)
  \/ DiscoveryLookup(w) \/ DiscoveryFetched(w) \/ DiscoveryFails(w)
  \/ StoreLoad(w) \/ StoreAssign(w) \/ LoginPut(w) \/ CallbackPop(w)
  \/ \E accepted \in BOOLEAN : Exchange(w, accepted)
-----------------------------------------------------------------------------
LoginTypeOK ==
  /\ clock \in Nat
  /\ stores \in Seq(SUBSET (1..Len(logins))) /\ stores # <<>>
  /\ current \in 0..Len(stores)
  /\ cached \in Nat \cup {NEVER}
  /\ job \in [Workers -> Job]
  /\ logins \in Seq([flow : Flows, t : Nat])
  /\ exchanges \in Seq([login : 1..Len(logins), flow : Flows, popped : Nat])
  /\ waiting \subseteq 1..Len(logins)
  /\ raced \in BOOLEAN

\* A login is worth one token request, sent by the callback of the flow it was
\* begun in and for a state popped within its TTL, however many callbacks
\* present it at the same time, in whichever flow, before or after a restart.
ExchangeEarned ==
  \A k \in DOMAIN exchanges :
    LET e == exchanges[k] IN
      /\ logins[e.login].flow = e.flow
      /\ e.popped \in logins[e.login].t .. logins[e.login].t + LoginTTL
      /\ \A n \in DOMAIN exchanges : exchanges[n].login = e.login => n = k

\* A login that was begun in this process and not called back is in the store
\* its callback will look at: only two first uses of the store that both found
\* none, of a login or of a callback, may lose one (get_state_store has no
\* lock), and only a member's.
LostOnlyByRace ==
  \A login \in waiting :
    IF logins[login].flow = "admin" THEN login \in stores[AdminStore]
    ELSE raced \/ (current # 0 /\ login \in stores[current])
=============================================================================
