---------------------------- MODULE AdminProofs ----------------------------
(***************************************************************************)
(* The dashboard's properties, for any number of threads, logins, sessions *)
(* and restarts, and any lifetime of a state or a session.                 *)
(*                                                                         *)
(* First what every step of the logins preserves, whatever module runs     *)
(* them.  ExchangeEarned speaks of requests already sent; it is inductive  *)
(* with what makes a callback that has popped its state the only one: the  *)
(* state is in no store any more and no other callback holds it.           *)
(* LostOnlyByRace needs that, as long as no two threads found no store,    *)
(* whoever looked the store up found the one in use.                       *)
(*                                                                         *)
(* Then a part of the invariant for each of the dashboard's own tables:    *)
(* sessions, handlers, reviews.                                            *)
(***************************************************************************)
EXTENDS AdminSessions, SequenceTheorems, TLAPS

\* A callback between its pop and its token request.
Holds(w) == job[w].kind = "callback" /\ job[w].pc \in {"discover", "fetch", "exchange"}

Unspent(login) == \A k \in 1..Len(exchanges) : exchanges[k].login # login

HeldOK(w) ==
  LET login == job[w].login IN
    /\ logins[login].flow = job[w].flow
    /\ job[w].popped \in logins[login].t .. logins[login].t + LoginTTL
    /\ \A s \in 1..Len(stores) : login \notin stores[s]
    /\ Unspent(login)

JobOK(w) ==
  /\ job[w].kind = "callback" => job[w].login \in 1..Len(logins)
  /\ job[w].loaded \in 0..Len(stores) /\ job[w].loaded # AdminStore
  /\ job[w].pc \in {"load", "assign"} => job[w].flow = "member"
  /\ job[w].pc \in {"discover", "fetch", "load", "assign", "state"} =>
       job[w].kind \in {"login", "callback"}
  /\ job[w].pc = "state" /\ job[w].flow = "member" => current # 0
  /\ job[w].pc \in {"exchange", "tokens"} => job[w].kind = "callback"
  /\ Holds(w) => HeldOK(w)

HeldOnce ==
  \A v, w \in Workers : Holds(v) /\ Holds(w) /\ job[v].login = job[w].login => v = w

StoresOK ==
  /\ current # AdminStore
  /\ \A login \in 1..Len(logins) : logins[login].t <= clock
  /\ \A s \in 1..Len(stores) : \A login \in stores[s] :
       /\ s = AdminStore <=> logins[login].flow = "admin"
       /\ Unspent(login)
       /\ \A other \in 1..Len(stores) \ {s} : login \notin stores[other]

OneStore ==
  ~raced =>
    /\ \A w \in Workers : At(w, "assign") => job[w].loaded = current
    /\ current = 0 => \A v, w \in Workers : At(v, "assign") /\ At(w, "assign") => v = w

LoginInv ==
  /\ LoginTypeOK
  /\ \A w \in Workers : JobOK(w)
  /\ HeldOnce
  /\ StoresOK
  /\ ExchangeEarned
  /\ OneStore
  /\ LostOnlyByRace

\* What LoginInv says of one thread.
LEMMA JobOf ==
  ASSUME LoginInv, NEW w \in Workers
  PROVE  /\ job \in [Workers -> Job] /\ job[w] \in Job /\ JobOK(w)
         /\ stores \in Seq(SUBSET (1..Len(logins))) /\ Len(stores) \in Nat \ {0}
         /\ logins \in Seq([flow : Flows, t : Nat]) /\ Len(logins) \in Nat
         /\ exchanges \in Seq([login : 1..Len(logins), flow : Flows, popped : Nat])
         /\ Len(exchanges) \in Nat
         /\ clock \in Nat
<1>1. Len(stores) \in Nat /\ Len(logins) \in Nat /\ Len(exchanges) \in Nat
  BY LenProperties DEF LoginInv, LoginTypeOK
<1>2. Len(stores) # 0
  BY EmptySeq DEF LoginInv, LoginTypeOK
<1> QED
  BY <1>1, <1>2 DEF LoginInv, LoginTypeOK

LEMMA IdleOK == Idle \in Job
  BY DEF Idle, Call, Job, Labels, Flows

\* The steps that change a thread's locals and neither stores nor logins: it
\* must hold no state that it did not hold before.
LEMMA LocalStep ==
  ASSUME LoginInv, NEW w \in Workers, NEW r \in Job, job' = [job EXCEPT ![w] = r],
         UNCHANGED <<clock, stores, current, logins, exchanges, waiting>>,
         cached' \in Nat \cup {NEVER}, raced' \in BOOLEAN, OneStore', raced => raced',
         JobOK(w)',
         Holds(w)' => Holds(w) /\ r.login = job[w].login
  PROVE  LoginInv'
<1>1. /\ job' \in [Workers -> Job] /\ job'[w] = r
      /\ \A v \in Workers \ {w} : job'[v] = job[v]
  BY JobOf
<1>2. LoginTypeOK'
  BY <1>1 DEF LoginInv, LoginTypeOK
<1>3. ASSUME NEW v \in Workers PROVE JobOK(v)'
  <2>1. CASE v = w
    BY <2>1
  <2>2. CASE v # w
    <3>1. job'[v] = job[v] /\ JobOK(v)
      BY <2>2, <1>1 DEF LoginInv
    <3> QED
      BY <3>1 DEF JobOK, Holds, HeldOK, Unspent
  <2> QED
    BY <2>1, <2>2
<1>4. HeldOnce'
  BY <1>1 DEF LoginInv, HeldOnce, Holds
<1>5. StoresOK' /\ ExchangeEarned' /\ LostOnlyByRace'
  BY DEF LoginInv, StoresOK, ExchangeEarned, LostOnlyByRace, Unspent
<1> QED
  BY <1>2, <1>3, <1>4, <1>5 DEF LoginInv

\* Of these, the ones that do not look at the store.
LEMMA OneStoreKept ==
  ASSUME LoginInv, NEW w \in Workers, NEW r \in Job, job' = [job EXCEPT ![w] = r],
         r.pc # "assign", UNCHANGED <<current, raced>>
  PROVE  OneStore'
<1>1. job'[w] = r /\ \A v \in Workers \ {w} : job'[v] = job[v]
  BY JobOf
<1> QED
  BY <1>1 DEF LoginInv, OneStore, At

LEMMA FinishStep ==
  ASSUME LoginInv, NEW w \in Workers, Finish(w),
         UNCHANGED <<clock, stores, current, cached, logins, exchanges, waiting, raced>>
  PROVE  LoginInv'
<1>1. job' = [job EXCEPT ![w] = Idle] /\ Idle \in Job /\ job'[w] = Idle
  BY JobOf, IdleOK DEF Finish
<1>2. JobOK(w)' /\ ~ Holds(w)'
  BY <1>1, JobOf DEF JobOK, Holds, Idle, Call, AdminStore
<1>3. OneStore'
  BY <1>1, OneStoreKept DEF Idle, Call
<1>4. cached' \in Nat \cup {NEVER} /\ raced' \in BOOLEAN
  BY DEF LoginInv, LoginTypeOK
<1> QED
  BY <1>1, <1>2, <1>3, <1>4, LocalStep

\* A thread that moves on, to a label that asks nothing new of it.
LEMMA GotoStep ==
  ASSUME LoginInv, NEW w \in Workers, NEW label \in Labels, Goto(w, label),
         label \notin {"idle", "assign", "tokens"}, cached' \in Nat \cup {NEVER},
         UNCHANGED <<clock, stores, current, logins, exchanges, waiting, raced>>,
         label = "load" => job[w].flow = "member",
         label \in {"discover", "fetch", "load", "state"} => job[w].kind \in {"login", "callback"},
         label = "state" => job[w].flow = "admin",
         label = "exchange" => job[w].kind = "callback",
         label \in {"discover", "fetch", "exchange"} /\ job[w].kind = "callback" => Holds(w)
  PROVE  LoginInv'
<1> DEFINE r == [job[w] EXCEPT !.pc = label]
<1>1. job[w] \in Job /\ JobOK(w) /\ job \in [Workers -> Job]
  BY JobOf
<1>2. r \in Job /\ job' = [job EXCEPT ![w] = r] /\ job'[w] = r
  BY <1>1 DEF Goto, Job
<1>3. /\ r.pc = label /\ r.kind = job[w].kind /\ r.flow = job[w].flow
      /\ r.login = job[w].login /\ r.loaded = job[w].loaded /\ r.popped = job[w].popped
  BY <1>1 DEF Job
<1>4. Holds(w)' => Holds(w)
  BY <1>2, <1>3 DEF Holds
<1>5. JobOK(w)'
  BY <1>1, <1>2, <1>3, <1>4 DEF JobOK, Holds, HeldOK, Unspent
<1>6. OneStore'
  BY <1>2, <1>3, OneStoreKept
<1>7. raced' \in BOOLEAN
  BY DEF LoginInv, LoginTypeOK
<1> HIDE DEF r
<1> QED
  BY <1>2, <1>3, <1>4, <1>5, <1>6, <1>7, LocalStep

\* A handler called, with what it was called with.
LEMMA CallStep ==
  ASSUME LoginInv, NEW w \in Workers, NEW flow \in Flows, NEW login \in Nat,
         NEW kind \in {"login", "callback"}, NEW label \in {"discover", "load", "state"},
         job' = [job EXCEPT ![w] = Call(kind, label, flow, login)],
         kind = "callback" => label # "discover" /\ login \in 1..Len(logins),
         label = "load" => flow = "member",
         label = "state" => flow = "admin",
         UNCHANGED <<clock, stores, current, cached, logins, exchanges, waiting, raced>>
  PROVE  LoginInv'
<1> DEFINE r == Call(kind, label, flow, login)
<1>1. r \in Job /\ job'[w] = r
  BY JobOf DEF Call, Job, Labels
<1>2. /\ r.pc = label /\ r.kind = kind /\ r.flow = flow /\ r.login = login
      /\ r.loaded = 0
  BY DEF Call
<1> HIDE DEF r
<1>3. JobOK(w)' /\ ~ Holds(w)'
  BY JobOf, <1>1, <1>2 DEF JobOK, Holds, AdminStore, Flows
<1>4. OneStore'
  BY <1>1, <1>2, OneStoreKept DEF r
<1>5. cached' \in Nat \cup {NEVER} /\ raced' \in BOOLEAN
  BY DEF LoginInv, LoginTypeOK
<1> QED
  BY <1>1, <1>2, <1>3, <1>4, <1>5, LocalStep DEF r

LEMMA BeginStep ==
  ASSUME LoginInv, NEW w \in Workers, NEW flow \in Flows
  PROVE  /\ LoginBegin(w, flow) => LoginInv'
         /\ \A login \in DOMAIN logins : CallbackBegin(w, flow, login) => LoginInv'
<1>1. ASSUME LoginBegin(w, flow) PROVE LoginInv'
  BY <1>1, CallStep DEF LoginBegin
<1>2. ASSUME NEW login \in DOMAIN logins, CallbackBegin(w, flow, login) PROVE LoginInv'
  <2>1. login \in Nat /\ login \in 1..Len(logins)
    BY JobOf
  <2>2. CASE flow = "admin"
    BY <1>2, <2>1, <2>2, CallStep DEF CallbackBegin, StateLabel
  <2>3. CASE flow # "admin"
    BY <1>2, <2>1, <2>3, CallStep DEF CallbackBegin, StateLabel, Flows
  <2> QED
    BY <2>2, <2>3
<1> QED
  BY <1>1, <1>2

\* With the document in hand: a login looks for its store, a callback still
\* holds its state.
LEMMA DiscoveredStep ==
  ASSUME LoginInv, NEW w \in Workers, Discovered(w), job[w].pc \in {"discover", "fetch"},
         cached' \in Nat \cup {NEVER},
         UNCHANGED <<clock, stores, current, logins, exchanges, waiting, raced>>
  PROVE  LoginInv'
<1>1. job[w] \in Job /\ JobOK(w)
  BY JobOf
<1>2. job[w].kind \in {"login", "callback"} /\ job[w].flow \in Flows
  BY <1>1 DEF JobOK, Job
<1>3. CASE job[w].kind = "callback"
  <2>1. Goto(w, "exchange") /\ Holds(w)
    BY <1>3 DEF Discovered, Holds
  <2> QED
    BY <2>1, <1>3, GotoStep DEF Labels
<1>4. CASE job[w].kind # "callback" /\ job[w].flow = "admin"
  <2>1. Goto(w, "state")
    BY <1>4 DEF Discovered, StateLabel
  <2> QED
    BY <2>1, <1>2, <1>4, GotoStep DEF Labels
<1>5. CASE job[w].kind # "callback" /\ job[w].flow # "admin"
  <2>1. Goto(w, "load") /\ job[w].flow = "member"
    BY <1>2, <1>5 DEF Discovered, StateLabel, Flows
  <2> QED
    BY <2>1, <1>2, <1>5, GotoStep DEF Labels
<1> QED
  BY <1>3, <1>4, <1>5

LEMMA DiscoveryStep ==
  ASSUME LoginInv, NEW w \in Workers,
         DiscoveryLookup(w) \/ DiscoveryFetched(w) \/ DiscoveryFails(w)
  PROVE  LoginInv'
<1>1. JobOK(w) /\ clock \in Nat /\ cached \in Nat \cup {NEVER}
  BY JobOf DEF LoginInv, LoginTypeOK
<1>2. CASE DiscoveryLookup(w)
  <2>1. CASE Discovered(w)
    BY <2>1, <1>1, <1>2, DiscoveredStep DEF DiscoveryLookup, At
  <2>2. CASE Goto(w, "fetch")
    BY <2>2, <1>1, <1>2, GotoStep DEF DiscoveryLookup, At, Labels, JobOK, Holds
  <2> QED
    BY <2>1, <2>2, <1>2 DEF DiscoveryLookup
<1>3. CASE DiscoveryFetched(w)
  BY <1>1, <1>3, DiscoveredStep DEF DiscoveryFetched, At
<1>4. CASE DiscoveryFails(w)
  BY <1>4, FinishStep DEF DiscoveryFails
<1> QED
  BY <1>2, <1>3, <1>4

LEMMA StoreLoadStep ==
  ASSUME LoginInv, NEW w \in Workers, StoreLoad(w)
  PROVE  LoginInv'
<1> DEFINE r == [job[w] EXCEPT !.pc = "assign", !.loaded = current]
<1>1. job[w] \in Job /\ JobOK(w) /\ job \in [Workers -> Job] /\ Len(stores) \in Nat \ {0}
  BY JobOf
<1>2. /\ current \in 0..Len(stores) /\ current # AdminStore
      /\ raced \in BOOLEAN /\ cached \in Nat \cup {NEVER} /\ OneStore
  BY DEF LoginInv, LoginTypeOK, StoresOK
<1>3. r \in Job /\ job' = [job EXCEPT ![w] = r] /\ job'[w] = r
  <2>1. current \in Nat
    BY <1>1, <1>2
  <2>2. r \in Job
    BY <1>1, <2>1 DEF Job, Labels
  <2> QED
    BY <1>1, <2>2 DEF StoreLoad
<1>4. /\ r.pc = "assign" /\ r.kind = job[w].kind /\ r.flow = job[w].flow
      /\ r.login = job[w].login /\ r.loaded = current
  BY <1>1 DEF Job
<1>5. ~ Holds(w)' /\ JobOK(w)'
  BY <1>1, <1>2, <1>3, <1>4 DEF JobOK, Holds, StoreLoad, At
<1>6. OneStore'
  <2>1. SUFFICES ASSUME ~raced'
                 PROVE  /\ \A v \in Workers : At(v, "assign")' => job'[v].loaded = current
                        /\ current = 0 => \A u, v \in Workers :
                             At(u, "assign")' /\ At(v, "assign")' => u = v
    BY DEF OneStore, StoreLoad
  <2>2. ~raced /\ ~ \E v \in Workers : current = 0 /\ At(v, "assign") /\ job[v].loaded = 0
    BY <2>1, <1>2 DEF StoreLoad
  <2>3. \A v \in Workers \ {w} : job'[v] = job[v]
    BY <1>1, <1>3
  <2>4. \A v \in Workers : At(v, "assign") => job[v].loaded = current
    BY <2>2, <1>2 DEF OneStore
  <2> QED
    BY <2>2, <2>3, <2>4, <1>3, <1>4 DEF At
<1>7. (raced => raced') /\ raced' \in BOOLEAN
  BY <1>2 DEF StoreLoad
<1> HIDE DEF r
<1> QED
  BY <1>2, <1>3, <1>5, <1>6, <1>7, LocalStep DEF StoreLoad

\* The assignment makes a store, empty and last, or changes which is in use.
LEMMA StoreAssignStep ==
  ASSUME LoginInv, NEW w \in Workers, StoreAssign(w)
  PROVE  LoginInv'
<1> DEFINE r == [job[w] EXCEPT !.pc = "state"]
<1>1. /\ job[w] \in Job /\ JobOK(w) /\ job \in [Workers -> Job]
      /\ Len(stores) \in Nat \ {0} /\ stores \in Seq(SUBSET (1..Len(logins)))
  BY JobOf
<1>2. r \in Job /\ job' = [job EXCEPT ![w] = r] /\ job'[w] = r
  BY <1>1 DEF StoreAssign, Goto, Job, Labels
<1>3. /\ r.pc = "state" /\ r.kind = job[w].kind /\ r.flow = job[w].flow
      /\ r.login = job[w].login /\ r.loaded = job[w].loaded
  BY <1>1 DEF Job
<1>4. /\ job' \in [Workers -> Job]
      /\ \A v \in Workers \ {w} : job'[v] = job[v]
  BY <1>1, <1>2
<1>5. /\ stores' \in Seq(SUBSET (1..Len(logins))) /\ Len(stores') \in Nat
      /\ Len(stores') >= Len(stores)
      /\ \A s \in 1..Len(stores) : stores'[s] = stores[s]
      /\ \A s \in 1..Len(stores') : s > Len(stores) => stores'[s] = {}
      /\ current' \in 1..Len(stores') /\ current' # AdminStore
  <2>1. CASE job[w].loaded = 0
    <3>1. stores' = Append(stores, {}) /\ current' = Len(stores')
      BY <2>1 DEF StoreAssign
    <3> QED
      BY <3>1, <1>1, AppendProperties DEF AdminStore
  <2>2. CASE job[w].loaded # 0
    BY <2>2, <1>1 DEF StoreAssign, JobOK
  <2> QED
    BY <2>1, <2>2
<1>6. UNCHANGED <<clock, logins, exchanges, cached, waiting, raced>>
  BY DEF StoreAssign
<1>7. LoginTypeOK'
  <2>1. stores' # <<>>
    BY <1>1, <1>5
  <2> QED
    BY <2>1, <1>4, <1>5, <1>6 DEF LoginInv, LoginTypeOK
<1>8. ASSUME NEW v \in Workers PROVE JobOK(v)'
  <2>1. CASE v = w
    <3>1. ~ Holds(w)'
      BY <1>2, <1>3 DEF Holds
    <3> QED
      BY <2>1, <3>1, <1>1, <1>2, <1>3, <1>5, <1>6 DEF JobOK, StoreAssign, At
  <2>2. CASE v # w
    <3>1. job'[v] = job[v] /\ JobOK(v)
      BY <2>2, <1>4 DEF LoginInv
    <3>2. ASSUME Holds(v)' PROVE HeldOK(v)'
      <4>1. HeldOK(v)
        BY <3>1, <3>2 DEF JobOK, Holds
      <4>2. ASSUME NEW s \in 1..Len(stores') PROVE job[v].login \notin stores'[s]
        <5>1. CASE s <= Len(stores)
          BY <4>1, <5>1, <1>1, <1>5 DEF HeldOK
        <5>2. CASE s > Len(stores)
          BY <5>2, <1>5
        <5> QED
          BY <5>1, <5>2, <1>1, <1>5
      <4> QED
        BY <3>1, <4>1, <4>2, <1>6 DEF HeldOK, Unspent
    <3> QED
      BY <3>1, <3>2, <1>1, <1>5, <1>6 DEF JobOK
  <2> QED
    BY <2>1, <2>2
<1>9. HeldOnce'
  BY <1>2, <1>3, <1>4 DEF LoginInv, HeldOnce, Holds
<1>10. StoresOK'
  <2>1. ASSUME NEW s \in 1..Len(stores'), NEW login \in stores'[s]
        PROVE  s \in 1..Len(stores) /\ login \in stores[s]
    BY <2>1, <1>1, <1>5
  <2> QED
    BY <2>1, <1>5, <1>6 DEF LoginInv, StoresOK, Unspent
<1>11. ExchangeEarned'
  BY <1>6 DEF LoginInv, ExchangeEarned
<1>12. ~raced => (job[w].loaded = 0 <=> current = 0) /\ (current # 0 => current' = current)
  BY DEF LoginInv, OneStore, StoreAssign, At
<1>13. OneStore'
  <2> SUFFICES ASSUME ~raced, NEW v \in Workers, At(v, "assign")'
               PROVE  job'[v].loaded = current' /\ current' # 0
    BY <1>6, <1>5 DEF OneStore
  <2>1. v # w /\ job'[v] = job[v] /\ At(v, "assign") /\ At(w, "assign")
    BY <1>2, <1>3, <1>4 DEF At, StoreAssign
  <2> QED
    BY <2>1, <1>5, <1>12 DEF LoginInv, OneStore
<1>14. LostOnlyByRace'
  <2> SUFFICES ASSUME NEW login \in waiting
               PROVE  IF logins[login].flow = "admin" THEN login \in stores'[AdminStore]
                      ELSE raced \/ (current' # 0 /\ login \in stores'[current'])
    BY <1>6 DEF LostOnlyByRace
  <2>1. current \in 0..Len(stores)
    BY DEF LoginInv, LoginTypeOK
  <2> QED
    BY <2>1, <1>1, <1>5, <1>12 DEF LoginInv, LostOnlyByRace, AdminStore
<1> QED
  BY <1>7, <1>8, <1>9, <1>10, <1>11, <1>13, <1>14 DEF LoginInv

\* The store a handler puts in, or pops from, is one of those there are, and
\* the dashboard's only for the dashboard.
LEMMA StoreOfOK ==
  ASSUME LoginInv, NEW w \in Workers, At(w, "state")
  PROVE  StoreOf(w) \in 1..Len(stores) /\ (StoreOf(w) = AdminStore <=> job[w].flow = "admin")
<1>1. job[w] \in Job /\ JobOK(w) /\ Len(stores) \in Nat \ {0}
  BY JobOf
<1>2. current \in 0..Len(stores) /\ current # AdminStore
  BY DEF LoginInv, LoginTypeOK, StoresOK
<1> QED
  BY <1>1, <1>2 DEF StoreOf, JobOK, Job, Flows, At, AdminStore

\* A state put is new: no store, request or callback has it.
LEMMA LoginPutStep ==
  ASSUME LoginInv, NEW w \in Workers, LoginPut(w)
  PROVE  LoginInv'
<1> DEFINE n == Len(logins) + 1
           s0 == StoreOf(w)
<1>1. /\ job[w] \in Job /\ JobOK(w) /\ job \in [Workers -> Job]
      /\ Len(stores) \in Nat \ {0} /\ stores \in Seq(SUBSET (1..Len(logins)))
      /\ logins \in Seq([flow : Flows, t : Nat]) /\ Len(logins) \in Nat
      /\ exchanges \in Seq([login : 1..Len(logins), flow : Flows, popped : Nat])
      /\ Len(exchanges) \in Nat /\ clock \in Nat
  BY JobOf
<1>2. s0 \in 1..Len(stores) /\ (s0 = AdminStore <=> job[w].flow = "admin")
  BY StoreOfOK DEF LoginPut
<1>3. job' = [job EXCEPT ![w] = Idle] /\ Idle \in Job
  BY IdleOK DEF LoginPut, Finish
<1>4. /\ job' \in [Workers -> Job] /\ job'[w] = Idle
      /\ \A v \in Workers \ {w} : job'[v] = job[v]
  BY <1>1, <1>3
<1>5. UNCHANGED <<clock, current, cached, exchanges, raced>> /\ waiting' = waiting \cup {n}
  BY DEF LoginPut
<1>6. /\ logins' \in Seq([flow : Flows, t : Nat]) /\ Len(logins') = n
      /\ logins'[n] = [flow |-> job[w].flow, t |-> clock]
      /\ \A i \in 1..Len(logins) : logins'[i] = logins[i]
  <2>1. [flow |-> job[w].flow, t |-> clock] \in [flow : Flows, t : Nat]
    BY <1>1 DEF Job
  <2> QED
    BY <2>1, <1>1, AppendProperties DEF LoginPut
<1>7. /\ n \in Nat /\ n \notin 1..Len(logins) /\ 1..Len(logins') = 1..Len(logins) \cup {n}
  BY <1>1, <1>6
<1>8. /\ Len(stores') = Len(stores)
      /\ stores'[s0] = stores[s0] \cup {n}
      /\ \A s \in 1..Len(stores) \ {s0} : stores'[s] = stores[s]
      /\ \A s \in 1..Len(stores) : stores[s] \subseteq 1..Len(logins)
  BY <1>1, <1>2 DEF LoginPut
<1>9. stores' \in Seq(SUBSET (1..Len(logins'))) /\ stores' # <<>>
  <2>1. stores \in Seq(SUBSET (1..Len(logins')))
    BY <1>1, <1>7, <1>8
  <2>2. stores' = [stores EXCEPT ![s0] = stores[s0] \cup {n}]
    BY DEF LoginPut
  <2>3. stores[s0] \cup {n} \in SUBSET (1..Len(logins'))
    BY <1>2, <1>7, <1>8
  <2> HIDE DEF s0, n
  <2> QED
    BY <2>1, <2>2, <2>3, <1>2, <1>1, <1>8, ExceptSeq
<1>10. exchanges \in Seq([login : 1..Len(logins'), flow : Flows, popped : Nat])
  <2>1. [login : 1..Len(logins), flow : Flows, popped : Nat]
          \subseteq [login : 1..Len(logins'), flow : Flows, popped : Nat]
    BY <1>7
  <2> QED
    BY <2>1, <1>1, SeqMonotonic
<1> HIDE DEF s0, n
<1>11. \A k \in 1..Len(exchanges) : exchanges[k].login \in 1..Len(logins)
  <2> SUFFICES ASSUME NEW k \in 1..Len(exchanges) PROVE exchanges[k].login \in 1..Len(logins)
    OBVIOUS
  <2>1. exchanges[k] \in [login : 1..Len(logins), flow : Flows, popped : Nat]
    BY <1>1, ElementOfSeq
  <2> QED
    BY <2>1
<1>12. LoginTypeOK'
  BY <1>1, <1>4, <1>5, <1>6, <1>7, <1>8, <1>9, <1>10 DEF LoginInv, LoginTypeOK
<1>13. ASSUME NEW v \in Workers PROVE JobOK(v)'
  <2>1. CASE v = w
    BY <2>1, <1>1, <1>4, <1>8 DEF JobOK, Holds, Idle, Call, AdminStore
  <2>2. CASE v # w
    <3>1. job'[v] = job[v] /\ JobOK(v)
      BY <2>2, <1>4 DEF LoginInv
    <3>2. ASSUME Holds(v)' PROVE HeldOK(v)'
      <4>1. HeldOK(v) /\ job[v].login \in 1..Len(logins)
        BY <3>1, <3>2 DEF JobOK, Holds
      <4> QED
        BY <3>1, <4>1, <1>2, <1>5, <1>6, <1>7, <1>8 DEF HeldOK, Unspent
    <3> QED
      BY <3>1, <3>2, <1>5, <1>7, <1>8 DEF JobOK
  <2> QED
    BY <2>1, <2>2
<1>14. HeldOnce'
  BY <1>4 DEF LoginInv, HeldOnce, Holds, Idle, Call
<1>15. StoresOK'
  <2>1. StoresOK
    BY DEF LoginInv
  <2>2. \A login \in 1..Len(logins') : logins'[login].t <= clock
    <3>1. logins'[n].t = clock /\ clock <= clock
      BY <1>1, <1>6
    <3> QED
      BY <2>1, <3>1, <1>6, <1>7 DEF StoresOK
  <2>3. ASSUME NEW s \in 1..Len(stores), NEW login \in stores'[s]
        PROVE  /\ s = AdminStore <=> logins'[login].flow = "admin"
               /\ Unspent(login)'
               /\ \A other \in 1..Len(stores) \ {s} : login \notin stores'[other]
    <3>1. CASE login = n
      <4>1. \A other \in 1..Len(stores) : n \notin stores[other]
        BY <1>7, <1>8
      <4>2. s = s0
        BY <3>1, <2>3, <4>1, <1>8
      <4>3. Unspent(login)'
        BY <3>1, <1>5, <1>7, <1>11 DEF Unspent
      <4> QED
        BY <3>1, <4>1, <4>2, <4>3, <1>2, <1>6, <1>8
    <3>2. CASE login # n
      <4>1. login \in stores[s] /\ login \in 1..Len(logins)
        BY <3>2, <2>3, <1>8
      <4>2. \A other \in 1..Len(stores) \ {s} : login \notin stores'[other]
        BY <3>2, <4>1, <2>1, <1>8 DEF StoresOK
      <4>3. Unspent(login)'
        BY <4>1, <2>1, <1>5 DEF StoresOK, Unspent
      <4> QED
        BY <4>1, <4>2, <4>3, <2>1, <1>6 DEF StoresOK
    <3> QED
      BY <3>1, <3>2
  <2> QED
    <3>1. current' # AdminStore
      BY <2>1, <1>5 DEF StoresOK
    <3>2. Len(stores') = Len(stores) /\ clock' = clock
      BY <1>5, <1>8
    <3> QED
      BY <3>1, <3>2, <2>2, <2>3 DEF StoresOK, Unspent
<1>16. ExchangeEarned'
  <2>1. DOMAIN exchanges = 1..Len(exchanges)
    BY <1>1, LenProperties
  <2>2. \A k \in DOMAIN exchanges : logins'[exchanges[k].login] = logins[exchanges[k].login]
    BY <2>1, <1>6, <1>11
  <2> QED
    BY <2>2, <1>5 DEF LoginInv, ExchangeEarned
<1>17. OneStore'
  BY <1>3, <1>5, OneStoreKept DEF Idle, Call
<1>18. LostOnlyByRace'
  <2> SUFFICES ASSUME NEW login \in waiting \cup {n}
               PROVE  IF logins'[login].flow = "admin" THEN login \in stores'[AdminStore]
                      ELSE raced \/ (current # 0 /\ login \in stores'[current])
    BY <1>5 DEF LostOnlyByRace
  <2>1. JobOK(w) /\ At(w, "state") /\ current \in 0..Len(stores) /\ AdminStore \in 1..Len(stores)
    BY <1>1 DEF LoginPut, LoginInv, LoginTypeOK, AdminStore
  <2>2. CASE login = n
    <3>1. logins'[login].flow = job[w].flow
      BY <2>2, <1>6
    <3>2. CASE job[w].flow = "admin"
      BY <2>2, <3>1, <3>2, <1>2, <1>8
    <3>3. CASE job[w].flow = "member"
      <4>1. current # 0 /\ s0 = current
        BY <2>1, <3>3 DEF JobOK, At, s0, StoreOf
      <4> QED
        BY <2>2, <3>1, <3>3, <4>1, <1>8
    <3> QED
      BY <3>2, <3>3, <1>1 DEF Job, Flows
  <2>3. CASE login # n
    <3>1. login \in waiting /\ login \in 1..Len(logins)
      BY <2>3 DEF LoginInv, LoginTypeOK
    <3>2. \A s \in 1..Len(stores) : stores[s] \subseteq stores'[s]
      BY <1>8
    <3>3. logins'[login] = logins[login]
      BY <3>1, <1>6
    <3>4. IF logins[login].flow = "admin" THEN login \in stores[AdminStore]
          ELSE raced \/ (current # 0 /\ login \in stores[current])
      BY <3>1 DEF LoginInv, LostOnlyByRace
    <3> QED
      BY <3>2, <3>3, <3>4, <2>1
  <2> QED
    BY <2>2, <2>3
<1> QED
  BY <1>12, <1>13, <1>14, <1>15, <1>16, <1>17, <1>18 DEF LoginInv

\* A state popped is in no store any more, and no other callback holds it.
LEMMA CallbackPopStep ==
  ASSUME LoginInv, NEW w \in Workers, CallbackPop(w)
  PROVE  LoginInv'
<1> DEFINE login == job[w].login
           s0 == StoreOf(w)
<1>1. /\ job[w] \in Job /\ JobOK(w) /\ job \in [Workers -> Job]
      /\ Len(stores) \in Nat \ {0} /\ stores \in Seq(SUBSET (1..Len(logins)))
      /\ logins \in Seq([flow : Flows, t : Nat]) /\ clock \in Nat
  BY JobOf
<1>2. s0 \in 1..Len(stores) /\ (s0 = AdminStore <=> job[w].flow = "admin")
  BY StoreOfOK DEF CallbackPop
<1>3. job[w].kind = "callback" /\ At(w, "state") /\ login \in 1..Len(logins)
  BY <1>1 DEF CallbackPop, JobOK
<1>4. UNCHANGED <<clock, current, cached, logins, exchanges, raced>>
  BY DEF CallbackPop
<1>5. /\ stores' \in Seq(SUBSET (1..Len(logins))) /\ Len(stores') = Len(stores)
      /\ stores'[s0] = stores[s0] \ {login}
      /\ \A s \in 1..Len(stores) \ {s0} : stores'[s] = stores[s]
  <2>1. stores' = [stores EXCEPT ![s0] = stores[s0] \ {login}]
    BY DEF CallbackPop, Popped
  <2>2. stores[s0] \in SUBSET (1..Len(logins))
    BY <1>1, <1>2, ElementOfSeq
  <2>3. stores[s0] \ {login} \in SUBSET (1..Len(logins))
    BY <2>2
  <2> HIDE DEF s0, login
  <2> QED
    BY <2>1, <2>3, <1>1, <1>2, ExceptSeq
<1> DEFINE popped == [job[w] EXCEPT !.pc = "discover", !.popped = clock]
<1>6. PICK r \in Job :
        /\ job' = [job EXCEPT ![w] = r]
        /\ \/ r = Idle
           \/ /\ r = popped
              /\ login \in stores[s0] /\ clock - logins[login].t <= LoginTTL
  <2>1. popped \in Job
    BY <1>1 DEF Job, Labels
  <2>2. Idle \in Job
    BY IdleOK
  <2> QED
    BY <2>1, <2>2 DEF CallbackPop
<1>7. /\ job' \in [Workers -> Job] /\ job'[w] = r
      /\ \A v \in Workers \ {w} : job'[v] = job[v]
  BY <1>1, <1>6
<1>8. /\ popped.pc = "discover" /\ popped.kind = "callback" /\ popped.flow = job[w].flow
      /\ popped.login = login /\ popped.loaded = job[w].loaded /\ popped.popped = clock
  BY <1>1, <1>3 DEF Job
<1> HIDE DEF popped, s0, login
<1>9. StoresOK
  BY DEF LoginInv
<1>10. \A s \in 1..Len(stores) : stores'[s] \subseteq stores[s]
  BY <1>5
<1>11. LoginTypeOK'
  <2>1. waiting' \subseteq 1..Len(logins)
    BY DEF CallbackPop, LoginInv, LoginTypeOK
  <2>2. stores' # <<>>
    BY <1>1, <1>5
  <2> QED
    BY <2>1, <2>2, <1>4, <1>5, <1>7 DEF LoginInv, LoginTypeOK
<1>12. Holds(w)' => r = popped /\ login \in stores[s0] /\ clock - logins[login].t <= LoginTTL
  BY <1>6, <1>7 DEF Holds, Idle, Call
<1>13. ASSUME Holds(w)' PROVE HeldOK(w)'
  <2>1. r = popped /\ login \in stores[s0] /\ clock - logins[login].t <= LoginTTL
    BY <1>12, <1>13
  <2>2. logins[login] \in [flow : Flows, t : Nat]
    BY <1>1, <1>3, ElementOfSeq
  <2>3. logins[login].flow = job[w].flow
    BY <2>1, <2>2, <1>1, <1>2, <1>9 DEF StoresOK, Job, Flows
  <2>4. clock \in logins[login].t .. logins[login].t + LoginTTL
    <3>1. logins[login].t <= clock /\ logins[login].t \in Nat
      BY <2>2, <1>3, <1>9 DEF StoresOK
    <3>2. LoginTTL \in Nat
      BY LoginAssumption
    <3> QED
      BY <2>1, <3>1, <3>2, <1>1
  <2>5. \A s \in 1..Len(stores) : login \notin stores'[s]
    BY <2>1, <1>2, <1>5, <1>9 DEF StoresOK
  <2>6. Unspent(login)
    BY <2>1, <1>2, <1>9 DEF StoresOK
  <2> QED
    BY <2>1, <2>3, <2>4, <2>5, <2>6, <1>4, <1>5, <1>7, <1>8 DEF HeldOK, Unspent
<1>14. ASSUME NEW v \in Workers PROVE JobOK(v)'
  <2>1. CASE v = w
    <3>1. CASE r = Idle
      BY <2>1, <3>1, <1>1, <1>5, <1>7 DEF JobOK, Holds, Idle, Call, AdminStore
    <3>2. CASE r = popped
      BY <2>1, <3>2, <1>1, <1>3, <1>4, <1>5, <1>7, <1>8, <1>13 DEF JobOK
    <3> QED
      BY <3>1, <3>2, <1>6
  <2>2. CASE v # w
    <3>1. job'[v] = job[v] /\ JobOK(v)
      BY <2>2, <1>7 DEF LoginInv
    <3>2. ASSUME Holds(v)' PROVE HeldOK(v)'
      <4>1. HeldOK(v)
        BY <3>1, <3>2 DEF JobOK, Holds
      <4> QED
        BY <3>1, <4>1, <1>4, <1>5, <1>10 DEF HeldOK, Unspent
    <3> QED
      BY <3>1, <3>2, <1>4, <1>5 DEF JobOK
  <2> QED
    BY <2>1, <2>2
<1>15. HeldOnce'
  <2>1. ASSUME NEW v \in Workers \ {w}, Holds(v)', Holds(w)' PROVE job[v].login # login
    <3>1. HeldOK(v)
      BY <2>1, <1>7 DEF LoginInv, JobOK, Holds
    <3> QED
      BY <2>1, <3>1, <1>2, <1>12 DEF HeldOK
  <2>2. Holds(w)' => job'[w].login = login
    BY <1>7, <1>8, <1>12
  <2> QED
    BY <2>1, <2>2, <1>7 DEF LoginInv, HeldOnce, Holds
<1>16. StoresOK'
  <2> SUFFICES ASSUME NEW s \in 1..Len(stores), NEW l \in stores'[s]
               PROVE  /\ s = AdminStore <=> logins[l].flow = "admin"
                      /\ Unspent(l)'
                      /\ \A other \in 1..Len(stores) \ {s} : l \notin stores'[other]
    BY <1>4, <1>5, <1>9 DEF StoresOK
  <2>1. l \in stores[s]
    BY <1>10
  <2> QED
    BY <2>1, <1>4, <1>9, <1>10 DEF StoresOK, Unspent
<1>17. ExchangeEarned'
  BY <1>4 DEF LoginInv, ExchangeEarned
<1>18. OneStore'
  <2>1. r.pc # "assign"
    BY <1>6, <1>8 DEF Idle, Call
  <2> QED
    BY <2>1, <1>4, <1>6, OneStoreKept
<1>19. LostOnlyByRace'
  <2> SUFFICES ASSUME NEW l \in waiting'
               PROVE  IF logins[l].flow = "admin" THEN l \in stores'[AdminStore]
                      ELSE raced \/ (current # 0 /\ l \in stores'[current])
    BY <1>4 DEF LostOnlyByRace
  <2>1. l \in waiting /\ (l = login => logins[l].flow # job[w].flow)
    BY DEF CallbackPop, login
  <2>2. IF logins[l].flow = "admin" THEN l \in stores[AdminStore]
        ELSE raced \/ (current # 0 /\ l \in stores[current])
    BY <2>1 DEF LoginInv, LostOnlyByRace
  <2>3. current \in 0..Len(stores) /\ AdminStore \in 1..Len(stores) /\ current # AdminStore
    BY <1>1, <1>9 DEF LoginInv, LoginTypeOK, StoresOK, AdminStore
  <2>4. logins[login] \in [flow : Flows, t : Nat] /\ job[w].flow \in Flows
    BY <1>1, <1>3, ElementOfSeq DEF Job
  <2>5. CASE l # login
    BY <2>2, <2>3, <2>5, <1>5
  <2>6. CASE l = login /\ logins[l].flow = "admin"
    BY <2>1, <2>2, <2>3, <2>6, <1>2, <1>5
  <2>7. CASE l = login /\ logins[l].flow # "admin"
    <3>1. s0 = AdminStore
      BY <2>1, <2>4, <2>7, <1>2 DEF Flows
    <3> QED
      BY <2>2, <2>3, <2>7, <3>1, <1>5
  <2> QED
    BY <2>5, <2>6, <2>7
<1> QED
  BY <1>11, <1>14, <1>15, <1>16, <1>17, <1>18, <1>19 DEF LoginInv

\* A token request spends the login of the one callback that held it.
LEMMA ExchangeStep ==
  ASSUME LoginInv, NEW w \in Workers, NEW accepted \in BOOLEAN, Exchange(w, accepted)
  PROVE  LoginInv'
<1> DEFINE login == job[w].login
           n == Len(exchanges) + 1
           e == [login |-> job[w].login, flow |-> job[w].flow, popped |-> job[w].popped]
<1>1. /\ job[w] \in Job /\ JobOK(w) /\ job \in [Workers -> Job]
      /\ Len(exchanges) \in Nat
      /\ exchanges \in Seq([login : 1..Len(logins), flow : Flows, popped : Nat])
  BY JobOf
<1>2. Holds(w) /\ HeldOK(w) /\ job[w].kind = "callback" /\ login \in 1..Len(logins)
  BY <1>1 DEF Exchange, JobOK, Holds, At
<1>3. UNCHANGED <<clock, stores, current, cached, logins, waiting, raced>>
  BY DEF Exchange
<1>4. PICK r \in Job : /\ job' = [job EXCEPT ![w] = r]
                       /\ \/ r = Idle
                          \/ r = [job[w] EXCEPT !.pc = "tokens"]
  <2>1. [job[w] EXCEPT !.pc = "tokens"] \in Job /\ Idle \in Job
    BY <1>1, IdleOK DEF Job, Labels
  <2> QED
    BY <2>1 DEF Exchange, Goto, Finish
<1>5. /\ r.pc \in {"idle", "tokens"} /\ r.loaded \in {0, job[w].loaded}
      /\ r.kind = "callback" => r.login = login
      /\ r.pc = "tokens" => r.kind = "callback"
  BY <1>1, <1>2, <1>4 DEF Idle, Call, Job
<1>6. /\ job' \in [Workers -> Job] /\ job'[w] = r
      /\ \A v \in Workers \ {w} : job'[v] = job[v]
  BY <1>1, <1>4
<1>7. /\ exchanges' \in Seq([login : 1..Len(logins), flow : Flows, popped : Nat])
      /\ Len(exchanges') = n /\ exchanges'[n] = e
      /\ \A k \in 1..Len(exchanges) : exchanges'[k] = exchanges[k]
  <2>1. e \in [login : 1..Len(logins), flow : Flows, popped : Nat]
    BY <1>1, <1>2 DEF Job
  <2> QED
    BY <2>1, <1>1, AppendProperties DEF Exchange
<1>8. 1..n = 1..Len(exchanges) \cup {n} /\ e.login = login
      /\ e.flow = job[w].flow /\ e.popped = job[w].popped
  BY <1>1
<1> HIDE DEF n, e, login
<1>9. LoginTypeOK'
  BY <1>3, <1>6, <1>7 DEF LoginInv, LoginTypeOK
<1>10. \A l : Unspent(l) /\ l # login => Unspent(l)'
  BY <1>7, <1>8 DEF Unspent
<1>11. ASSUME NEW v \in Workers PROVE JobOK(v)'
  <2>1. CASE v = w
    BY <2>1, <1>1, <1>2, <1>3, <1>5, <1>6 DEF JobOK, Holds, AdminStore
  <2>2. CASE v # w
    <3>1. job'[v] = job[v] /\ JobOK(v)
      BY <2>2, <1>6 DEF LoginInv
    <3>2. ASSUME Holds(v)' PROVE HeldOK(v)'
      <4>1. Holds(v) /\ HeldOK(v)
        BY <3>1, <3>2 DEF JobOK, Holds
      <4>2. job[v].login # login
        <5>1. HeldOnce /\ Holds(w)
          BY <1>2 DEF LoginInv
        <5> QED
          BY <2>2, <4>1, <5>1 DEF HeldOnce, login
      <4>3. \A k \in 1..Len(exchanges') : exchanges'[k].login # job[v].login
        BY <3>1, <4>1, <4>2, <1>7, <1>8 DEF HeldOK, Unspent
      <4> QED
        BY <3>1, <4>1, <4>2, <1>3, <1>7, <1>8 DEF HeldOK, Unspent
    <3> QED
      BY <3>1, <3>2, <1>3 DEF JobOK
  <2> QED
    BY <2>1, <2>2
<1>12. HeldOnce'
  BY <1>5, <1>6 DEF LoginInv, HeldOnce, Holds
<1>13. StoresOK'
  <2>1. ASSUME NEW s \in 1..Len(stores), NEW l \in stores[s] PROVE Unspent(l)'
    <3>1. Unspent(l) /\ l # login
      BY <2>1, <1>2 DEF LoginInv, StoresOK, HeldOK, login
    <3> QED
      BY <3>1, <1>7, <1>8 DEF Unspent
  <2> QED
    BY <2>1, <1>3 DEF LoginInv, StoresOK
<1>14. ExchangeEarned'
  <2>1. DOMAIN exchanges = 1..Len(exchanges) /\ DOMAIN exchanges' = 1..n
    BY <1>1, <1>7, LenProperties
  <2>2. \A k \in 1..Len(exchanges) : exchanges[k].login # login
    BY <1>2 DEF HeldOK, Unspent, login
  <2>3. ASSUME NEW k \in 1..n
        PROVE  LET x == exchanges'[k] IN
                 /\ logins[x.login].flow = x.flow
                 /\ x.popped \in logins[x.login].t .. logins[x.login].t + LoginTTL
                 /\ \A i \in 1..n : exchanges'[i].login = x.login => i = k
    <3>1. CASE k = n
      BY <3>1, <2>2, <1>2, <1>7, <1>8 DEF HeldOK, login
    <3>2. CASE k # n
      <4>1. k \in 1..Len(exchanges) /\ exchanges'[k] = exchanges[k]
        BY <3>2, <1>7, <1>8
      <4> QED
        BY <2>1, <2>2, <4>1, <1>7, <1>8 DEF LoginInv, ExchangeEarned
    <3> QED
      BY <3>1, <3>2
  <2> QED
    BY <2>1, <2>3, <1>3 DEF ExchangeEarned
<1>15. OneStore'
  BY <1>3, <1>4, <1>5, OneStoreKept
<1>16. LostOnlyByRace'
  BY <1>3 DEF LoginInv, LostOnlyByRace
<1> QED
  BY <1>9, <1>11, <1>12, <1>13, <1>14, <1>15, <1>16 DEF LoginInv

\* The start of a process, the first or a later one: nothing in its memory, and
\* of what earlier ones did only the states they drew and the requests they sent.
Fresh ==
  /\ clock \in Nat
  /\ stores = <<{}>> /\ current = 0 /\ cached = NEVER
  /\ job = [w \in Workers |-> Idle]
  /\ waiting = {} /\ raced = FALSE
  /\ logins \in Seq([flow : Flows, t : Nat])
  /\ exchanges \in Seq([login : 1..Len(logins), flow : Flows, popped : Nat])
  /\ \A login \in 1..Len(logins) : logins[login].t <= clock
  /\ ExchangeEarned

LEMMA FreshOK == Fresh => LoginInv
<1> SUFFICES ASSUME Fresh PROVE LoginInv
  OBVIOUS
<1> USE DEF Fresh
<1>1. /\ job \in [Workers -> Job] /\ \A w \in Workers : job[w] = Idle
      /\ stores \in Seq(SUBSET (1..Len(logins))) /\ stores # <<>>
      /\ Len(stores) = 1 /\ stores[1] = {} /\ current \in 0..Len(stores)
  BY IdleOK
<1>2. LoginTypeOK
  <2>1. cached \in Nat \cup {NEVER} /\ waiting \subseteq 1..Len(logins) /\ raced \in BOOLEAN
    OBVIOUS
  <2> QED
    BY <1>1, <2>1 DEF LoginTypeOK
<1>3. /\ Idle.pc = "idle" /\ Idle.kind = "none" /\ Idle.loaded = 0
  BY DEF Idle, Call
<1>4. \A w \in Workers : JobOK(w) /\ ~ Holds(w) /\ ~ At(w, "assign")
  BY <1>1, <1>3 DEF JobOK, Holds, At, AdminStore
<1>5. HeldOnce /\ OneStore
  BY <1>4 DEF HeldOnce, OneStore
<1>6. StoresOK /\ LostOnlyByRace
  BY <1>1 DEF StoresOK, LostOnlyByRace, AdminStore
<1> QED
  BY <1>2, <1>4, <1>5, <1>6 DEF LoginInv

LEMMA LoginInitOK == LoginInit => LoginInv
<1> SUFFICES ASSUME LoginInit PROVE Fresh
  BY FreshOK
<1>1. /\ logins = <<>> /\ exchanges = <<>> /\ Len(logins) = 0 /\ DOMAIN exchanges = {}
      /\ logins \in Seq([flow : Flows, t : Nat])
      /\ exchanges \in Seq([login : 1..Len(logins), flow : Flows, popped : Nat])
  BY EmptySeq DEF LoginInit
<1> QED
  BY <1>1 DEF Fresh, LoginInit, ExchangeEarned

LEMMA MemoryLostStep ==
  ASSUME LoginInv, MemoryLost
  PROVE  LoginInv'
<1>1. ExchangeEarned'
  BY DEF LoginInv, ExchangeEarned, MemoryLost
<1>2. Fresh'
  BY <1>1 DEF LoginInv, LoginTypeOK, StoresOK, MemoryLost, Fresh
<1> QED
  BY <1>2, FreshOK, PTL

LEMMA TickStep ==
  ASSUME LoginInv, clock' = clock + 1, UNCHANGED loginState
  PROVE  LoginInv'
<1>1. UNCHANGED <<stores, current, cached, job, logins, exchanges, waiting, raced>>
  BY DEF loginState
<1>2. clock' \in Nat /\ LoginTypeOK'
  BY <1>1 DEF LoginInv, LoginTypeOK
<1>3. ASSUME NEW w \in Workers PROVE JobOK(w)'
  BY <1>1 DEF LoginInv, JobOK, Holds, HeldOK, Unspent
<1>4. HeldOnce' /\ ExchangeEarned' /\ OneStore' /\ LostOnlyByRace'
  BY <1>1 DEF LoginInv, HeldOnce, Holds, ExchangeEarned, OneStore, At, LostOnlyByRace
<1>5. StoresOK'
  <2>1. ASSUME NEW login \in 1..Len(logins) PROVE logins[login].t <= clock + 1
    <3>1. logins[login].t <= clock /\ clock \in Nat
      BY JobOf DEF LoginInv, StoresOK, LoginTypeOK
    <3>2. logins[login] \in [flow : Flows, t : Nat]
      BY ElementOfSeq DEF LoginInv, LoginTypeOK
    <3> QED
      BY <3>1, <3>2
  <2> QED
    BY <2>1, <1>1 DEF LoginInv, StoresOK, Unspent
<1> QED
  BY <1>2, <1>3, <1>4, <1>5 DEF LoginInv

\* Every step of a login or a callback keeps the invariant.
LEMMA LoginStepOK ==
  ASSUME LoginInv, NEW w \in Workers, LoginStep(w)
  PROVE  LoginInv'
<1>1. ASSUME NEW flow \in Flows, LoginBegin(w, flow) PROVE LoginInv'
  BY <1>1, BeginStep
<1>2. ASSUME NEW flow \in Flows, NEW login \in DOMAIN logins, CallbackBegin(w, flow, login)
      PROVE  LoginInv'
  BY <1>2, BeginStep
<1>3. CASE DiscoveryLookup(w) \/ DiscoveryFetched(w) \/ DiscoveryFails(w)
  BY <1>3, DiscoveryStep
<1>4. CASE StoreLoad(w)
  BY <1>4, StoreLoadStep
<1>5. CASE StoreAssign(w)
  BY <1>5, StoreAssignStep
<1>6. CASE LoginPut(w)
  BY <1>6, LoginPutStep
<1>7. CASE CallbackPop(w)
  BY <1>7, CallbackPopStep
<1>8. ASSUME NEW accepted \in BOOLEAN, Exchange(w, accepted) PROVE LoginInv'
  BY <1>8, ExchangeStep
<1> QED
  BY <1>1, <1>2, <1>3, <1>4, <1>5, <1>6, <1>7, <1>8 DEF LoginStep

-----------------------------------------------------------------------------
(* The dashboard's own tables.                                             *)

SessionRow == [login : 1..Len(logins), t : Nat, born : Nat, kept : BOOLEAN]

\* What _sessions has and what it misses.
KeptOK ==
  \A i \in DOMAIN sessions :
    LET ended == i \in left \/ sessions[i].born # restarts IN
      /\ sessions[i].kept => ~ended
      /\ ~sessions[i].kept => ended \/ ~Young(i)

SessionsInv ==
  /\ sessions \in Seq(SessionRow)
  /\ left \subseteq DOMAIN sessions
  /\ restarts \in Nat
  /\ \A i \in 1..Len(sessions) : sessions[i].born <= restarts
  /\ KeptOK

\* A handler's session is there, and only a form or an API call decides.
VisitOK(v) ==
  /\ v \in Visit
  /\ v.pc # "idle" /\ v.sid # BEARER => v.sid \in DOMAIN sessions
  /\ v.pc \in {"render", "body"} => v.sid # BEARER
  /\ v.pc = "body" => v.kind = "form" /\ v.review \in Reviews
  /\ v.pc \in {"select", "tx"} => v.review \in Reviews /\ v.kind \in {"form", "api"}

VisitsInv ==
  /\ visit \in [Workers -> Visit]
  /\ \A w \in Workers : VisitOK(visit[w])
  /\ \A v, w \in OnLoop : v = w

ByApi(review) == \E k \in 1..Len(decided[review]) : decided[review][k] = "api"

\* A form about to write found its review undecided, and if it is not any
\* more, the API decided it.
ReviewsInv ==
  /\ reviews \in [Reviews -> Decisions \cup {"pending"}]
  /\ decided \in [Reviews -> Seq({"form", "api"})]
  /\ \A review \in Reviews : reviews[review] = "pending" => Len(decided[review]) = 0
  /\ \A w \in Workers : visit[w].pc = "tx" /\ visit[w].kind = "form" =>
       Len(decided[visit[w].review]) = 0 \/ ByApi(visit[w].review)
  /\ \A review \in Reviews : Len(decided[review]) > 1 => ByApi(review)

Inv == LoginInv /\ SessionsInv /\ VisitsInv /\ ReviewsInv

LEMMA InvImplies == Inv => TypeOK /\ DoubleDecisionOnlyByApi
<1> SUFFICES ASSUME Inv PROVE TypeOK /\ DoubleDecisionOnlyByApi
  OBVIOUS
<1>1. TypeOK
  BY DEF Inv, LoginInv, SessionsInv, SessionRow, VisitsInv, VisitOK, ReviewsInv, TypeOK
<1>2. \A review \in Reviews : DOMAIN decided[review] = 1..Len(decided[review])
  BY LenProperties DEF Inv, ReviewsInv
<1> QED
  BY <1>1, <1>2 DEF Inv, ReviewsInv, ByApi, DoubleDecisionOnlyByApi

-----------------------------------------------------------------------------
\* Sessions.

LEMMA SessionsShape ==
  ASSUME SessionsInv
  PROVE  /\ Len(sessions) \in Nat /\ DOMAIN sessions = 1..Len(sessions)
         /\ \A i \in 1..Len(sessions) : sessions[i] \in SessionRow
BY LenProperties, ElementOfSeq DEF SessionsInv

\* Logins only grow, so that a session's stays one.
LEMMA SessionsUntouched ==
  ASSUME SessionsInv, Len(logins) \in Nat, Len(logins') \in Nat, Len(logins') >= Len(logins),
         UNCHANGED <<clock, sessions, left, restarts>>
  PROVE  SessionsInv'
<1>1. SessionRow \subseteq SessionRow'
  BY DEF SessionRow
<1>2. sessions' \in Seq(SessionRow')
  BY <1>1, SeqMonotonic DEF SessionsInv
<1>3. KeptOK'
  BY DEF SessionsInv, KeptOK, Young
<1> QED
  BY <1>2, <1>3 DEF SessionsInv

\* A session is forgotten only when it has ended or its hour is over.
LEMMA SessionsForget ==
  ASSUME SessionsInv, NEW sid \in DOMAIN sessions, NEW kept \in BOOLEAN,
         sessions' = [sessions EXCEPT ![sid].kept = kept],
         left' \subseteq DOMAIN sessions, left \subseteq left', left' \subseteq left \cup {sid},
         kept => sessions[sid].kept /\ left' = left,
         ~kept => ~sessions[sid].kept \/ sid \in left' \/ ~Young(sid),
         UNCHANGED <<clock, logins, restarts>>
  PROVE  SessionsInv'
<1>1. /\ Len(sessions) \in Nat /\ DOMAIN sessions = 1..Len(sessions)
      /\ \A i \in 1..Len(sessions) : sessions[i] \in SessionRow
  BY SessionsShape
<1> DEFINE row == [sessions[sid] EXCEPT !.kept = kept]
<1>2. row \in SessionRow /\ row.t = sessions[sid].t /\ row.born = sessions[sid].born
      /\ row.kept = kept
  BY <1>1 DEF SessionRow
<1>3. sessions' = [sessions EXCEPT ![sid] = row] /\ sessions \in Seq(SessionRow)
  BY DEF SessionsInv
<1> HIDE DEF row
<1>4. /\ sessions' \in Seq(SessionRow) /\ Len(sessions') = Len(sessions)
      /\ \A i \in 1..Len(sessions) : sessions'[i] = IF i = sid THEN row ELSE sessions[i]
  BY <1>1, <1>2, <1>3, ExceptSeq
<1>5. DOMAIN sessions' = 1..Len(sessions)
  BY <1>4, LenProperties
<1>6. KeptOK'
  <2> SUFFICES ASSUME NEW i \in 1..Len(sessions)
               PROVE  LET ended == i \in left' \/ sessions'[i].born # restarts IN
                        /\ sessions'[i].kept => ~ended
                        /\ ~sessions'[i].kept => ended \/ ~Young(i)'
    BY <1>5 DEF KeptOK
  <2>1. LET ended == i \in left \/ sessions[i].born # restarts IN
          /\ sessions[i].kept => ~ended
          /\ ~sessions[i].kept => ended \/ ~Young(i)
    BY <1>1 DEF SessionsInv, KeptOK
  <2>2. Young(i)' = Young(i)
    BY <1>2, <1>4 DEF Young
  <2> QED
    BY <2>1, <2>2, <1>2, <1>4
<1> QED
  BY <1>1, <1>2, <1>4, <1>5, <1>6 DEF SessionsInv, SessionRow

LEMMA SessionsLooked ==
  ASSUME SessionsInv, NEW sid \in DOMAIN sessions, Looked(sid),
         UNCHANGED <<clock, logins, left, restarts>>
  PROVE  SessionsInv'
<1> DEFINE kept == sessions[sid].kept /\ Young(sid)
<1>1. sessions' = [sessions EXCEPT ![sid].kept = kept] /\ kept \in BOOLEAN
  BY DEF Looked
<1>2. left \subseteq DOMAIN sessions
  BY DEF SessionsInv
<1>3. (kept => sessions[sid].kept) /\ (~kept => ~sessions[sid].kept \/ ~Young(sid))
  OBVIOUS
<1> HIDE DEF kept
<1> QED
  BY <1>1, <1>2, <1>3, SessionsForget

LEMMA SessionsLoggedOut ==
  ASSUME SessionsInv, NEW sid \in DOMAIN sessions, Logout(sid), UNCHANGED logins
  PROVE  SessionsInv'
<1>1. left' \subseteq DOMAIN sessions
  BY DEF SessionsInv, Logout
<1> QED
  BY <1>1, SessionsForget DEF Logout

LEMMA SessionsOpened ==
  ASSUME LoginInv, SessionsInv, NEW w \in Workers, OpenSession(w)
  PROVE  SessionsInv' /\ Len(sessions') \in Nat /\ Len(sessions') >= Len(sessions)
<1> DEFINE n == Len(sessions) + 1
           row == [login |-> job[w].login, t |-> clock, born |-> restarts, kept |-> TRUE]
<1>1. /\ Len(sessions) \in Nat /\ DOMAIN sessions = 1..Len(sessions)
      /\ \A i \in 1..Len(sessions) : sessions[i] \in SessionRow
  BY SessionsShape
<1>2. row \in SessionRow
  <2>1. job[w].login \in 1..Len(logins) /\ clock \in Nat
    BY JobOf DEF OpenSession, At, JobOK
  <2> QED
    BY <2>1 DEF SessionRow, SessionsInv
<1>3. sessions' = Append(sessions, row) /\ sessions \in Seq(SessionRow)
      /\ UNCHANGED <<clock, logins, left, restarts>>
  BY DEF OpenSession, SessionsInv
<1> HIDE DEF row
<1>4. /\ sessions' \in Seq(SessionRow) /\ Len(sessions') = n /\ sessions'[n] = row
      /\ \A i \in 1..Len(sessions) : sessions'[i] = sessions[i]
  BY <1>1, <1>2, <1>3, AppendProperties
<1>5. DOMAIN sessions' = 1..n /\ 1..n = 1..Len(sessions) \cup {n}
  BY <1>1, <1>4, LenProperties
<1>6. left \subseteq 1..Len(sessions) /\ n \notin left
  BY <1>1 DEF SessionsInv
<1> HIDE DEF n
<1>7. KeptOK'
  <2> SUFFICES ASSUME NEW i \in 1..n
               PROVE  LET ended == i \in left \/ sessions'[i].born # restarts IN
                        /\ sessions'[i].kept => ~ended
                        /\ ~sessions'[i].kept => ended \/ ~Young(i)'
    BY <1>3, <1>5 DEF KeptOK
  <2>1. CASE i = n
    BY <2>1, <1>4, <1>6 DEF row
  <2>2. CASE i # n
    BY <2>2, <1>1, <1>3, <1>4, <1>5 DEF SessionsInv, KeptOK, Young
  <2> QED
    BY <2>1, <2>2
<1>8. \A i \in 1..n : sessions'[i].born <= restarts
  BY <1>4, <1>5 DEF SessionsInv, row
<1>9. SessionsInv'
  BY <1>3, <1>4, <1>5, <1>6, <1>7, <1>8 DEF SessionsInv, SessionRow
<1> QED
  BY <1>1, <1>4, <1>5, <1>9 DEF n

LEMMA SessionsRestarted ==
  ASSUME SessionsInv, Restart
  PROVE  SessionsInv'
<1>1. /\ Len(sessions) \in Nat /\ DOMAIN sessions = 1..Len(sessions)
      /\ \A i \in 1..Len(sessions) : sessions[i] \in SessionRow
  BY SessionsShape
<1>2. /\ sessions' = [i \in 1..Len(sessions) |-> [sessions[i] EXCEPT !.kept = FALSE]]
      /\ restarts' = restarts + 1 /\ restarts \in Nat
      /\ UNCHANGED <<logins, left>>
  BY <1>1 DEF Restart, MemoryLost, SessionsInv
<1>3. \A i \in 1..Len(sessions) :
        sessions'[i] \in SessionRow /\ ~sessions'[i].kept /\ sessions'[i].born = sessions[i].born
  BY <1>1, <1>2 DEF SessionRow
<1>4. /\ sessions' \in Seq(SessionRow) /\ Len(sessions') = Len(sessions)
      /\ DOMAIN sessions' = 1..Len(sessions)
  BY <1>1, <1>2, <1>3
<1>5. \A i \in 1..Len(sessions) :
        sessions'[i].born <= restarts /\ restarts <= restarts' /\ sessions'[i].born \in Nat
  BY <1>1, <1>2, <1>3 DEF SessionsInv, SessionRow
<1>6. KeptOK'
  <2>1. \A i \in 1..Len(sessions) : sessions'[i].born # restarts'
    BY <1>2, <1>5
  <2> SUFFICES ASSUME NEW i \in 1..Len(sessions)
               PROVE  LET ended == i \in left' \/ sessions'[i].born # restarts' IN
                        /\ sessions'[i].kept => ~ended
                        /\ ~sessions'[i].kept => ended \/ ~Young(i)'
    BY <1>4 DEF KeptOK
  <2> QED
    BY <2>1, <1>3
<1>7. \A i \in 1..Len(sessions) : sessions'[i].born <= restarts'
  BY <1>2, <1>5
<1>8. left' \subseteq DOMAIN sessions' /\ restarts' \in Nat
  BY <1>1, <1>2, <1>4 DEF SessionsInv
<1>9. SessionRow' = SessionRow
  BY <1>2 DEF SessionRow
<1> QED
  BY <1>4, <1>6, <1>7, <1>8, <1>9 DEF SessionsInv

\* As time goes by a session can only become too old.
LEMMA SessionsTicked ==
  ASSUME LoginInv, SessionsInv, Tick
  PROVE  SessionsInv'
<1>1. /\ Len(sessions) \in Nat /\ DOMAIN sessions = 1..Len(sessions)
      /\ \A i \in 1..Len(sessions) : sessions[i] \in SessionRow
  BY SessionsShape
<1>2. clock \in Nat /\ clock' = clock + 1 /\ UNCHANGED <<logins, sessions, left, restarts>>
  BY DEF LoginInv, LoginTypeOK, Tick, loginState, sessionState
<1>3. \A i \in 1..Len(sessions) : ~Young(i) => ~Young(i)'
  <2> SUFFICES ASSUME NEW i \in 1..Len(sessions), ~Young(i) PROVE ~Young(i)'
    OBVIOUS
  <2>1. sessions[i].t \in Nat /\ SessionTTL \in Nat
    BY <1>1, SessionAssumption DEF SessionRow
  <2> QED
    BY <2>1, <1>2 DEF Young
<1>4. KeptOK'
  BY <1>1, <1>2, <1>3 DEF SessionsInv, KeptOK
<1> QED
  BY <1>2, <1>4 DEF SessionsInv, SessionRow

-----------------------------------------------------------------------------
\* Handlers.

\* A thread that enters, moves on or leaves, one at a time on the event loop.
LEMMA VisitsStep ==
  ASSUME VisitsInv, NEW w \in Workers, NEW v, visit' = [visit EXCEPT ![w] = v],
         VisitOK(v)', DOMAIN sessions \subseteq DOMAIN sessions',
         v.kind = "form" /\ v.pc \in {"select", "tx"} => OnLoop \subseteq {w}
  PROVE  VisitsInv'
<1>1. visit' \in [Workers -> Visit] /\ visit'[w] = v
      /\ \A u \in Workers \ {w} : visit'[u] = visit[u]
  BY DEF VisitsInv, VisitOK
<1>2. ASSUME NEW u \in Workers PROVE VisitOK(visit[u])'
  <2>1. CASE u = w
    BY <2>1, <1>1 DEF VisitOK
  <2>2. CASE u # w
    BY <2>2, <1>1 DEF VisitsInv, VisitOK
  <2> QED
    BY <2>1, <2>2
<1>3. ASSUME NEW u \in OnLoop', NEW x \in OnLoop' PROVE u = x
  <2>1. CASE v.kind = "form" /\ v.pc \in {"select", "tx"}
    BY <2>1, <1>1 DEF OnLoop
  <2>2. CASE ~(v.kind = "form" /\ v.pc \in {"select", "tx"})
    BY <2>2, <1>1 DEF OnLoop, VisitsInv
  <2> QED
    BY <2>1, <2>2
<1> QED
  BY <1>1, <1>2, <1>3 DEF VisitsInv

LEMMA VisitsUntouched ==
  ASSUME VisitsInv, UNCHANGED visit, DOMAIN sessions \subseteq DOMAIN sessions'
  PROVE  VisitsInv'
BY DEF VisitsInv, VisitOK, OnLoop

LEMMA RestingOK == VisitOK(Resting) /\ Resting \in Visit /\ Resting.pc = "idle" /\ Resting.kind = "none"
BY SessionAssumption DEF VisitOK, Resting, Enter, Visit, Decisions

\* The step of a thread that does not write, towards both tables.
LEMMA DecideLocal ==
  ASSUME VisitsInv, ReviewsInv, NEW w \in Workers, NEW v, visit' = [visit EXCEPT ![w] = v],
         v.pc = "tx" /\ v.kind = "form" => Len(decided[v.review]) = 0,
         UNCHANGED <<reviews, decided>>
  PROVE  ReviewsInv'
<1>1. visit'[w] = v /\ \A u \in Workers \ {w} : visit'[u] = visit[u]
  BY DEF VisitsInv
<1> QED
  BY <1>1 DEF ReviewsInv, ByApi

LEMMA ReviewsUntouched ==
  ASSUME ReviewsInv, UNCHANGED <<reviews, decided, visit>>
  PROVE  ReviewsInv'
BY DEF ReviewsInv, ByApi

\* A decision written: two forms never write the same review, for the second
\* would have been on the event loop with the first.
LEMMA DecideWrites ==
  ASSUME VisitsInv, ReviewsInv, NEW w \in Workers, DecideTx(w)
  PROVE  ReviewsInv'
<1> DEFINE rv == visit[w].review
           kind == visit[w].kind
<1>1. /\ visit[w] \in Visit /\ rv \in Reviews /\ kind \in {"form", "api"}
      /\ visit[w].decision \in Decisions /\ visit[w].pc = "tx"
  BY DEF VisitsInv, VisitOK, DecideTx, Visit
<1>2. PICK way, review : way = kind /\ review = rv
  OBVIOUS
<1>3. /\ reviews' = [reviews EXCEPT ![review] = visit[w].decision]
      /\ decided' = [decided EXCEPT ![review] = Append(decided[review], way)]
      /\ visit' = [visit EXCEPT ![w] = Resting]
  BY <1>2 DEF DecideTx, Leave
<1>4. /\ review \in Reviews /\ decided[review] \in Seq({"form", "api"}) /\ way \in {"form", "api"}
      /\ Len(decided[review]) \in Nat
  BY <1>1, <1>2, LenProperties DEF ReviewsInv
<1>5. /\ Append(decided[review], way) \in Seq({"form", "api"})
      /\ Len(Append(decided[review], way)) = Len(decided[review]) + 1
      /\ Append(decided[review], way)[Len(decided[review]) + 1] = way
      /\ \A k \in 1..Len(decided[review]) : Append(decided[review], way)[k] = decided[review][k]
  BY <1>4, AppendProperties
<1>6. /\ decided' \in [Reviews -> Seq({"form", "api"})]
      /\ decided'[review] = Append(decided[review], way)
      /\ \A r \in Reviews \ {review} : decided'[r] = decided[r]
  BY <1>3, <1>4, <1>5 DEF ReviewsInv
<1>7. /\ reviews' \in [Reviews -> Decisions \cup {"pending"}]
      /\ reviews'[review] # "pending"
      /\ \A r \in Reviews \ {review} : reviews'[r] = reviews[r]
  BY <1>1, <1>3, <1>4 DEF ReviewsInv, Decisions
<1>8. visit'[w] = Resting /\ \A u \in Workers \ {w} : visit'[u] = visit[u]
  BY <1>3 DEF VisitsInv
<1>9. /\ ByApi(review)' <=> ByApi(review) \/ way = "api"
      /\ \A r \in Reviews \ {review} : ByApi(r)' <=> ByApi(r)
  <2>1. ByApi(review)' <=> \E k \in 1..Len(decided[review]) + 1 : decided'[review][k] = "api"
    BY <1>5, <1>6 DEF ByApi
  <2>2. 1..Len(decided[review]) + 1 = 1..Len(decided[review]) \cup {Len(decided[review]) + 1}
    BY <1>4
  <2>3. ByApi(review)' <=> ByApi(review) \/ way = "api"
    BY <2>1, <2>2, <1>5, <1>6 DEF ByApi
  <2> QED
    BY <2>3, <1>6 DEF ByApi
<1>10. way = "form" => Len(decided[review]) = 0 \/ ByApi(review)
  BY <1>1, <1>2 DEF ReviewsInv
<1>11. \A r \in Reviews : Len(decided'[r]) > 1 => ByApi(r)'
  <2>1. Len(decided'[review]) = Len(decided[review]) + 1
    BY <1>5, <1>6
  <2> QED
    BY <2>1, <1>4, <1>6, <1>9, <1>10 DEF ReviewsInv
<1>12. ASSUME NEW u \in Workers, visit'[u].pc = "tx", visit'[u].kind = "form"
       PROVE  Len(decided'[visit'[u].review]) = 0 \/ ByApi(visit[u].review)'
  <2>1. u # w /\ visit'[u] = visit[u]
    BY <1>8, <1>12, RestingOK
  <2>2. visit[u].review \in Reviews
    BY <2>1, <1>12 DEF VisitsInv, VisitOK
  <2>3. way # "form"
    BY <2>1, <1>1, <1>2, <1>12 DEF VisitsInv, OnLoop
  <2> QED
    BY <2>1, <2>2, <2>3, <1>4, <1>6, <1>9, <1>12 DEF ReviewsInv
<1>13. \A r \in Reviews : reviews'[r] = "pending" => Len(decided'[r]) = 0
  BY <1>6, <1>7 DEF ReviewsInv
<1> QED
  BY <1>6, <1>7, <1>11, <1>12, <1>13 DEF ReviewsInv

-----------------------------------------------------------------------------
\* The steps of the dashboard's handlers, towards sessions and reviews at once.

SameLogins == UNCHANGED <<clock, loginState>>

LEMMA LoginsKept == LoginInv /\ SameLogins => LoginInv'
BY DEF SameLogins, loginState, LoginInv, LoginTypeOK, JobOK, Holds, HeldOK, Unspent, HeldOnce,
       StoresOK, ExchangeEarned, OneStore, At, LostOnlyByRace

\* A handler that looks a session up and goes on, or leaves.
LEMMA LookedStep ==
  ASSUME Inv, SameLogins, NEW sid \in DOMAIN sessions, Looked(sid),
         NEW w \in Workers, NEW v, visit' = [visit EXCEPT ![w] = v], VisitOK(v),
         v.kind = "form" /\ v.pc \in {"select", "tx"} => OnLoop \subseteq {w},
         v.pc # "tx", UNCHANGED <<reviews, decided, left, restarts>>
  PROVE  Inv'
<1>1. LoginInv' /\ UNCHANGED <<clock, logins>>
  BY LoginsKept DEF Inv, SameLogins, loginState
<1>2. SessionsInv'
  BY <1>1, SessionsLooked DEF Inv
<1>3. DOMAIN sessions' = DOMAIN sessions
  BY DEF Looked
<1>4. VisitOK(v)'
  BY <1>3 DEF VisitOK
<1>5. VisitsInv'
  BY <1>3, <1>4, VisitsStep DEF Inv
<1>6. ReviewsInv'
  BY DecideLocal DEF Inv
<1> QED
  BY <1>1, <1>2, <1>5, <1>6 DEF Inv

\* The steps that leave the sessions alone.
LEMMA VisitStep ==
  ASSUME Inv, SameLogins, NEW w \in Workers, NEW v, visit' = [visit EXCEPT ![w] = v],
         VisitOK(v), v.kind = "form" /\ v.pc \in {"select", "tx"} => OnLoop \subseteq {w},
         UNCHANGED <<sessions, left, restarts>>, ReviewsInv'
  PROVE  Inv'
<1>1. LoginInv' /\ UNCHANGED <<clock, logins>>
  BY LoginsKept DEF Inv, SameLogins, loginState
<1>2. SessionsInv'
  BY <1>1 DEF Inv, SessionsInv, SessionRow, KeptOK, Young
<1>3. VisitOK(v)'
  BY DEF VisitOK
<1>4. VisitsInv'
  BY <1>3, VisitsStep DEF Inv
<1> QED
  BY <1>1, <1>2, <1>4 DEF Inv

\* A handler let in by a session, or refused.
LEMMA EntryStep ==
  ASSUME Inv, SameLogins, NEW sid \in DOMAIN sessions, Looked(sid), NEW w \in Workers,
         NEW kind \in {"page", "form", "api"}, NEW label \in {"render", "body", "select"},
         NEW review \in Reviews \cup {NONE},
         label = "select" => kind = "api" /\ review \in Reviews,
         label = "body" => kind = "form" /\ review \in Reviews,
         \/ visit' = [visit EXCEPT ![w] = Enter(kind, label, sid, review)]
         \/ UNCHANGED visit,
         UNCHANGED <<reviews, decided, left, restarts>>
  PROVE  Inv'
<1>1. CASE visit' = [visit EXCEPT ![w] = Enter(kind, label, sid, review)]
  <2>1. PICK v : v = Enter(kind, label, sid, review)
    OBVIOUS
  <2>2. sid \in Nat
    BY SessionsShape DEF Inv
  <2>3. v \in Visit /\ v.pc = label /\ v.kind = kind /\ v.sid = sid /\ v.review = review
    BY <2>1, <2>2 DEF Enter, Visit, Decisions
  <2>4. VisitOK(v)
    BY <2>2, <2>3, SessionAssumption DEF VisitOK
  <2> QED
    BY <1>1, <2>1, <2>3, <2>4, LookedStep
<1>2. CASE UNCHANGED visit
  <2>1. LoginInv' /\ UNCHANGED <<clock, logins>>
    BY LoginsKept DEF Inv, SameLogins, loginState
  <2>2. DOMAIN sessions' = DOMAIN sessions
    BY DEF Looked
  <2> QED
    BY <1>2, <2>1, <2>2, SessionsLooked, VisitsUntouched, ReviewsUntouched DEF Inv
<1> QED
  BY <1>1, <1>2

LEMMA SessionStep ==
  ASSUME Inv, NEW w \in Workers, Session(w)
  PROVE  Inv'
<1>1. CASE OpenSession(w)
  <2>1. LoginInv' /\ SessionsInv' /\ Len(sessions') \in Nat /\ Len(sessions') >= Len(sessions)
    BY <1>1, FinishStep, SessionsOpened DEF Inv, OpenSession
  <2>2. DOMAIN sessions \subseteq DOMAIN sessions'
    <3>1. DOMAIN sessions = 1..Len(sessions) /\ Len(sessions) \in Nat
      BY SessionsShape DEF Inv
    <3>2. DOMAIN sessions' = 1..Len(sessions')
      BY <2>1, LenProperties DEF SessionsInv
    <3> QED
      BY <2>1, <3>1, <3>2
  <2> QED
    BY <1>1, <2>1, <2>2, VisitsUntouched, ReviewsUntouched DEF Inv, OpenSession
<1>2. CASE RefuseSession(w)
  <2>1. LoginInv' /\ UNCHANGED <<clock, logins>> /\ UNCHANGED sessionState
    BY <1>2, FinishStep DEF Inv, RefuseSession
  <2>2. SessionsInv'
    BY <2>1 DEF Inv, SessionsInv, SessionRow, KeptOK, Young, sessionState
  <2> QED
    BY <2>1, <2>2, VisitsUntouched, ReviewsUntouched DEF Inv, sessionState
<1>3. ASSUME NEW sid \in DOMAIN sessions, PageOpen(w, sid) PROVE Inv'
  BY <1>3, EntryStep DEF PageOpen, SameLogins
<1>4. CASE PageRender(w)
  <2>1. PICK sid : sid = visit[w].sid
    OBVIOUS
  <2>2. sid \in DOMAIN sessions
    BY <1>4, <2>1 DEF PageRender, Inv, VisitsInv, VisitOK
  <2> QED
    BY <1>4, <2>1, <2>2, RestingOK, LookedStep DEF PageRender, SameLogins, Leave
<1> QED
  BY <1>1, <1>2, <1>3, <1>4 DEF Session

\* The form and the API.
LEMMA DecideStep ==
  ASSUME Inv, NEW w \in Workers, Decide(w)
  PROVE  Inv'
<1>1. ASSUME NEW sid \in DOMAIN sessions, NEW review \in Reviews, FormOpen(w, sid, review)
      PROVE  Inv'
  BY <1>1, EntryStep DEF FormOpen, SameLogins
<1>2. ASSUME NEW csrf \in DOMAIN sessions, NEW decision \in Decisions \cup {"other"},
             FormArrive(w, csrf, decision)
      PROVE  Inv'
  <2>1. PICK sid : sid = visit[w].sid
    OBVIOUS
  <2>2. /\ visit[w] \in Visit /\ sid \in DOMAIN sessions /\ sid # BEARER
        /\ visit[w].review \in Reviews \cup {NONE}
    BY <1>2, <2>1 DEF FormArrive, Inv, VisitsInv, VisitOK, Visit
  <2>3. ASSUME decision \in Decisions,
               visit' = [visit EXCEPT ![w].pc = "select", ![w].decision = decision]
        PROVE  Inv'
    <3>1. PICK v : v = [visit[w] EXCEPT !.pc = "select", !.decision = decision]
      OBVIOUS
    <3>2. /\ v \in Visit /\ v.pc = "select" /\ v.kind = visit[w].kind /\ v.sid = sid
          /\ v.review = visit[w].review
      BY <2>1, <2>2, <2>3, <3>1 DEF Visit
    <3>3. v.kind = "form" /\ v.review \in Reviews
      BY <1>2, <3>2 DEF FormArrive, Inv, VisitsInv, VisitOK
    <3>4. VisitOK(v)
      BY <2>2, <3>2, <3>3 DEF VisitOK
    <3>5. visit' = [visit EXCEPT ![w] = v]
      BY <2>3, <3>1
    <3> QED
      BY <1>2, <2>1, <2>2, <3>2, <3>4, <3>5, LookedStep DEF FormArrive, SameLogins
  <2>4. CASE Leave(w)
    BY <1>2, <2>1, <2>2, <2>4, RestingOK, LookedStep DEF FormArrive, SameLogins, Leave
  <2> QED
    BY <1>2, <2>3, <2>4 DEF FormArrive
<1>3. ASSUME NEW sid \in DOMAIN sessions \cup {BEARER}, NEW review \in Reviews,
             ApiOpen(w, sid, review)
      PROVE  Inv'
  <2>1. CASE sid = BEARER
    <3>1. PICK v : v = Enter("api", "select", sid, review)
      OBVIOUS
    <3>2. v \in Visit /\ v.pc = "select" /\ v.kind = "api" /\ v.sid = BEARER /\ v.review = review
      BY <2>1, <3>1 DEF Enter, Visit, Decisions
    <3>3. VisitOK(v)
      BY <3>2 DEF VisitOK
    <3>4. visit' = [visit EXCEPT ![w] = v] /\ SameLogins /\ UNCHANGED <<sessions, left, restarts>>
          /\ UNCHANGED <<reviews, decided>>
      BY <1>3, <2>1, <3>1 DEF ApiOpen, SameLogins
    <3>5. ReviewsInv'
      BY <3>2, <3>4, DecideLocal DEF Inv
    <3> QED
      BY <3>2, <3>3, <3>4, <3>5, VisitStep
  <2>2. CASE sid # BEARER
    BY <1>3, <2>2, EntryStep DEF ApiOpen, SameLogins
  <2> QED
    BY <2>1, <2>2
<1>4. CASE DecideSelect(w)
  <2>1. /\ visit[w] \in Visit /\ VisitOK(visit[w]) /\ visit[w].pc = "select"
        /\ visit[w].kind = "form" => OnLoop \subseteq {w}
    BY <1>4 DEF DecideSelect, Inv, VisitsInv, OnLoop
  <2>2. SameLogins /\ UNCHANGED <<sessions, left, restarts, reviews, decided>>
    BY <1>4 DEF DecideSelect, SameLogins
  <2>3. CASE Leave(w)
    <3>1. ReviewsInv'
      BY <2>2, <2>3, RestingOK, DecideLocal DEF Inv, Leave
    <3> QED
      BY <2>2, <2>3, <3>1, RestingOK, VisitStep DEF Leave
  <2>4. ASSUME reviews[visit[w].review] = "pending", visit' = [visit EXCEPT ![w].pc = "tx"]
        PROVE  Inv'
    <3>1. PICK v : v = [visit[w] EXCEPT !.pc = "tx"]
      OBVIOUS
    <3>2. /\ v \in Visit /\ v.pc = "tx" /\ v.kind = visit[w].kind /\ v.sid = visit[w].sid
          /\ v.review = visit[w].review /\ visit' = [visit EXCEPT ![w] = v]
      BY <2>1, <2>4, <3>1 DEF Visit
    <3>3. VisitOK(v)
      BY <2>1, <3>2 DEF VisitOK
    <3>4. Len(decided[v.review]) = 0
      BY <2>1, <2>4, <3>2 DEF Inv, ReviewsInv, VisitOK
    <3>5. ReviewsInv'
      BY <2>2, <3>2, <3>4, DecideLocal DEF Inv
    <3> QED
      BY <2>1, <2>2, <3>2, <3>3, <3>5, VisitStep
  <2> QED
    BY <1>4, <2>3, <2>4 DEF DecideSelect
<1>5. CASE DecideTx(w)
  <2>1. ReviewsInv'
    BY <1>5, DecideWrites DEF Inv
  <2> QED
    BY <1>5, <2>1, RestingOK, VisitStep DEF DecideTx, SameLogins, Leave
<1>6. CASE DecideNoAccount(w)
  <2>1. ReviewsInv'
    BY <1>6, RestingOK, DecideLocal DEF Inv, DecideNoAccount, Leave
  <2> QED
    BY <1>6, <2>1, RestingOK, VisitStep DEF DecideNoAccount, SameLogins, Leave
<1> QED
  BY <1>1, <1>2, <1>3, <1>4, <1>5, <1>6 DEF Decide

LEMMA InitOK == Init => Inv
<1> SUFFICES ASSUME Init PROVE Inv
  OBVIOUS
<1>1. LoginInv
  BY LoginInitOK DEF Init
<1>2. SessionsInv
  <2>1. sessions = <<>> /\ Len(sessions) = 0 /\ DOMAIN sessions = {} /\ sessions \in Seq(SessionRow)
    BY EmptySeq DEF Init
  <2> QED
    BY <2>1 DEF Init, SessionsInv, KeptOK
<1>3. \A w \in Workers : visit[w] = Resting
  BY DEF Init
<1>4. VisitsInv
  BY <1>3, RestingOK DEF Init, VisitsInv, OnLoop
<1>5. ReviewsInv
  <2>1. <<>> \in Seq({"form", "api"}) /\ Len(<<>>) = 0
    BY EmptySeq
  <2>2. \A r \in Reviews : reviews[r] = "pending" /\ decided[r] = <<>>
    BY DEF Init
  <2> QED
    BY <1>3, <2>1, <2>2, RestingOK DEF Init, ReviewsInv
<1> QED
  BY <1>1, <1>2, <1>4, <1>5 DEF Inv

LEMMA RestartStep ==
  ASSUME Inv, Restart
  PROVE  Inv'
<1>1. LoginInv' /\ SessionsInv'
  BY MemoryLostStep, SessionsRestarted DEF Inv, Restart
<1>2. \A w \in Workers : visit'[w] = Resting
  BY DEF Restart
<1>3. DOMAIN sessions' = DOMAIN sessions
  BY DEF Restart
<1>4. VisitsInv'
  <2>1. \A w \in Workers : VisitOK(visit[w])' /\ w \notin OnLoop'
    BY <1>2, <1>3, RestingOK DEF VisitOK, OnLoop
  <2> QED
    BY <2>1, RestingOK DEF Restart, VisitsInv, OnLoop
<1>5. ReviewsInv'
  BY <1>2, RestingOK DEF Restart, Inv, ReviewsInv, ByApi
<1> QED
  BY <1>1, <1>4, <1>5 DEF Inv

LEMMA LoginsGrow ==
  ASSUME LoginInv, NEW w \in Workers, LoginStep(w)
  PROVE  Len(logins) \in Nat /\ Len(logins') \in Nat /\ Len(logins') >= Len(logins)
<1>1. Len(logins) \in Nat /\ Len(logins') \in Nat
  BY LoginStepOK, LenProperties DEF LoginInv, LoginTypeOK
<1>2. CASE LoginPut(w)
  <2>1. logins' = Append(logins, [flow |-> job[w].flow, t |-> clock])
    BY <1>2 DEF LoginPut
  <2>2. [flow |-> job[w].flow, t |-> clock] \in [flow : Flows, t : Nat]
    BY JobOf DEF Job
  <2>3. Len(logins') = Len(logins) + 1
    BY <2>1, <2>2, AppendProperties DEF LoginInv, LoginTypeOK
  <2> QED
    BY <2>3, <1>1
<1>3. CASE ~LoginPut(w)
  <2>1. UNCHANGED logins
    BY <1>3 DEF LoginStep, LoginBegin, CallbackBegin, DiscoveryLookup, DiscoveryFetched,
                DiscoveryFails, StoreLoad, StoreAssign, CallbackPop, Exchange
  <2> QED
    BY <2>1, <1>1
<1> QED
  BY <1>2, <1>3

LEMMA LoginKeeps ==
  ASSUME Inv, NEW w \in Workers, Login(w)
  PROVE  Inv'
<1>1. LoginInv' /\ UNCHANGED sessionState /\ clock' = clock
  BY LoginStepOK DEF Inv, Login, LoginStep, LoginBegin, CallbackBegin, DiscoveryLookup,
     DiscoveryFetched, DiscoveryFails, StoreLoad, StoreAssign, LoginPut, CallbackPop, Exchange
<1>2. SessionsInv'
  BY <1>1, LoginsGrow, SessionsUntouched DEF Inv, Login, sessionState
<1> QED
  BY <1>1, <1>2, VisitsUntouched, ReviewsUntouched DEF Inv, sessionState

LEMMA NextOK == Inv /\ [Next]_vars => Inv'
<1> SUFFICES ASSUME Inv, [Next]_vars PROVE Inv'
  OBVIOUS
<1>1. CASE Tick
  <2>1. LoginInv' /\ SessionsInv' /\ UNCHANGED sessionState
    BY <1>1, TickStep, SessionsTicked DEF Inv, Tick
  <2> QED
    BY <2>1, VisitsUntouched, ReviewsUntouched DEF Inv, sessionState
<1>2. CASE Restart
  BY <1>2, RestartStep
<1>3. ASSUME NEW sid \in DOMAIN sessions, Logout(sid) PROVE Inv'
  <2>1. SameLogins /\ LoginInv' /\ UNCHANGED logins /\ DOMAIN sessions' = DOMAIN sessions
    BY <1>3, LoginsKept DEF Inv, SameLogins, loginState, Logout
  <2> QED
    BY <1>3, <2>1, SessionsLoggedOut, VisitsUntouched, ReviewsUntouched DEF Inv, Logout
<1>4. ASSUME NEW w \in Workers, Login(w) PROVE Inv'
  BY <1>4, LoginKeeps
<1>5. ASSUME NEW w \in Workers, Session(w) PROVE Inv'
  BY <1>5, SessionStep
<1>6. ASSUME NEW w \in Workers, Decide(w) PROVE Inv'
  BY <1>6, DecideStep
<1>7. CASE UNCHANGED vars
  <2>1. SameLogins /\ UNCHANGED <<clock, logins>> /\ UNCHANGED sessionState
    BY <1>7 DEF vars, SameLogins, loginState
  <2>2. SessionsInv'
    BY <2>1 DEF Inv, SessionsInv, SessionRow, KeptOK, Young, sessionState
  <2> QED
    BY <2>1, <2>2, LoginsKept, VisitsUntouched, ReviewsUntouched DEF Inv, sessionState
<1> QED
  BY <1>1, <1>2, <1>3, <1>4, <1>5, <1>6, <1>7 DEF Next
-----------------------------------------------------------------------------
LEMMA InvAlways == Spec => []Inv
BY InitOK, NextOK, PTL DEF Spec

\* The variables of the logins and of the dashboard keep their shapes: a
\* session's login exists, a handler's session too.
THEOREM Typed == Spec => []TypeOK
BY InvAlways, InvImplies, PTL

\* However many threads, callbacks and restarts, a login is worth one token
\* request, of its own flow and within the TTL (LoginStateStore.pop).
THEOREM EarnedAlways == Spec => []ExchangeEarned
<1>1. Inv => ExchangeEarned
  BY DEF Inv, LoginInv
<1> QED
  BY <1>1, InvAlways, PTL

\* Only two first logins at once can cost a member's login (get_state_store).
THEOREM LostOnlyByRaceAlways == Spec => []LostOnlyByRace
<1>1. Inv => LostOnlyByRace
  BY DEF Inv, LoginInv
<1> QED
  BY <1>1, InvAlways, PTL

\* What _session_from_cookie lets in is alive, and what is alive is kept.
LEMMA ValidIsAlive ==
  ASSUME Inv, NEW sid \in DOMAIN sessions
  PROVE  (Valid(sid) => Alive(sid)) /\ (Alive(sid) => sessions[sid].kept)
<1>1. sessions[sid] \in SessionRow
  BY SessionsShape DEF Inv
<1>2. sessions[sid].t \in Nat /\ clock \in Nat /\ SessionTTL \in Nat
  BY <1>1, SessionAssumption DEF SessionRow, Inv, LoginInv, LoginTypeOK
<1>3. Young(sid) <=> clock <= sessions[sid].t + SessionTTL
  BY <1>2 DEF Young
<1> QED
  BY <1>3 DEF Inv, SessionsInv, KeptOK, Valid, Alive

\* The second part of SessionLivesItsHour, of one step.
CookieLetsIn ==
  \A w \in Workers :
    (visit[w].pc = "idle" /\ visit'[w].pc # "idle" /\ visit'[w].sid # BEARER)
      => Alive(visit'[w].sid)

LEMMA CookieStep == Inv /\ [Next]_vars => [CookieLetsIn]_vars
<1> SUFFICES ASSUME Inv, Next, NEW w \in Workers,
                    visit[w].pc = "idle", visit'[w].pc # "idle", visit'[w].sid # BEARER
             PROVE  Alive(visit'[w].sid)
  BY DEF CookieLetsIn
<1>1. /\ visit \in [Workers -> Visit]
      /\ \A sid \in DOMAIN sessions : Valid(sid) => Alive(sid)
  BY ValidIsAlive DEF Inv, VisitsInv
<1>2. ~ UNCHANGED visit
  OBVIOUS
<1>3. \A u \in Workers : ~ Leave(u)
  BY <1>1 DEF Leave, Resting, Enter
<1>4. CASE Tick \/ \E sid \in DOMAIN sessions : Logout(sid)
  BY <1>2, <1>4 DEF Tick, Logout, sessionState
<1>5. CASE Restart
  BY <1>5 DEF Restart, Resting, Enter
<1>6. ASSUME NEW u \in Workers, Login(u) PROVE FALSE
  BY <1>2, <1>6 DEF Login, sessionState
<1>7. ASSUME NEW u \in Workers, NEW kind, NEW label, NEW sid \in DOMAIN sessions \cup {BEARER},
             NEW review, visit' = [visit EXCEPT ![u] = Enter(kind, label, sid, review)],
             sid = BEARER \/ Valid(sid)
      PROVE  Alive(visit'[w].sid)
  <2>1. u = w /\ visit'[w].sid = sid
    BY <1>1, <1>7 DEF Enter
  <2> QED
    BY <1>1, <1>7, <2>1
<1>8. ASSUME NEW u \in Workers, Session(u) PROVE Alive(visit'[w].sid)
  <2>1. PICK sid \in DOMAIN sessions : PageOpen(u, sid) /\ ~UNCHANGED visit
    BY <1>2, <1>3, <1>8 DEF Session, OpenSession, RefuseSession, PageRender, sessionState
  <2>2. visit' = [visit EXCEPT ![u] = Enter("page", "render", sid, NONE)] /\ Valid(sid)
    BY <2>1 DEF PageOpen
  <2> QED
    BY <1>7, <2>2
<1>9. ASSUME NEW u \in Workers, Decide(u) PROVE Alive(visit'[w].sid)
  <2>1. ASSUME NEW sid \in DOMAIN sessions, NEW review \in Reviews, FormOpen(u, sid, review)
        PROVE  Alive(visit'[w].sid)
    <3>1. visit' = [visit EXCEPT ![u] = Enter("form", "body", sid, review)] /\ Valid(sid)
      BY <1>2, <2>1 DEF FormOpen
    <3> QED
      BY <1>7, <3>1
  <2>2. ASSUME NEW csrf \in DOMAIN sessions, NEW decision \in Decisions \cup {"other"},
               FormArrive(u, csrf, decision)
        PROVE  FALSE
    BY <1>1, <1>3, <2>2 DEF FormArrive, Visit
  <2>3. ASSUME NEW sid \in DOMAIN sessions \cup {BEARER}, NEW review \in Reviews,
               ApiOpen(u, sid, review)
        PROVE  Alive(visit'[w].sid)
    <3>1. visit' = [visit EXCEPT ![u] = Enter("api", "select", sid, review)]
          /\ (sid = BEARER \/ Valid(sid))
      BY <1>2, <2>3 DEF ApiOpen
    <3> QED
      BY <1>7, <3>1
  <2>4. CASE DecideSelect(u)
    BY <1>1, <1>3, <2>4 DEF DecideSelect, Visit
  <2>5. CASE DecideTx(u) \/ DecideNoAccount(u)
    BY <1>3, <2>5 DEF DecideTx, DecideNoAccount
  <2> QED
    BY <1>9, <2>1, <2>2, <2>3, <2>4, <2>5 DEF Decide
<1> QED
  BY <1>4, <1>5, <1>6, <1>8, <1>9 DEF Next

\* A dashboard session serves to the first of its logout, its hour and the
\* restart, and not a moment longer (_session_from_cookie, admin_logout).
THEOREM HourAlways == Spec => SessionLivesItsHour
<1>1. Inv => \A sid \in DOMAIN sessions : Alive(sid) => sessions[sid].kept
  BY ValidIsAlive
<1>2. Spec => [](\A sid \in DOMAIN sessions : Alive(sid) => sessions[sid].kept)
  BY <1>1, InvAlways, PTL
<1>3. Spec => [][CookieLetsIn]_vars
  BY InvAlways, CookieStep, PTL DEF Spec
<1> QED
  BY <1>2, <1>3, PTL DEF SessionLivesItsHour, CookieLetsIn

\* Of two decisions that took effect on a review one came through the API,
\* however many threads decide (review_decide runs on the event loop).
THEOREM DoubleDecisionAlways == Spec => []DoubleDecisionOnlyByApi
BY InvAlways, InvImplies, PTL

\* EndedSessionDecidesNothing of one step.
LetIn ==
  \A w \in Workers :
    (visit'[w].pc = "select" /\ visit[w].pc # "select" /\ visit'[w].sid # BEARER)
      => Alive(visit'[w].sid)

LEMMA LetInStep == Inv /\ [Next]_vars => [LetIn]_vars
<1> SUFFICES ASSUME Inv, Next, NEW w \in Workers,
                    visit'[w].pc = "select", visit[w].pc # "select", visit'[w].sid # BEARER
             PROVE  Alive(visit'[w].sid)
  BY DEF LetIn
<1>1. /\ visit \in [Workers -> Visit]
      /\ \A sid \in DOMAIN sessions : Valid(sid) => Alive(sid)
  BY ValidIsAlive DEF Inv, VisitsInv
<1>2. ~ UNCHANGED visit
  OBVIOUS
<1>3. \A u \in Workers : ~ Leave(u)
  BY <1>1, RestingOK DEF Leave
<1>4. CASE Tick \/ \E sid \in DOMAIN sessions : Logout(sid)
  BY <1>2, <1>4 DEF Tick, Logout, sessionState
<1>5. CASE Restart
  BY <1>5, RestingOK DEF Restart
<1>6. ASSUME NEW u \in Workers, Login(u) PROVE FALSE
  BY <1>2, <1>6 DEF Login, sessionState
<1>7. ASSUME NEW u \in Workers, Session(u) PROVE FALSE
  <2>1. PICK sid \in DOMAIN sessions : PageOpen(u, sid) /\ ~UNCHANGED visit
    BY <1>2, <1>3, <1>7 DEF Session, OpenSession, RefuseSession, PageRender, sessionState
  <2>2. visit' = [visit EXCEPT ![u] = Enter("page", "render", sid, NONE)]
    BY <2>1 DEF PageOpen
  <2> QED
    BY <2>2, <1>1 DEF Enter
<1>8. ASSUME NEW u \in Workers, Decide(u)
       PROVE  Alive(visit'[w].sid)
  <2>1. ASSUME NEW sid \in DOMAIN sessions, NEW review \in Reviews, FormOpen(u, sid, review)
        PROVE  FALSE
    BY <1>1, <1>2, <2>1 DEF FormOpen, Enter
  <2>2. ASSUME NEW csrf \in DOMAIN sessions, NEW decision \in Decisions \cup {"other"},
               FormArrive(u, csrf, decision)
        PROVE  Alive(visit'[w].sid)
    <3>1. /\ Valid(visit[u].sid) /\ visit[u].pc = "body"
          /\ visit' = [visit EXCEPT ![u].pc = "select", ![u].decision = decision]
      BY <1>3, <2>2 DEF FormArrive
    <3>2. u = w /\ visit'[w].sid = visit[w].sid
      BY <1>1, <3>1 DEF Visit
    <3>3. visit[w].sid \in DOMAIN sessions
      BY <3>1, <3>2 DEF Inv, VisitsInv, VisitOK
    <3> QED
      BY <1>1, <3>1, <3>2, <3>3
  <2>3. ASSUME NEW sid \in DOMAIN sessions \cup {BEARER}, NEW review \in Reviews,
               ApiOpen(u, sid, review)
        PROVE  Alive(visit'[w].sid)
    <3>1. visit' = [visit EXCEPT ![u] = Enter("api", "select", sid, review)]
          /\ (sid = BEARER \/ Valid(sid))
      BY <1>2, <2>3 DEF ApiOpen
    <3>2. u = w /\ visit'[w].sid = sid
      BY <1>1, <3>1 DEF Enter
    <3> QED
      BY <1>1, <3>1, <3>2
  <2>4. CASE DecideSelect(u)
    BY <1>1, <1>3, <2>4 DEF DecideSelect, Visit
  <2>5. CASE DecideTx(u) \/ DecideNoAccount(u)
    BY <1>3, <2>5 DEF DecideTx, DecideNoAccount
  <2> QED
    BY <1>8, <2>1, <2>2, <2>3, <2>4, <2>5 DEF Decide
<1> QED
  BY <1>4, <1>5, <1>6, <1>7, <1>8 DEF Next

\* What gets to decide_review came through a session alive at that moment:
\* one that ended while its form was on the way decides nothing.
THEOREM EndedDecidesNothing == Spec => EndedSessionDecidesNothing
BY InvAlways, LetInStep, PTL DEF Spec, EndedSessionDecidesNothing, LetIn
=============================================================================
