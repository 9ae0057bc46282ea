--------------------------- MODULE RecoveryProofs ---------------------------
(***************************************************************************)
(* What is proved of Recovery for every value of its constants: that its   *)
(* state keeps its type, and that no interleaving, failure or stale write  *)
(* changes a password without the factors the code composes.               *)
(***************************************************************************)
EXTENDS Recovery, ChallengeProofs

LEMMA ActiveForInRange ==
  ASSUME requests \in Seq(Row), NEW acct
  PROVE  ActiveFor(acct) \in 0..Len(requests)
<1> DEFINE I == {i \in 1..Len(requests) : requests[i].acct = acct /\ requests[i].status \in Live}
<1>1. Len(requests) \in Nat
  BY LenProperties
<1>2. I # {} => Max(I) \in 1..Len(requests)
  BY <1>1, MaxIsMember
<1>3. ActiveFor(acct) = IF I # {} THEN Max(I) ELSE 0
  BY Zenon DEF ActiveFor, SelectLastInSeq
<1> HIDE DEF I
<1> QED
  BY <1>1, <1>2, <1>3

LEMMA ActiveByDeviceInRange ==
  ASSUME requests \in Seq(Row), NEW d
  PROVE  ActiveByDevice(d) \in 0..Len(requests)
<1> DEFINE I == {i \in 1..Len(requests) : requests[i].recog = d /\ requests[i].status \in Leaning}
<1>1. Len(requests) \in Nat
  BY LenProperties
<1>2. I # {} => Max(I) \in 1..Len(requests)
  BY <1>1, MaxIsMember
<1>3. ActiveByDevice(d) = IF I # {} THEN Max(I) ELSE 0
  BY Zenon DEF ActiveByDevice, SelectLastInSeq
<1> HIDE DEF I
<1> QED
  BY <1>1, <1>2, <1>3
-----------------------------------------------------------------------------
(***************************************************************************)
(* Type correctness.  TypeOK alone is not inductive: a handler that writes *)
(* a row or a challenge back does so under the id it holds, and inserts    *)
(* rows for the account it was called for.  JobOK says what a handler's    *)
(* locals are good for at each of its statements.                          *)
(***************************************************************************)
Holding == {"get", "decide", "otp_charge", "otp_consume", "branch", "save",
            "device", "wall", "ldap", "void_get"}

JobOK(w) ==
  /\ job[w].op = "none" <=> job[w].pc = "idle"
  /\ job[w].op = "grant" => job[w].pc = "save"
  /\ job[w].op \notin {"none", "grant"} => job[w].acct \in Accounts
  /\ job[w].op = "approve" => job[w].actor \in Accounts
  /\ job[w].rid \in 0..Len(requests)
  /\ job[w].pc \in Holding => job[w].rid # 0
  /\ job[w].pc \in {"otp_charge", "otp_consume"} => job[w].ch \in 1..Len(challenges)
  /\ job[w].pc \in {"otp_charge", "otp_consume", "branch"} => job[w].op = "verify"
  /\ job[w].pc \in {"void_find", "void_get"} => job[w].op = "delete"
  /\ job[w].pc \in {"device", "wall"} =>
       job[w].op = "complete" /\ job[w].row.status = "pending_dwell"
  /\ job[w].pc = "ldap" => job[w].op = "complete"
  /\ job[w].pc = "ldap" => job[w].row.status \in {"authorized", "pending_dwell"}

TypeInv == TypeOK /\ \A w \in Workers : JobOK(w)

Challenge == [phone : {PhoneOf[a] : a \in Accounts}, purpose : {"recovery"},
              created : Nat, exp : Nat, left : Nat, consumed : BOOLEAN]

(***************************************************************************)
(* A step of worker w that leaves it with a well-typed job, fit for the    *)
(* tables as they are afterwards, leaves every worker so: no table loses   *)
(* rows.                                                                   *)
(***************************************************************************)
LEMMA JobStep ==
  ASSUME TypeInv, NEW w \in Workers,
         job'[w] \in Job, job' = [job EXCEPT ![w] = job'[w]],
         Len(requests') \in Nat, Len(requests') >= Len(requests),
         Len(challenges') \in Nat, Len(challenges') >= Len(challenges),
         JobOK(w)'
  PROVE  job' \in [Workers -> Job] /\ \A v \in Workers : JobOK(v)'
<1>1. job \in [Workers -> Job] /\ \A v \in Workers : JobOK(v)
  BY DEF TypeInv, TypeOK
<1>2. Len(requests) \in Nat /\ Len(challenges) \in Nat
  BY LenProperties DEF TypeInv, TypeOK
<1>3. job' \in [Workers -> Job]
  BY <1>1
<1>4. ASSUME NEW v \in Workers PROVE JobOK(v)'
  <2>1. CASE v = w
    BY <2>1
  <2>2. CASE v # w
    <3>1. job'[v] = job[v] /\ JobOK(v)
      BY <1>1, <2>2
    <3> QED
      BY <3>1, <1>2 DEF JobOK
  <2> QED
    BY <2>1, <2>2
<1> QED
  BY <1>3, <1>4

\* The steps that only move a handler along.
LEMMA LocalStep ==
  ASSUME TypeInv, NEW w \in Workers,
         job'[w] \in Job, job' = [job EXCEPT ![w] = job'[w]], JobOK(w)',
         UNCHANGED <<clock, tables, history>>
  PROVE  TypeInv'
<1>1. Len(requests) \in Nat /\ Len(challenges) \in Nat
  BY LenProperties DEF TypeInv, TypeOK
<1>2. job' \in [Workers -> Job] /\ \A v \in Workers : JobOK(v)'
  BY <1>1, JobStep DEF tables
<1> QED
  BY <1>2 DEF TypeInv, TypeOK, tables, history

LEMMA NoRowOK == NoRow \in Row
  BY DEF NoRow, Row

LEMMA IdleOK == Idle \in Job
  BY NoRowOK DEF Idle, Call, Job, AllOps, Labels

LEMMA FinishStep ==
  ASSUME TypeInv, NEW w \in Workers, Finish(w), UNCHANGED <<clock, tables, history>>
  PROVE  TypeInv'
<1>1. job'[w] = Idle /\ job' = [job EXCEPT ![w] = job'[w]]
  BY DEF Finish, TypeInv, TypeOK
<1>2. JobOK(w)'
  BY <1>1, LenProperties DEF JobOK, Idle, Call, Holding, TypeInv, TypeOK, tables
<1> QED
  BY <1>1, <1>2, IdleOK, LocalStep

\* What TypeInv says of one worker and of the tables' lengths.
LEMMA JobOf ==
  ASSUME TypeInv, NEW w \in Workers
  PROVE  /\ job \in [Workers -> Job] /\ job[w] \in Job /\ JobOK(w)
         /\ requests \in Seq(Row) /\ Len(requests) \in Nat
         /\ challenges \in Seq(Challenge) /\ Len(challenges) \in Nat
         /\ clock \in Nat
  BY LenProperties DEF TypeInv, TypeOK, Challenge

\* The steps that end a handler, whatever they wrote.
LEMMA FinishJob ==
  ASSUME TypeInv, NEW w \in Workers, Finish(w),
         Len(requests') \in Nat, Len(requests') >= Len(requests),
         Len(challenges') \in Nat, Len(challenges') >= Len(challenges)
  PROVE  job' \in [Workers -> Job] /\ \A v \in Workers : JobOK(v)'
<1>1. job'[w] = Idle /\ job' = [job EXCEPT ![w] = job'[w]]
  BY DEF Finish, TypeInv, TypeOK
<1>2. JobOK(w)'
  BY <1>1 DEF JobOK, Idle, Call, Holding
<1> QED
  BY <1>1, <1>2, IdleOK, JobStep

\* _save under an id of the table.
LEMMA WriteRowType ==
  ASSUME TypeInv, NEW rid \in 1..Len(requests), NEW row \in Row, WriteRow(rid, row)
  PROVE  requests' \in Seq(Row) /\ Len(requests') = Len(requests)
  BY ExceptSeq DEF WriteRow, TypeInv, TypeOK

LEMMA FindActiveType ==
  ASSUME TypeInv, NEW w \in Workers, FindActive(w)
  PROVE  TypeInv'
<1>1. /\ job \in [Workers -> Job] /\ job[w] \in Job /\ JobOK(w)
      /\ UNCHANGED <<clock, tables, history>>
  BY JobOf DEF FindActive
<1>2. PICK rid \in Nat : rid = ActiveFor(job[w].acct) /\ rid \in 0..Len(requests)
  BY JobOf, ActiveForInRange
<1>3. CASE rid # 0
  <2>1. job'[w] = [job[w] EXCEPT !.pc = "get", !.rid = rid]
    BY <1>1, <1>2, <1>3 DEF FindActive
  <2>2. job' = [job EXCEPT ![w] = job'[w]]
    BY <1>1 DEF FindActive
  <2>3. job'[w] \in Job
    <3>1. "get" \in Labels
      BY DEF Labels
    <3> QED
      BY <1>1, <1>2, <2>1, <3>1 DEF Job
  <2>4. JobOK(w)'
    BY <1>1, <1>2, <1>3, <2>1, JobOf DEF JobOK, FindActive, At, tables, Job
  <2> QED
    BY <1>1, <2>2, <2>3, <2>4, LocalStep
<1>4. CASE rid = 0 /\ job[w].op = "start"
  <2>1. job'[w] = [job[w] EXCEPT !.pc = "resolve"]
    BY <1>1, <1>2, <1>4 DEF FindActive
  <2>2. job' = [job EXCEPT ![w] = job'[w]]
    BY <1>1 DEF FindActive
  <2>3. job'[w] \in Job
    BY <1>1, <2>1, JobOf DEF Job, Labels
  <2>4. JobOK(w)'
    BY <1>1, <1>4, <2>1, JobOf DEF JobOK, FindActive, At, tables, Job, Holding
  <2> QED
    BY <1>1, <2>2, <2>3, <2>4, LocalStep
<1>5. CASE rid = 0 /\ job[w].op # "start"
  BY <1>1, <1>2, <1>5, FinishStep DEF FindActive, Finish
<1> QED
  BY <1>3, <1>4, <1>5

LEMMA GetRowType ==
  ASSUME TypeInv, NEW w \in Workers, GetRow(w)
  PROVE  TypeInv'
<1>1. /\ job \in [Workers -> Job] /\ job[w] \in Job /\ JobOK(w)
      /\ UNCHANGED <<clock, tables, history>>
  BY JobOf DEF GetRow
<1>2. requests[job[w].rid] \in Row
  BY <1>1, JobOf, ElementOfSeq DEF JobOK, GetRow, At, Holding
<1>3. job'[w] = [job[w] EXCEPT !.pc = "decide", !.row = requests[job[w].rid], !.now = clock]
  BY <1>1 DEF GetRow
<1>4. job' = [job EXCEPT ![w] = job'[w]]
  BY <1>1 DEF GetRow
<1>5. job'[w] \in Job
  <2>1. "decide" \in Labels /\ clock \in Nat
    BY JobOf DEF Labels
  <2> QED
    BY <1>1, <1>2, <1>3, <2>1 DEF Job
<1>6. JobOK(w)'
  BY <1>1, <1>3 DEF JobOK, GetRow, At, tables, Job, Holding
<1> QED
  BY <1>1, <1>4, <1>5, <1>6, LocalStep

\* The first statements of the handlers other than the grant's.
Early == {"find", "otp_budget", "void_find"}

\* A handler that has just been called.
LEMMA CallStep ==
  ASSUME TypeInv, NEW w \in Workers, NEW op \in AllOps \ {"grant"},
         NEW label \in Early, label = "void_find" => op = "delete",
         NEW acct \in Accounts, NEW actor \in Accounts \cup {NONE},
         NEW dev \in Devices \cup {NONE}, op = "approve" => actor \in Accounts,
         job' = [job EXCEPT ![w] = Call(op, label, acct, actor, dev)],
         UNCHANGED <<clock, tables, history>>
  PROVE  TypeInv'
<1>1. label \in Labels /\ label # "idle" /\ label \notin Holding
  BY DEF Early, Holding, Labels
<1>2. job'[w] = Call(op, label, acct, actor, dev) /\ job' = [job EXCEPT ![w] = job'[w]]
  BY JobOf
<1>3. job'[w] \in Job
  BY <1>1, <1>2, NoRowOK DEF Call, Job
<1>4. JobOK(w)'
  BY <1>1, <1>2, JobOf DEF JobOK, Call, AllOps, Holding, tables
<1> QED
  BY <1>2, <1>3, <1>4, LocalStep

\* The statements a handler may get to by no more than a Goto.
Later == {"find", "resolve", "ping", "device", "wall", "ldap", "drop"}

LEMMA GotoStep ==
  ASSUME TypeInv, NEW w \in Workers,
         NEW label \in Later,
         Goto(w, label), UNCHANGED <<clock, tables, history>>,
         job[w].pc # "idle", job[w].op # "grant",
         label \in Holding => job[w].rid # 0,
         label \in {"device", "wall"} =>
           job[w].op = "complete" /\ job[w].row.status = "pending_dwell",
         label = "ldap" => /\ job[w].op = "complete"
                           /\ job[w].row.status \in {"authorized", "pending_dwell"}
  PROVE  TypeInv'
<1>1. job'[w] = [job[w] EXCEPT !.pc = label] /\ job' = [job EXCEPT ![w] = job'[w]]
  BY JobOf DEF Goto
<1>2. job[w] \in Job /\ JobOK(w)
  BY JobOf
<1>3. job'[w] \in Job
  BY <1>1, <1>2 DEF Job, Labels, Later
<1>4. JobOK(w)'
  BY <1>1, <1>2 DEF JobOK, tables, Job, Later
<1> QED
  BY <1>1, <1>3, <1>4, LocalStep
-----------------------------------------------------------------------------
(* One lemma for the steps of each handler.                                *)

LEMMA StartType ==
  ASSUME TypeInv, NEW w \in Workers, Start(w)
  PROVE  TypeInv'
<1>1. /\ job \in [Workers -> Job] /\ job[w] \in Job /\ JobOK(w)
      /\ clock \in Nat /\ Len(requests) \in Nat /\ Len(challenges) \in Nat
  BY JobOf
<1>2. ASSUME NEW acct \in Subjects, NEW dev \in Devices \cup {NONE},
             StartBudget(w, acct, dev)
      PROVE  TypeInv'
  <2>1. "start" \in AllOps \ {"grant"} /\ "otp_budget" \in Early
    BY DEF AllOps, Early
  <2>2. acct \in Accounts /\ NONE \in Accounts \cup {NONE}
    BY RecoveryAssumption
  <2>3. job' = [job EXCEPT ![w] = Call("start", "otp_budget", acct, NONE, dev)]
        /\ UNCHANGED <<clock, tables, history>>
    BY <1>2 DEF StartBudget
  <2> QED
    BY <2>1, <2>2, <2>3, CallStep
<1>3. CASE StartOtpBudget(w)
  <2>1. CASE Finish(w) /\ UNCHANGED <<clock, tables, history>>
    BY <2>1, FinishStep
  <2>2. CASE /\ job' = [job EXCEPT ![w].pc = "otp_send", ![w].now = clock]
             /\ UNCHANGED <<clock, tables, history>>
    <3>1. job'[w] = [job[w] EXCEPT !.pc = "otp_send", !.now = clock]
          /\ job' = [job EXCEPT ![w] = job'[w]]
      BY <1>1, <2>2
    <3>2. job'[w] \in Job
      BY <1>1, <3>1 DEF Job, Labels
    <3>3. JobOK(w)'
      BY <1>1, <1>3, <2>2, <3>1 DEF JobOK, StartOtpBudget, At, tables, Job, Holding
    <3> QED
      BY <2>2, <3>1, <3>2, <3>3, LocalStep
  <2> QED
    BY <1>3, <2>1, <2>2 DEF StartOtpBudget
<1>4. CASE StartSendOtp(w)
  <2> DEFINE c == ChallengeRow(PhoneOf[job[w].acct], "recovery", clock,
                               job[w].now + CodeTTL, MaxVerify)
  <2>1. job[w].acct \in Accounts
    BY <1>1, <1>4 DEF StartSendOtp, At, JobOK
  <2>2. c \in Challenge
    <3>1. job[w].now + CodeTTL \in Nat /\ MaxVerify \in Nat
      <4>1. CodeTTL \in Nat /\ MaxVerify \in Nat
        BY RecoveryAssumption
      <4>2. job[w].now \in Nat
        BY <1>1 DEF Job
      <4> QED
        BY <4>1, <4>2
    <3> QED
      BY <1>1, <2>1, <3>1 DEF Challenge, ChallengeRow
  <2>3. challenges' = Append(challenges, c)
    BY <1>4 DEF StartSendOtp
  <2> HIDE DEF c
  <2>4. challenges' \in Seq(Challenge) /\ Len(challenges') = Len(challenges) + 1
    BY <2>2, <2>3, JobOf, AppendProperties
  <2>5. job'[w] = [job[w] EXCEPT !.pc = "find"] /\ job' = [job EXCEPT ![w] = job'[w]]
    BY <1>1, <1>4 DEF StartSendOtp, Goto
  <2>6. job'[w] \in Job
    BY <1>1, <2>5 DEF Job, Labels
  <2>7. JobOK(w)'
    BY <1>1, <1>4, <2>5 DEF JobOK, StartSendOtp, At, Job, Holding
  <2>8. job' \in [Workers -> Job] /\ \A v \in Workers : JobOK(v)'
    <3>1. requests' = requests
      BY <1>4 DEF StartSendOtp
    <3> QED
      BY <1>1, <2>4, <2>5, <2>6, <2>7, <3>1, JobStep
  <2> QED
    BY <1>4, <2>4, <2>8 DEF StartSendOtp, TypeInv, TypeOK, Challenge, history
<1>5. CASE StartSendFails(w)
  BY <1>5, FinishStep DEF StartSendFails
<1>6. CASE StartSupersede(w)
  <2>1. job[w].rid \in 1..Len(requests)
    BY <1>1, <1>6 DEF StartSupersede, Doing, JobOK, Holding
  <2>2. Cancelled(job[w].row, "superseded") \in Row
    BY <1>1 DEF Cancelled, Job, Row, Dead
  <2>3. requests' \in Seq(Row) /\ Len(requests') = Len(requests)
    BY <1>6, <2>1, <2>2, WriteRowType DEF StartSupersede
  <2>4. job'[w] = [job[w] EXCEPT !.pc = "resolve", !.row = NoRow]
        /\ job' = [job EXCEPT ![w] = job'[w]]
    BY <1>1, <1>6 DEF StartSupersede
  <2>5. job'[w] \in Job
    BY <1>1, <2>4, NoRowOK DEF Job, Labels
  <2>6. JobOK(w)'
    BY <1>1, <1>6, <2>3, <2>4 DEF JobOK, StartSupersede, Doing, Job, Holding
  <2>7. job' \in [Workers -> Job] /\ \A v \in Workers : JobOK(v)'
    <3>1. challenges' = challenges
      BY <1>6 DEF StartSupersede
    <3> QED
      BY <1>1, <2>3, <2>4, <2>5, <2>6, <3>1, JobStep
  <2> QED
    BY <1>6, <2>3, <2>7 DEF StartSupersede, TypeInv, TypeOK, history
<1>7. CASE StartResolve(w)
  <2> DEFINE row == [NoRow EXCEPT !.acct = job[w].acct, !.status = "awaiting_phone",
                       !.recog = Resolve(job[w].dev)]
  <2>1. row \in Row
    <3>1. Resolve(job[w].dev) \in Devices \cup {NONE}
      BY <1>1 DEF Job, Resolve
    <3>2. job[w].acct \in Accounts \cup {NONE} /\ "awaiting_phone" \in Live
      BY <1>1 DEF Job, Live
    <3> QED
      BY <3>1, <3>2, NoRowOK DEF Row
  <2>2. job'[w] = [job[w] EXCEPT !.pc = "insert", !.row = row]
        /\ job' = [job EXCEPT ![w] = job'[w]]
    BY <1>1, <1>7 DEF StartResolve
  <2> HIDE DEF row
  <2>3. job'[w] \in Job
    BY <1>1, <2>1, <2>2 DEF Job, Labels
  <2>4. JobOK(w)'
    BY <1>1, <1>7, <2>2 DEF JobOK, StartResolve, At, tables, Job, Holding
  <2> QED
    BY <1>7, <2>2, <2>3, <2>4, LocalStep DEF StartResolve
<1>8. CASE StartInsert(w)
  <2>1. [job[w].row EXCEPT !.created = clock] \in Row
    BY <1>1 DEF Row, Job
  <2>2. requests' \in Seq(Row) /\ Len(requests') = Len(requests) + 1
    BY <1>8, <2>1, JobOf, AppendProperties DEF StartInsert
  <2>3. job'[w] = [job[w] EXCEPT !.pc = "ping", !.rid = Len(requests) + 1, !.row = NoRow]
        /\ job' = [job EXCEPT ![w] = job'[w]]
    BY <1>1, <1>8 DEF StartInsert
  <2>4. job'[w] \in Job
    <3>1. Len(requests) + 1 \in Nat
      BY <1>1
    <3> QED
      BY <1>1, <2>3, <3>1, NoRowOK DEF Job, Labels
  <2>5. JobOK(w)'
    BY <1>1, <1>8, <2>2, <2>3 DEF JobOK, StartInsert, At, Job, Holding
  <2>6. job' \in [Workers -> Job] /\ \A v \in Workers : JobOK(v)'
    <3>1. challenges' = challenges
      BY <1>8 DEF StartInsert
    <3> QED
      BY <1>1, <2>2, <2>3, <2>4, <2>5, <3>1, JobStep
  <2> QED
    BY <1>8, <2>2, <2>6 DEF StartInsert, TypeInv, TypeOK, history
<1>9. CASE StartPing(w)
  <2>1. job[w].acct \in Accounts /\ job[w].rid \in Nat
    BY <1>1, <1>9 DEF StartPing, Doing, JobOK, Job
  <2>2. notes' \subseteq [to : Accounts, type : NoteTypes, rid : Nat]
    <3>1. Note(job[w].acct, "recovery_started", job[w].rid)
            \in [to : Accounts, type : NoteTypes, rid : Nat]
      BY <2>1 DEF Note, NoteTypes
    <3> QED
      BY <1>9, <3>1 DEF StartPing, TypeInv, TypeOK
  <2>3. job' \in [Workers -> Job] /\ \A v \in Workers : JobOK(v)'
    BY <1>1, <1>9, FinishJob DEF StartPing
  <2> QED
    BY <1>9, <2>2, <2>3 DEF StartPing, TypeInv, TypeOK, history
<1> QED
  BY <1>2, <1>3, <1>4, <1>5, <1>6, <1>7, <1>8, <1>9 DEF Start

\* Charging or consuming a challenge of the table.
LEMMA ChallengeUpdateType ==
  ASSUME TypeInv, NEW id \in 1..Len(challenges)
  PROVE  /\ Charge(challenges, id) \in Seq(Challenge)
         /\ Len(Charge(challenges, id)) = Len(challenges)
         /\ Consume(challenges, id) \in Seq(Challenge)
         /\ Len(Consume(challenges, id)) = Len(challenges)
<1>1. challenges \in Seq(Challenge) /\ challenges[id] \in Challenge
  BY ElementOfSeq DEF TypeInv, TypeOK, Challenge
<1> DEFINE charged == [challenges[id] EXCEPT !.left = IF @ > 0 THEN @ - 1 ELSE @]
           consumed == [challenges[id] EXCEPT !.consumed = TRUE]
<1>2. charged \in Challenge /\ consumed \in Challenge
  <2>1. PICK left \in Nat : left = challenges[id].left
    BY <1>1 DEF Challenge
  <2>2. (IF left > 0 THEN left - 1 ELSE left) \in Nat
    OBVIOUS
  <2>3. charged = [challenges[id] EXCEPT !.left = IF left > 0 THEN left - 1 ELSE left]
    BY <2>1
  <2> QED
    BY <1>1, <2>2, <2>3 DEF Challenge
<1>3. /\ Charge(challenges, id) = [challenges EXCEPT ![id] = charged]
      /\ Consume(challenges, id) = [challenges EXCEPT ![id] = consumed]
  BY <1>1 DEF Charge, Consume
<1> HIDE DEF charged, consumed
<1> QED
  BY <1>1, <1>2, <1>3, ExceptSeq

LEMMA VerifyType ==
  ASSUME TypeInv, NEW w \in Workers, Verify(w)
  PROVE  TypeInv'
<1>1. /\ job \in [Workers -> Job] /\ job[w] \in Job /\ JobOK(w)
      /\ clock \in Nat /\ Len(requests) \in Nat /\ Len(challenges) \in Nat
      /\ requests \in Seq(Row) /\ challenges \in Seq(Challenge)
  BY JobOf
<1>2. ASSUME NEW acct \in Accounts, VerifyStart(w, acct)
      PROVE  TypeInv'
  <2>1. "verify" \in AllOps \ {"grant"} /\ "find" \in Early
    BY DEF AllOps, Early
  <2>2. job' = [job EXCEPT ![w] = Call("verify", "find", acct, NONE, NONE)]
        /\ UNCHANGED <<clock, tables, history>>
    BY <1>2 DEF VerifyStart
  <2> QED
    BY <2>1, <2>2, CallStep
<1>3. ASSUME NEW matches \in BOOLEAN, NEW now \in job[w].now .. clock,
             VerifySelect(w, matches, now)
      PROVE  TypeInv'
  <2> DEFINE id == LatestActive(challenges, PhoneOf[job[w].acct], "recovery", now, Hour)
             verdict == IF job[w].row.status # "awaiting_phone" \/ id = 0 THEN "none"
                        ELSE Verdict(challenges[id], matches, now)
  <2>1. id \in 0..Len(challenges)
    BY <1>1, LatestActiveInRange
  <2>2. \/ /\ verdict # "none"
           /\ \/ job' = [job EXCEPT ![w] = [job[w] EXCEPT !.pc = "otp_charge", !.ch = id]]
              \/ job' = [job EXCEPT ![w] = [job[w] EXCEPT !.pc = "otp_consume", !.ch = id]]
        \/ Finish(w)
    BY <1>3 DEF VerifySelect, Finish, Charged
  <2>3. verdict # "none" => id # 0
    OBVIOUS
  <2> HIDE DEF id, verdict
  <2>4. ASSUME NEW label \in {"otp_charge", "otp_consume"}, verdict # "none",
               job' = [job EXCEPT ![w] = [job[w] EXCEPT !.pc = label, !.ch = id]]
        PROVE  TypeInv'
    <3>1. job'[w] = [job[w] EXCEPT !.pc = label, !.ch = id]
          /\ job' = [job EXCEPT ![w] = job'[w]]
      BY <1>1, <2>4
    <3>2. id \in Nat /\ id \in 1..Len(challenges)
      BY <1>1, <2>1, <2>3, <2>4
    <3>3. job'[w] \in Job
      BY <1>1, <3>1, <3>2 DEF Job, Labels
    <3>4. JobOK(w)'
      <4>1. /\ job[w].op = "verify" /\ job[w].pc = "decide"
            /\ requests' = requests /\ challenges' = challenges
        BY <1>3 DEF VerifySelect, Doing, tables
      <4> QED
        BY <1>1, <3>1, <3>2, <4>1 DEF JobOK, Job, Holding
    <3> QED
      BY <1>3, <3>1, <3>3, <3>4, LocalStep DEF VerifySelect
  <2> QED
    BY <1>3, <2>2, <2>4, FinishStep DEF VerifySelect
<1>4. CASE VerifyCharge(w)
  <2>1. challenges' \in Seq(Challenge) /\ Len(challenges') = Len(challenges)
    BY <1>1, <1>4, ChallengeUpdateType DEF VerifyCharge, At, JobOK
  <2>2. requests' = requests
    BY <1>4 DEF VerifyCharge
  <2>3. job' \in [Workers -> Job] /\ \A v \in Workers : JobOK(v)'
    BY <1>1, <1>4, <2>1, <2>2, FinishJob DEF VerifyCharge
  <2> QED
    BY <1>4, <2>1, <2>3 DEF VerifyCharge, TypeInv, TypeOK, Challenge, history
<1>5. CASE VerifyConsume(w)
  <2>1. challenges' \in Seq(Challenge) /\ Len(challenges') = Len(challenges)
    BY <1>1, <1>5, ChallengeUpdateType DEF VerifyConsume, At, JobOK
  <2>2. requests' = requests
    BY <1>5 DEF VerifyConsume
  <2>3. job'[w] = [job[w] EXCEPT !.pc = "branch", !.now = clock, !.ch = 0]
        /\ job' = [job EXCEPT ![w] = job'[w]]
    BY <1>1, <1>5 DEF VerifyConsume
  <2>4. job'[w] \in Job
    <3>1. "branch" \in Labels /\ 0 \in Nat
      BY DEF Labels
    <3> QED
      BY <1>1, <2>3, <3>1 DEF Job
  <2>5. JobOK(w)'
    BY <1>1, <1>5, <2>2, <2>3 DEF JobOK, VerifyConsume, At, Job, Holding
  <2>6. job' \in [Workers -> Job] /\ \A v \in Workers : JobOK(v)'
    BY <1>1, <2>1, <2>2, <2>3, <2>4, <2>5, JobStep
  <2>7. verified' \subseteq Nat \X Nat
    BY <1>1, <1>5 DEF VerifyConsume, Job, TypeInv, TypeOK
  <2> QED
    BY <1>5, <2>1, <2>6, <2>7 DEF VerifyConsume, TypeInv, TypeOK, Challenge
<1>6. ASSUME NEW now \in job[w].now .. clock, VerifyBranch(w, now)
      PROVE  TypeInv'
  <2> DEFINE acct == job[w].acct
             family == FamilyOf(acct)
             branch == BranchPick(acct, job[w].row.recog, family)
             to == IF acct \in Managed THEN GuardiansOf(acct) ELSE family
             row == [job[w].row EXCEPT !.status = branch,
                       !.exp = IF branch = "pending_family" THEN now + FamilyTTL ELSE @,
                       !.authAt = IF branch = "pending_dwell" THEN now ELSE @]
  <2>1. branch \in Live /\ to \subseteq Accounts
    BY DEF BranchPick, Live, GuardiansOf, FamilyOf
  <2>2. now \in Nat /\ now + FamilyTTL \in Nat
    <3>1. FamilyTTL \in Nat
      BY RecoveryAssumption
    <3>2. job[w].now \in Nat
      BY <1>1 DEF Job
    <3> QED
      BY <1>1, <3>1, <3>2
  <2>3. job'[w] = [job[w] EXCEPT !.pc = "save", !.now = 0, !.to = to, !.row = row]
        /\ job' = [job EXCEPT ![w] = job'[w]]
    BY <1>1, <1>6 DEF VerifyBranch
  <2> HIDE DEF branch, to
  <2>4. row \in Row
    <3>1. job[w].row \in Row
      BY <1>1 DEF Job
    <3> QED
      BY <2>1, <2>2, <3>1 DEF Row
  <2> HIDE DEF row
  <2>5. job'[w] \in Job
    <3>1. "save" \in Labels /\ 0 \in Nat
      BY DEF Labels
    <3> QED
      BY <1>1, <2>1, <2>3, <2>4, <3>1 DEF Job
  <2>6. JobOK(w)'
    BY <1>1, <1>6, <2>3 DEF JobOK, VerifyBranch, At, tables, Job, Holding
  <2> QED
    BY <1>6, <2>3, <2>5, <2>6, LocalStep DEF VerifyBranch
<1>7. CASE VerifySave(w)
  <2>1. requests' \in Seq(Row) /\ Len(requests') = Len(requests)
    BY <1>1, <1>7, WriteRowType DEF VerifySave, Doing, JobOK, Job, Holding
  <2>2. challenges' = challenges
    BY <1>7 DEF VerifySave
  <2>3. CASE Goto(w, "ping")
    <3>1. job'[w] = [job[w] EXCEPT !.pc = "ping"] /\ job' = [job EXCEPT ![w] = job'[w]]
      BY <1>1, <2>3 DEF Goto
    <3>2. job'[w] \in Job
      BY <1>1, <3>1 DEF Job, Labels
    <3>3. JobOK(w)'
      BY <1>1, <1>7, <2>1, <3>1 DEF JobOK, VerifySave, Doing, Job, Holding
    <3>4. job' \in [Workers -> Job] /\ \A v \in Workers : JobOK(v)'
      BY <1>1, <2>1, <2>2, <3>1, <3>2, <3>3, JobStep
    <3> QED
      BY <1>7, <2>1, <3>4 DEF VerifySave, TypeInv, TypeOK, history
  <2>4. CASE Finish(w)
    <3>1. job' \in [Workers -> Job] /\ \A v \in Workers : JobOK(v)'
      BY <1>1, <2>1, <2>2, <2>4, FinishJob
    <3> QED
      BY <1>7, <2>1, <3>1 DEF VerifySave, TypeInv, TypeOK, history
  <2> QED
    BY <1>7, <2>3, <2>4 DEF VerifySave
<1>8. CASE VerifyPing(w)
  <2> DEFINE type == IF job[w].acct \in Managed THEN "guardian_recovery_alert"
                     ELSE "family_recovery_approval_needed"
  <2>1. \A m \in job[w].to : Note(m, type, job[w].rid)
                               \in [to : Accounts, type : NoteTypes, rid : Nat]
    BY <1>1 DEF Note, NoteTypes, Job
  <2>2. notes' = notes \cup {Note(m, type, job[w].rid) : m \in job[w].to}
    BY <1>8 DEF VerifyPing
  <2> HIDE DEF type
  <2>3. notes' \subseteq [to : Accounts, type : NoteTypes, rid : Nat]
    BY <2>1, <2>2 DEF TypeInv, TypeOK
  <2>4. job' \in [Workers -> Job] /\ \A v \in Workers : JobOK(v)'
    BY <1>1, <1>8, FinishJob DEF VerifyPing
  <2> QED
    BY <1>8, <2>3, <2>4 DEF VerifyPing, TypeInv, TypeOK, history
<1> QED
  BY <1>2, <1>3, <1>4, <1>5, <1>6, <1>7, <1>8 DEF Verify

LEMMA AuthorizeType ==
  ASSUME TypeInv, NEW w \in Workers, Authorize(w)
  PROVE  TypeInv'
<1>1. /\ job \in [Workers -> Job] /\ job[w] \in Job /\ JobOK(w)
      /\ clock \in Nat /\ Len(requests) \in Nat /\ Len(challenges) \in Nat
      /\ requests \in Seq(Row) /\ challenges \in Seq(Challenge)
  BY JobOf
<1>2. ASSUME NEW member \in Accounts, NEW acct \in Accounts, ApproveStanding(w, member, acct)
      PROVE  TypeInv'
  <2>1. "approve" \in AllOps \ {"grant"} /\ "find" \in Early
    BY DEF AllOps, Early
  <2>2. job' = [job EXCEPT ![w] = Call("approve", "find", acct, member, NONE)]
        /\ UNCHANGED <<clock, tables, history>>
    BY <1>2 DEF ApproveStanding
  <2> QED
    BY <2>1, <2>2, CallStep
<1>3. CASE ApproveDecide(w)
  <2>1. CASE Finish(w)
    BY <1>3, <2>1, FinishStep DEF ApproveDecide
  <2>2. ASSUME NEW row \in Row,
               job' = [job EXCEPT ![w] = [job[w] EXCEPT !.pc = "save", !.row = row]]
        PROVE  TypeInv'
    <3>1. job'[w] = [job[w] EXCEPT !.pc = "save", !.row = row]
          /\ job' = [job EXCEPT ![w] = job'[w]]
      BY <1>1, <2>2
    <3>2. job'[w] \in Job
      BY <1>1, <3>1 DEF Job, Labels
    <3>3. JobOK(w)'
      BY <1>1, <1>3, <3>1 DEF JobOK, ApproveDecide, Doing, tables, Job, Holding
    <3> QED
      BY <1>3, <3>1, <3>2, <3>3, LocalStep DEF ApproveDecide
  <2>3. job[w].actor \in Accounts
    BY <1>1, <1>3 DEF JobOK, ApproveDecide, Doing
  <2> DEFINE expired == [job[w].row EXCEPT !.status = "expired"]
             granted == [job[w].row EXCEPT !.status = "authorized", !.by = job[w].actor,
                                           !.authAt = clock]
  <2>4. expired \in Row /\ granted \in Row
    BY <1>1, <2>3 DEF Job, Row, Live, Dead
  <2>5. \/ Finish(w)
        \/ job' = [job EXCEPT ![w] = [job[w] EXCEPT !.pc = "save", !.row = expired]]
        \/ job' = [job EXCEPT ![w] = [job[w] EXCEPT !.pc = "save", !.row = granted]]
    BY <1>1, <1>3 DEF ApproveDecide, Finish
  <2> HIDE DEF expired, granted
  <2> QED
    BY <2>1, <2>2, <2>4, <2>5
<1>4. CASE ApproveSave(w)
  <2>1. requests' \in Seq(Row) /\ Len(requests') = Len(requests)
    BY <1>1, <1>4, WriteRowType DEF ApproveSave, Doing, JobOK, Job, Holding
  <2>2. endorsed' \subseteq Nat \X (Accounts \cup {ADMIN})
    BY <1>1, <1>4 DEF ApproveSave, Doing, JobOK, Job, TypeInv, TypeOK
  <2>3. job' \in [Workers -> Job] /\ \A v \in Workers : JobOK(v)'
    BY <1>1, <1>4, <2>1, FinishJob DEF ApproveSave
  <2> QED
    BY <1>4, <2>1, <2>2, <2>3 DEF ApproveSave, TypeInv, TypeOK
<1>5. ASSUME NEW rid \in DOMAIN requests, GrantGet(w, rid)
      PROVE  TypeInv'
  <2>1. rid \in 1..Len(requests) /\ rid \in Nat /\ requests[rid] \in Row
    BY <1>1, LenProperties, ElementOfSeq
  <2>2. requests[rid].acct \in Accounts \cup {NONE}
    BY <2>1 DEF Row
  <2>3. job'[w] = [Call("grant", "save", requests[rid].acct, NONE, NONE)
                     EXCEPT !.rid = rid, !.row = requests[rid]]
        /\ job' = [job EXCEPT ![w] = job'[w]]
    BY <1>1, <1>5 DEF GrantGet
  <2> DEFINE held == [op |-> "grant", pc |-> "save", acct |-> requests[rid].acct,
                      actor |-> NONE, dev |-> NONE, rid |-> rid, row |-> requests[rid],
                      now |-> 0, ch |-> 0, to |-> {}]
  <2>4. job'[w] = held
    BY <2>3 DEF Call
  <2>5. job'[w] \in Job
    BY <2>1, <2>2, <2>4 DEF Job, Labels, AllOps
  <2>6. JobOK(w)'
    <3>1. requests' = requests /\ challenges' = challenges /\ rid # 0
      BY <1>1, <1>5, <2>1 DEF GrantGet, tables
    <3>2. job'[w].op = "grant" /\ job'[w].pc = "save" /\ job'[w].rid = rid
      BY <2>4
    <3> HIDE DEF held
    <3> QED
      BY <1>1, <2>1, <3>1, <3>2 DEF JobOK
  <2> QED
    BY <1>5, <2>3, <2>5, <2>6, LocalStep DEF GrantGet
<1>6. CASE GrantSave(w)
  <2>1. [job[w].row EXCEPT !.status = "authorized", !.by = ADMIN, !.authAt = clock] \in Row
    BY <1>1 DEF Job, Row, Live
  <2>2. requests' \in Seq(Row) /\ Len(requests') = Len(requests)
    BY <1>1, <1>6, <2>1, WriteRowType DEF GrantSave, Doing, JobOK, Job, Holding
  <2>3. endorsed' \subseteq Nat \X (Accounts \cup {ADMIN})
    BY <1>1, <1>6 DEF GrantSave, Job, TypeInv, TypeOK
  <2>4. job' \in [Workers -> Job] /\ \A v \in Workers : JobOK(v)'
    BY <1>1, <1>6, <2>2, FinishJob DEF GrantSave
  <2> QED
    BY <1>6, <2>2, <2>3, <2>4 DEF GrantSave, TypeInv, TypeOK
<1> QED
  BY <1>2, <1>3, <1>4, <1>5, <1>6 DEF Authorize

\* _save, and on to the statement after it or back to the pool.
LEMMA SaveStep ==
  ASSUME TypeInv, NEW w \in Workers, NEW row \in Row, WriteRow(job[w].rid, row),
         job[w].pc \in Holding, job[w].op # "grant",
         NEW label \in {"ping", "drop"}, Goto(w, label) \/ Finish(w),
         UNCHANGED <<clock, challenges, owner, links, notes, resets, history>>
  PROVE  TypeInv'
<1>1. /\ job \in [Workers -> Job] /\ job[w] \in Job /\ JobOK(w)
      /\ Len(requests) \in Nat /\ Len(challenges) \in Nat
  BY JobOf
<1>2. requests' \in Seq(Row) /\ Len(requests') = Len(requests)
  BY <1>1, WriteRowType DEF JobOK, Job
<1>3. CASE Goto(w, label)
  <2>1. job'[w] = [job[w] EXCEPT !.pc = label] /\ job' = [job EXCEPT ![w] = job'[w]]
    BY <1>1, <1>3 DEF Goto
  <2>2. job'[w] \in Job
    BY <1>1, <2>1 DEF Job, Labels
  <2>3. JobOK(w)'
    BY <1>1, <1>2, <2>1 DEF JobOK, Job, Holding
  <2>4. job' \in [Workers -> Job] /\ \A v \in Workers : JobOK(v)'
    BY <1>1, <1>2, <2>1, <2>2, <2>3, JobStep
  <2> QED
    BY <1>2, <2>4 DEF TypeInv, TypeOK, history
<1>4. CASE Finish(w)
  <2>1. job' \in [Workers -> Job] /\ \A v \in Workers : JobOK(v)'
    BY <1>1, <1>2, <1>4, FinishJob
  <2> QED
    BY <1>2, <2>1 DEF TypeInv, TypeOK, history
<1> QED
  BY <1>3, <1>4

\* A ping to the account the handler is about.
LEMMA PingStep ==
  ASSUME TypeInv, NEW w \in Workers, NEW type \in NoteTypes, job[w].acct \in Accounts,
         notes' = notes \cup {Note(job[w].acct, type, job[w].rid)}, Finish(w),
         UNCHANGED <<clock, requests, challenges, owner, links, resets, history>>
  PROVE  TypeInv'
<1>1. job[w] \in Job /\ Len(requests) \in Nat /\ Len(challenges) \in Nat
  BY JobOf
<1>2. Note(job[w].acct, type, job[w].rid) \in [to : Accounts, type : NoteTypes, rid : Nat]
  BY <1>1 DEF Note, Job
<1>3. job' \in [Workers -> Job] /\ \A v \in Workers : JobOK(v)'
  BY <1>1, FinishJob
<1> QED
  BY <1>2, <1>3 DEF TypeInv, TypeOK, history

LEMMA CancelType ==
  ASSUME TypeInv, NEW w \in Workers, Cancel(w)
  PROVE  TypeInv'
<1>1. job[w] \in Job /\ JobOK(w)
  BY JobOf
<1>2. ASSUME NEW actor \in Accounts, NEW acct \in Accounts, CancelStanding(w, actor, acct)
      PROVE  TypeInv'
  <2>1. "cancel" \in AllOps \ {"grant"} /\ "find" \in Early
    BY DEF AllOps, Early
  <2>2. job' = [job EXCEPT ![w] = Call("cancel", "find", acct, actor, NONE)]
        /\ UNCHANGED <<clock, tables, history>>
    BY <1>2 DEF CancelStanding
  <2> QED
    BY <2>1, <2>2, CallStep
<1>3. CASE CancelSave(w)
  <2>1. job[w].actor \in Accounts \cup {NONE} /\ job[w].row \in Row
    BY <1>1 DEF Job
  <2>2. Cancelled(job[w].row, job[w].actor) \in Row
    BY <2>1 DEF Cancelled, Row, Dead
  <2>3. job[w].pc \in Holding /\ job[w].op # "grant"
    BY <1>3 DEF CancelSave, Doing, Holding
  <2> QED
    BY <1>3, <2>2, <2>3, SaveStep DEF CancelSave
<1>4. CASE CancelPing(w)
  <2>1. job[w].acct \in Accounts
    BY <1>1, <1>4 DEF CancelPing, Doing, JobOK
  <2> QED
    BY <1>4, <2>1, PingStep DEF CancelPing, NoteTypes
<1> QED
  BY <1>2, <1>3, <1>4 DEF Cancel

LEMMA CompleteType ==
  ASSUME TypeInv, NEW w \in Workers, Complete(w)
  PROVE  TypeInv'
<1>1. /\ job \in [Workers -> Job] /\ job[w] \in Job /\ JobOK(w)
      /\ clock \in Nat /\ Len(requests) \in Nat /\ Len(challenges) \in Nat
  BY JobOf
<1>2. ASSUME NEW acct \in Accounts, NEW dev \in Devices \cup {NONE}, CompleteStart(w, acct, dev)
      PROVE  TypeInv'
  <2>1. "complete" \in AllOps \ {"grant"} /\ "find" \in Early
    BY DEF AllOps, Early
  <2>2. job' = [job EXCEPT ![w] = Call("complete", "find", acct, NONE, dev)]
        /\ UNCHANGED <<clock, tables, history>>
    BY <1>2 DEF CompleteStart
  <2> QED
    BY <2>1, <2>2, CallStep
<1>3. CASE CompleteDecide(w)
  <2> DEFINE expired == [job[w].row EXCEPT !.status = "expired"]
  <2>1. /\ UNCHANGED <<clock, tables, history>>
        /\ job[w].pc = "decide" /\ job[w].op = "complete"
    BY <1>3 DEF CompleteDecide, Doing
  <2>2. \/ Finish(w)
        \/ job' = [job EXCEPT ![w] = [job[w] EXCEPT !.pc = "save", !.row = expired]]
        \/ job[w].row.status = "authorized" /\ Goto(w, "ldap")
        \/ job[w].row.status = "pending_dwell" /\ Goto(w, "device")
    BY <1>1, <1>3 DEF CompleteDecide, Finish, Goto
  <2>3. CASE job' = [job EXCEPT ![w] = [job[w] EXCEPT !.pc = "save", !.row = expired]]
    <3>1. expired \in Row
      BY <1>1 DEF Job, Row, Live, Dead
    <3>2. job'[w] = [job[w] EXCEPT !.pc = "save", !.row = expired]
          /\ job' = [job EXCEPT ![w] = job'[w]]
      BY <1>1, <2>3
    <3> HIDE DEF expired
    <3>3. job'[w] \in Job
      BY <1>1, <3>1, <3>2 DEF Job, Labels
    <3>4. JobOK(w)'
      BY <1>1, <2>1, <3>2 DEF JobOK, tables, Job, Holding
    <3> QED
      BY <2>1, <3>2, <3>3, <3>4, LocalStep
  <2>4. job[w].rid # 0
    BY <1>1, <2>1 DEF JobOK, Holding
  <2>5. {"ldap", "device"} \subseteq Later
    BY DEF Later
  <2> QED
    BY <2>1, <2>2, <2>3, <2>4, <2>5, FinishStep, GotoStep
<1>4. CASE CompleteDevice(w)
  <2>1. /\ UNCHANGED <<clock, tables, history>>
        /\ job[w].pc = "device"
        /\ Goto(w, "wall") \/ Finish(w)
    BY <1>4 DEF CompleteDevice, At
  <2>2. /\ job[w].rid # 0 /\ job[w].op = "complete"
        /\ job[w].row.status = "pending_dwell"
    BY <1>1, <2>1 DEF JobOK, Holding
  <2>3. "wall" \in Later
    BY DEF Later
  <2> QED
    BY <2>1, <2>2, <2>3, FinishStep, GotoStep
<1>5. CASE CompleteWall(w)
  <2>1. /\ UNCHANGED <<clock, tables, history>>
        /\ job[w].pc = "wall"
        /\ Goto(w, "ldap") \/ Finish(w)
    BY <1>5 DEF CompleteWall, At
  <2>2. /\ job[w].rid # 0 /\ job[w].op = "complete"
        /\ job[w].row.status = "pending_dwell"
    BY <1>1, <2>1 DEF JobOK, Holding
  <2>3. "ldap" \in Later
    BY DEF Later
  <2> QED
    BY <2>1, <2>2, <2>3, FinishStep, GotoStep
<1>6. CASE CompleteSetPassword(w)
  <2> DEFINE reset == [rid |-> job[w].rid, acct |-> job[w].acct,
                       leg |-> job[w].row.status, at |-> clock]
             row == [job[w].row EXCEPT !.status = "completed"]
  <2>1. job[w].pc = "ldap" /\ job[w].op \notin {"none", "grant"} /\ job[w].rid # 0
    BY <1>1, <1>6 DEF CompleteSetPassword, At, JobOK, Holding
  <2>2. reset \in [rid : Nat, acct : Accounts, leg : {"authorized", "pending_dwell"}, at : Nat]
    BY <1>1, <2>1 DEF JobOK, Job
  <2>3. resets' = Append(resets, reset)
    BY <1>6 DEF CompleteSetPassword
  <2> HIDE DEF reset
  <2>4. resets' \in Seq([rid : Nat, acct : Accounts,
                         leg : {"authorized", "pending_dwell"}, at : Nat])
    BY <2>2, <2>3, AppendProperties DEF TypeInv, TypeOK
  <2>5. row \in Row
    BY <1>1 DEF Job, Row, Dead
  <2>6. job'[w] = [job[w] EXCEPT !.pc = "save", !.row = row]
        /\ job' = [job EXCEPT ![w] = job'[w]]
    BY <1>1, <1>6 DEF CompleteSetPassword
  <2> HIDE DEF row
  <2>7. job'[w] \in Job
    BY <1>1, <2>5, <2>6 DEF Job, Labels
  <2>8. requests' = requests /\ challenges' = challenges
    BY <1>6 DEF CompleteSetPassword
  <2>9. JobOK(w)'
    BY <1>1, <2>1, <2>6, <2>8 DEF JobOK, Job, Holding
  <2>10. job' \in [Workers -> Job] /\ \A v \in Workers : JobOK(v)'
    BY <1>1, <2>6, <2>7, <2>8, <2>9, JobStep
  <2> QED
    BY <1>6, <2>4, <2>10 DEF CompleteSetPassword, TypeInv, TypeOK, history
<1>7. CASE CompleteLdapDown(w)
  BY <1>7, FinishStep DEF CompleteLdapDown
<1>8. CASE CompleteSave(w)
  <2>1. job[w].row \in Row /\ job[w].pc \in Holding /\ job[w].op # "grant"
    BY <1>1, <1>8 DEF CompleteSave, Doing, Holding, Job
  <2>2. Goto(w, "ping") \/ Finish(w)
    BY <1>8 DEF CompleteSave
  <2> QED
    BY <1>8, <2>1, <2>2, SaveStep DEF CompleteSave
<1>9. CASE CompletePing(w)
  <2>1. job[w].acct \in Accounts
    BY <1>1, <1>9 DEF CompletePing, Doing, JobOK
  <2> QED
    BY <1>9, <2>1, PingStep DEF CompletePing, NoteTypes
<1> QED
  BY <1>2, <1>3, <1>4, <1>5, <1>6, <1>7, <1>8, <1>9 DEF Complete

LEMMA DeviceOpsType ==
  ASSUME TypeInv, NEW w \in Workers, DeviceOps(w)
  PROVE  TypeInv'
<1>1. /\ job \in [Workers -> Job] /\ job[w] \in Job /\ JobOK(w)
      /\ Len(requests) \in Nat /\ Len(challenges) \in Nat /\ requests \in Seq(Row)
  BY JobOf
<1>2. ASSUME NEW acct \in Accounts, NEW d \in Devices, RegisterDevice(w, acct, d)
      PROVE  TypeInv'
  BY <1>2 DEF RegisterDevice, TypeInv, TypeOK, JobOK, history
<1>3. ASSUME NEW acct \in Accounts, NEW d \in Devices, DeleteFind(w, acct, d)
      PROVE  TypeInv'
  <2>1. "delete" \in AllOps \ {"grant"} /\ "void_find" \in Early
    BY DEF AllOps, Early
  <2>2. job' = [job EXCEPT ![w] = Call("delete", "void_find", acct, NONE, d)]
        /\ UNCHANGED <<clock, tables, history>>
    BY <1>3 DEF DeleteFind
  <2> QED
    BY <2>1, <2>2, CallStep
<1>4. CASE VoidFind(w)
  <2>1. PICK rid \in Nat : rid = ActiveByDevice(job[w].dev) /\ rid \in 0..Len(requests)
    BY <1>1, ActiveByDeviceInRange
  <2>2. PICK label \in {"drop", "void_get"} :
          label = IF rid = 0 THEN "drop" ELSE "void_get"
    OBVIOUS
  <2>3. job'[w] = [job[w] EXCEPT !.pc = label, !.rid = rid]
        /\ job' = [job EXCEPT ![w] = job'[w]]
    BY <1>1, <1>4, <2>1, <2>2 DEF VoidFind
  <2>4. job'[w] \in Job
    BY <1>1, <2>1, <2>3 DEF Job, Labels
  <2>5. requests' = requests /\ challenges' = challenges /\ job[w].pc = "void_find"
    BY <1>4 DEF VoidFind, At, tables
  <2>6. JobOK(w)'
    BY <1>1, <2>1, <2>2, <2>3, <2>5 DEF JobOK, Job, Holding
  <2> QED
    BY <1>4, <2>3, <2>4, <2>6, LocalStep DEF VoidFind
<1>5. CASE VoidGet(w)
  <2>1. requests[job[w].rid] \in Row
    BY <1>1, <1>5, ElementOfSeq DEF JobOK, VoidGet, At, Holding
  <2>2. job'[w] = [job[w] EXCEPT !.pc = "save", !.row = requests[job[w].rid]]
        /\ job' = [job EXCEPT ![w] = job'[w]]
    BY <1>1, <1>5 DEF VoidGet
  <2>3. job'[w] \in Job
    BY <1>1, <2>1, <2>2 DEF Job, Labels
  <2>4. JobOK(w)'
    BY <1>1, <1>5, <2>2 DEF JobOK, VoidGet, At, tables, Job, Holding
  <2> QED
    BY <1>5, <2>2, <2>3, <2>4, LocalStep DEF VoidGet
<1>6. CASE VoidSave(w)
  <2>1. Cancelled(job[w].row, "device_removed") \in Row
    BY <1>1 DEF Cancelled, Row, Dead, Job
  <2>2. job[w].pc \in Holding /\ job[w].op # "grant"
    BY <1>6 DEF VoidSave, Doing, Holding
  <2> QED
    BY <1>6, <2>1, <2>2, SaveStep DEF VoidSave
<1>7. CASE DropDevice(w)
  <2>1. owner' \in [Devices -> Accounts \cup {NONE, DELETED}]
    BY <1>7 DEF DropDevice, TypeInv, TypeOK
  <2>2. job' \in [Workers -> Job] /\ \A v \in Workers : JobOK(v)'
    BY <1>1, <1>7, FinishJob DEF DropDevice
  <2> QED
    BY <1>7, <2>1, <2>2 DEF DropDevice, TypeInv, TypeOK, history
<1> QED
  BY <1>2, <1>3, <1>4, <1>5, <1>6, <1>7 DEF DeviceOps

\* The links, the clock and a worker's death.
LEMMA EnvironmentType ==
  ASSUME TypeInv,
         \/ Tick
         \/ \E a, b \in Accounts : LinkUsable(a, b)
         \/ \E w \in Workers, a, b \in Accounts : RevokeLink(w, a, b)
         \/ \E w \in Workers : Crash(w)
  PROVE  TypeInv'
<1>1. CASE Tick
  BY <1>1 DEF Tick, TypeInv, TypeOK, JobOK, tables, history
<1>2. CASE \E a, b \in Accounts : LinkUsable(a, b)
  <2>1. PICK a \in Accounts, b \in Accounts : LinkUsable(a, b)
    BY <1>2
  <2> QED
    BY <2>1 DEF LinkUsable, TypeInv, TypeOK, JobOK
<1>3. CASE \E w \in Workers, a, b \in Accounts : RevokeLink(w, a, b)
  <2>1. PICK w \in Workers, a \in Accounts, b \in Accounts : RevokeLink(w, a, b)
    BY <1>3
  <2> QED
    BY <2>1 DEF RevokeLink, TypeInv, TypeOK, JobOK, history
<1>4. CASE \E w \in Workers : Crash(w)
  BY <1>4, FinishStep DEF Crash
<1> QED
  BY <1>1, <1>2, <1>3, <1>4

LEMMA InitType == Init => TypeInv
<1> SUFFICES ASSUME Init PROVE TypeInv
  OBVIOUS
<1>1. requests = <<>> /\ challenges = <<>> /\ resets = <<>>
  BY DEF Init
<1>2. \A w \in Workers : job[w] = Idle
  BY DEF Init
<1>3. TypeOK
  BY <1>1, IdleOK DEF Init, TypeOK
<1>4. ASSUME NEW w \in Workers PROVE JobOK(w)
  <2>1. Len(requests) = 0
    BY <1>1
  <2> QED
    BY <1>2, <2>1 DEF JobOK, Idle, Call, Holding
<1> QED
  BY <1>3, <1>4 DEF TypeInv

LEMMA NextType ==
  ASSUME TypeInv, [Next]_vars
  PROVE  TypeInv'
<1>1. CASE UNCHANGED vars
  BY <1>1 DEF vars, tables, history, TypeInv, TypeOK, JobOK
<1>2. ASSUME NEW w \in Workers, Work(w)
      PROVE  TypeInv'
  BY <1>2, FindActiveType, GetRowType, StartType, VerifyType, AuthorizeType, CancelType,
     CompleteType, DeviceOpsType, EnvironmentType DEF Work
<1> QED
  BY <1>1, <1>2, EnvironmentType DEF Next

(***************************************************************************)
(* Whatever the handlers of services/recovery.py and services/devices.py   *)
(* do, in any order and with any failure, the rows they write are rows of  *)
(* the schema and every id they hold is the id of a row.                   *)
(***************************************************************************)
THEOREM TypeCorrect == Spec => []TypeOK
<1>1. Init => TypeInv
  BY InitType
<1>2. TypeInv /\ [Next]_vars => TypeInv'
  BY NextType
<1>3. TypeInv => TypeOK
  BY DEF TypeInv
<1> QED
  BY <1>1, <1>2, <1>3, PTL DEF Spec
=============================================================================
