---------------------------- MODULE SerialProofs ----------------------------
(***************************************************************************)
(* What recovery keeps as long as handlers that overlap are about          *)
(* different accounts.  Nothing in the code enforces that: no lock is held *)
(* and _save writes whole rows under no condition.  The theorems say that  *)
(* an overlap is all that can go wrong, for any number of threads,         *)
(* accounts, devices and requests, and wherever handlers die.  The last    *)
(* sections say what holds of starts and approvals whatever overlaps.      *)
(***************************************************************************)
EXTENDS FactorProofs, FiniteSetTheorems

Busy(w) == job[w].pc # "idle"

\* Handlers under way at the same time are about different accounts, and a
\* deletion, whose hook may reach any account's request, is alone.
Apart ==
  \A v, w \in Workers : (v # w /\ Busy(v) /\ Busy(w)) =>
    job[v].acct # job[w].acct /\ job[v].op # "delete"

\* One thread at a time, as the serial runs have it, is always apart.
LEMMA OneThreadApart ==
  ASSUME \A v, w \in Workers : v = w
  PROVE  Apart
BY DEF Apart

\* Labels at which the row in the locals is the table's, as it was read.
Kept == {"decide", "otp_charge", "otp_consume", "branch", "device", "wall", "ldap"}

Branches == {"pending_family", "pending_dwell", "pending_admin"}

\* The branch of a request whose family, or guardian, is called.
Calling(acct) == IF acct \in Managed THEN "pending_admin" ELSE "pending_family"

\* A row about to be saved by handler j goes on from what the table has, `now`.
GoesOn(j, now) ==
  /\ j.row.recog = now.recog
  /\ j.row.status = "pending_dwell" => now.recog # NONE
  /\ \/ /\ j.op = "verify" /\ now.status = "awaiting_phone" /\ j.row.status \in Branches
        /\ j.to # {} => j.row.status = Calling(j.acct)
     \/ /\ j.op = "approve" /\ now.status = "pending_family"
        /\ j.row.status \in {"expired", "authorized"}
     \/ /\ j.op = "complete" /\ now.status \in {"pending_family", "pending_dwell", "authorized"}
        /\ j.row.status \in {"expired", "completed"}
     \/ j.op = "grant" /\ now.status = "pending_admin"
     \/ j.op = "delete" /\ now.status \in Leaning

\* What the notifications of handler j are going to say is so.
Announces(j, now) ==
  /\ j.rid # 0 /\ now.acct = j.acct
  /\ \/ j.op = "start" /\ now.status = "awaiting_phone"
     \/ j.op = "verify" /\ (j.to # {} => now.status = Calling(j.acct))
     \/ j.op = "cancel" /\ now.status = "cancelled"
     \/ j.op = "complete" /\ now.status = "completed"

\* What handler j knows of its request, whose row in the table is `now`.
Fresh(j, now) ==
  /\ j.pc = "get" => now.status \in Live
  /\ j.pc = "void_get" => now.status \in Leaning
  /\ j.pc \in Kept => j.row = now /\ now.status \in Live
  /\ j.pc \in {"otp_charge", "otp_consume", "branch"} => now.status = "awaiting_phone"
  /\ j.pc = "save" => GoesOn(j, now)
  /\ j.pc = "ping" => Announces(j, now)
  /\ j.pc = "drop" => j.op = "delete"

WithRow == Kept \cup {"get", "void_get", "save", "ping"}

\* A start that is past the superseding has left nothing live behind.
Clear(j) ==
  j.pc \in {"resolve", "insert"} =>
    /\ j.op = "start"
    /\ \A i \in 1..Len(requests) : requests[i].acct = j.acct => requests[i].status \notin Live

\* A device in the locals of a start or of a dwell past its check is registered.
Vouched(j) ==
  /\ j.pc = "insert" =>
       /\ j.row.acct = j.acct /\ j.row.status = "awaiting_phone"
       /\ j.row.recog # NONE => j.row.recog \in Devices /\ owner[j.row.recog] \in Accounts
  /\ (j.pc \in {"wall", "ldap"} /\ j.row.status = "pending_dwell") =>
       j.row.recog \in Devices /\ owner[j.row.recog] \in Accounts

Knows(w) == Fresh(job[w], requests[job[w].rid]) /\ Clear(job[w]) /\ Vouched(job[w])

\* A live request is the newest of its account, and a dwell leans on a device.
NewestLive ==
  \A i, j \in 1..Len(requests) :
    (requests[i].status \in Live /\ requests[i].acct = requests[j].acct) => j <= i

DwellsLean ==
  \A i \in 1..Len(requests) : requests[i].status = "pending_dwell" => requests[i].recog # NONE

Orderly == NewestLive /\ DwellsLean /\ \A w \in Workers : Knows(w)

\* A step moves one request on, of the account its handler is about or for the
\* deletion of a device, inserts one, or leaves the table alone.
MovesOn(w, rid, row) ==
  /\ rid \in 1..Len(requests) /\ WriteRow(rid, row)
  /\ requests[rid].status \in Live
  /\ Rank(row.status) > Rank(requests[rid].status)
  /\ row.acct = requests[rid].acct /\ row.recog = requests[rid].recog
  /\ row.status = "pending_dwell" => row.recog # NONE
  /\ job[w].op # "delete" => row.acct = job[w].acct

TableStep(w) ==
  \/ UNCHANGED requests
  \/ Busy(w) /\ \E rid, row : MovesOn(w, rid, row)
  \/ At(w, "insert") /\ requests' = Append(requests, [job[w].row EXCEPT !.created = clock])

\* A registered device stays so but for its deletion.
OwnerStep(w) ==
  \A d \in Devices : owner[d] \in Accounts => owner'[d] = owner[d] \/ job[w].op = "delete"
-----------------------------------------------------------------------------
LEMMA Handler ==
  ASSUME Standing, NEW w \in Workers
  PROVE  /\ job \in [Workers -> Job] /\ job[w] \in Job /\ JobOK(w) /\ JobStanding(w)
         /\ requests \in Seq(Row) /\ Len(requests) \in Nat
         /\ \A i \in 1..Len(requests) : requests[i] \in Row
         /\ owner \in [Devices -> Accounts \cup {NONE, DELETED}]
<1>1. TypeInv /\ JobStanding(w)
  BY DEF Standing, Evidence
<1>2. requests \in Seq(Row) /\ Len(requests) \in Nat
  BY <1>1, LenProperties DEF TypeInv, TypeOK
<1>3. \A i \in 1..Len(requests) : requests[i] \in Row
  BY <1>2, ElementOfSeq
<1> QED
  BY <1>1, <1>2, <1>3, JobOf DEF TypeInv, TypeOK

\* A row in the locals, or about to be read or announced, is in the table, and
\* belongs to the account the handler is about unless a device is deleted.
LEMMA OwnRow ==
  ASSUME Standing, Orderly, NEW w \in Workers, job[w].pc \in WithRow
  PROVE  /\ job[w].rid \in 1..Len(requests)
         /\ job[w].op # "delete" => requests[job[w].rid].acct = job[w].acct
<1>1. JobOK(w) /\ JobStanding(w) /\ Len(requests) \in Nat /\ Fresh(job[w], requests[job[w].rid])
  BY Handler DEF Orderly, Knows
<1>2. job[w].rid \in 1..Len(requests)
  BY <1>1 DEF JobOK, Holding, WithRow, Kept, Fresh, Announces
<1>3. CASE job[w].pc \in Kept \cup {"save"}
  BY <1>1, <1>2, <1>3 DEF JobStanding, HoldsRow, Kept
<1>4. CASE job[w].pc = "get"
  BY <1>1, <1>2, <1>4 DEF JobStanding, At
<1>5. CASE job[w].pc = "void_get"
  BY <1>1, <1>2, <1>5 DEF JobOK
<1>6. CASE job[w].pc = "ping"
  BY <1>1, <1>2, <1>6 DEF Fresh, Announces
<1> QED
  BY <1>2, <1>3, <1>4, <1>5, <1>6 DEF WithRow

LEMMA Written ==
  ASSUME requests \in Seq(Row), Len(requests) \in Nat,
         NEW rid \in 1..Len(requests), NEW row, WriteRow(rid, row)
  PROVE  /\ Len(requests') = Len(requests)
         /\ \A i \in 1..Len(requests) : requests'[i] = IF i = rid THEN row ELSE requests[i]
BY DEF WriteRow

LEMMA Inserted ==
  ASSUME requests \in Seq(Row), Len(requests) \in Nat, NEW row \in Row,
         requests' = Append(requests, row)
  PROVE  /\ Len(requests') = Len(requests) + 1
         /\ \A i \in 1..Len(requests) : requests'[i] = requests[i]
         /\ requests'[Len(requests) + 1] = row
OBVIOUS

\* A row with a further rank than the one it replaces.
LEMMA Further ==
  ASSUME NEW old, NEW new,
         \/ old \in Live /\ new \in {"cancelled", "completed", "expired"}
         \/ old = "awaiting_phone" /\ new \in Branches
         \/ old \in Branches /\ new = "authorized"
  PROVE  old \in Live /\ Rank(new) > Rank(old)
BY DEF Live, Rank, Branches

\* What saving the row in the locals does.
LEMMA SaveMovesOn ==
  ASSUME Standing, Orderly, NEW w \in Workers, At(w, "save"), job[w].op \in {"verify", "approve", "complete"},
         WriteRow(job[w].rid, job[w].row)
  PROVE  MovesOn(w, job[w].rid, job[w].row)
<1>1. /\ job[w].rid \in 1..Len(requests) /\ job[w].op # "delete"
      /\ requests[job[w].rid].acct = job[w].acct
  BY OwnRow DEF At, WithRow
<1>2. GoesOn(job[w], requests[job[w].rid]) /\ JobStanding(w)
  BY Handler DEF Orderly, Knows, Fresh, At
<1>3. job[w].row.acct = requests[job[w].rid].acct
  BY <1>2 DEF JobStanding, HoldsRow, At
<1>4. /\ requests[job[w].rid].status \in Live
      /\ Rank(job[w].row.status) > Rank(requests[job[w].rid].status)
  <2>1. CASE job[w].op = "verify"
    BY <1>2, <2>1, Further DEF GoesOn
  <2>2. CASE job[w].op = "approve"
    BY <1>2, <2>2, Further DEF GoesOn, Branches, Live
  <2>3. CASE job[w].op = "complete"
    BY <1>2, <2>3, Further DEF GoesOn, Live
  <2> QED
    BY <2>1, <2>2, <2>3
<1> QED
  BY <1>1, <1>2, <1>3, <1>4 DEF MovesOn, GoesOn

\* What ending the request in the locals does.
LEMMA CancelMovesOn ==
  ASSUME Standing, Orderly, NEW w \in Workers, NEW why,
         \/ At(w, "decide") /\ job[w].op \in {"start", "cancel"}
         \/ Doing(w, "delete", "save"),
         WriteRow(job[w].rid, Cancelled(job[w].row, why))
  PROVE  MovesOn(w, job[w].rid, Cancelled(job[w].row, why))
<1> DEFINE row == Cancelled(job[w].row, why)
           now == requests[job[w].rid]
<1>1. /\ job[w].rid \in 1..Len(requests)
      /\ job[w].op # "delete" => now.acct = job[w].acct
      /\ JobStanding(w) /\ Fresh(job[w], now) /\ job[w].row \in Row
  BY OwnRow, Handler DEF At, Doing, WithRow, Kept, Orderly, Knows, Job
<1>2. row.status = "cancelled" /\ row.acct = job[w].row.acct /\ row.recog = job[w].row.recog
  BY <1>1 DEF Cancelled, Row
<1>3. row.acct = now.acct
  BY <1>1, <1>2 DEF JobStanding, HoldsRow, At, Doing
<1>4. now.status \in Live /\ row.recog = now.recog
  BY <1>1, <1>2 DEF Fresh, At, Doing, Kept, GoesOn, Live, Leaning
<1>5. Rank(row.status) > Rank(now.status)
  BY <1>2, <1>4, Further
<1>6. /\ WriteRow(job[w].rid, row)
      /\ job[w].op # "delete" => row.acct = job[w].acct
      /\ row.status # "pending_dwell"
  BY <1>1, <1>2, <1>3
<1> HIDE DEF row
<1>7. MovesOn(w, job[w].rid, row)
  BY <1>1, <1>3, <1>4, <1>5, <1>6 DEF MovesOn
<1> QED
  BY <1>7 DEF row

LEMMA GrantMovesOn ==
  ASSUME Standing, Orderly, NEW w \in Workers, GrantSave(w)
  PROVE  \E row : MovesOn(w, job[w].rid, row)
<1> DEFINE row == [job[w].row EXCEPT !.status = "authorized", !.by = ADMIN, !.authAt = clock]
           now == requests[job[w].rid]
<1>1. /\ job[w].rid \in 1..Len(requests) /\ now.acct = job[w].acct
      /\ JobStanding(w) /\ Fresh(job[w], now) /\ job[w].row \in Row
      /\ job[w].pc = "save" /\ job[w].op = "grant"
  BY OwnRow, Handler DEF GrantSave, Doing, WithRow, Kept, Orderly, Knows, Job
<1>2. row.status = "authorized" /\ row.acct = job[w].row.acct /\ row.recog = job[w].row.recog
  BY <1>1 DEF Row
<1>3. row.acct = now.acct
  BY <1>1, <1>2 DEF JobStanding, HoldsRow
<1>4. now.status = "pending_admin" /\ row.recog = now.recog
  BY <1>1, <1>2 DEF Fresh, GoesOn
<1>5. now.status \in Live /\ Rank(row.status) > Rank(now.status)
  BY <1>2, <1>4, Further DEF Branches
<1>6. WriteRow(job[w].rid, row)
  BY DEF GrantSave
<1> QED
  BY <1>1, <1>2, <1>3, <1>4, <1>5, <1>6 DEF MovesOn

LEMMA TableSteps ==
  ASSUME Standing, Orderly, NEW w \in Workers, Work(w)
  PROVE  TableStep(w)
<1>1. CASE FindActive(w) \/ GetRow(w)
  BY <1>1 DEF TableStep, FindActive, GetRow, tables
<1>2. CASE Start(w)
  <2>1. CASE StartSupersede(w)
    BY <2>1, CancelMovesOn DEF StartSupersede, Doing, At, TableStep, Busy
  <2>2. CASE StartInsert(w)
    BY <2>2 DEF StartInsert, TableStep
  <2> QED
    BY <1>2, <2>1, <2>2 DEF Start, TableStep, StartBudget, StartOtpBudget, StartSendOtp,
       StartSendFails, StartResolve, StartPing, tables
<1>3. CASE Verify(w)
  <2>1. CASE VerifySave(w)
    BY <2>1, SaveMovesOn DEF VerifySave, Doing, At, TableStep, Busy
  <2> QED
    BY <1>3, <2>1 DEF Verify, TableStep, VerifyStart, VerifySelect, VerifyCharge,
       VerifyConsume, VerifyBranch, VerifyPing, tables
<1>4. CASE Authorize(w)
  <2>1. CASE ApproveSave(w)
    BY <2>1, SaveMovesOn DEF ApproveSave, Doing, At, TableStep, Busy
  <2>2. CASE GrantSave(w)
    BY <2>2, GrantMovesOn DEF GrantSave, Doing, TableStep, Busy
  <2> QED
    BY <1>4, <2>1, <2>2 DEF Authorize, TableStep, ApproveStanding, ApproveDecide, GrantGet, tables
<1>5. CASE Cancel(w)
  <2>1. CASE CancelSave(w)
    BY <2>1, CancelMovesOn DEF CancelSave, Doing, At, TableStep, Busy
  <2> QED
    BY <1>5, <2>1 DEF Cancel, TableStep, CancelStanding, CancelPing, tables
<1>6. CASE Complete(w)
  <2>1. CASE CompleteSave(w)
    BY <2>1, SaveMovesOn DEF CompleteSave, Doing, At, TableStep, Busy
  <2> QED
    BY <1>6, <2>1 DEF Complete, TableStep, CompleteStart, CompleteDecide, CompleteDevice,
       CompleteWall, CompleteSetPassword, CompleteLdapDown, CompletePing, tables
<1>7. CASE DeviceOps(w)
  <2>1. CASE VoidSave(w)
    BY <2>1, CancelMovesOn DEF VoidSave, Doing, TableStep, Busy
  <2> QED
    BY <1>7, <2>1 DEF DeviceOps, TableStep, RegisterDevice, DeleteFind, VoidFind, VoidGet,
       DropDevice, tables
<1>8. CASE \E a, b \in Accounts : RevokeLink(w, a, b)
  BY <1>8 DEF TableStep, RevokeLink
<1> QED
  BY <1>1, <1>2, <1>3, <1>4, <1>5, <1>6, <1>7, <1>8 DEF Work

\* The row a start inserts.
LEMMA NewRow ==
  ASSUME Standing, Orderly, NEW w \in Workers, At(w, "insert")
  PROVE  /\ [job[w].row EXCEPT !.created = clock] \in Row
         /\ [job[w].row EXCEPT !.created = clock].acct = job[w].acct
         /\ [job[w].row EXCEPT !.created = clock].status = "awaiting_phone"
         /\ [job[w].row EXCEPT !.created = clock].recog = job[w].row.recog
         /\ [job[w].row EXCEPT !.created = clock].created = clock
<1>1. job[w].row \in Row /\ clock \in Nat /\ Vouched(job[w])
  BY Handler DEF Job, Orderly, Knows, Standing, Evidence, TypeInv, TypeOK
<1> QED
  BY <1>1 DEF Row, Vouched, At

LEMMA TableStays ==
  ASSUME Standing, Orderly, NEW w \in Workers, TableStep(w)
  PROVE  NewestLive' /\ DwellsLean'
<1>1. NewestLive /\ DwellsLean /\ Clear(job[w])
      /\ requests \in Seq(Row) /\ Len(requests) \in Nat
  BY Handler DEF Orderly, Knows
<1>2. CASE UNCHANGED requests
  BY <1>1, <1>2 DEF NewestLive, DwellsLean
<1>3. ASSUME NEW rid, NEW row, MovesOn(w, rid, row)
      PROVE  NewestLive' /\ DwellsLean'
  <2>1. /\ Len(requests') = Len(requests) /\ rid \in 1..Len(requests)
        /\ \A i \in 1..Len(requests) : requests'[i] = IF i = rid THEN row ELSE requests[i]
    BY <1>1, <1>3, Written DEF MovesOn
  <2>2. /\ row.acct = requests[rid].acct /\ row.recog = requests[rid].recog
        /\ requests[rid].status \in Live
        /\ row.status = "pending_dwell" => row.recog # NONE
    BY <1>3 DEF MovesOn
  <2>3. \A i \in 1..Len(requests) :
          /\ requests'[i].acct = requests[i].acct
          /\ requests'[i].status \in Live => requests[i].status \in Live
          /\ requests'[i].status = "pending_dwell" =>
               requests'[i].recog # NONE \/ requests'[i] = requests[i]
    BY <2>1, <2>2
  <2> QED
    BY <1>1, <2>1, <2>3 DEF NewestLive, DwellsLean
<1>4. CASE At(w, "insert") /\ requests' = Append(requests, [job[w].row EXCEPT !.created = clock])
  <2> DEFINE row == [job[w].row EXCEPT !.created = clock]
  <2>1. row \in Row /\ row.acct = job[w].acct /\ row.status = "awaiting_phone"
    BY <1>4, NewRow
  <2> HIDE DEF row
  <2>2. /\ Len(requests') = Len(requests) + 1
        /\ \A i \in 1..Len(requests) : requests'[i] = requests[i]
        /\ requests'[Len(requests) + 1] = row
    BY <1>1, <1>4, <2>1, Inserted DEF row
  <2>3. \A i \in 1..Len(requests) : requests[i].acct = row.acct => requests[i].status \notin Live
    BY <1>1, <1>4, <2>1 DEF Clear, At
  <2>4. \A i \in 1..Len(requests') : i \in 1..Len(requests) \/ i = Len(requests) + 1
    BY <1>1, <2>2
  <2>5. NewestLive'
    BY <1>1, <2>2, <2>3, <2>4 DEF NewestLive
  <2>6. DwellsLean'
    BY <1>1, <2>1, <2>2, <2>4 DEF DwellsLean
  <2> QED
    BY <2>5, <2>6
<1> QED
  BY <1>2, <1>3, <1>4 DEF TableStep

\* What handler v knows stays so as long as the rows of its account do.
LEMMA KnowsStays ==
  ASSUME Standing, Orderly, NEW v \in Workers, job'[v] = job[v],
         job[v].pc \in WithRow => requests'[job[v].rid] = requests[job[v].rid],
         \A i \in 1..Len(requests') :
           requests'[i].acct = job[v].acct =>
             i \in 1..Len(requests) /\ requests[i] = requests'[i],
         \A d \in Devices : owner[d] \in Accounts => owner'[d] = owner[d]
  PROVE  Knows(v)'
<1> DEFINE j == job[v]
<1>1. Fresh(j, requests[j.rid]) /\ Clear(j) /\ Vouched(j)
  BY DEF Orderly, Knows
<1>2. Fresh(j, requests'[j.rid])
  <2>1. CASE j.pc \in WithRow
    BY <1>1, <2>1
  <2>2. CASE j.pc \notin WithRow
    BY <1>1, <2>2 DEF Fresh, WithRow, Kept
  <2> QED
    BY <2>1, <2>2
<1>3. job'[v] = j
  OBVIOUS
<1> HIDE DEF j
<1>4. PICK k : k = j
  OBVIOUS
<1>5. Clear(k)'
  BY <1>1, <1>3, <1>4 DEF Clear
<1>6. Vouched(k)'
  BY <1>1, <1>4 DEF Vouched
<1> QED
  BY <1>2, <1>3, <1>4, <1>5, <1>6 DEF Knows

LEMMA IdleKnows ==
  ASSUME NEW w \in Workers,
         job'[w].pc \in {"idle", "find", "otp_budget", "otp_send", "void_find"}
  PROVE  Knows(w)'
BY DEF Knows, Fresh, Clear, Vouched, Kept

LEMMA OthersKnow ==
  ASSUME Standing, Orderly, Apart, Apart', NEW w \in Workers, TableStep(w), OwnerStep(w),
         NEW v \in Workers, v # w, job'[v] = job[v]
  PROVE  Knows(v)'
<1>1. Knows(v) /\ JobOK(w) /\ JobOK(v) /\ Clear(job[w]) /\ requests \in Seq(Row) /\ Len(requests) \in Nat
  BY Handler DEF Orderly, Knows
<1>2. CASE ~Busy(v)
  BY <1>2, IdleKnows DEF Busy
<1>3. CASE Busy(v) /\ ~Busy(w)
  <2>1. UNCHANGED requests
    BY <1>3 DEF TableStep, Busy, At
  <2>2. \A d \in Devices : owner[d] \in Accounts => owner'[d] = owner[d]
    BY <1>1, <1>3 DEF OwnerStep, Busy, JobOK
  <2> QED
    BY <2>1, <2>2, KnowsStays
<1>4. CASE Busy(v) /\ Busy(w)
  <2>1. job[v].acct # job[w].acct /\ job[v].op # "delete" /\ job[w].op # "delete"
    BY <1>4 DEF Apart
  <2>2. \A d \in Devices : owner[d] \in Accounts => owner'[d] = owner[d]
    BY <2>1 DEF OwnerStep
  <2>3. job[v].pc \in WithRow =>
          job[v].rid \in 1..Len(requests) /\ requests[job[v].rid].acct = job[v].acct
    BY <2>1, OwnRow
  <2>4. /\ \A i \in 1..Len(requests) : requests[i].acct = job[v].acct => requests'[i] = requests[i]
        /\ \A i \in 1..Len(requests') :
             requests'[i].acct = job[v].acct => i \in 1..Len(requests) /\ requests[i] = requests'[i]
    <3>1. CASE UNCHANGED requests
      BY <3>1
    <3>2. ASSUME NEW rid, NEW row, MovesOn(w, rid, row) PROVE <2>4!1 /\ <2>4!2
      <4>1. /\ Len(requests') = Len(requests)
            /\ \A i \in 1..Len(requests) : requests'[i] = IF i = rid THEN row ELSE requests[i]
        BY <1>1, <3>2, Written DEF MovesOn
      <4>2. row.acct = job[w].acct /\ requests[rid].acct = job[w].acct
        BY <2>1, <3>2 DEF MovesOn
      <4> QED
        BY <2>1, <4>1, <4>2
    <3>3. CASE At(w, "insert") /\ requests' = Append(requests, [job[w].row EXCEPT !.created = clock])
      <4> DEFINE row == [job[w].row EXCEPT !.created = clock]
      <4>1. row \in Row /\ row.acct = job[w].acct
        BY <3>3, NewRow
      <4> HIDE DEF row
      <4>2. /\ Len(requests') = Len(requests) + 1
            /\ \A i \in 1..Len(requests) : requests'[i] = requests[i]
            /\ requests'[Len(requests) + 1] = row
        BY <1>1, <3>3, <4>1, Inserted DEF row
      <4>3. \A i \in 1..Len(requests') : i \in 1..Len(requests) \/ i = Len(requests) + 1
        BY <1>1, <4>2
      <4> QED
        BY <2>1, <4>1, <4>2, <4>3
    <3> QED
      BY <3>1, <3>2, <3>3 DEF TableStep
  <2> QED
    BY <2>2, <2>3, <2>4, KnowsStays
<1> QED
  BY <1>2, <1>3, <1>4
-----------------------------------------------------------------------------
(* What a handler knows after each of its own steps.                       *)

LEMMA DoneKnows ==
  ASSUME Standing, NEW w \in Workers, Finish(w)
  PROVE  Knows(w)'
<1>1. job'[w] = Idle
  BY Handler DEF Finish
<1> QED
  BY <1>1, IdleKnows DEF Idle, Call

LEMMA CallKnows ==
  ASSUME Standing, NEW w \in Workers, NEW op, NEW acct, NEW actor, NEW dev,
         NEW label \in {"find", "otp_budget", "void_find"},
         job' = [job EXCEPT ![w] = Call(op, label, acct, actor, dev)]
  PROVE  Knows(w)'
<1>1. job'[w].pc = label
  BY Handler DEF Call
<1> QED
  BY <1>1, IdleKnows

\* A handler that goes on to another label.
LEMMA Moved ==
  ASSUME Standing, NEW w \in Workers, NEW label, Goto(w, label)
  PROVE  /\ job'[w].pc = label /\ job'[w].op = job[w].op /\ job'[w].acct = job[w].acct
         /\ job'[w].actor = job[w].actor /\ job'[w].dev = job[w].dev
         /\ job'[w].rid = job[w].rid /\ job'[w].row = job[w].row /\ job'[w].to = job[w].to
BY Handler DEF Goto, Job

\* The first SELECT finds a live request of the account, or there is none.
LEMMA ActiveForFinds ==
  ASSUME requests \in Seq(Row), NEW acct
  PROVE  \/ /\ ActiveFor(acct) \in 1..Len(requests)
            /\ requests[ActiveFor(acct)].status \in Live
            /\ requests[ActiveFor(acct)].acct = acct
         \/ /\ ActiveFor(acct) = 0
            /\ \A i \in 1..Len(requests) : requests[i].acct = acct => requests[i].status \notin Live
<1> DEFINE I == {i \in 1..Len(requests) : requests[i].acct = acct /\ requests[i].status \in Live}
<1>1. Len(requests) \in Nat
  BY LenProperties
<1>2. I # {} => Max(I) \in I
  BY <1>1, MaxIsMember
<1>3. ActiveFor(acct) = IF I # {} THEN Max(I) ELSE 0
  BY Zenon DEF ActiveFor, SelectLastInSeq
<1>4. CASE I # {}
  <2>1. ActiveFor(acct) \in I
    <3> HIDE DEF I
    <3> QED
      BY <1>2, <1>3, <1>4
  <2> QED
    BY <2>1
<1>5. CASE I = {}
  <2>1. ActiveFor(acct) = 0
    <3> HIDE DEF I
    <3> QED
      BY <1>3, <1>5
  <2> QED
    BY <1>5, <2>1
<1> QED
  BY <1>4, <1>5

LEMMA FindKnows ==
  ASSUME Standing, Orderly, NEW w \in Workers, FindActive(w) \/ GetRow(w)
  PROVE  Knows(w)'
<1>1. /\ job \in [Workers -> Job] /\ job[w] \in Job /\ Knows(w)
      /\ requests \in Seq(Row) /\ JobOK(w)
  BY Handler DEF Orderly
<1>2. requests' = requests
  BY DEF FindActive, GetRow, tables
<1>3. CASE FindActive(w)
  <2> DEFINE rid == ActiveFor(job[w].acct)
  <2>1. \/ rid \in 1..Len(requests) /\ requests[rid].status \in Live
        \/ rid = 0 /\ \A i \in 1..Len(requests) :
                        requests[i].acct = job[w].acct => requests[i].status \notin Live
    BY <1>1, ActiveForFinds
  <2> HIDE DEF rid
  <2>2. job' = [job EXCEPT ![w] =
                  IF rid # 0 THEN [job[w] EXCEPT !.pc = "get", !.rid = rid]
                  ELSE IF job[w].op = "start" THEN [job[w] EXCEPT !.pc = "resolve"]
                  ELSE Idle]
    BY <1>3 DEF FindActive, rid
  <2>3. CASE rid # 0
    <3>1. job'[w].pc = "get" /\ job'[w].rid = rid
      BY <1>1, <2>2, <2>3 DEF Job
    <3> QED
      BY <1>2, <2>1, <2>3, <3>1 DEF Knows, Fresh, Clear, Vouched, Kept
  <2>4. CASE rid = 0 /\ job[w].op = "start"
    <3>1. job'[w].pc = "resolve" /\ job'[w].op = "start" /\ job'[w].acct = job[w].acct
      BY <1>1, <2>2, <2>4 DEF Job
    <3> QED
      BY <1>2, <2>1, <2>4, <3>1 DEF Knows, Fresh, Clear, Vouched, Kept
  <2>5. CASE rid = 0 /\ job[w].op # "start"
    BY <1>1, <2>2, <2>5, DoneKnows DEF Finish
  <2> QED
    BY <2>3, <2>4, <2>5
<1>4. CASE GetRow(w)
  <2>1. /\ job'[w].pc = "decide" /\ job'[w].rid = job[w].rid
        /\ job'[w].row = requests[job[w].rid]
    BY <1>1, <1>4 DEF GetRow, Job
  <2>2. requests[job[w].rid].status \in Live
    BY <1>1, <1>4 DEF GetRow, At, Knows, Fresh
  <2> QED
    BY <1>2, <2>1, <2>2 DEF Knows, Fresh, Clear, Vouched, Kept
<1> QED
  BY <1>3, <1>4

LEMMA StartKnows ==
  ASSUME Standing, Orderly, NEW w \in Workers, Start(w)
  PROVE  Knows(w)'
<1>1. /\ job \in [Workers -> Job] /\ job[w] \in Job /\ Knows(w) /\ JobOK(w)
      /\ requests \in Seq(Row) /\ Len(requests) \in Nat
  BY Handler DEF Orderly
<1>2. ASSUME NEW acct \in Subjects, NEW dev \in Devices \cup {NONE}, StartBudget(w, acct, dev)
      PROVE  Knows(w)'
  BY <1>2, CallKnows DEF StartBudget
<1>3. CASE StartOtpBudget(w)
  <2>1. Finish(w) \/ job'[w].pc = "otp_send"
    BY <1>1, <1>3 DEF StartOtpBudget, Job
  <2> QED
    BY <2>1, DoneKnows, IdleKnows
<1>4. CASE StartSendOtp(w)
  BY <1>4, Moved, IdleKnows DEF StartSendOtp
<1>5. CASE StartSendFails(w) \/ StartPing(w)
  BY <1>5, DoneKnows DEF StartSendFails, StartPing
<1>6. CASE StartSupersede(w)
  <2> DEFINE rid == job[w].rid
             row == Cancelled(job[w].row, "superseded")
  <2>1. /\ rid \in 1..Len(requests) /\ requests[rid].acct = job[w].acct
        /\ Fresh(job[w], requests[rid]) /\ job[w].row \in Row /\ job[w].pc = "decide"
        /\ job[w].op = "start"
    BY <1>1, <1>6, OwnRow DEF StartSupersede, Doing, WithRow, Kept, Knows, Job
  <2>2. row.status = "cancelled"
    BY <2>1 DEF Cancelled, Row
  <2>3. requests[rid].status \in Live
    BY <2>1 DEF Fresh, Kept
  <2>4. \A i \in 1..Len(requests) :
          (requests[i].acct = job[w].acct /\ requests[i].status \in Live) => i = rid
    BY <1>1, <2>1, <2>3 DEF Orderly, NewestLive
  <2> HIDE DEF row
  <2>5. /\ Len(requests') = Len(requests)
        /\ \A i \in 1..Len(requests) : requests'[i] = IF i = rid THEN row ELSE requests[i]
    BY <1>1, <1>6, <2>1, Written DEF StartSupersede, row
  <2>6. \A i \in 1..Len(requests') : requests'[i].acct = job[w].acct => requests'[i].status \notin Live
    BY <2>2, <2>4, <2>5 DEF Live
  <2>7. job'[w].pc = "resolve" /\ job'[w].op = "start" /\ job'[w].acct = job[w].acct
    BY <1>1, <1>6, <2>1 DEF StartSupersede, Job
  <2> QED
    BY <2>6, <2>7 DEF Knows, Fresh, Clear, Vouched, Kept
<1>7. CASE StartResolve(w)
  <2>1. /\ job'[w].pc = "insert" /\ job'[w].op = job[w].op /\ job'[w].acct = job[w].acct
        /\ job'[w].row = [NoRow EXCEPT !.acct = job[w].acct, !.status = "awaiting_phone",
                                       !.recog = Resolve(job[w].dev)]
        /\ requests' = requests /\ owner' = owner /\ job[w].pc = "resolve"
    BY <1>1, <1>7 DEF StartResolve, Job, At, tables
  <2>2. /\ job'[w].row.acct = job[w].acct /\ job'[w].row.status = "awaiting_phone"
        /\ job'[w].row.recog = Resolve(job[w].dev)
    BY <2>1 DEF NoRow
  <2>3. Resolve(job[w].dev) = NONE \/
          (Resolve(job[w].dev) \in Devices /\ owner[Resolve(job[w].dev)] \in Accounts)
    BY <1>1 DEF Resolve, Registered, Job
  <2>4. job[w].op = "start" /\ \A i \in 1..Len(requests) :
                                 requests[i].acct = job[w].acct => requests[i].status \notin Live
    BY <1>1, <2>1 DEF Knows, Clear
  <2>5. PICK d : d = Resolve(job[w].dev)
    OBVIOUS
  <2> QED
    BY <2>1, <2>2, <2>3, <2>4, <2>5 DEF Knows, Fresh, Clear, Vouched, Kept
<1>8. CASE StartInsert(w)
  <2> DEFINE row == [job[w].row EXCEPT !.created = clock]
  <2>1. /\ row \in Row /\ row.acct = job[w].acct /\ row.status = "awaiting_phone"
        /\ job[w].op = "start"
    BY <1>1, <1>8, NewRow DEF StartInsert, At, Knows, Clear
  <2> HIDE DEF row
  <2>2. requests'[Len(requests) + 1] = row
    BY <1>1, <1>8, <2>1, Inserted DEF StartInsert, row
  <2>3. /\ job'[w].pc = "ping" /\ job'[w].op = "start" /\ job'[w].acct = job[w].acct
        /\ job'[w].rid = Len(requests) + 1
    BY <1>1, <1>8, <2>1 DEF StartInsert, Job
  <2>4. Len(requests) + 1 # 0
    BY <1>1
  <2> QED
    BY <2>1, <2>2, <2>3, <2>4 DEF Knows, Fresh, Clear, Vouched, Announces, Kept
<1> QED
  BY <1>2, <1>3, <1>4, <1>5, <1>6, <1>7, <1>8 DEF Start

LEMMA VerifyKnows ==
  ASSUME Standing, Orderly, NEW w \in Workers, Verify(w)
  PROVE  Knows(w)'
<1> DEFINE now == requests[job[w].rid]
<1>1. /\ job \in [Workers -> Job] /\ job[w] \in Job /\ Knows(w) /\ JobOK(w)
      /\ requests \in Seq(Row) /\ Len(requests) \in Nat
  BY Handler DEF Orderly
<1>2. ASSUME NEW acct \in Accounts, VerifyStart(w, acct)
      PROVE  Knows(w)'
  BY <1>2, CallKnows DEF VerifyStart
<1>3. ASSUME NEW matches \in BOOLEAN, NEW t \in job[w].now .. clock, VerifySelect(w, matches, t)
      PROVE  Knows(w)'
  <2> DEFINE id == LatestActive(challenges, PhoneOf[job[w].acct], "recovery", t, Hour)
             verdict == IF job[w].row.status # "awaiting_phone" \/ id = 0 THEN "none"
                        ELSE Verdict(challenges[id], matches, t)
  <2>1. /\ requests' = requests /\ job[w].pc = "decide"
        /\ job' = [job EXCEPT ![w] =
                     IF Charged(verdict) THEN [job[w] EXCEPT !.pc = "otp_charge", !.ch = id]
                     ELSE IF verdict = "accepted"
                          THEN [job[w] EXCEPT !.pc = "otp_consume", !.ch = id]
                     ELSE Idle]
    BY <1>3 DEF VerifySelect, Doing, tables
  <2>2. job[w].row = now /\ now.status \in Live
    BY <1>1, <2>1 DEF Knows, Fresh, Kept
  <2>3. Charged(verdict) \/ verdict = "accepted" => job[w].row.status = "awaiting_phone"
    BY DEF Charged
  <2> HIDE DEF verdict, id
  <2>4. CASE Charged(verdict) \/ verdict = "accepted"
    <3>1. /\ job'[w].pc \in {"otp_charge", "otp_consume"}
          /\ job'[w].rid = job[w].rid /\ job'[w].row = job[w].row
      BY <1>1, <2>1, <2>4 DEF Job
    <3> QED
      BY <2>1, <2>2, <2>3, <2>4, <3>1 DEF Knows, Fresh, Clear, Vouched
  <2>5. CASE ~(Charged(verdict) \/ verdict = "accepted")
    BY <2>1, <2>5, DoneKnows DEF Finish
  <2> QED
    BY <2>4, <2>5
<1>4. CASE VerifyCharge(w) \/ VerifyPing(w)
  BY <1>4, DoneKnows DEF VerifyCharge, VerifyPing
<1>5. CASE VerifyConsume(w)
  <2>1. /\ job'[w].pc = "branch" /\ job'[w].rid = job[w].rid /\ job'[w].row = job[w].row
        /\ requests' = requests /\ job[w].pc = "otp_consume"
    BY <1>1, <1>5 DEF VerifyConsume, Job, At
  <2>2. job[w].row = now /\ now.status = "awaiting_phone"
    BY <1>1, <2>1 DEF Knows, Fresh, Kept
  <2> QED
    BY <2>1, <2>2 DEF Knows, Fresh, Clear, Vouched, Live
<1>6. ASSUME NEW t \in job[w].now .. clock, VerifyBranch(w, t)
      PROVE  Knows(w)'
  <2> DEFINE family == FamilyOf(job[w].acct)
             branch == BranchPick(job[w].acct, job[w].row.recog, family)
             to == IF job[w].acct \in Managed THEN GuardiansOf(job[w].acct) ELSE family
             row == [job[w].row EXCEPT
                       !.status = branch,
                       !.exp = IF branch = "pending_family" THEN t + FamilyTTL ELSE @,
                       !.authAt = IF branch = "pending_dwell" THEN t ELSE @]
  <2>1. /\ requests' = requests /\ job[w].pc = "branch" /\ job[w].op = "verify"
        /\ job' = [job EXCEPT ![w] = [job[w] EXCEPT !.pc = "save", !.now = 0,
                                                    !.to = to, !.row = row]]
    BY <1>1, <1>6 DEF VerifyBranch, At, tables, JobOK
  <2>2. job[w].row = now /\ now.status = "awaiting_phone" /\ job[w].row \in Row
    BY <1>1, <2>1 DEF Knows, Fresh, Kept, Job
  <2>3. row.status = branch /\ row.recog = job[w].row.recog
    BY <2>2 DEF Row
  <2>4. /\ branch \in Branches
        /\ to # {} => branch = Calling(job[w].acct)
        /\ branch = "pending_dwell" => job[w].row.recog # NONE
    BY DEF BranchPick, Branches, Calling
  <2> HIDE DEF row, to, branch
  <2>5. /\ job'[w].pc = "save" /\ job'[w].op = "verify" /\ job'[w].acct = job[w].acct
        /\ job'[w].rid = job[w].rid /\ job'[w].row = row /\ job'[w].to = to
    BY <1>1, <2>1 DEF Job
  <2>6. GoesOn(job'[w], now)
    BY <2>2, <2>3, <2>4, <2>5 DEF GoesOn
  <2> QED
    BY <2>1, <2>5, <2>6 DEF Knows, Fresh, Clear, Vouched, Kept
<1>7. CASE VerifySave(w)
  <2>1. /\ job[w].pc = "save" /\ job[w].op = "verify" /\ job[w].rid \in 1..Len(requests)
        /\ now.acct = job[w].acct
    BY <1>7, OwnRow DEF VerifySave, Doing, WithRow
  <2>2. GoesOn(job[w], now) /\ job[w].row.acct = now.acct
    BY <1>1, <2>1, Handler DEF Knows, Fresh, JobStanding, HoldsRow
  <2>3. requests'[job[w].rid] = job[w].row
    BY <1>1, <1>7, <2>1, Written DEF VerifySave
  <2>4. CASE Finish(w)
    BY <2>4, DoneKnows
  <2>5. CASE Goto(w, "ping")
    <3>1. /\ job'[w].pc = "ping" /\ job'[w].op = "verify" /\ job'[w].acct = job[w].acct
          /\ job'[w].rid = job[w].rid /\ job'[w].to = job[w].to
      BY <2>1, <2>5, Moved
    <3>2. Announces(job'[w], job[w].row)
      BY <1>1, <2>1, <2>2, <3>1 DEF Announces, GoesOn
    <3> QED
      BY <2>3, <3>1, <3>2 DEF Knows, Fresh, Clear, Vouched, Kept
  <2> QED
    BY <1>7, <2>4, <2>5 DEF VerifySave
<1> QED
  BY <1>2, <1>3, <1>4, <1>5, <1>6, <1>7 DEF Verify

LEMMA AuthorizeKnows ==
  ASSUME Standing, Orderly, NEW w \in Workers, Authorize(w)
  PROVE  Knows(w)'
<1> DEFINE now == requests[job[w].rid]
<1>1. /\ job \in [Workers -> Job] /\ job[w] \in Job /\ Knows(w) /\ JobOK(w)
      /\ requests \in Seq(Row) /\ Len(requests) \in Nat
  BY Handler DEF Orderly
<1>2. ASSUME NEW member \in Accounts, NEW acct \in Accounts, ApproveStanding(w, member, acct)
      PROVE  Knows(w)'
  BY <1>2, CallKnows DEF ApproveStanding
<1>3. CASE ApproveDecide(w)
  <2>1. requests' = requests /\ job[w].pc = "decide" /\ job[w].op = "approve"
    BY <1>3 DEF ApproveDecide, Doing, tables
  <2>2. job[w].row = now /\ job[w].row \in Row
    BY <1>1, <2>1 DEF Knows, Fresh, Kept, Job
  <2>3. CASE job[w].row.status # "pending_family"
    BY <1>3, <2>3, DoneKnows DEF ApproveDecide, Finish
  <2>4. CASE job[w].row.status = "pending_family"
    <3>1. /\ job'[w].pc = "save" /\ job'[w].op = "approve" /\ job'[w].rid = job[w].rid
          /\ job'[w].row.recog = job[w].row.recog
          /\ job'[w].row.status \in {"expired", "authorized"}
      <4>1. CASE clock > job[w].row.exp
        BY <1>1, <1>3, <2>1, <2>2, <2>4, <4>1 DEF ApproveDecide, Job, Row
      <4>2. CASE ~(clock > job[w].row.exp)
        BY <1>1, <1>3, <2>1, <2>2, <2>4, <4>2 DEF ApproveDecide, Job, Row
      <4> QED
        BY <4>1, <4>2
    <3>2. GoesOn(job'[w], now)
      BY <2>2, <2>4, <3>1 DEF GoesOn
    <3> QED
      BY <2>1, <3>1, <3>2 DEF Knows, Fresh, Clear, Vouched, Kept
  <2> QED
    BY <2>3, <2>4
<1>4. CASE ApproveSave(w) \/ GrantSave(w)
  BY <1>4, DoneKnows DEF ApproveSave, GrantSave
<1>5. ASSUME NEW rid \in DOMAIN requests, GrantGet(w, rid)
      PROVE  Knows(w)'
  <2>1. /\ requests' = requests /\ requests[rid].status = "pending_admin"
        /\ job'[w] = [Call("grant", "save", requests[rid].acct, NONE, NONE)
                        EXCEPT !.rid = rid, !.row = requests[rid]]
    BY <1>1, <1>5 DEF GrantGet, tables
  <2>2. /\ job'[w].pc = "save" /\ job'[w].op = "grant" /\ job'[w].rid = rid
        /\ job'[w].row = requests[rid]
    BY <2>1 DEF Call
  <2>3. GoesOn(job'[w], requests[rid])
    BY <2>1, <2>2 DEF GoesOn
  <2> QED
    BY <2>1, <2>2, <2>3 DEF Knows, Fresh, Clear, Vouched, Kept
<1> QED
  BY <1>2, <1>3, <1>4, <1>5 DEF Authorize

LEMMA CancelKnows ==
  ASSUME Standing, Orderly, NEW w \in Workers, Cancel(w)
  PROVE  Knows(w)'
<1> DEFINE now == requests[job[w].rid]
<1>1. /\ job \in [Workers -> Job] /\ job[w] \in Job /\ Knows(w) /\ JobOK(w)
      /\ requests \in Seq(Row) /\ Len(requests) \in Nat
  BY Handler DEF Orderly
<1>2. ASSUME NEW actor \in Accounts, NEW acct \in Accounts, CancelStanding(w, actor, acct)
      PROVE  Knows(w)'
  BY <1>2, CallKnows DEF CancelStanding
<1>3. CASE CancelSave(w)
  <2> DEFINE row == Cancelled(job[w].row, job[w].actor)
  <2>1. /\ job[w].pc = "decide" /\ job[w].op = "cancel" /\ job[w].rid \in 1..Len(requests)
        /\ now.acct = job[w].acct
    BY <1>3, OwnRow DEF CancelSave, Doing, WithRow, Kept
  <2>2. job[w].row = now /\ job[w].row \in Row
    BY <1>1, <2>1 DEF Knows, Fresh, Kept, Job
  <2>3. row.status = "cancelled" /\ row.acct = job[w].acct
    BY <2>1, <2>2 DEF Cancelled, Row
  <2> HIDE DEF row
  <2>4. requests'[job[w].rid] = row
    BY <1>1, <1>3, <2>1, Written DEF CancelSave, row
  <2>5. /\ job'[w].pc = "ping" /\ job'[w].op = "cancel" /\ job'[w].acct = job[w].acct
        /\ job'[w].rid = job[w].rid
    BY <1>3, <2>1, Moved DEF CancelSave
  <2>6. Announces(job'[w], row)
    BY <1>1, <2>1, <2>3, <2>5 DEF Announces
  <2> QED
    BY <2>4, <2>5, <2>6 DEF Knows, Fresh, Clear, Vouched, Kept
<1>4. CASE CancelPing(w)
  BY <1>4, DoneKnows DEF CancelPing
<1> QED
  BY <1>2, <1>3, <1>4 DEF Cancel

LEMMA CompleteKnows ==
  ASSUME Standing, Orderly, NEW w \in Workers, Complete(w)
  PROVE  Knows(w)'
<1> DEFINE now == requests[job[w].rid]
<1>1. /\ job \in [Workers -> Job] /\ job[w] \in Job /\ Knows(w) /\ JobOK(w)
      /\ requests \in Seq(Row) /\ Len(requests) \in Nat
      /\ \A i \in 1..Len(requests) : requests[i] \in Row
  BY Handler DEF Orderly
<1>2. ASSUME NEW acct \in Accounts, NEW dev \in Devices \cup {NONE}, CompleteStart(w, acct, dev)
      PROVE  Knows(w)'
  BY <1>2, CallKnows DEF CompleteStart
<1>3. CASE CompleteDecide(w)
  <2>1. requests' = requests /\ job[w].pc = "decide" /\ job[w].op = "complete"
    BY <1>3 DEF CompleteDecide, Doing, tables
  <2>2. job[w].row = now /\ now.status \in Live /\ job[w].row \in Row
    BY <1>1, <2>1 DEF Knows, Fresh, Kept, Job
  <2> DEFINE j == [job[w] EXCEPT !.pc = "save", !.row.status = "expired"]
  <2>3. CASE job'[w] = j /\ now.status = "pending_family"
    <3>1. /\ j.pc = "save" /\ j.op = "complete" /\ j.rid = job[w].rid
          /\ j.row.recog = job[w].row.recog /\ j.row.status = "expired"
      BY <1>1, <2>1, <2>2 DEF Job, Row
    <3>2. GoesOn(j, now)
      BY <2>2, <2>3, <3>1 DEF GoesOn
    <3> QED
      BY <2>1, <2>3, <3>1, <3>2 DEF Knows, Fresh, Clear, Vouched, Kept
  <2>4. CASE Goto(w, "ldap") /\ now.status = "authorized"
    <3>1. job'[w].pc = "ldap" /\ job'[w].rid = job[w].rid /\ job'[w].row = job[w].row
      BY <2>4, Moved
    <3> QED
      BY <2>1, <2>2, <2>4, <3>1 DEF Knows, Fresh, Clear, Vouched, Kept
  <2>5. CASE Goto(w, "device")
    <3>1. job'[w].pc = "device" /\ job'[w].rid = job[w].rid /\ job'[w].row = job[w].row
      BY <2>5, Moved
    <3> QED
      BY <2>1, <2>2, <3>1 DEF Knows, Fresh, Clear, Vouched, Kept
  <2>6. CASE Finish(w)
    BY <2>6, DoneKnows
  <2>7. \/ job'[w] = j /\ now.status = "pending_family"
        \/ Goto(w, "ldap") /\ now.status = "authorized"
        \/ Goto(w, "device")
        \/ Finish(w)
    <3> DEFINE A == job[w].row.status = "pending_family" /\ clock > job[w].row.exp
               B == job[w].row.status = "authorized"
               D == job[w].row.status = "pending_dwell" /\ job[w].dev # NONE
    <3>1. CASE A
      BY <1>1, <1>3, <2>2, <3>1 DEF CompleteDecide
    <3>2. CASE B
      BY <1>3, <2>2, <3>2 DEF CompleteDecide, Goto
    <3>3. CASE D
      BY <1>3, <3>3 DEF CompleteDecide, Goto
    <3>4. CASE ~A /\ ~B /\ ~D
      BY <1>3, <3>4 DEF CompleteDecide, Finish
    <3> QED
      BY <3>1, <3>2, <3>3, <3>4
  <2> QED
    BY <2>3, <2>4, <2>5, <2>6, <2>7
<1>4. CASE CompleteDevice(w)
  <2>1. /\ requests' = requests /\ owner' = owner /\ job[w].pc = "device"
        /\ job[w].row.status = "pending_dwell"
    BY <1>1, <1>4 DEF CompleteDevice, At, tables, JobOK
  <2>2. /\ job[w].row = now /\ now.status = "pending_dwell" /\ now.status \in Live
        /\ job[w].rid \in 1..Len(requests)
    BY <1>1, <2>1, OwnRow DEF Knows, Fresh, Kept, WithRow
  <2>3. now.recog # NONE
    BY <2>2 DEF Orderly, DwellsLean
  <2>4. CASE Resolve(job[w].dev) = job[w].row.recog /\ Goto(w, "wall")
    <3>1. now.recog \in Devices /\ owner[now.recog] \in Accounts
      BY <1>1, <2>2, <2>3, <2>4 DEF Resolve, Registered, Job
    <3>2. job'[w].pc = "wall" /\ job'[w].rid = job[w].rid /\ job'[w].row = job[w].row
      BY <2>4, Moved
    <3> QED
      BY <2>1, <2>2, <3>1, <3>2 DEF Knows, Fresh, Clear, Vouched, Kept
  <2>5. CASE Finish(w)
    BY <2>5, DoneKnows
  <2> QED
    BY <1>4, <2>4, <2>5 DEF CompleteDevice
<1>5. CASE CompleteWall(w)
  <2>1. requests' = requests /\ owner' = owner /\ job[w].pc = "wall"
    BY <1>5 DEF CompleteWall, At, tables
  <2>2. CASE Goto(w, "ldap")
    <3>1. job'[w].pc = "ldap" /\ job'[w].rid = job[w].rid /\ job'[w].row = job[w].row
      BY <2>2, Moved
    <3> QED
      BY <1>1, <2>1, <3>1 DEF Knows, Fresh, Clear, Vouched, Kept
  <2>3. CASE Finish(w)
    BY <2>3, DoneKnows
  <2> QED
    BY <1>5, <2>2, <2>3 DEF CompleteWall
<1>6. CASE CompleteSetPassword(w)
  <2>1. /\ requests' = requests /\ job[w].pc = "ldap" /\ job[w].op = "complete"
        /\ job[w].row.status \in {"authorized", "pending_dwell"}
    BY <1>1, <1>6 DEF CompleteSetPassword, At, JobOK
  <2>2. job[w].row = now /\ job[w].row \in Row
    BY <1>1, <2>1 DEF Knows, Fresh, Kept, Job
  <2>3. /\ job'[w].pc = "save" /\ job'[w].op = "complete" /\ job'[w].rid = job[w].rid
        /\ job'[w].row.recog = job[w].row.recog /\ job'[w].row.status = "completed"
    BY <1>1, <1>6, <2>1, <2>2 DEF CompleteSetPassword, Job, Row
  <2>4. GoesOn(job'[w], now)
    BY <2>1, <2>2, <2>3 DEF GoesOn
  <2> QED
    BY <2>1, <2>3, <2>4 DEF Knows, Fresh, Clear, Vouched, Kept
<1>7. CASE CompleteLdapDown(w) \/ CompletePing(w)
  BY <1>7, DoneKnows DEF CompleteLdapDown, CompletePing
<1>8. CASE CompleteSave(w)
  <2>1. /\ job[w].pc = "save" /\ job[w].op = "complete" /\ job[w].rid \in 1..Len(requests)
        /\ now.acct = job[w].acct
    BY <1>8, OwnRow DEF CompleteSave, Doing, WithRow
  <2>2. job[w].row.acct = now.acct
    BY <2>1, Handler DEF JobStanding, HoldsRow
  <2>3. requests'[job[w].rid] = job[w].row
    BY <1>1, <1>8, <2>1, Written DEF CompleteSave
  <2>4. CASE Finish(w)
    BY <2>4, DoneKnows
  <2>5. CASE Goto(w, "ping") /\ job[w].row.status = "completed"
    <3>1. /\ job'[w].pc = "ping" /\ job'[w].op = "complete" /\ job'[w].acct = job[w].acct
          /\ job'[w].rid = job[w].rid
      BY <2>1, <2>5, Moved
    <3>2. Announces(job'[w], job[w].row)
      BY <1>1, <2>1, <2>2, <2>5, <3>1 DEF Announces
    <3> QED
      BY <2>3, <3>1, <3>2 DEF Knows, Fresh, Clear, Vouched, Kept
  <2> QED
    BY <1>8, <2>4, <2>5 DEF CompleteSave
<1> QED
  BY <1>2, <1>3, <1>4, <1>5, <1>6, <1>7, <1>8 DEF Complete

\* The hook's SELECT finds the newest request that leans on the device.
LEMMA ActiveByDeviceFinds ==
  ASSUME requests \in Seq(Row), NEW d
  PROVE  \/ /\ ActiveByDevice(d) \in 1..Len(requests)
            /\ requests[ActiveByDevice(d)].status \in Leaning
            /\ requests[ActiveByDevice(d)].recog = d
         \/ /\ ActiveByDevice(d) = 0
            /\ \A i \in 1..Len(requests) : requests[i].recog = d => requests[i].status \notin Leaning
<1> DEFINE I == {i \in 1..Len(requests) : requests[i].recog = d /\ requests[i].status \in Leaning}
<1>1. Len(requests) \in Nat
  BY LenProperties
<1>2. I # {} => Max(I) \in I
  BY <1>1, MaxIsMember
<1>3. ActiveByDevice(d) = IF I # {} THEN Max(I) ELSE 0
  BY Zenon DEF ActiveByDevice, SelectLastInSeq
<1>4. CASE I # {}
  <2>1. ActiveByDevice(d) \in I
    <3> HIDE DEF I
    <3> QED
      BY <1>2, <1>3, <1>4
  <2> QED
    BY <2>1
<1>5. CASE I = {}
  <2>1. ActiveByDevice(d) = 0
    <3> HIDE DEF I
    <3> QED
      BY <1>3, <1>5
  <2> QED
    BY <1>5, <2>1
<1> QED
  BY <1>4, <1>5

LEMMA DeviceKnows ==
  ASSUME Standing, Orderly, NEW w \in Workers, DeviceOps(w)
  PROVE  Knows(w)'
<1> DEFINE now == requests[job[w].rid]
<1>1. /\ job \in [Workers -> Job] /\ job[w] \in Job /\ Knows(w) /\ JobOK(w)
      /\ requests \in Seq(Row) /\ Len(requests) \in Nat
  BY Handler DEF Orderly
<1>2. ASSUME NEW acct \in Accounts, NEW d \in Devices, RegisterDevice(w, acct, d)
      PROVE  Knows(w)'
  BY <1>2, IdleKnows DEF RegisterDevice, Free
<1>3. ASSUME NEW acct \in Accounts, NEW d \in Devices, DeleteFind(w, acct, d)
      PROVE  Knows(w)'
  BY <1>3, CallKnows DEF DeleteFind
<1>4. CASE VoidFind(w)
  <2> DEFINE rid == ActiveByDevice(job[w].dev)
  <2>1. rid = 0 \/ requests[rid].status \in Leaning
    BY <1>1, ActiveByDeviceFinds
  <2> HIDE DEF rid
  <2>2. /\ job'[w].pc = IF rid = 0 THEN "drop" ELSE "void_get"
        /\ job'[w].rid = rid /\ requests' = requests /\ job'[w].op = "delete"
    BY <1>1, <1>4 DEF VoidFind, Job, rid, tables, At, JobOK
  <2> QED
    BY <2>1, <2>2 DEF Knows, Fresh, Clear, Vouched, Kept
<1>5. CASE VoidGet(w)
  <2>1. /\ requests' = requests /\ job[w].pc = "void_get" /\ job[w].op = "delete"
        /\ job[w].rid \in 1..Len(requests)
    BY <1>1, <1>5, OwnRow DEF VoidGet, At, tables, JobOK, WithRow
  <2>2. now.status \in Leaning
    BY <1>1, <2>1 DEF Knows, Fresh
  <2>3. now.status = "pending_dwell" => now.recog # NONE
    BY <2>1 DEF Orderly, DwellsLean
  <2>4. /\ job'[w].pc = "save" /\ job'[w].op = "delete" /\ job'[w].rid = job[w].rid
        /\ job'[w].row = now
    BY <1>1, <1>5, <2>1 DEF VoidGet, Job
  <2>5. GoesOn(job'[w], now)
    BY <2>2, <2>3, <2>4 DEF GoesOn
  <2> QED
    BY <2>1, <2>4, <2>5 DEF Knows, Fresh, Clear, Vouched, Kept
<1>6. CASE VoidSave(w)
  <2>1. job'[w].pc = "drop" /\ job'[w].op = "delete"
    BY <1>6, Moved DEF VoidSave, Doing
  <2> QED
    BY <2>1 DEF Knows, Fresh, Clear, Vouched, Kept
<1>7. CASE DropDevice(w)
  BY <1>7, DoneKnows DEF DropDevice
<1> QED
  BY <1>2, <1>3, <1>4, <1>5, <1>6, <1>7 DEF DeviceOps
-----------------------------------------------------------------------------
LEMMA OthersKeepJobs ==
  ASSUME Standing, NEW w \in Workers, Work(w), NEW v \in Workers, v # w
  PROVE  job'[v] = job[v]
<1>1. job \in [Workers -> Job]
  BY Handler
<1>2. CASE FindActive(w) \/ GetRow(w)
  BY <1>1, <1>2 DEF FindActive, GetRow
<1>3. CASE Start(w)
  BY <1>1, <1>3 DEF Start, StartBudget, StartOtpBudget, StartSendOtp, StartSendFails,
     StartSupersede, StartResolve, StartInsert, StartPing, Finish, Goto
<1>4. CASE Verify(w)
  BY <1>1, <1>4 DEF Verify, VerifyStart, VerifySelect, VerifyCharge, VerifyConsume,
     VerifyBranch, VerifySave, VerifyPing, Finish, Goto
<1>5. CASE Authorize(w)
  BY <1>1, <1>5 DEF Authorize, ApproveStanding, ApproveDecide, ApproveSave, GrantGet,
     GrantSave, Finish
<1>6. CASE Cancel(w)
  BY <1>1, <1>6 DEF Cancel, CancelStanding, CancelSave, CancelPing, Finish, Goto
<1>7. CASE Complete(w)
  BY <1>1, <1>7 DEF Complete, CompleteStart, CompleteDecide, CompleteDevice, CompleteWall,
     CompleteSetPassword, CompleteLdapDown, CompleteSave, CompletePing, Finish, Goto
<1>8. CASE DeviceOps(w)
  BY <1>1, <1>8 DEF DeviceOps, RegisterDevice, DeleteFind, VoidFind, VoidGet, VoidSave,
     DropDevice, Finish, Goto
<1>9. CASE \E a, b \in Accounts : RevokeLink(w, a, b)
  BY <1>9 DEF RevokeLink
<1> QED
  BY <1>2, <1>3, <1>4, <1>5, <1>6, <1>7, <1>8, <1>9 DEF Work

\* Only the registry's own handlers change the registry.
LEMMA OwnerSteps ==
  ASSUME Standing, Orderly, NEW w \in Workers, Work(w)
  PROVE  OwnerStep(w)
<1>1. JobOK(w) /\ owner \in [Devices -> Accounts \cup {NONE, DELETED}]
  BY Handler
<1>2. CASE FindActive(w) \/ GetRow(w)
  BY <1>2 DEF OwnerStep, FindActive, GetRow, tables
<1>3. CASE Start(w)
  BY <1>3 DEF OwnerStep, Start, StartBudget, StartOtpBudget, StartSendOtp, StartSendFails,
     StartSupersede, StartResolve, StartInsert, StartPing, tables
<1>4. CASE Verify(w)
  BY <1>4 DEF OwnerStep, Verify, VerifyStart, VerifySelect, VerifyCharge, VerifyConsume,
     VerifyBranch, VerifySave, VerifyPing, tables
<1>5. CASE Authorize(w)
  BY <1>5 DEF OwnerStep, Authorize, ApproveStanding, ApproveDecide, ApproveSave, GrantGet,
     GrantSave, tables
<1>6. CASE Cancel(w)
  BY <1>6 DEF OwnerStep, Cancel, CancelStanding, CancelSave, CancelPing, tables
<1>7. CASE Complete(w)
  BY <1>7 DEF OwnerStep, Complete, CompleteStart, CompleteDecide, CompleteDevice,
     CompleteWall, CompleteSetPassword, CompleteLdapDown, CompleteSave, CompletePing, tables
<1>8. CASE DeviceOps(w)
  <2>1. ASSUME NEW acct \in Accounts, NEW d \in Devices, RegisterDevice(w, acct, d)
        PROVE  OwnerStep(w)
    BY <1>1, <2>1, RecoveryAssumption DEF OwnerStep, RegisterDevice
  <2>2. CASE DropDevice(w)
    <3>1. job[w].op = "delete"
      BY <2>2 DEF DropDevice, At, Orderly, Knows, Fresh
    <3> QED
      BY <3>1 DEF OwnerStep
  <2> QED
    BY <1>8, <2>1, <2>2 DEF OwnerStep, DeviceOps, DeleteFind, VoidFind, VoidGet, VoidSave, tables
<1>9. CASE \E a, b \in Accounts : RevokeLink(w, a, b)
  BY <1>9 DEF OwnerStep, RevokeLink
<1> QED
  BY <1>2, <1>3, <1>4, <1>5, <1>6, <1>7, <1>8, <1>9 DEF Work
-----------------------------------------------------------------------------
LEMMA InitOrderly == Init => Orderly
<1> SUFFICES ASSUME Init PROVE Orderly
  OBVIOUS
<1>1. requests = <<>> /\ \A w \in Workers : job[w].pc = "idle"
  BY DEF Init, Idle, Call
<1> QED
  BY <1>1 DEF Orderly, NewestLive, DwellsLean, Knows, Fresh, Clear, Vouched, Kept

LEMMA SameOrderly ==
  ASSUME Orderly, UNCHANGED <<requests, owner, job>>
  PROVE  Orderly'
<1>1. NewestLive' /\ DwellsLean'
  BY DEF Orderly, NewestLive, DwellsLean
<1>2. ASSUME NEW w \in Workers PROVE Knows(w)'
  BY DEF Orderly, Knows, Clear, Vouched
<1> QED
  BY <1>1, <1>2 DEF Orderly

LEMMA WorkOrderly ==
  ASSUME Standing, Orderly, Apart, Apart', NEW w \in Workers, Work(w)
  PROVE  Orderly'
<1>1. TableStep(w) /\ OwnerStep(w)
  BY TableSteps, OwnerSteps
<1>2. NewestLive' /\ DwellsLean'
  BY <1>1, TableStays
<1>3. ASSUME NEW v \in Workers, v # w PROVE Knows(v)'
  BY <1>1, <1>3, OthersKeepJobs, OthersKnow
<1>4. Knows(w)'
  <2>1. CASE \E a, b \in Accounts : RevokeLink(w, a, b)
    BY <2>1, IdleKnows DEF RevokeLink, Free
  <2> QED
    BY <2>1, FindKnows, StartKnows, VerifyKnows, AuthorizeKnows, CancelKnows, CompleteKnows,
       DeviceKnows DEF Work
<1> QED
  BY <1>2, <1>3, <1>4 DEF Orderly

LEMMA NextOrderly ==
  ASSUME Standing, Orderly, Apart, Apart', [Next]_vars
  PROVE  Orderly'
<1>1. CASE UNCHANGED vars
  BY <1>1, SameOrderly DEF vars, tables
<1>2. CASE Tick
  BY <1>2, SameOrderly DEF Tick, tables
<1>3. CASE \E a, b \in Accounts : LinkUsable(a, b)
  BY <1>3, SameOrderly DEF LinkUsable
<1>4. ASSUME NEW w \in Workers, Crash(w) PROVE Orderly'
  <2>1. requests' = requests /\ owner' = owner /\ Finish(w)
    BY <1>4 DEF Crash, tables
  <2>2. TableStep(w) /\ OwnerStep(w)
    BY <2>1 DEF TableStep, OwnerStep
  <2>3. ASSUME NEW v \in Workers, v # w PROVE Knows(v)'
    <3>1. job'[v] = job[v]
      BY <2>1, <2>3, Handler DEF Finish
    <3> QED
      BY <2>2, <2>3, <3>1, OthersKnow
  <2> QED
    BY <2>1, <2>2, <2>3, DoneKnows, TableStays DEF Orderly
<1>5. ASSUME NEW w \in Workers, Work(w) PROVE Orderly'
  BY <1>5, WorkOrderly
<1> QED
  BY <1>1, <1>2, <1>3, <1>4, <1>5 DEF Next

LEMMA OrderlyHolds == Spec /\ []Apart => [](Standing /\ Orderly)
<1>1. Init => Orderly
  BY InitOrderly
<1>2. Standing /\ Orderly /\ Apart /\ Apart' /\ [Next]_vars => Orderly'
  BY NextOrderly
<1> QED
  BY <1>1, <1>2, StandingHolds, PTL DEF Spec

\* Only a handler's own statements change the table.
LEMMA TableMoves ==
  ASSUME [Next]_vars, requests' # requests
  PROVE  \E w \in Workers : Work(w)
<1>1. CASE UNCHANGED vars \/ Tick
  BY <1>1 DEF vars, tables, Tick
<1>2. CASE \E a, b \in Accounts : LinkUsable(a, b)
  BY <1>2 DEF LinkUsable
<1>3. CASE \E w \in Workers : Crash(w)
  BY <1>3 DEF Crash, tables
<1> QED
  BY <1>1, <1>2, <1>3 DEF Next

(***************************************************************************)
(* start_recovery cancels the live request it finds before it inserts its  *)
(* own: while no two handlers of one account overlap, an account has one   *)
(* live request at most, although a start may die between the two writes.  *)
(***************************************************************************)
THEOREM OneLiveWhenApart == Spec /\ []Apart => []OneLiveRequest
<1>1. Standing /\ Orderly => OneLiveRequest
  <2> SUFFICES ASSUME Standing, Orderly, NEW acct \in Accounts
               PROVE  Cardinality(LiveOf(acct)) <= 1
    BY DEF OneLiveRequest
  <2>1. Len(requests) \in Nat /\ DOMAIN requests = 1..Len(requests)
    BY LenProperties DEF Standing, Evidence, TypeInv, TypeOK
  <2>2. \A i, j \in LiveOf(acct) : i = j
    BY <2>1 DEF LiveOf, Orderly, NewestLive
  <2>3. CASE LiveOf(acct) = {}
    BY <2>3, FS_EmptySet
  <2>4. CASE LiveOf(acct) # {}
    <3>1. PICK i : LiveOf(acct) = {i}
      BY <2>2, <2>4
    <3> QED
      BY <3>1, FS_Singleton
  <2> QED
    BY <2>3, <2>4
<1> QED
  BY <1>1, OrderlyHolds, PTL

(***************************************************************************)
(* Every _save goes on from the row the table has: while no two handlers   *)
(* of one account overlap, a request's branch is picked once, and its end  *)
(* is final.                                                               *)
(***************************************************************************)
THEOREM ForwardWhenApart == Spec /\ []Apart => LifecycleForward
<1>1. ASSUME Standing, Orderly, [Next]_vars
      PROVE  [\A i \in DOMAIN requests :
                requests'[i].status # requests[i].status
                  => Rank(requests'[i].status) > Rank(requests[i].status)]_vars
  <2> SUFFICES ASSUME NEW i \in DOMAIN requests, requests'[i].status # requests[i].status
               PROVE  Rank(requests'[i].status) > Rank(requests[i].status)
    OBVIOUS
  <2>1. PICK w \in Workers : Work(w)
    BY <1>1, TableMoves
  <2>2. requests \in Seq(Row) /\ Len(requests) \in Nat /\ i \in 1..Len(requests)
    BY <1>1, <2>1, Handler
  <2>3. CASE \E rid, row : MovesOn(w, rid, row)
    <3>1. PICK rid, row : MovesOn(w, rid, row)
      BY <2>3
    <3>2. requests'[i] = IF i = rid THEN row ELSE requests[i]
      BY <2>2, <3>1, Written DEF MovesOn
    <3> QED
      BY <3>1, <3>2 DEF MovesOn
  <2>4. CASE At(w, "insert") /\ requests' = Append(requests, [job[w].row EXCEPT !.created = clock])
    <3>1. requests'[i] = requests[i]
      BY <1>1, <2>1, <2>2, <2>4, NewRow, Inserted
    <3> QED
      BY <3>1
  <2>5. TableStep(w) /\ requests' # requests
    BY <1>1, <2>1, TableSteps
  <2> QED
    BY <2>3, <2>4, <2>5 DEF TableStep
<1> QED
  BY <1>1, OrderlyHolds, PTL DEF Spec, LifecycleForward

(***************************************************************************)
(* A cancellation is undone by an overlap only: while no two handlers of   *)
(* one account overlap, a cancelled request stays cancelled.               *)
(***************************************************************************)
THEOREM CancelFinalWhenApart == Spec /\ []Apart => CancelIsFinal
<1>1. [\A i \in DOMAIN requests :
          requests'[i].status # requests[i].status
            => Rank(requests'[i].status) > Rank(requests[i].status)]_vars
      => [\A i \in DOMAIN requests :
            requests[i].status = "cancelled" => requests'[i].status = "cancelled"]_vars
  <2>1. \A status : Rank(status) \in 0..3 /\ Rank("cancelled") = 3
    BY DEF Rank
  <2> QED
    BY <2>1
<1> QED
  BY <1>1, ForwardWhenApart, PTL DEF LifecycleForward, CancelIsFinal

\* Only complete changes passwords.
LEMMA ResetBy ==
  ASSUME [Next]_vars, resets' # resets
  PROVE  \E w \in Workers : CompleteSetPassword(w)
<1>1. CASE UNCHANGED vars \/ Tick
  BY <1>1 DEF vars, tables, Tick
<1>2. CASE \E a, b \in Accounts : LinkUsable(a, b)
  BY <1>2 DEF LinkUsable
<1>3. CASE \E w \in Workers : Crash(w)
  BY <1>3 DEF Crash, tables
<1>4. ASSUME NEW w \in Workers, Work(w) PROVE CompleteSetPassword(w)
  <2>1. ~(FindActive(w) \/ GetRow(w))
    BY DEF FindActive, GetRow, tables
  <2>2. ~Start(w)
    BY DEF Start, StartBudget, StartOtpBudget, StartSendOtp, StartSendFails, StartSupersede,
       StartResolve, StartInsert, StartPing, tables
  <2>3. ~Verify(w)
    BY DEF Verify, VerifyStart, VerifySelect, VerifyCharge, VerifyConsume, VerifyBranch,
       VerifySave, VerifyPing, tables
  <2>4. ~Authorize(w)
    BY DEF Authorize, ApproveStanding, ApproveDecide, ApproveSave, GrantGet, GrantSave, tables
  <2>5. ~Cancel(w)
    BY DEF Cancel, CancelStanding, CancelSave, CancelPing, tables
  <2>6. ~DeviceOps(w)
    BY DEF DeviceOps, RegisterDevice, DeleteFind, VoidFind, VoidGet, VoidSave, DropDevice, tables
  <2>7. ~ \E a, b \in Accounts : RevokeLink(w, a, b)
    BY DEF RevokeLink
  <2>8. Complete(w)
    BY <1>4, <2>1, <2>2, <2>3, <2>4, <2>5, <2>6, <2>7 DEF Work
  <2> QED
    BY <2>8 DEF Complete, CompleteStart, CompleteDecide, CompleteDevice, CompleteWall,
       CompleteLdapDown, CompleteSave, CompletePing, tables
<1> QED
  BY <1>1, <1>2, <1>3, <1>4 DEF Next

\* The reset a step adds, and what its handler knows.
LEMMA NewReset ==
  ASSUME Standing, Orderly, [Next]_vars, NEW k \in DOMAIN resets' \ DOMAIN resets
  PROVE  \E w \in Workers :
           /\ CompleteSetPassword(w)
           /\ resets'[k].rid = job[w].rid /\ resets'[k].leg = job[w].row.status
           /\ job[w].rid \in 1..Len(requests) /\ job[w].pc = "ldap"
           /\ job[w].row = requests[job[w].rid]
           /\ requests[job[w].rid].acct = job[w].acct /\ resets'[k].acct = job[w].acct
           /\ requests[job[w].rid].status \in Live
<1>1. PICK w \in Workers : CompleteSetPassword(w)
  BY ResetBy
<1>2. /\ job[w].pc = "ldap" /\ job[w].op = "complete" /\ JobOK(w) /\ Knows(w)
  BY <1>1, Handler DEF CompleteSetPassword, At, JobOK, Orderly
<1>3. job[w].rid \in 1..Len(requests) /\ requests[job[w].rid].acct = job[w].acct
  BY <1>2, OwnRow DEF WithRow, Kept
<1>4. job[w].row = requests[job[w].rid] /\ requests[job[w].rid].status \in Live
  BY <1>2 DEF Knows, Fresh, Kept
<1> DEFINE r == [rid |-> job[w].rid, acct |-> job[w].acct, leg |-> job[w].row.status, at |-> clock]
<1>5. resets' = Append(resets, r)
  BY <1>1 DEF CompleteSetPassword
<1>6. resets'[k] = r
  <2>1. \E S : resets \in Seq(S)
    BY DEF Standing, Evidence, TypeInv, TypeOK
  <2>2. DOMAIN resets = 1..Len(resets) /\ Len(resets) \in Nat
    BY <2>1, LenProperties
  <2>3. DOMAIN resets' = 1..(Len(resets) + 1) /\ resets'[Len(resets) + 1] = r
    BY <1>5, <2>1
  <2> QED
    BY <2>2, <2>3
<1>7. r.rid = job[w].rid /\ r.leg = job[w].row.status /\ r.acct = job[w].acct
  OBVIOUS
<1> QED
  BY <1>1, <1>2, <1>3, <1>4, <1>6, <1>7

(***************************************************************************)
(* maybe_complete asks _active_for, and what is live is the newest: while  *)
(* no two handlers of one account overlap, a superseded request changes no *)
(* password.                                                               *)
(***************************************************************************)
THEOREM ResetByNewestWhenApart == Spec /\ []Apart => ResetByNewest
<1>1. ASSUME Standing, Orderly, [Next]_vars
      PROVE  [\A k \in DOMAIN resets' \ DOMAIN resets :
                \A i \in DOMAIN requests :
                  requests[i].acct = resets'[k].acct => i <= resets'[k].rid]_vars
  <2> SUFFICES ASSUME NEW k \in DOMAIN resets' \ DOMAIN resets,
                      NEW i \in DOMAIN requests, requests[i].acct = resets'[k].acct
               PROVE  i <= resets'[k].rid
    OBVIOUS
  <2>1. PICK w \in Workers :
           /\ resets'[k].rid = job[w].rid /\ job[w].rid \in 1..Len(requests)
           /\ requests[job[w].rid].acct = resets'[k].acct
           /\ requests[job[w].rid].status \in Live
    BY <1>1, NewReset
  <2>2. i \in 1..Len(requests)
    BY <1>1, <2>1, Handler
  <2> QED
    BY <1>1, <2>1, <2>2 DEF Orderly, NewestLive
<1> QED
  BY <1>1, OrderlyHolds, PTL DEF Spec, ResetByNewest

(***************************************************************************)
(* A dwell is completed on a device that is registered at that very moment *)
(* although the check lies statements back: a deletion would have to       *)
(* overlap.                                                                *)
(***************************************************************************)
THEOREM DeletedVouchesNoMoreWhenApart == Spec /\ []Apart => DeletedDeviceVouchesNoMore
<1>1. ASSUME Standing, Orderly, [Next]_vars
      PROVE  [\A k \in DOMAIN resets' \ DOMAIN resets :
                resets'[k].leg = "pending_dwell"
                  => owner[requests[resets'[k].rid].recog] \in Accounts]_vars
  <2> SUFFICES ASSUME NEW k \in DOMAIN resets' \ DOMAIN resets,
                      resets'[k].leg = "pending_dwell"
               PROVE  owner[requests[resets'[k].rid].recog] \in Accounts
    OBVIOUS
  <2>1. PICK w \in Workers :
           /\ resets'[k].rid = job[w].rid /\ job[w].pc = "ldap"
           /\ job[w].row = requests[job[w].rid] /\ job[w].row.status = "pending_dwell"
    BY <1>1, NewReset
  <2>2. Vouched(job[w])
    BY <1>1, <2>1 DEF Orderly, Knows
  <2> QED
    BY <2>1, <2>2 DEF Vouched
<1> QED
  BY <1>1, OrderlyHolds, PTL DEF Spec, DeletedDeviceVouchesNoMore

\* Only the pings notify.
LEMMA NotesBy ==
  ASSUME [Next]_vars, notes' # notes
  PROVE  \E w \in Workers : StartPing(w) \/ VerifyPing(w) \/ CancelPing(w) \/ CompletePing(w)
<1>1. CASE UNCHANGED vars \/ Tick
  BY <1>1 DEF vars, tables, Tick
<1>2. CASE \E a, b \in Accounts : LinkUsable(a, b)
  BY <1>2 DEF LinkUsable
<1>3. CASE \E w \in Workers : Crash(w)
  BY <1>3 DEF Crash, tables
<1>4. ASSUME NEW w \in Workers, Work(w)
      PROVE  StartPing(w) \/ VerifyPing(w) \/ CancelPing(w) \/ CompletePing(w)
  <2>1. ~(FindActive(w) \/ GetRow(w))
    BY DEF FindActive, GetRow, tables
  <2>2. Start(w) => StartPing(w)
    BY DEF Start, StartBudget, StartOtpBudget, StartSendOtp, StartSendFails, StartSupersede,
       StartResolve, StartInsert, tables
  <2>3. Verify(w) => VerifyPing(w)
    BY DEF Verify, VerifyStart, VerifySelect, VerifyCharge, VerifyConsume, VerifyBranch,
       VerifySave, tables
  <2>4. ~Authorize(w)
    BY DEF Authorize, ApproveStanding, ApproveDecide, ApproveSave, GrantGet, GrantSave, tables
  <2>5. Cancel(w) => CancelPing(w)
    BY DEF Cancel, CancelStanding, CancelSave, tables
  <2>6. ~DeviceOps(w)
    BY DEF DeviceOps, RegisterDevice, DeleteFind, VoidFind, VoidGet, VoidSave, DropDevice, tables
  <2>7. Complete(w) => CompletePing(w)
    BY DEF Complete, CompleteStart, CompleteDecide, CompleteDevice, CompleteWall,
       CompleteSetPassword, CompleteLdapDown, CompleteSave, tables
  <2>8. ~ \E a, b \in Accounts : RevokeLink(w, a, b)
    BY DEF RevokeLink
  <2> QED
    BY <1>4, <2>1, <2>2, <2>3, <2>4, <2>5, <2>6, <2>7, <2>8 DEF Work
<1> QED
  BY <1>1, <1>2, <1>3, <1>4 DEF Next

(***************************************************************************)
(* Every ping comes after the write it tells of, and what it tells is      *)
(* still so when it goes out, while no two handlers of one account         *)
(* overlap: nobody is told of a step that was not taken.                   *)
(***************************************************************************)
THEOREM NotesFollowWhenApart == Spec /\ []Apart => NotesFollowWrites
<1> DEFINE Says(n) ==
      requests[n.rid].status =
         CASE n.type = "recovery_started" -> "awaiting_phone"
           [] n.type = "family_recovery_approval_needed" -> "pending_family"
           [] n.type = "guardian_recovery_alert" -> "pending_admin"
           [] n.type = "recovery_cancelled" -> "cancelled"
           [] n.type = "password_reset_completed" -> "completed"
<1>1. ASSUME Standing, Orderly, [Next]_vars
      PROVE  [\A n \in notes' \ notes : Says(n)]_vars
  <2> SUFFICES ASSUME NEW n \in notes' \ notes PROVE Says(n)
    OBVIOUS
  <2>1. PICK w \in Workers : StartPing(w) \/ VerifyPing(w) \/ CancelPing(w) \/ CompletePing(w)
    BY <1>1, NotesBy
  <2>2. job[w].pc = "ping"
    BY <2>1 DEF StartPing, VerifyPing, CancelPing, CompletePing, Doing
  <2>3. Announces(job[w], requests[job[w].rid])
    BY <1>1, <2>2 DEF Orderly, Knows, Fresh
  <2>4. CASE StartPing(w)
    <3>1. n = Note(job[w].acct, "recovery_started", job[w].rid) /\ job[w].op = "start"
      BY <2>4 DEF StartPing, Doing
    <3>2. n.type = "recovery_started" /\ n.rid = job[w].rid
      BY <3>1 DEF Note
    <3> QED
      BY <2>3, <3>1, <3>2 DEF Announces
  <2>5. CASE VerifyPing(w)
    <3> DEFINE type == IF job[w].acct \in Managed THEN "guardian_recovery_alert"
                       ELSE "family_recovery_approval_needed"
    <3>1. PICK m \in job[w].to : n = Note(m, type, job[w].rid)
      BY <2>5 DEF VerifyPing
    <3>2. n.type = type /\ n.rid = job[w].rid /\ job[w].op = "verify"
      BY <2>5, <3>1 DEF Note, VerifyPing, Doing
    <3>3. requests[n.rid].status = Calling(job[w].acct)
      BY <2>3, <3>1, <3>2 DEF Announces
    <3> QED
      BY <3>2, <3>3 DEF Calling
  <2>6. CASE CancelPing(w)
    <3>1. n = Note(job[w].acct, "recovery_cancelled", job[w].rid) /\ job[w].op = "cancel"
      BY <2>6 DEF CancelPing, Doing
    <3>2. n.type = "recovery_cancelled" /\ n.rid = job[w].rid
      BY <3>1 DEF Note
    <3> QED
      BY <2>3, <3>1, <3>2 DEF Announces
  <2>7. CASE CompletePing(w)
    <3>1. n = Note(job[w].acct, "password_reset_completed", job[w].rid) /\ job[w].op = "complete"
      BY <2>7 DEF CompletePing, Doing
    <3>2. n.type = "password_reset_completed" /\ n.rid = job[w].rid
      BY <3>1 DEF Note
    <3> QED
      BY <2>3, <3>1, <3>2 DEF Announces
  <2> QED
    BY <2>1, <2>4, <2>5, <2>6, <2>7
<1> QED
  BY <1>1, OrderlyHolds, PTL DEF Spec, NotesFollowWrites
-----------------------------------------------------------------------------
(* Deletion voids.  The hook voids one request, the newest that leans on   *)
(* the device; that is enough while a device serves one account.           *)

OneAccountPerDevice ==
  \A i, j \in DOMAIN requests :
    (requests[i].recog # NONE /\ requests[i].recog = requests[j].recog)
      => requests[i].acct = requests[j].acct

NoneLeans(d) ==
  \A i \in 1..Len(requests) : requests[i].recog = d => requests[i].status \notin Leaning

InHook(j) == j.pc \in {"void_get", "drop"} \/ (j.pc = "save" /\ j.op = "delete")

\* What the hook has found, and that it leaves nothing leaning.
Voids(j) ==
  /\ (InHook(j) \/ j.pc = "void_find") => j.dev \in Devices
  /\ (InHook(j) /\ j.pc # "drop") => requests[j.rid].recog = j.dev
  /\ j.pc = "drop" => NoneLeans(j.dev)

Voided == DeleteVoids /\ \A w \in Workers : Voids(job[w])

LEMMA DeletesBusy ==
  ASSUME Standing, Orderly, NEW v \in Workers, InHook(job[v])
  PROVE  job[v].op = "delete" /\ Busy(v)
<1>1. JobOK(v) /\ Fresh(job[v], requests[job[v].rid])
  BY Handler DEF Orderly, Knows
<1> QED
  BY <1>1 DEF InHook, JobOK, Fresh, Busy

\* No other handler brings its thread to the hook.
LEMMA NotToHook ==
  ASSUME Standing, NEW w \in Workers, Work(w), ~DeviceOps(w),
         ~ \E a, b \in Accounts : RevokeLink(w, a, b)
  PROVE  ~InHook(job'[w]) /\ job'[w].pc # "void_find"
<1>1. job \in [Workers -> Job] /\ job[w] \in Job /\ JobOK(w)
  BY Handler
<1>2. ASSUME Finish(w) PROVE ~InHook(job'[w]) /\ job'[w].pc # "void_find"
  BY <1>1, <1>2 DEF Finish, Idle, Call, InHook
<1>3. ASSUME NEW label \in Labels \ {"void_find", "void_get", "drop", "save"}, Goto(w, label)
      PROVE  ~InHook(job'[w]) /\ job'[w].pc # "void_find"
  BY <1>1, <1>3 DEF Goto, InHook, Job
<1>4. ASSUME NEW op, NEW acct, NEW actor, NEW dev, NEW label \in {"find", "otp_budget"},
             job' = [job EXCEPT ![w] = Call(op, label, acct, actor, dev)]
      PROVE  ~InHook(job'[w]) /\ job'[w].pc # "void_find"
  BY <1>1, <1>4 DEF Call, InHook
<1>5. CASE FindActive(w)
  <2>1. job'[w].pc \in {"get", "resolve", "idle"}
    <3>1. CASE ActiveFor(job[w].acct) # 0
      BY <1>1, <1>5, <3>1 DEF FindActive, Job
    <3>2. CASE ActiveFor(job[w].acct) = 0
      BY <1>1, <1>5, <3>2 DEF FindActive, Job, Idle, Call
    <3> QED
      BY <3>1, <3>2
  <2> QED
    BY <2>1 DEF InHook
<1>6. CASE GetRow(w)
  <2>1. job'[w].pc = "decide"
    BY <1>1, <1>6 DEF GetRow, Job
  <2> QED
    BY <2>1 DEF InHook
<1>7. CASE Start(w)
  <2>1. CASE StartOtpBudget(w)
    <3>1. Finish(w) \/ job'[w].pc = "otp_send"
      BY <1>1, <2>1 DEF StartOtpBudget, Job
    <3> QED
      BY <1>2, <3>1 DEF InHook
  <2>2. CASE StartSupersede(w) \/ StartResolve(w) \/ StartInsert(w)
    <3>1. job'[w].pc \in {"resolve", "insert", "ping"}
      BY <1>1, <2>2 DEF StartSupersede, StartResolve, StartInsert, Job
    <3> QED
      BY <3>1 DEF InHook
  <2>3. CASE StartSendOtp(w)
    BY <1>3, <2>3 DEF StartSendOtp, Labels
  <2> QED
    BY <1>2, <1>4, <1>7, <2>1, <2>2, <2>3 DEF Start, StartBudget, StartSendFails, StartPing
<1>8. CASE Verify(w)
  <2>1. ASSUME NEW matches \in BOOLEAN, NEW t \in job[w].now .. clock, VerifySelect(w, matches, t)
        PROVE  ~InHook(job'[w]) /\ job'[w].pc # "void_find"
    <3>1. job'[w].pc \in {"otp_charge", "otp_consume", "idle"}
      <4> DEFINE id == LatestActive(challenges, PhoneOf[job[w].acct], "recovery", t, Hour)
                 verdict == IF job[w].row.status # "awaiting_phone" \/ id = 0 THEN "none"
                            ELSE Verdict(challenges[id], matches, t)
      <4>1. job' = [job EXCEPT ![w] =
                      IF Charged(verdict) THEN [job[w] EXCEPT !.pc = "otp_charge", !.ch = id]
                      ELSE IF verdict = "accepted"
                           THEN [job[w] EXCEPT !.pc = "otp_consume", !.ch = id]
                      ELSE Idle]
        BY <2>1 DEF VerifySelect
      <4> HIDE DEF verdict, id
      <4> QED
        BY <1>1, <4>1 DEF Job, Idle, Call
    <3> QED
      BY <3>1 DEF InHook
  <2>2. CASE VerifyConsume(w)
    <3>1. job'[w].pc = "branch"
      BY <1>1, <2>2 DEF VerifyConsume, Job
    <3> QED
      BY <3>1 DEF InHook
  <2>3. ASSUME NEW t \in job[w].now .. clock, VerifyBranch(w, t)
        PROVE  ~InHook(job'[w]) /\ job'[w].pc # "void_find"
    <3>1. job'[w].pc = "save" /\ job'[w].op = "verify"
      BY <1>1, <2>3 DEF VerifyBranch, At, Job, JobOK
    <3> QED
      BY <3>1 DEF InHook
  <2>4. CASE VerifySave(w)
    BY <1>2, <1>3, <2>4 DEF VerifySave, Labels
  <2> QED
    BY <1>2, <1>4, <1>8, <2>1, <2>2, <2>3, <2>4 DEF Verify, VerifyStart, VerifyCharge, VerifyPing
<1>9. CASE Authorize(w)
  <2>1. CASE ApproveDecide(w)
    <3>1. job[w].op = "approve"
      BY <2>1 DEF ApproveDecide, Doing
    <3>2. job'[w].op \in {"approve", "none"} /\ job'[w].pc \in {"save", "idle"}
      BY <1>1, <2>1, <3>1 DEF ApproveDecide, Job, Idle, Call
    <3> QED
      BY <3>2 DEF InHook
  <2>2. ASSUME NEW rid \in DOMAIN requests, GrantGet(w, rid)
        PROVE  ~InHook(job'[w]) /\ job'[w].pc # "void_find"
    <3>1. job'[w].pc = "save" /\ job'[w].op = "grant"
      BY <1>1, <2>2 DEF GrantGet, Call
    <3> QED
      BY <3>1 DEF InHook
  <2> QED
    BY <1>2, <1>4, <1>9, <2>1, <2>2 DEF Authorize, ApproveStanding, ApproveSave, GrantSave
<1>10. CASE Cancel(w)
  BY <1>2, <1>3, <1>4, <1>10 DEF Cancel, CancelStanding, CancelSave, CancelPing, Labels
<1>11. CASE Complete(w)
  <2>1. CASE CompleteDecide(w)
    <3>1. job[w].op = "complete"
      BY <2>1 DEF CompleteDecide, Doing
    <3>2. /\ job'[w].op \in {"complete", "none"}
          /\ job'[w].pc \in {"save", "idle", "ldap", "device"}
      <4> DEFINE A == job[w].row.status = "pending_family" /\ clock > job[w].row.exp
                 B == job[w].row.status = "authorized"
                 D == job[w].row.status = "pending_dwell" /\ job[w].dev # NONE
      <4>1. CASE A
        BY <1>1, <2>1, <3>1, <4>1 DEF CompleteDecide, Job
      <4>2. CASE B
        BY <1>1, <2>1, <3>1, <4>2 DEF CompleteDecide, Job
      <4>3. CASE D
        BY <1>1, <2>1, <3>1, <4>3 DEF CompleteDecide, Job
      <4>4. CASE ~A /\ ~B /\ ~D
        BY <1>1, <2>1, <3>1, <4>4 DEF CompleteDecide, Idle, Call
      <4> QED
        BY <4>1, <4>2, <4>3, <4>4
    <3> QED
      BY <3>2 DEF InHook
  <2>2. CASE CompleteSetPassword(w)
    <3>1. job'[w].pc = "save" /\ job'[w].op = "complete"
      BY <1>1, <2>2 DEF CompleteSetPassword, At, Job, JobOK
    <3> QED
      BY <3>1 DEF InHook
  <2> QED
    BY <1>2, <1>3, <1>4, <1>11, <2>1, <2>2 DEF Complete, CompleteStart, CompleteDevice,
       CompleteWall, CompleteLdapDown, CompleteSave, CompletePing, Labels
<1> QED
  BY <1>5, <1>6, <1>7, <1>8, <1>9, <1>10, <1>11 DEF Work

\* What a step of the registry does to it.
LEMMA RegistrySteps ==
  ASSUME Standing, NEW w \in Workers, Work(w), owner' # owner
  PROVE  /\ requests' = requests
         /\ \/ \E acct \in Accounts, d \in Devices : RegisterDevice(w, acct, d)
            \/ DropDevice(w)
<1>1. ~(FindActive(w) \/ GetRow(w))
  BY DEF FindActive, GetRow, tables
<1>2. ~Start(w)
  BY DEF Start, StartBudget, StartOtpBudget, StartSendOtp, StartSendFails, StartSupersede,
     StartResolve, StartInsert, StartPing, tables
<1>3. ~Verify(w)
  BY DEF Verify, VerifyStart, VerifySelect, VerifyCharge, VerifyConsume, VerifyBranch,
     VerifySave, VerifyPing, tables
<1>4. ~Authorize(w)
  BY DEF Authorize, ApproveStanding, ApproveDecide, ApproveSave, GrantGet, GrantSave, tables
<1>5. ~Cancel(w)
  BY DEF Cancel, CancelStanding, CancelSave, CancelPing, tables
<1>6. ~Complete(w)
  BY DEF Complete, CompleteStart, CompleteDecide, CompleteDevice, CompleteWall,
     CompleteSetPassword, CompleteLdapDown, CompleteSave, CompletePing, tables
<1>7. ~ \E a, b \in Accounts : RevokeLink(w, a, b)
  BY DEF RevokeLink
<1>8. DeviceOps(w)
  BY <1>1, <1>2, <1>3, <1>4, <1>5, <1>6, <1>7 DEF Work
<1>9. \/ \E acct \in Accounts, d \in Devices : RegisterDevice(w, acct, d)
      \/ DropDevice(w)
  BY <1>8 DEF DeviceOps, DeleteFind, VoidFind, VoidGet, VoidSave, tables
<1> QED
  BY <1>9 DEF RegisterDevice, DropDevice

LEMMA NothingRevives ==
  ASSUME Standing, Orderly, Voided, NEW w \in Workers, Work(w)
  PROVE  DeleteVoids'
<1>1. /\ requests \in Seq(Row) /\ Len(requests) \in Nat
      /\ \A i \in 1..Len(requests) : requests[i] \in Row
      /\ owner \in [Devices -> Accounts \cup {NONE, DELETED}]
      /\ DOMAIN requests = 1..Len(requests)
      /\ Voids(job[w]) /\ Knows(w)
  BY Handler DEF Voided, Orderly
<1>2. \A i \in 1..Len(requests) :
        (requests[i].recog # NONE /\ owner[requests[i].recog] = DELETED)
          => requests[i].status \notin Leaning
  BY <1>1 DEF Voided, DeleteVoids
<1>3. CASE requests' = requests /\ owner' = owner
  BY <1>2, <1>3 DEF Voided, DeleteVoids
<1>4. CASE owner' # owner
  <2>1. requests' = requests
    BY <1>4, RegistrySteps
  <2>2. ASSUME NEW acct \in Accounts, NEW d \in Devices, RegisterDevice(w, acct, d)
        PROVE  DeleteVoids'
    <3>1. owner' = [owner EXCEPT ![d] = acct] /\ acct # DELETED
      BY <2>2, RecoveryAssumption DEF RegisterDevice
    <3>2. ASSUME NEW i \in 1..Len(requests), requests[i].recog # NONE,
                 owner'[requests[i].recog] = DELETED
          PROVE  owner[requests[i].recog] = DELETED
      <4>1. requests[i].recog \in Devices
        BY <1>1, <3>2 DEF Row
      <4> QED
        BY <1>1, <3>1, <3>2, <4>1
    <3> QED
      BY <1>1, <1>2, <2>1, <3>2 DEF DeleteVoids
  <2>3. CASE DropDevice(w)
    <3>1. /\ owner' = [owner EXCEPT ![job[w].dev] = DELETED]
          /\ NoneLeans(job[w].dev)
      BY <1>1, <2>3 DEF DropDevice, At, Voids
    <3>2. ASSUME NEW i \in 1..Len(requests), requests[i].recog # NONE,
                 owner'[requests[i].recog] = DELETED
          PROVE  requests[i].status \notin Leaning
      <4>1. requests[i].recog \in Devices
        BY <1>1, <3>2 DEF Row
      <4>2. CASE requests[i].recog = job[w].dev
        BY <3>1, <4>2 DEF NoneLeans
      <4>3. CASE requests[i].recog # job[w].dev
        BY <1>1, <1>2, <3>1, <3>2, <4>1, <4>3
      <4> QED
        BY <4>2, <4>3
    <3> QED
      BY <1>1, <2>1, <3>2 DEF DeleteVoids
  <2> QED
    BY <1>4, <2>2, <2>3, RegistrySteps
<1>5. CASE owner' = owner /\ requests' # requests
  <2>1. ASSUME NEW rid, NEW row, MovesOn(w, rid, row)
        PROVE  DeleteVoids'
    <3>1. /\ Len(requests') = Len(requests) /\ rid \in 1..Len(requests)
          /\ \A i \in 1..Len(requests) : requests'[i] = IF i = rid THEN row ELSE requests[i]
      BY <1>1, <2>1, Written DEF MovesOn
    <3>2. /\ row.recog = requests[rid].recog
          /\ row.status \in Leaning => requests[rid].status \in Leaning
      BY <2>1 DEF MovesOn, Live, Leaning, Rank
    <3>3. DOMAIN requests' = 1..Len(requests)
      BY <1>1, <2>1 DEF MovesOn, WriteRow
    <3> QED
      BY <1>2, <1>5, <3>1, <3>2, <3>3 DEF DeleteVoids
  <2>2. CASE At(w, "insert") /\ requests' = Append(requests, [job[w].row EXCEPT !.created = clock])
    <3> DEFINE row == [job[w].row EXCEPT !.created = clock]
    <3>1. row \in Row /\ row.recog = job[w].row.recog
      BY <2>2, NewRow
    <3>2. row.recog # NONE => owner[row.recog] \in Accounts
      BY <1>1, <2>2, <3>1 DEF At, Knows, Vouched
    <3> HIDE DEF row
    <3>3. /\ Len(requests') = Len(requests) + 1
          /\ \A i \in 1..Len(requests) : requests'[i] = requests[i]
          /\ requests'[Len(requests) + 1] = row
          /\ DOMAIN requests' = 1..(Len(requests) + 1)
      BY <1>1, <2>2, <3>1, Inserted DEF row
    <3>4. \A i \in 1..(Len(requests) + 1) : i \in 1..Len(requests) \/ i = Len(requests) + 1
      BY <1>1
    <3>5. DELETED \notin Accounts
      BY RecoveryAssumption
    <3> QED
      BY <1>2, <1>5, <3>2, <3>3, <3>4, <3>5 DEF DeleteVoids
  <2> QED
    BY <1>5, <2>1, <2>2, TableSteps DEF TableStep
<1> QED
  BY <1>3, <1>4, <1>5

LEMMA HookVoids ==
  ASSUME Standing, Orderly, Voided, OneAccountPerDevice, NEW w \in Workers, Work(w)
  PROVE  Voids(job[w])'
<1>1. /\ job \in [Workers -> Job] /\ job[w] \in Job /\ JobOK(w) /\ Knows(w)
      /\ requests \in Seq(Row) /\ Len(requests) \in Nat /\ Voids(job[w])
  BY Handler DEF Orderly, Voided
<1>2. CASE ~DeviceOps(w) /\ ~ \E a, b \in Accounts : RevokeLink(w, a, b)
  BY <1>2, NotToHook DEF Voids, InHook, NoneLeans
<1>3. CASE \E a, b \in Accounts : RevokeLink(w, a, b)
  BY <1>3 DEF RevokeLink, Free, Voids, InHook
<1>4. ASSUME NEW acct \in Accounts, NEW d \in Devices, RegisterDevice(w, acct, d)
      PROVE  Voids(job[w])'
  BY <1>4 DEF RegisterDevice, Free, Voids, InHook
<1>5. ASSUME NEW acct \in Accounts, NEW d \in Devices, DeleteFind(w, acct, d)
      PROVE  Voids(job[w])'
  <2>1. job'[w].pc = "void_find" /\ job'[w].dev = d
    BY <1>1, <1>5 DEF DeleteFind, Call
  <2> QED
    BY <2>1 DEF Voids, InHook
<1>6. CASE VoidFind(w)
  <2> DEFINE rid == ActiveByDevice(job[w].dev)
  <2>1. \/ rid \in 1..Len(requests) /\ requests[rid].recog = job[w].dev
        \/ rid = 0 /\ NoneLeans(job[w].dev)
    BY <1>1, ActiveByDeviceFinds DEF NoneLeans
  <2> HIDE DEF rid
  <2>2. /\ job'[w].pc = IF rid = 0 THEN "drop" ELSE "void_get"
        /\ job'[w].rid = rid /\ job'[w].dev = job[w].dev /\ requests' = requests
        /\ job[w].pc = "void_find"
    BY <1>1, <1>6 DEF VoidFind, Job, rid, tables, At
  <2>3. job[w].dev \in Devices
    BY <1>1, <2>2 DEF Voids
  <2> QED
    BY <1>1, <2>1, <2>2, <2>3 DEF Voids, InHook, NoneLeans
<1>7. CASE VoidGet(w)
  <2>1. /\ job[w].pc = "void_get" /\ job'[w].pc = "save" /\ job'[w].rid = job[w].rid
        /\ job'[w].dev = job[w].dev /\ requests' = requests
    BY <1>1, <1>7 DEF VoidGet, Job, tables, At
  <2>2. job[w].dev \in Devices /\ requests[job[w].rid].recog = job[w].dev
    BY <1>1, <2>1 DEF Voids, InHook
  <2> QED
    BY <2>1, <2>2 DEF Voids, InHook, NoneLeans
<1>8. CASE VoidSave(w)
  <2> DEFINE rid == job[w].rid
             row == Cancelled(job[w].row, "device_removed")
             d == job[w].dev
  <2>1. /\ job[w].pc = "save" /\ job[w].op = "delete" /\ rid \in 1..Len(requests)
        /\ job[w].row \in Row
    BY <1>1, <1>8, OwnRow DEF VoidSave, Doing, WithRow, Job
  <2>2. d \in Devices /\ requests[rid].recog = d /\ d # NONE
    BY <1>1, <2>1, RecoveryAssumption DEF Voids, InHook
  <2>3. requests[rid].status \in Leaning
    BY <1>1, <2>1 DEF Knows, Fresh, GoesOn
  <2>4. row.status = "cancelled"
    BY <2>1 DEF Cancelled, Row
  <2>5. \A i \in 1..Len(requests) :
          requests[i].recog = d /\ requests[i].status \in Leaning => i = rid
    <3> SUFFICES ASSUME NEW i \in 1..Len(requests), requests[i].recog = d,
                        requests[i].status \in Leaning
                 PROVE  i = rid
      OBVIOUS
    <3>1. requests[i].acct = requests[rid].acct
      BY <1>1, <2>1, <2>2 DEF OneAccountPerDevice
    <3>2. requests[i].status \in Live /\ requests[rid].status \in Live
      BY <2>3 DEF Leaning, Live
    <3> QED
      BY <1>1, <2>1, <3>1, <3>2 DEF Orderly, NewestLive
  <2> HIDE DEF row
  <2>6. /\ Len(requests') = Len(requests)
        /\ \A i \in 1..Len(requests) : requests'[i] = IF i = rid THEN row ELSE requests[i]
    BY <1>1, <1>8, <2>1, Written DEF VoidSave, row
  <2>7. \A i \in 1..Len(requests') : requests'[i].recog = d => requests'[i].status \notin Leaning
    BY <2>4, <2>5, <2>6 DEF Leaning
  <2>8. job'[w].pc = "drop" /\ job'[w].dev = d
    BY <1>8, Moved DEF VoidSave
  <2> QED
    BY <2>2, <2>7, <2>8 DEF Voids, InHook, NoneLeans
<1>9. CASE DropDevice(w)
  <2>1. job'[w].pc = "idle"
    BY <1>1, <1>9 DEF DropDevice, Finish, Idle, Call
  <2> QED
    BY <2>1 DEF Voids, InHook
<1> QED
  BY <1>2, <1>3, <1>4, <1>5, <1>6, <1>7, <1>8, <1>9 DEF DeviceOps

\* A deletion under way is alone, so the others find the table as it left it.
LEMMA OthersVoid ==
  ASSUME Standing, Orderly, Voided, Apart, NEW w \in Workers, TableStep(w),
         NEW v \in Workers, v # w, job'[v] = job[v]
  PROVE  Voids(job[v])'
<1>1. Voids(job[v])
  BY DEF Voided
<1>2. CASE InHook(job[v])
  <2>1. ~Busy(w)
    BY <1>2, DeletesBusy DEF Apart
  <2>2. requests' = requests
    BY <2>1 DEF TableStep, Busy, At
  <2> QED
    BY <1>1, <2>2 DEF Voids, InHook, NoneLeans
<1>3. CASE ~InHook(job[v])
  BY <1>1, <1>3 DEF Voids, InHook, NoneLeans
<1> QED
  BY <1>2, <1>3

LEMMA SameVoided ==
  ASSUME Voided, UNCHANGED <<requests, owner, job>>
  PROVE  Voided'
BY DEF Voided, DeleteVoids, Voids, InHook, NoneLeans

LEMMA NextVoided ==
  ASSUME Standing, Orderly, Voided, Apart, OneAccountPerDevice, [Next]_vars
  PROVE  Voided'
<1>1. CASE UNCHANGED vars \/ Tick \/ \E a, b \in Accounts : LinkUsable(a, b)
  BY <1>1, SameVoided DEF vars, tables, Tick, LinkUsable
<1>2. ASSUME NEW w \in Workers, Crash(w) PROVE Voided'
  <2>1. requests' = requests /\ owner' = owner /\ Finish(w)
    BY <1>2 DEF Crash, tables
  <2>2. job'[w].pc = "idle" /\ \A v \in Workers \ {w} : job'[v] = job[v]
    BY <2>1, Handler DEF Finish, Idle, Call
  <2>3. Voids(job[w])'
    BY <2>2 DEF Voids, InHook
  <2>4. ASSUME NEW v \in Workers, v # w PROVE Voids(job[v])'
    BY <2>1, <2>2, <2>4, OthersVoid DEF TableStep
  <2>5. DeleteVoids'
    BY <2>1 DEF Voided, DeleteVoids
  <2> QED
    BY <2>3, <2>4, <2>5 DEF Voided
<1>3. ASSUME NEW w \in Workers, Work(w) PROVE Voided'
  <2>1. DeleteVoids' /\ Voids(job[w])' /\ TableStep(w)
    BY <1>3, NothingRevives, HookVoids, TableSteps
  <2>2. ASSUME NEW v \in Workers, v # w PROVE Voids(job[v])'
    BY <1>3, <2>1, <2>2, OthersKeepJobs, OthersVoid
  <2> QED
    BY <2>1, <2>2 DEF Voided
<1> QED
  BY <1>1, <1>2, <1>3 DEF Next

(***************************************************************************)
(* devices.delete runs the hook before it drops the row, and the hook      *)
(* voids one request: while no two handlers of one account overlap, a      *)
(* deletion overlaps with none, and a device vouches for one account, no   *)
(* live request leans on a device that is gone, even when the deletion     *)
(* dies between the two.                                                   *)
(***************************************************************************)
THEOREM DeleteVoidsWhenApart == Spec /\ []Apart /\ []OneAccountPerDevice => []DeleteVoids
<1>1. Init => Voided
  <2> SUFFICES ASSUME Init PROVE Voided
    OBVIOUS
  <2>1. requests = <<>> /\ \A w \in Workers : job[w].pc = "idle"
    BY DEF Init, Idle, Call
  <2> QED
    BY <2>1 DEF Voided, DeleteVoids, Voids, InHook
<1>2. Standing /\ Orderly /\ Voided /\ Apart /\ OneAccountPerDevice /\ [Next]_vars => Voided'
  BY NextVoided
<1>3. Voided => DeleteVoids
  BY DEF Voided
<1> QED
  BY <1>1, <1>2, <1>3, OrderlyHolds, PTL DEF Spec
-----------------------------------------------------------------------------
(* One password change for one request.                                    *)

\* Handler w has changed the password for request rid and not yet said so.
Owes(w, rid) ==
  Doing(w, "complete", "save") /\ job[w].rid = rid /\ job[w].row.status = "completed"

Spent(rid) ==
  /\ rid \in 1..Len(requests)
  /\ requests[rid].status = "completed" \/ \E w \in Workers : Owes(w, rid)

Once == OneResetPerRequest /\ \A k \in DOMAIN resets : Spent(resets[k].rid)

\* The next statement of a handler that owes its write is that write.
LEMMA OwesPays ==
  ASSUME NEW w \in Workers, Doing(w, "complete", "save"), Work(w)
  PROVE  CompleteSave(w)
<1>1. ~(FindActive(w) \/ GetRow(w))
  BY DEF FindActive, GetRow, Doing, At
<1>2. ~Start(w)
  BY DEF Start, StartBudget, StartOtpBudget, StartSendOtp, StartSendFails, StartSupersede,
     StartResolve, StartInsert, StartPing, Doing, At, Free
<1>3. ~Verify(w)
  BY DEF Verify, VerifyStart, VerifySelect, VerifyCharge, VerifyConsume, VerifyBranch,
     VerifySave, VerifyPing, Doing, At, Free
<1>4. ~Authorize(w)
  BY DEF Authorize, ApproveStanding, ApproveDecide, ApproveSave, GrantGet, GrantSave, Doing, Free
<1>5. ~Cancel(w)
  BY DEF Cancel, CancelStanding, CancelSave, CancelPing, Doing, Free
<1>6. ~DeviceOps(w)
  BY DEF DeviceOps, RegisterDevice, DeleteFind, VoidFind, VoidGet, VoidSave, DropDevice,
     Doing, At, Free
<1>7. ~ \E a, b \in Accounts : RevokeLink(w, a, b)
  BY DEF RevokeLink, Doing, Free
<1>8. Complete(w)
  BY <1>1, <1>2, <1>3, <1>4, <1>5, <1>6, <1>7 DEF Work
<1> QED
  BY <1>8 DEF Complete, CompleteStart, CompleteDecide, CompleteDevice, CompleteWall,
     CompleteSetPassword, CompleteLdapDown, CompletePing, Doing, At, Free

\* What is spent stays so: the end of a request is final, and no handler dies
\* between the directory and its write.
LEMMA SpentStays ==
  ASSUME ~Crashes, Standing, Orderly, [Next]_vars, NEW rid, Spent(rid)
  PROVE  Spent(rid)'
<1>1. requests \in Seq(Row) /\ Len(requests) \in Nat /\ rid \in 1..Len(requests)
  BY LenProperties DEF Standing, Evidence, TypeInv, TypeOK, Spent
<1>2. ASSUME UNCHANGED <<requests, job>> PROVE Spent(rid)'
  BY <1>2 DEF Spent, Owes, Doing
<1>3. CASE UNCHANGED vars \/ Tick \/ \E a, b \in Accounts : LinkUsable(a, b)
  BY <1>2, <1>3 DEF vars, tables, Tick, LinkUsable
<1>4. ASSUME NEW w \in Workers, Work(w) PROVE Spent(rid)'
  <2>1. CASE requests[rid].status = "completed"
    <3>1. TableStep(w)
      BY <1>4, TableSteps
    <3>2. CASE UNCHANGED requests
      BY <1>1, <2>1, <3>2 DEF Spent
    <3>3. ASSUME NEW i, NEW row, MovesOn(w, i, row) PROVE Spent(rid)'
      <4>1. Len(requests') = Len(requests) /\ requests'[rid] = IF rid = i THEN row ELSE requests[rid]
        BY <1>1, <3>3, Written DEF MovesOn
      <4>2. i # rid
        BY <2>1, <3>3 DEF MovesOn, Live
      <4> QED
        BY <1>1, <2>1, <4>1, <4>2 DEF Spent
    <3>4. CASE At(w, "insert") /\ requests' = Append(requests, [job[w].row EXCEPT !.created = clock])
      <4>1. Len(requests') = Len(requests) + 1 /\ requests'[rid] = requests[rid]
        BY <1>1, <3>4, NewRow, Inserted
      <4> QED
        BY <1>1, <2>1, <4>1 DEF Spent
    <3> QED
      BY <3>1, <3>2, <3>3, <3>4 DEF TableStep
  <2>2. ASSUME Owes(w, rid) PROVE Spent(rid)'
    <3>1. WriteRow(rid, job[w].row) /\ job[w].row.status = "completed"
      BY <1>4, <2>2, OwesPays DEF Owes, CompleteSave
    <3>2. Len(requests') = Len(requests) /\ requests'[rid] = job[w].row
      BY <1>1, <3>1, Written
    <3> QED
      BY <1>1, <3>1, <3>2 DEF Spent
  <2>3. ASSUME NEW v \in Workers, v # w, Owes(v, rid) PROVE Spent(rid)'
    <3>1. job'[v] = job[v]
      BY <1>4, <2>3, OthersKeepJobs
    <3>2. Owes(v, rid)'
      BY <2>3, <3>1 DEF Owes, Doing
    <3>3. rid \in 1..Len(requests')
      <4>1. CASE UNCHANGED requests
        BY <1>1, <4>1
      <4>2. ASSUME NEW i, NEW row, MovesOn(w, i, row) PROVE <3>3
        BY <1>1, <4>2, Written DEF MovesOn
      <4>3. CASE At(w, "insert") /\ requests' = Append(requests, [job[w].row EXCEPT !.created = clock])
        BY <1>1, <4>3, NewRow, Inserted
      <4> QED
        BY <1>4, <4>1, <4>2, <4>3, TableSteps DEF TableStep
    <3> QED
      BY <3>2, <3>3 DEF Spent
  <2> QED
    BY <2>1, <2>2, <2>3 DEF Spent
<1> QED
  BY <1>3, <1>4 DEF Next, Crash

LEMMA NextOnce ==
  ASSUME ~Crashes, Standing, Orderly, Apart, Once, [Next]_vars
  PROVE  Once'
<1>1. /\ DOMAIN resets = 1..Len(resets) /\ Len(resets) \in Nat
      /\ \E S : resets \in Seq(S)
  <2>1. \E S : resets \in Seq(S)
    BY DEF Standing, Evidence, TypeInv, TypeOK
  <2> QED
    BY <2>1, LenProperties
<1>2. ASSUME \A k \in DOMAIN resets' : \E n : n = resets'[k].rid /\ Spent(n)'
      PROVE  (\A k \in DOMAIN resets : Spent(resets[k].rid))'
  BY <1>2 DEF Spent, Owes, Doing
<1>3. \A k \in DOMAIN resets : \E n : n = resets[k].rid /\ Spent(n)'
  <2>1. ASSUME NEW n, Spent(n) PROVE Spent(n)'
    BY <2>1, SpentStays
  <2>2. ASSUME NEW k \in DOMAIN resets PROVE \E n : n = resets[k].rid /\ Spent(n)'
    <3>1. PICK n : n = resets[k].rid
      OBVIOUS
    <3>2. Spent(n)
      BY <3>1, <2>2 DEF Once
    <3> QED
      BY <2>1, <3>1, <3>2
  <2> QED
    BY <2>2
<1>4. CASE UNCHANGED resets
  <2>1. OneResetPerRequest'
    BY <1>4 DEF Once, OneResetPerRequest
  <2> QED
    BY <1>2, <1>3, <1>4, <2>1 DEF Once
<1>5. CASE resets' # resets
  <2>1. PICK w \in Workers : CompleteSetPassword(w)
    BY <1>5, ResetBy
  <2> DEFINE r == [rid |-> job[w].rid, acct |-> job[w].acct, leg |-> job[w].row.status,
                   at |-> clock]
  <2>2. resets' = Append(resets, r)
    BY <2>1 DEF CompleteSetPassword
  <2>3. /\ DOMAIN resets' = 1..(Len(resets) + 1)
        /\ \A k \in DOMAIN resets : resets'[k] = resets[k]
        /\ resets'[Len(resets) + 1] = r
    <3> HIDE DEF r
    <3> QED
      BY <1>1, <2>2
  <2>4. PICK rid : rid = job[w].rid
    OBVIOUS
  <2>5. r.rid = rid
    BY <2>4
  <2> HIDE DEF r
  <2>6. /\ job[w].pc = "ldap" /\ job[w].op = "complete" /\ rid \in 1..Len(requests)
        /\ requests[rid].acct = job[w].acct /\ requests[rid].status \in Live
    <3>1. job[w].pc = "ldap" /\ job[w].op = "complete" /\ Knows(w)
      BY <2>1, Handler DEF CompleteSetPassword, At, JobOK, Orderly
    <3> QED
      BY <2>4, <3>1, OwnRow DEF Knows, Fresh, WithRow, Kept
  <2>7. ~Spent(rid)
    <3>1. ASSUME NEW v \in Workers, Owes(v, rid) PROVE FALSE
      <4>1. job[v].pc = "save" /\ job[v].op = "complete" /\ job[v].rid = rid
        BY <3>1 DEF Owes, Doing
      <4>2. requests[rid].acct = job[v].acct
        BY <4>1, OwnRow DEF WithRow
      <4> QED
        BY <2>6, <4>1, <4>2 DEF Apart, Busy
    <3> QED
      BY <2>6, <3>1 DEF Spent, Live
  <2>8. \A k \in DOMAIN resets : resets[k].rid # rid
    BY <2>7 DEF Once
  <2>9. Spent(rid)'
    <3>1. requests' = requests /\ job'[w].pc = "save" /\ job'[w].op = "complete"
          /\ job'[w].rid = rid /\ job'[w].row.status = "completed"
      <4>1. job[w] \in Job /\ job[w].row \in Row /\ job \in [Workers -> Job]
        BY Handler DEF Job
      <4>2. job' = [job EXCEPT ![w].pc = "save", ![w].row.status = "completed"] /\ requests' = requests
        BY <2>1 DEF CompleteSetPassword
      <4> QED
        BY <2>4, <2>6, <4>1, <4>2 DEF Job, Row
    <3>2. Owes(w, rid)'
      BY <3>1 DEF Owes, Doing
    <3> QED
      BY <2>6, <3>1, <3>2 DEF Spent
  <2>10. \A k \in DOMAIN resets' : k \in DOMAIN resets \/ k = Len(resets) + 1
    BY <1>1, <2>3
  <2>11. OneResetPerRequest'
    BY <2>3, <2>5, <2>8, <2>10 DEF Once, OneResetPerRequest
  <2>12. \A k \in DOMAIN resets' : \E n : n = resets'[k].rid /\ Spent(n)'
    BY <1>3, <2>3, <2>5, <2>9, <2>10
  <2> QED
    BY <1>2, <2>11, <2>12 DEF Once
<1> QED
  BY <1>4, <1>5

(***************************************************************************)
(* An authorization is consumed by the password change it permits, when    *)
(* no handler dies between set_password and the write of the row and no    *)
(* two handlers of one account overlap: both leave the request live for a  *)
(* second change.                                                          *)
(***************************************************************************)
THEOREM OneResetWhenApart ==
  ASSUME ~Crashes
  PROVE  Spec /\ []Apart => []OneResetPerRequest
<1>1. Init => Once
  BY DEF Init, Once, OneResetPerRequest
<1>2. Standing /\ Orderly /\ Apart /\ Once /\ [Next]_vars => Once'
  BY NextOnce
<1>3. Once => OneResetPerRequest
  BY DEF Once
<1> QED
  BY <1>1, <1>2, <1>3, OrderlyHolds, PTL DEF Spec
-----------------------------------------------------------------------------
\* Between its call and its end a handler stays with its operation, account and caller.
LEMMA CarriesOn ==
  ASSUME Standing, NEW w \in Workers, Work(w), job[w].op # "none", job'[w].op # "none"
  PROVE  /\ job'[w].op = job[w].op /\ job'[w].acct = job[w].acct
         /\ job'[w].actor = job[w].actor
<1> DEFINE Same(j) == j.op = job[w].op /\ j.acct = job[w].acct /\ j.actor = job[w].actor
<1>1. /\ job \in [Workers -> Job] /\ job[w] \in Job /\ JobOK(w) /\ job[w].pc # "idle"
      /\ Idle.op = "none"
  BY Handler DEF JobOK, Idle, Call
<1>2. ~Finish(w)
  BY <1>1 DEF Finish
<1>3. ASSUME NEW label, Goto(w, label) PROVE Same(job'[w])
  BY <1>3, Moved
<1>4. CASE FindActive(w)
  <2> DEFINE rid == ActiveFor(job[w].acct)
             j == IF rid # 0 THEN [job[w] EXCEPT !.pc = "get", !.rid = rid]
                  ELSE IF job[w].op = "start" THEN [job[w] EXCEPT !.pc = "resolve"]
                  ELSE Idle
  <2>1. job'[w] = j
    BY <1>1, <1>4 DEF FindActive
  <2>2. j = Idle \/ Same(j)
    BY <1>1 DEF Job
  <2> HIDE DEF j
  <2> QED
    BY <1>1, <2>1, <2>2
<1>5. CASE GetRow(w)
  BY <1>1, <1>5 DEF GetRow, Job
<1>6. CASE Start(w)
  <2>1. CASE StartOtpBudget(w) \/ StartSendOtp(w) \/ StartSendFails(w) \/ StartPing(w)
    BY <1>1, <1>2, <1>3, <2>1 DEF StartOtpBudget, StartSendOtp, StartSendFails, StartPing, Job
  <2>2. CASE StartSupersede(w) \/ StartResolve(w) \/ StartInsert(w)
    BY <1>1, <2>2 DEF StartSupersede, StartResolve, StartInsert, Job
  <2> QED
    BY <1>1, <1>6, <2>1, <2>2 DEF Start, StartBudget, Free
<1>7. CASE Verify(w)
  <2>1. ASSUME NEW matches, NEW now, VerifySelect(w, matches, now) PROVE Same(job'[w])
    <3>1. \E verdict, id :
            job'[w] = IF Charged(verdict) THEN [job[w] EXCEPT !.pc = "otp_charge", !.ch = id]
                      ELSE IF verdict = "accepted"
                           THEN [job[w] EXCEPT !.pc = "otp_consume", !.ch = id]
                      ELSE Idle
      BY <1>1, <2>1 DEF VerifySelect
    <3> QED
      BY <1>1, <3>1 DEF Job
  <2>2. CASE VerifyConsume(w)
    BY <1>1, <2>2 DEF VerifyConsume, Job
  <2>3. ASSUME NEW now, VerifyBranch(w, now) PROVE Same(job'[w])
    <3>1. \E to, row :
            job'[w] = [job[w] EXCEPT !.pc = "save", !.now = 0, !.to = to, !.row = row]
      BY <1>1, <2>3 DEF VerifyBranch
    <3> QED
      BY <1>1, <3>1 DEF Job
  <2>4. ~VerifyCharge(w) /\ ~VerifyPing(w)
    BY <1>2 DEF VerifyCharge, VerifyPing
  <2>5. CASE VerifySave(w)
    BY <1>2, <1>3, <2>5 DEF VerifySave
  <2> QED
    BY <1>1, <1>7, <2>1, <2>2, <2>3, <2>4, <2>5 DEF Verify, VerifyStart, Free
<1>8. CASE Authorize(w)
  <2>1. CASE ApproveDecide(w)
    BY <1>1, <2>1 DEF ApproveDecide, Job
  <2> QED
    BY <1>1, <1>2, <1>8, <2>1 DEF Authorize, ApproveStanding, ApproveSave, GrantGet, GrantSave, Free
<1>9. CASE Cancel(w)
  BY <1>1, <1>2, <1>3, <1>9 DEF Cancel, CancelStanding, CancelSave, CancelPing, Free
<1>10. CASE Complete(w)
  <2>1. CASE CompleteDecide(w)
    <3> DEFINE j == CASE job[w].row.status = "pending_family" /\ clock > job[w].row.exp ->
                           [job[w] EXCEPT !.pc = "save", !.row.status = "expired"]
                      [] job[w].row.status = "authorized" -> [job[w] EXCEPT !.pc = "ldap"]
                      [] job[w].row.status = "pending_dwell" /\ job[w].dev # NONE ->
                           [job[w] EXCEPT !.pc = "device"]
                      [] OTHER -> Idle
    <3>1. job'[w] = j
      BY <1>1, <2>1 DEF CompleteDecide
    <3>2. j = Idle \/ Same(j)
      BY <1>1 DEF Job
    <3> HIDE DEF j
    <3> QED
      BY <1>1, <3>1, <3>2
  <2>2. CASE CompleteSetPassword(w)
    BY <1>1, <2>2 DEF CompleteSetPassword, Job
  <2>3. CASE CompleteDevice(w) \/ CompleteWall(w) \/ CompleteLdapDown(w) \/ CompleteSave(w) \/ CompletePing(w)
    BY <1>2, <1>3, <2>3 DEF CompleteDevice, CompleteWall, CompleteLdapDown, CompleteSave, CompletePing
  <2> QED
    BY <1>1, <1>10, <2>1, <2>2, <2>3 DEF Complete, CompleteStart, Free
<1>11. CASE DeviceOps(w)
  <2>1. CASE VoidFind(w) \/ VoidGet(w)
    BY <1>1, <2>1 DEF VoidFind, VoidGet, Job
  <2> QED
    BY <1>1, <1>2, <1>3, <1>11, <2>1 DEF DeviceOps, RegisterDevice, DeleteFind, VoidSave,
       DropDevice, Free
<1>12. ~ \E a, b \in Accounts : RevokeLink(w, a, b)
  BY <1>1 DEF RevokeLink, Free
<1> QED
  BY <1>4, <1>5, <1>6, <1>7, <1>8, <1>9, <1>10, <1>11, <1>12 DEF Work

\* A start and an approval begin with their first check.
LEMMA Begins ==
  ASSUME Standing, NEW w \in Workers, Work(w), job[w].op = "none"
  PROVE  /\ job'[w].op = "start" =>
              \E acct \in Subjects, dev \in Devices \cup {NONE} : StartBudget(w, acct, dev)
         /\ job'[w].op = "approve" => \E member, acct \in Accounts : ApproveStanding(w, member, acct)
<1>1. job \in [Workers -> Job] /\ job[w].pc = "idle"
  BY Handler DEF JobOK
<1>2. ~FindActive(w) /\ ~GetRow(w)
  BY <1>1 DEF FindActive, GetRow, At
<1>3. CASE Start(w)
  BY <1>1, <1>3 DEF Start, StartBudget, StartOtpBudget, StartSendOtp, StartSendFails,
     StartSupersede, StartResolve, StartInsert, StartPing, Doing, At, Call
<1>4. CASE Verify(w)
  BY <1>1, <1>4 DEF Verify, VerifyStart, VerifySelect, VerifyCharge, VerifyConsume, VerifyBranch,
     VerifySave, VerifyPing, Doing, At, Call
<1>5. CASE Authorize(w)
  <2>1. ASSUME NEW rid, GrantGet(w, rid) PROVE job'[w].op = "grant"
    BY <1>1, <2>1 DEF GrantGet, Call
  <2>2. ASSUME NEW member, NEW acct, ApproveStanding(w, member, acct) PROVE job'[w].op = "approve"
    BY <1>1, <2>2 DEF ApproveStanding, Call
  <2> QED
    BY <1>1, <1>5, <2>1, <2>2 DEF Authorize, ApproveDecide, ApproveSave, GrantSave, Doing
<1>6. CASE Cancel(w)
  BY <1>1, <1>6 DEF Cancel, CancelStanding, CancelSave, CancelPing, Doing, Call
<1>7. CASE Complete(w)
  BY <1>1, <1>7 DEF Complete, CompleteStart, CompleteDecide, CompleteDevice, CompleteWall,
     CompleteSetPassword, CompleteLdapDown, CompleteSave, CompletePing, Doing, At, Call
<1>8. CASE DeviceOps(w)
  BY <1>1, <1>8 DEF DeviceOps, RegisterDevice, DeleteFind, VoidFind, VoidGet, VoidSave,
     DropDevice, Doing, At, Call
<1>9. CASE \E a, b \in Accounts : RevokeLink(w, a, b)
  BY <1>9 DEF RevokeLink
<1> QED
  BY <1>2, <1>3, <1>4, <1>5, <1>6, <1>7, <1>8, <1>9 DEF Work
-----------------------------------------------------------------------------
(* The hourly budget of starts, whatever overlaps.                         *)

\* A copy of a row has the date of the row, and a row about to be inserted is
\* for the account of the start.
Dated(w) ==
  /\ HoldsRow(w) => job[w].row.created = requests[job[w].rid].created
  /\ job[w].pc \in {"otp_budget", "otp_send", "resolve", "insert"} => job[w].op = "start"
  /\ job[w].pc = "insert" => job[w].row.acct = job[w].acct

DatesOK == \A w \in Workers : Dated(w)

\* No row changes its account or its date.
SameDates ==
  /\ Len(requests') = Len(requests)
  /\ \A i \in 1..Len(requests) :
       requests'[i].acct = requests[i].acct /\ requests'[i].created = requests[i].created

Inserts(w) == At(w, "insert") /\ requests' = Append(requests, [job[w].row EXCEPT !.created = clock])

LEMMA HeldOwn ==
  ASSUME Standing, NEW w \in Workers, HoldsRow(w)
  PROVE  job[w].rid \in 1..Len(requests) /\ job[w].row.acct = requests[job[w].rid].acct
<1>1. JobOK(w) /\ JobStanding(w) /\ Len(requests) \in Nat
  BY Handler
<1> QED
  BY <1>1 DEF JobOK, JobStanding, HoldsRow, Holding

LEMMA WriteKeeps ==
  ASSUME Standing, DatesOK, NEW w \in Workers, HoldsRow(w), NEW row,
         row.acct = job[w].row.acct, row.created = job[w].row.created,
         WriteRow(job[w].rid, row)
  PROVE  SameDates
<1>1. requests \in Seq(Row) /\ Len(requests) \in Nat
  BY Handler
<1>2. /\ Len(requests') = Len(requests)
      /\ \A i \in 1..Len(requests) : requests'[i] = IF i = job[w].rid THEN row ELSE requests[i]
  BY <1>1, HeldOwn, Written
<1>3. row.acct = requests[job[w].rid].acct /\ row.created = requests[job[w].rid].created
  BY HeldOwn DEF DatesOK, Dated
<1> QED
  BY <1>2, <1>3 DEF SameDates

\* _save writes whole rows, but a row's account and date are what they were.
LEMMA DatesKept ==
  ASSUME Standing, DatesOK, NEW w \in Workers, Work(w)
  PROVE  SameDates \/ Inserts(w)
<1>1. job[w].row \in Row
  BY Handler DEF Job
<1>2. ASSUME UNCHANGED requests PROVE SameDates
  BY <1>2 DEF SameDates
<1>3. ASSUME NEW why, HoldsRow(w), WriteRow(job[w].rid, Cancelled(job[w].row, why)) PROVE SameDates
  <2>1. /\ Cancelled(job[w].row, why).acct = job[w].row.acct
        /\ Cancelled(job[w].row, why).created = job[w].row.created
    BY <1>1 DEF Cancelled, Row
  <2> QED
    BY <1>3, <2>1, WriteKeeps
<1>4. CASE FindActive(w) \/ GetRow(w)
  BY <1>2, <1>4 DEF FindActive, GetRow, tables
<1>5. CASE Start(w)
  <2>1. CASE StartSupersede(w)
    BY <1>3, <2>1 DEF StartSupersede, Doing, HoldsRow
  <2>2. CASE StartInsert(w)
    BY <2>2 DEF StartInsert, Inserts
  <2> QED
    BY <1>2, <1>5, <2>1, <2>2 DEF Start, StartBudget, StartOtpBudget, StartSendOtp,
       StartSendFails, StartResolve, StartPing, tables
<1>6. CASE Verify(w)
  <2>1. CASE VerifySave(w)
    BY <2>1, WriteKeeps DEF VerifySave, Doing, HoldsRow
  <2> QED
    BY <1>2, <1>6, <2>1 DEF Verify, VerifyStart, VerifySelect, VerifyCharge, VerifyConsume,
       VerifyBranch, VerifyPing, tables
<1>7. CASE Authorize(w)
  <2>1. CASE ApproveSave(w)
    BY <2>1, WriteKeeps DEF ApproveSave, Doing, HoldsRow
  <2>2. CASE GrantSave(w)
    <3> DEFINE row == [job[w].row EXCEPT !.status = "authorized", !.by = ADMIN, !.authAt = clock]
    <3>1. row.acct = job[w].row.acct /\ row.created = job[w].row.created
      BY <1>1 DEF Row
    <3>2. HoldsRow(w) /\ WriteRow(job[w].rid, row)
      BY <2>2 DEF GrantSave, Doing, HoldsRow
    <3> HIDE DEF row
    <3> QED
      BY <3>1, <3>2, WriteKeeps
  <2> QED
    BY <1>2, <1>7, <2>1, <2>2 DEF Authorize, ApproveStanding, ApproveDecide, GrantGet, tables
<1>8. CASE Cancel(w)
  <2>1. CASE CancelSave(w)
    BY <1>3, <2>1 DEF CancelSave, Doing, HoldsRow
  <2> QED
    BY <1>2, <1>8, <2>1 DEF Cancel, CancelStanding, CancelPing, tables
<1>9. CASE Complete(w)
  <2>1. CASE CompleteSave(w)
    BY <2>1, WriteKeeps DEF CompleteSave, Doing, HoldsRow
  <2> QED
    BY <1>2, <1>9, <2>1 DEF Complete, CompleteStart, CompleteDecide, CompleteDevice,
       CompleteWall, CompleteSetPassword, CompleteLdapDown, CompletePing, tables
<1>10. CASE DeviceOps(w)
  <2>1. CASE VoidSave(w)
    BY <1>3, <2>1 DEF VoidSave, Doing, HoldsRow
  <2> QED
    BY <1>2, <1>10, <2>1 DEF DeviceOps, RegisterDevice, DeleteFind, VoidFind, VoidGet,
       DropDevice, tables
<1>11. CASE \E a, b \in Accounts : RevokeLink(w, a, b)
  BY <1>2, <1>11 DEF RevokeLink
<1> QED
  BY <1>4, <1>5, <1>6, <1>7, <1>8, <1>9, <1>10, <1>11 DEF Work

\* The row a start inserts.
LEMMA InsertedRow ==
  ASSUME Standing, DatesOK, NEW w \in Workers, Inserts(w)
  PROVE  \E row : /\ row.acct = job[w].acct /\ row.created = clock
                  /\ Len(requests') = Len(requests) + 1
                  /\ \A i \in 1..Len(requests) : requests'[i] = requests[i]
                  /\ requests'[Len(requests) + 1] = row
<1> DEFINE row == [job[w].row EXCEPT !.created = clock]
<1>1. job[w].row \in Row /\ clock \in Nat /\ requests \in Seq(Row) /\ Len(requests) \in Nat
  BY Handler DEF Job, Standing, Evidence, TypeInv, TypeOK
<1>2. row \in Row /\ row.acct = job[w].row.acct /\ row.created = clock
  BY <1>1 DEF Row
<1>3. job[w].row.acct = job[w].acct
  BY DEF DatesOK, Dated, Inserts, At
<1>4. requests' = Append(requests, row)
  BY DEF Inserts
<1> HIDE DEF row
<1> QED
  BY <1>1, <1>2, <1>3, <1>4, Inserted

\* What handler v holds keeps the date it has in the table.
LEMMA OthersDated ==
  ASSUME Standing, DatesOK, NEW v \in Workers, job'[v] = job[v],
         \A i \in 1..Len(requests) : requests'[i].created = requests[i].created
  PROVE  Dated(v)'
<1>1. Dated(v)
  BY DEF DatesOK
<1>2. HoldsRow(v) => job[v].rid \in 1..Len(requests)
  BY HeldOwn
<1> QED
  BY <1>1, <1>2 DEF Dated, HoldsRow

\* A handler that goes on with the row it holds, or without one.
LEMMA StepDated ==
  ASSUME Standing, DatesOK, NEW w \in Workers, UNCHANGED requests, HoldsRow(w),
         job'[w].pc \notin {"otp_budget", "otp_send", "resolve", "insert"},
         job'[w].rid = job[w].rid, job'[w].row.created = job[w].row.created
  PROVE  Dated(w)'
BY DEF DatesOK, Dated, HoldsRow

LEMMA RowlessDated ==
  ASSUME NEW w \in Workers,
         job'[w].pc \in {"idle", "find", "get", "ping", "void_find", "void_get", "drop"}
  PROVE  Dated(w)'
BY DEF Dated, HoldsRow

LEMMA WorkDated ==
  ASSUME Standing, DatesOK, NEW w \in Workers, Work(w)
  PROVE  Dated(w)'
<1>1. /\ job \in [Workers -> Job] /\ job[w] \in Job /\ job[w].row \in Row /\ Dated(w) /\ JobOK(w)
      /\ Idle.pc = "idle"
  BY Handler DEF Job, DatesOK, Idle, Call
<1>2. ASSUME Finish(w) PROVE Dated(w)'
  BY <1>1, <1>2, RowlessDated DEF Finish
<1>3. ASSUME NEW op, NEW label \in {"find", "void_find"}, NEW acct, NEW actor, NEW dev,
             job' = [job EXCEPT ![w] = Call(op, label, acct, actor, dev)]
      PROVE  Dated(w)'
  BY <1>1, <1>3, RowlessDated DEF Call
<1>4. CASE FindActive(w)
  <2> DEFINE rid == ActiveFor(job[w].acct)
             j == IF rid # 0 THEN [job[w] EXCEPT !.pc = "get", !.rid = rid]
                  ELSE IF job[w].op = "start" THEN [job[w] EXCEPT !.pc = "resolve"]
                  ELSE Idle
  <2>1. job'[w] = j
    BY <1>1, <1>4 DEF FindActive
  <2>2. j.pc \in {"idle", "get"} \/ (j.pc = "resolve" /\ j.op = "start")
    BY <1>1 DEF Job
  <2> HIDE DEF j
  <2> QED
    BY <2>1, <2>2 DEF Dated, HoldsRow
<1>5. CASE GetRow(w)
  <2>1. job'[w].pc = "decide" /\ job'[w].rid = job[w].rid /\ job'[w].row = requests[job[w].rid]
        /\ requests' = requests
    BY <1>1, <1>5 DEF GetRow, tables, Job
  <2> QED
    BY <2>1 DEF Dated, HoldsRow
<1>6. CASE Start(w)
  <2>1. ASSUME NEW acct, NEW dev, StartBudget(w, acct, dev) PROVE Dated(w)'
    <3>1. job'[w].pc = "otp_budget" /\ job'[w].op = "start"
      BY <1>1, <2>1 DEF StartBudget, Call
    <3> QED
      BY <3>1 DEF Dated, HoldsRow
  <2>2. CASE StartOtpBudget(w)
    <3>1. job[w].op = "start"
      BY <1>1, <2>2 DEF Dated, StartOtpBudget, At
    <3>2. Finish(w) \/ (job'[w].pc = "otp_send" /\ job'[w].op = "start")
      BY <1>1, <2>2, <3>1 DEF StartOtpBudget, Job
    <3> QED
      BY <1>2, <3>2 DEF Dated, HoldsRow
  <2>3. CASE StartSendOtp(w)
    BY <2>3, Moved, RowlessDated DEF StartSendOtp
  <2>4. CASE StartSendFails(w) \/ StartPing(w)
    BY <1>2, <2>4 DEF StartSendFails, StartPing
  <2>5. CASE StartSupersede(w)
    <3>1. job'[w].pc = "resolve" /\ job'[w].op = "start"
      BY <1>1, <2>5 DEF StartSupersede, Doing, Job
    <3> QED
      BY <3>1 DEF Dated, HoldsRow
  <2>6. CASE StartResolve(w)
    <3>1. /\ job'[w].pc = "insert" /\ job'[w].op = job[w].op /\ job[w].op = "start"
          /\ job'[w].acct = job[w].acct /\ job'[w].row.acct = job[w].acct
      BY <1>1, <2>6 DEF StartResolve, At, Job, Dated, NoRow
    <3> QED
      BY <3>1 DEF Dated, HoldsRow
  <2>7. CASE StartInsert(w)
    <3>1. job'[w].pc = "ping"
      BY <1>1, <2>7 DEF StartInsert, Job
    <3> QED
      BY <3>1, RowlessDated
  <2> QED
    BY <1>6, <2>1, <2>2, <2>3, <2>4, <2>5, <2>6, <2>7 DEF Start
<1>7. CASE Verify(w)
  <2>1. ASSUME NEW acct, VerifyStart(w, acct) PROVE Dated(w)'
    BY <1>3, <2>1 DEF VerifyStart
  <2>2. ASSUME NEW matches, NEW now, VerifySelect(w, matches, now) PROVE Dated(w)'
    <3>1. \E verdict, id :
            job'[w] = IF Charged(verdict) THEN [job[w] EXCEPT !.pc = "otp_charge", !.ch = id]
                      ELSE IF verdict = "accepted"
                           THEN [job[w] EXCEPT !.pc = "otp_consume", !.ch = id]
                      ELSE Idle
      BY <1>1, <2>2 DEF VerifySelect
    <3>2. HoldsRow(w) /\ UNCHANGED requests
      BY <2>2 DEF VerifySelect, Doing, HoldsRow, tables
    <3>3. \/ job'[w].pc = "idle"
          \/ /\ job'[w].pc \in {"otp_charge", "otp_consume"} /\ job'[w].rid = job[w].rid
             /\ job'[w].row = job[w].row
      BY <1>1, <3>1 DEF Job
    <3> QED
      BY <3>2, <3>3, RowlessDated, StepDated
  <2>3. CASE VerifyCharge(w) \/ VerifyPing(w)
    BY <1>2, <2>3 DEF VerifyCharge, VerifyPing
  <2>4. CASE VerifyConsume(w)
    <3>1. /\ HoldsRow(w) /\ UNCHANGED requests /\ job'[w].pc = "branch"
          /\ job'[w].rid = job[w].rid /\ job'[w].row = job[w].row
      BY <1>1, <2>4 DEF VerifyConsume, At, HoldsRow, Job
    <3> QED
      BY <3>1, StepDated
  <2>5. ASSUME NEW now, VerifyBranch(w, now) PROVE Dated(w)'
    <3>1. PICK to, status, exp, authAt :
            job'[w] = [job[w] EXCEPT !.pc = "save", !.now = 0, !.to = to,
                         !.row = [job[w].row EXCEPT !.status = status, !.exp = exp, !.authAt = authAt]]
      BY <1>1, <2>5 DEF VerifyBranch
    <3>2. /\ HoldsRow(w) /\ UNCHANGED requests
      BY <2>5 DEF VerifyBranch, At, HoldsRow, tables
    <3> DEFINE row == [job[w].row EXCEPT !.status = status, !.exp = exp, !.authAt = authAt]
    <3>3. row.created = job[w].row.created
      BY <1>1 DEF Row
    <3> HIDE DEF row
    <3>4. job'[w].pc = "save" /\ job'[w].rid = job[w].rid /\ job'[w].row = row
      BY <1>1, <3>1 DEF Job, row
    <3> QED
      BY <3>2, <3>3, <3>4, StepDated
  <2>6. CASE VerifySave(w)
    BY <1>2, <2>6, Moved, RowlessDated DEF VerifySave
  <2> QED
    BY <1>7, <2>1, <2>2, <2>3, <2>4, <2>5, <2>6 DEF Verify
<1>8. CASE Authorize(w)
  <2>1. ASSUME NEW member, NEW acct, ApproveStanding(w, member, acct) PROVE Dated(w)'
    BY <1>3, <2>1 DEF ApproveStanding
  <2>2. CASE ApproveDecide(w)
    <3>1. HoldsRow(w) /\ UNCHANGED requests
      BY <2>2 DEF ApproveDecide, Doing, HoldsRow, tables
    <3>2. \/ job'[w].pc = "idle"
          \/ /\ job'[w].pc = "save" /\ job'[w].rid = job[w].rid
             /\ job'[w].row.created = job[w].row.created
      BY <1>1, <2>2 DEF ApproveDecide, Job, Row
    <3> QED
      BY <3>1, <3>2, RowlessDated, StepDated
  <2>3. CASE ApproveSave(w) \/ GrantSave(w)
    BY <1>2, <2>3 DEF ApproveSave, GrantSave
  <2>4. ASSUME NEW rid, GrantGet(w, rid) PROVE Dated(w)'
    <3>1. job'[w].pc = "save" /\ job'[w].rid = rid /\ job'[w].row = requests[rid]
          /\ UNCHANGED requests
      BY <1>1, <2>4 DEF GrantGet, Call, tables
    <3> QED
      BY <3>1 DEF Dated, HoldsRow
  <2> QED
    BY <1>8, <2>1, <2>2, <2>3, <2>4 DEF Authorize
<1>9. CASE Cancel(w)
  <2>1. ASSUME NEW actor, NEW acct, CancelStanding(w, actor, acct) PROVE Dated(w)'
    BY <1>3, <2>1 DEF CancelStanding
  <2> QED
    BY <1>2, <1>9, <2>1, Moved, RowlessDated DEF Cancel, CancelSave, CancelPing
<1>10. CASE Complete(w)
  <2>1. ASSUME NEW acct, NEW dev, CompleteStart(w, acct, dev) PROVE Dated(w)'
    BY <1>3, <2>1 DEF CompleteStart
  <2>2. CASE CompleteDecide(w)
    <3> DEFINE j == CASE job[w].row.status = "pending_family" /\ clock > job[w].row.exp ->
                           [job[w] EXCEPT !.pc = "save", !.row.status = "expired"]
                      [] job[w].row.status = "authorized" -> [job[w] EXCEPT !.pc = "ldap"]
                      [] job[w].row.status = "pending_dwell" /\ job[w].dev # NONE ->
                           [job[w] EXCEPT !.pc = "device"]
                      [] OTHER -> Idle
    <3>1. HoldsRow(w) /\ UNCHANGED requests
      BY <2>2 DEF CompleteDecide, Doing, HoldsRow, tables
    <3>2. job'[w] = j
      BY <1>1, <2>2 DEF CompleteDecide
    <3>3. \/ j.pc = "idle"
          \/ /\ j.pc \in {"save", "ldap", "device"} /\ j.rid = job[w].rid
             /\ j.row.created = job[w].row.created
      BY <1>1 DEF Job, Row
    <3> HIDE DEF j
    <3> QED
      BY <3>1, <3>2, <3>3, RowlessDated, StepDated
  <2>3. CASE CompleteDevice(w) \/ CompleteWall(w)
    <3>1. HoldsRow(w) /\ UNCHANGED requests
      BY <2>3 DEF CompleteDevice, CompleteWall, At, HoldsRow, tables
    <3>2. Finish(w) \/ \E label \in {"wall", "ldap"} : Goto(w, label)
      BY <2>3 DEF CompleteDevice, CompleteWall
    <3> QED
      BY <1>2, <3>1, <3>2, Moved, StepDated
  <2>4. CASE CompleteSetPassword(w)
    <3>1. /\ HoldsRow(w) /\ UNCHANGED requests
          /\ job'[w].pc = "save" /\ job'[w].rid = job[w].rid
          /\ job'[w].row.created = job[w].row.created
      BY <1>1, <2>4 DEF CompleteSetPassword, At, HoldsRow, Job, Row
    <3> QED
      BY <3>1, StepDated
  <2>5. CASE CompleteLdapDown(w) \/ CompleteSave(w) \/ CompletePing(w)
    BY <1>2, <2>5, Moved, RowlessDated DEF CompleteLdapDown, CompleteSave, CompletePing
  <2> QED
    BY <1>10, <2>1, <2>2, <2>3, <2>4, <2>5 DEF Complete
<1>11. CASE DeviceOps(w)
  <2>1. ASSUME NEW acct, NEW d, RegisterDevice(w, acct, d) PROVE Dated(w)'
    <3>1. job'[w].pc = "idle"
      BY <2>1 DEF RegisterDevice, Free
    <3> QED
      BY <3>1, RowlessDated
  <2>2. ASSUME NEW acct, NEW d, DeleteFind(w, acct, d) PROVE Dated(w)'
    BY <1>3, <2>2 DEF DeleteFind
  <2>3. CASE VoidFind(w)
    <3>1. job'[w].pc \in {"drop", "void_get"}
      BY <1>1, <2>3 DEF VoidFind, Job
    <3> QED
      BY <3>1, RowlessDated
  <2>4. CASE VoidGet(w)
    <3>1. job'[w].pc = "save" /\ job'[w].rid = job[w].rid /\ job'[w].row = requests[job[w].rid]
          /\ UNCHANGED requests
      BY <1>1, <2>4 DEF VoidGet, Job, tables
    <3> QED
      BY <3>1 DEF Dated, HoldsRow
  <2>5. CASE VoidSave(w) \/ DropDevice(w)
    BY <1>2, <2>5, Moved, RowlessDated DEF VoidSave, DropDevice
  <2> QED
    BY <1>11, <2>1, <2>2, <2>3, <2>4, <2>5 DEF DeviceOps
<1>12. CASE \E a, b \in Accounts : RevokeLink(w, a, b)
  BY <1>12, RowlessDated DEF RevokeLink, Free
<1> QED
  BY <1>4, <1>5, <1>6, <1>7, <1>8, <1>9, <1>10, <1>11, <1>12 DEF Work

LEMMA NextDated ==
  ASSUME Standing, DatesOK, [Next]_vars
  PROVE  DatesOK'
<1>1. ASSUME UNCHANGED requests, NEW v \in Workers, job'[v] = job[v] PROVE Dated(v)'
  BY <1>1, OthersDated
<1>2. CASE UNCHANGED vars \/ Tick \/ \E a, b \in Accounts : LinkUsable(a, b)
  BY <1>1, <1>2 DEF DatesOK, vars, tables, Tick, LinkUsable
<1>3. ASSUME NEW w \in Workers, Crash(w) PROVE DatesOK'
  <2>1. /\ UNCHANGED requests
        /\ \A v \in Workers : job'[v] = job[v] \/ job'[v] = Idle
    BY <1>3, Handler DEF Crash, tables, Finish
  <2>2. Idle.pc = "idle"
    BY DEF Idle, Call
  <2> QED
    BY <1>1, <2>1, <2>2, RowlessDated DEF DatesOK
<1>4. ASSUME NEW w \in Workers, Work(w) PROVE DatesOK'
  <2>1. \A i \in 1..Len(requests) : requests'[i].created = requests[i].created
    BY <1>4, DatesKept, InsertedRow DEF SameDates
  <2>2. \A v \in Workers : v # w => job'[v] = job[v]
    BY <1>4, OthersKeepJobs
  <2> QED
    BY <1>4, <2>1, <2>2, OthersDated, WorkDated DEF DatesOK
<1> QED
  BY <1>2, <1>3, <1>4 DEF Next

LEMMA DatesHold == Spec => [](Standing /\ DatesOK)
<1>1. Init => DatesOK
  BY DEF Init, DatesOK, Dated, HoldsRow, Idle, Call
<1>2. Standing /\ DatesOK /\ [Next]_vars => DatesOK'
  BY NextDated
<1> QED
  BY <1>1, <1>2, StandingHolds, PTL DEF Spec

\* The requests of an account that were inserted in the hour from t.
HourFrom(acct, t) ==
  {j \in 1..Len(requests) : requests[j].acct = acct /\ requests[j].created \in t .. t + Hour - 1}

\* A start that passed the budget and is still to insert its request.
Coming(w) == job[w].op = "start" /\ job[w].pc # "ping"

\* The starts whose insert may still fall into that hour.
Aiming(acct, t) == {w \in Workers : Coming(w) /\ job[w].acct = acct /\ clock <= t + Hour - 1}

Load(acct, t) == Cardinality(HourFrom(acct, t)) + Cardinality(Aiming(acct, t))

LEMMA LoadFinite ==
  ASSUME Standing, NEW acct, NEW t
  PROVE  /\ IsFiniteSet(HourFrom(acct, t)) /\ Cardinality(HourFrom(acct, t)) \in Nat
         /\ IsFiniteSet(Aiming(acct, t)) /\ Cardinality(Aiming(acct, t)) \in Nat
         /\ Cardinality(Aiming(acct, t)) <= Cardinality(Workers)
<1>1. Len(requests) \in Nat
  BY LenProperties DEF Standing, Evidence, TypeInv, TypeOK
<1>2. IsFiniteSet(1..Len(requests)) /\ IsFiniteSet(Workers)
  BY <1>1, FS_Interval, RecoveryAssumption
<1>3. HourFrom(acct, t) \subseteq 1..Len(requests) /\ Aiming(acct, t) \subseteq Workers
  BY DEF HourFrom, Aiming
<1> QED
  BY <1>2, <1>3, FS_Subset, FS_CardinalityType

\* A step inserts a request into the hours its moment belongs to, or changes
\* no hour.
LEMMA HourSteps ==
  ASSUME Standing, DatesOK, NEW w \in Workers, Work(w), NEW acct, NEW t \in Nat
  PROVE  \/ HourFrom(acct, t)' = HourFrom(acct, t)
         \/ /\ At(w, "insert") /\ job[w].acct = acct /\ clock <= t + Hour - 1
            /\ HourFrom(acct, t)' = HourFrom(acct, t) \cup {Len(requests) + 1}
<1>1. Len(requests) \in Nat /\ clock \in Nat /\ Hour \in Nat
  BY Handler, RecoveryAssumption DEF Standing, Evidence, TypeInv, TypeOK
<1>2. CASE SameDates
  BY <1>2 DEF SameDates, HourFrom
<1>3. CASE Inserts(w)
  <2>1. PICK row : /\ row.acct = job[w].acct /\ row.created = clock
                   /\ Len(requests') = Len(requests) + 1
                   /\ \A i \in 1..Len(requests) : requests'[i] = requests[i]
                   /\ requests'[Len(requests) + 1] = row
    BY <1>3, InsertedRow
  <2>2. 1..Len(requests') = 1..Len(requests) \cup {Len(requests) + 1}
    BY <1>1, <2>1
  <2>3. CASE job[w].acct = acct /\ clock \in t .. t + Hour - 1
    <3>1. HourFrom(acct, t)' = HourFrom(acct, t) \cup {Len(requests) + 1}
      BY <2>1, <2>2, <2>3 DEF HourFrom
    <3> QED
      BY <1>1, <1>3, <2>3, <3>1 DEF Inserts
  <2>4. CASE ~(job[w].acct = acct /\ clock \in t .. t + Hour - 1)
    <3>1. HourFrom(acct, t)' = HourFrom(acct, t)
      BY <2>1, <2>2, <2>4 DEF HourFrom
    <3> QED
      BY <3>1
  <2> QED
    BY <2>3, <2>4
<1> QED
  BY <1>2, <1>3, DatesKept

\* A start under way comes from one that was, or has just passed the budget.
LEMMA ComesFrom ==
  ASSUME Standing, NEW w \in Workers, Work(w), Coming(w)'
  PROVE  \/ \E acct \in Subjects, dev \in Devices \cup {NONE} : StartBudget(w, acct, dev)
         \/ Coming(w) /\ job'[w].acct = job[w].acct /\ ~At(w, "insert")
<1>1. JobOK(w) /\ job \in [Workers -> Job] /\ job'[w].op = "start" /\ job'[w].pc # "ping"
  BY Handler DEF Coming
<1>2. CASE job[w].op = "none"
  BY <1>1, <1>2, Begins
<1>3. CASE job[w].op # "none"
  <2>1. job[w].op = "start" /\ job'[w].acct = job[w].acct
    BY <1>1, <1>3, CarriesOn
  <2>2. CASE job[w].pc = "ping"
    <3>1. StartPing(w)
      BY <2>1, <2>2 DEF Work, FindActive, GetRow, Start, StartBudget, StartOtpBudget,
         StartSendOtp, StartSendFails, StartSupersede, StartResolve, StartInsert, Verify,
         VerifyStart, VerifySelect, VerifyCharge, VerifyConsume, VerifyBranch, VerifySave,
         VerifyPing, Authorize, ApproveStanding, ApproveDecide, ApproveSave, GrantGet, GrantSave,
         Cancel, CancelStanding, CancelSave, CancelPing, Complete, CompleteStart, CompleteDecide,
         CompleteDevice, CompleteWall, CompleteSetPassword, CompleteLdapDown, CompleteSave,
         CompletePing, DeviceOps, RegisterDevice, DeleteFind, VoidFind, VoidGet, VoidSave,
         DropDevice, RevokeLink, Doing, At, Free
    <3> QED
      BY <1>1, <3>1 DEF StartPing, Finish, Idle, Call
  <2>3. CASE job[w].pc = "insert"
    <3>1. StartInsert(w)
      BY <2>1, <2>3 DEF Work, FindActive, GetRow, Start, StartBudget, StartOtpBudget,
         StartSendOtp, StartSendFails, StartSupersede, StartResolve, StartPing, Verify,
         VerifyStart, VerifySelect, VerifyCharge, VerifyConsume, VerifyBranch, VerifySave,
         VerifyPing, Authorize, ApproveStanding, ApproveDecide, ApproveSave, GrantGet, GrantSave,
         Cancel, CancelStanding, CancelSave, CancelPing, Complete, CompleteStart, CompleteDecide,
         CompleteDevice, CompleteWall, CompleteSetPassword, CompleteLdapDown, CompleteSave,
         CompletePing, DeviceOps, RegisterDevice, DeleteFind, VoidFind, VoidGet, VoidSave,
         DropDevice, RevokeLink, Doing, At, Free
    <3> QED
      BY <1>1, <3>1, Handler DEF StartInsert, Job
  <2> QED
    BY <2>1, <2>2, <2>3 DEF Coming, At
<1> QED
  BY <1>2, <1>3

\* The budget's SELECT sees every hour the insert can still fall into.
LEMMA BudgetSees ==
  ASSUME Standing, NEW w \in Workers, NEW acct, NEW dev, StartBudget(w, acct, dev),
         NEW t \in Nat, clock <= t + Hour - 1
  PROVE  Cardinality(HourFrom(acct, t)') < MaxStarts
<1>1. /\ clock \in Nat /\ requests' = requests /\ Hour \in Nat
      /\ requests \in Seq(Row) /\ Len(requests) \in Nat
      /\ \A i \in 1..Len(requests) : requests[i].created \in Nat
  BY Handler, RecoveryAssumption DEF StartBudget, tables, Standing, Evidence, TypeInv, TypeOK, Row
<1> DEFINE S == {i \in DOMAIN requests : requests[i].acct = acct /\ requests[i].created > clock - Hour}
<1>2. Cardinality(S) < MaxStarts
  BY DEF StartBudget, StartsSince
<1>3. S \subseteq 1..Len(requests) /\ HourFrom(acct, t) \subseteq S
  <2>1. DOMAIN requests = 1..Len(requests)
    BY <1>1, LenProperties
  <2>2. S \subseteq 1..Len(requests)
    BY <2>1
  <2>3. HourFrom(acct, t) \subseteq S
    BY <1>1, <2>1 DEF HourFrom
  <2> QED
    BY <2>2, <2>3
<1>4. IsFiniteSet(1..Len(requests))
  <2>1. Len(requests) \in Nat
    BY <1>1
  <2> QED
    BY <2>1, FS_Interval
<1>5. IsFiniteSet(S)
  BY <1>3, <1>4, FS_Subset
<1>6. /\ Cardinality(HourFrom(acct, t)) <= Cardinality(S) /\ Cardinality(S) \in Nat
      /\ Cardinality(HourFrom(acct, t)) \in Nat
  BY <1>3, <1>5, FS_Subset, FS_CardinalityType
<1>7. HourFrom(acct, t)' = HourFrom(acct, t) /\ MaxStarts \in Nat
  BY <1>1, RecoveryAssumption DEF HourFrom
<1> QED
  BY <1>2, <1>6, <1>7

LEMMA ClockStands ==
  ASSUME NEW w \in Workers, Work(w)
  PROVE  clock' = clock
BY DEF Work, FindActive, GetRow, Start, StartBudget, StartOtpBudget, StartSendOtp, StartSendFails,
   StartSupersede, StartResolve, StartInsert, StartPing, Verify, VerifyStart, VerifySelect,
   VerifyCharge, VerifyConsume, VerifyBranch, VerifySave, VerifyPing, Authorize, ApproveStanding,
   ApproveDecide, ApproveSave, GrantGet, GrantSave, Cancel, CancelStanding, CancelSave, CancelPing,
   Complete, CompleteStart, CompleteDecide, CompleteDevice, CompleteWall, CompleteSetPassword,
   CompleteLdapDown, CompleteSave, CompletePing, DeviceOps, RegisterDevice, DeleteFind, VoidFind,
   VoidGet, VoidSave, DropDevice, RevokeLink

LEMMA LoadFiniteNext ==
  ASSUME Standing', NEW acct, NEW t
  PROVE  /\ Cardinality(HourFrom(acct, t)') \in Nat
         /\ IsFiniteSet(Aiming(acct, t)') /\ Cardinality(Aiming(acct, t)') \in Nat
         /\ Cardinality(Aiming(acct, t)') <= Cardinality(Workers)
<1>1. Len(requests') \in Nat
  BY LenProperties DEF Standing, Evidence, TypeInv, TypeOK
<1>2. IsFiniteSet(1..Len(requests')) /\ IsFiniteSet(Workers)
  BY <1>1, FS_Interval, RecoveryAssumption
<1>3. HourFrom(acct, t)' \subseteq 1..Len(requests') /\ Aiming(acct, t)' \subseteq Workers
  BY DEF HourFrom, Aiming
<1> QED
  BY <1>2, <1>3, FS_Subset, FS_CardinalityType

\* What a step does to an hour's load: a start passes the budget, which says the
\* hour had room, or the load does not grow.
LEMMA LoadSteps ==
  ASSUME Standing, DatesOK, Standing', [Next]_vars, NEW acct, NEW t \in Nat
  PROVE  /\ Load(acct, t) \in Nat /\ Load(acct, t)' \in Nat
         /\ \/ Load(acct, t)' <= Load(acct, t)
            \/ Cardinality(HourFrom(acct, t)') < MaxStarts
<1> DEFINE H == HourFrom(acct, t)
           A == Aiming(acct, t)
<1>1. /\ IsFiniteSet(H) /\ Cardinality(H) \in Nat /\ IsFiniteSet(A) /\ Cardinality(A) \in Nat
      /\ clock \in Nat /\ Hour \in Nat
  BY LoadFinite, RecoveryAssumption DEF Standing, Evidence, TypeInv, TypeOK
<1>2. ASSUME H' = H, A' \subseteq A PROVE Load(acct, t)' <= Load(acct, t)
  <2>1. Cardinality(A') \in Nat /\ Cardinality(A') <= Cardinality(A)
    BY <1>1, <1>2, FS_Subset, FS_CardinalityType
  <2> HIDE DEF H, A
  <2>2. Load(acct, t) = Cardinality(H) + Cardinality(A)
    BY DEF Load, H, A
  <2>3. Load(acct, t)' = Cardinality(H') + Cardinality(A')
    BY DEF Load, H, A
  <2> QED
    BY <1>1, <1>2, <2>1, <2>2, <2>3
<1>3. ASSUME UNCHANGED requests, clock' = clock \/ clock' = clock + 1,
             \A w \in Workers : job'[w] = job[w] \/ job'[w] = Idle
      PROVE  Load(acct, t)' <= Load(acct, t)
  <2>1. H' = H
    BY <1>3 DEF HourFrom
  <2>2. A' \subseteq A
    BY <1>1, <1>3 DEF Aiming, Coming, Idle, Call
  <2> QED
    BY <1>2, <2>1, <2>2
<1>4. ASSUME UNCHANGED vars \/ Tick \/ \E a, b \in Accounts : LinkUsable(a, b)
      PROVE  Load(acct, t)' <= Load(acct, t)
  <2>1. UNCHANGED requests /\ (clock' = clock \/ clock' = clock + 1) /\ UNCHANGED job
    BY <1>4 DEF vars, tables, Tick, LinkUsable
  <2>2. \A w \in Workers : job'[w] = job[w]
    BY <2>1
  <2> QED
    BY <1>3, <2>1, <2>2
<1>5. ASSUME NEW w \in Workers, Crash(w) PROVE Load(acct, t)' <= Load(acct, t)
  <2>1. UNCHANGED <<requests, clock>> /\ \A v \in Workers : job'[v] = job[v] \/ job'[v] = Idle
    BY <1>5, Handler DEF Crash, tables, Finish
  <2> QED
    BY <1>3, <2>1
<1>6. ASSUME NEW w \in Workers, Work(w), NEW dev, StartBudget(w, acct, dev), clock <= t + Hour - 1
      PROVE  Cardinality(H') < MaxStarts
  BY <1>6, BudgetSees
<1>7. ASSUME NEW w \in Workers, Work(w),
             ~ \E dev : StartBudget(w, acct, dev) /\ clock <= t + Hour - 1
      PROVE  Load(acct, t)' <= Load(acct, t)
  <2>1. clock' = clock
    BY <1>7, ClockStands
  <2>2. \A v \in Workers : v # w => job'[v] = job[v]
    BY <1>7, OthersKeepJobs
  <2>3. A' \subseteq A /\ (w \in A' => ~At(w, "insert"))
    <3>1. w \in A' => w \in A /\ ~At(w, "insert")
      <4> SUFFICES ASSUME w \in A' PROVE w \in A /\ ~At(w, "insert")
        OBVIOUS
      <4>1. Coming(w)' /\ job'[w].acct = acct /\ clock <= t + Hour - 1
        BY <2>1 DEF Aiming
      <4>2. ASSUME NEW b, NEW dev, StartBudget(w, b, dev) PROVE FALSE
        <5>1. job'[w].acct = b
          BY <4>2, Handler DEF StartBudget, Call
        <5> QED
          BY <1>7, <4>1, <4>2, <5>1
      <4>3. Coming(w) /\ job'[w].acct = job[w].acct /\ ~At(w, "insert")
        BY <1>7, <4>1, <4>2, ComesFrom
      <4> QED
        BY <4>1, <4>3 DEF Aiming
    <3>2. \A v \in Workers : v # w /\ v \in A' => v \in A
      BY <2>1, <2>2 DEF Aiming, Coming
    <3> QED
      BY <3>1, <3>2 DEF Aiming
  <2>4. CASE H' = H
    BY <1>2, <2>3, <2>4
  <2>5. CASE /\ At(w, "insert") /\ job[w].acct = acct /\ clock <= t + Hour - 1
             /\ H' = H \cup {Len(requests) + 1}
    <3>1. w \in A
      BY <2>5 DEF Aiming, Coming, At, DatesOK, Dated
    <3>2. Len(requests) + 1 \notin H
      BY Handler DEF HourFrom
    <3> HIDE DEF H, A
    <3>3. Cardinality(H') = Cardinality(H) + 1
      BY <1>1, <2>5, <3>2, FS_AddElement
    <3>4. IsFiniteSet(A \ {w}) /\ Cardinality(A \ {w}) = Cardinality(A) - 1
      BY <1>1, <3>1, FS_RemoveElement
    <3>5. A' \subseteq A \ {w}
      BY <2>3, <2>5
    <3>6. Cardinality(A') \in Nat /\ Cardinality(A') <= Cardinality(A) - 1
      BY <3>4, <3>5, FS_Subset, FS_CardinalityType
    <3>7. Load(acct, t) = Cardinality(H) + Cardinality(A)
      BY DEF Load, H, A
    <3>8. Load(acct, t)' = Cardinality(H') + Cardinality(A')
      BY DEF Load, H, A
    <3> QED
      BY <1>1, <3>3, <3>6, <3>7, <3>8
  <2> QED
    BY <1>7, <2>4, <2>5, HourSteps
<1>8. Load(acct, t) \in Nat /\ Load(acct, t)' \in Nat
  BY LoadFinite, LoadFiniteNext DEF Load
<1> QED
  BY <1>4, <1>5, <1>6, <1>7, <1>8 DEF Next

\* An hour with a bounded load holds no more requests than that.
LEMMA LoadBounds ==
  ASSUME Standing, NEW n \in Nat, \A acct, t : t \in Nat => Load(acct, t) <= n
  PROVE  \A i \in DOMAIN requests : StartsInWindow(i) <= n
<1> SUFFICES ASSUME NEW i \in DOMAIN requests PROVE StartsInWindow(i) <= n
  OBVIOUS
<1>1. requests \in Seq(Row) /\ DOMAIN requests = 1..Len(requests)
  BY LenProperties DEF Standing, Evidence, TypeInv, TypeOK
<1>2. requests[i] \in Row
  BY <1>1, ElementOfSeq
<1>3. requests[i].created \in Nat
  BY <1>2 DEF Row
<1> DEFINE H == HourFrom(requests[i].acct, requests[i].created)
           A == Aiming(requests[i].acct, requests[i].created)
<1>4. StartsInWindow(i) = Cardinality(H)
  BY <1>1 DEF StartsInWindow, HourFrom
<1>5. Load(requests[i].acct, requests[i].created) = Cardinality(H) + Cardinality(A)
  BY DEF Load
<1>6. Cardinality(H) \in Nat /\ Cardinality(A) \in Nat
  BY LoadFinite
<1> HIDE DEF H, A
<1> QED
  BY <1>3, <1>4, <1>5, <1>6

LEMMA InitLoad ==
  ASSUME Init, NEW acct, NEW t
  PROVE  Load(acct, t) = 0
<1>1. HourFrom(acct, t) = {} /\ Aiming(acct, t) = {}
  BY DEF Init, HourFrom, Aiming, Coming, Idle, Call
<1> QED
  BY <1>1, FS_EmptySet DEF Load

LoadWithin(n) == \A acct, t : t \in Nat => Load(acct, t) <= n

\* Without a thread nothing is ever inserted.
OverrunOK ==
  IF Workers = {} THEN requests = <<>> ELSE LoadWithin(MaxStarts + Cardinality(Workers) - 1)

(***************************************************************************)
(* start_recovery counts the requests of the last hour statements before   *)
(* it inserts its own, so starts that overlap all see the same room.  An   *)
(* hour, from whatever moment, sees one request more than the budget for   *)
(* each thread but the first, whatever overlaps, dies, or is written back. *)
(***************************************************************************)
THEOREM StartsOverrunAlways == Spec => []StartsOverrunBounded
<1> DEFINE n == Cardinality(Workers)
<1>1. n \in Nat /\ MaxStarts \in Nat /\ (Workers # {} => n >= 1)
  BY FS_CardinalityType, FS_EmptySet, RecoveryAssumption
<1>2. Init => OverrunOK
  <2> SUFFICES ASSUME Init PROVE OverrunOK
    OBVIOUS
  <2>1. requests = <<>>
    BY DEF Init
  <2> QED
    BY <1>1, <2>1, InitLoad DEF OverrunOK, LoadWithin
<1>3. Standing /\ DatesOK /\ Standing' /\ OverrunOK /\ [Next]_vars => OverrunOK'
  <2> SUFFICES ASSUME Standing, DatesOK, Standing', OverrunOK, [Next]_vars
               PROVE  OverrunOK'
    OBVIOUS
  <2>1. CASE Workers = {}
    BY <2>1, TableMoves DEF OverrunOK
  <2>2. ASSUME Workers # {}, NEW acct, NEW t \in Nat
        PROVE  Load(acct, t)' <= MaxStarts + n - 1
    <3>1. Load(acct, t) <= MaxStarts + n - 1
      BY <2>2 DEF OverrunOK, LoadWithin
    <3>2. Load(acct, t)' = Cardinality(HourFrom(acct, t)') + Cardinality(Aiming(acct, t)')
      BY DEF Load
    <3> HIDE DEF n
    <3> QED
      BY <1>1, <3>1, <3>2, LoadSteps, LoadFiniteNext DEF n
  <2> QED
    BY <2>1, <2>2 DEF OverrunOK, LoadWithin
<1>4. Standing /\ OverrunOK => StartsOverrunBounded
  <2> SUFFICES ASSUME Standing, OverrunOK PROVE StartsOverrunBounded
    OBVIOUS
  <2>1. CASE requests = <<>>
    BY <2>1 DEF StartsOverrunBounded
  <2>2. CASE Workers # {}
    <3>1. MaxStarts + n - 1 \in Nat
      BY <1>1, <2>2
    <3> QED
      BY <2>2, <3>1, LoadBounds DEF OverrunOK, LoadWithin, StartsOverrunBounded
  <2> QED
    BY <2>1, <2>2 DEF OverrunOK
<1> QED
  BY <1>2, <1>3, <1>4, DatesHold, PTL DEF Spec

(***************************************************************************)
(* While no two handlers of one account overlap there is no overrun: no    *)
(* hour, from whatever moment, sees more than the budget.                  *)
(***************************************************************************)
THEOREM BudgetWhenApart == Spec /\ []Apart => []StartsBudgetKept
<1> DEFINE InBudget == LoadWithin(MaxStarts)
<1>1. MaxStarts \in Nat
  BY RecoveryAssumption
<1>2. Init => InBudget
  BY <1>1, InitLoad DEF LoadWithin
<1>3. Standing /\ DatesOK /\ Standing' /\ Apart' /\ InBudget /\ [Next]_vars => InBudget'
  <2> SUFFICES ASSUME Standing, DatesOK, Standing', Apart', InBudget, [Next]_vars,
                      NEW acct, NEW t \in Nat
               PROVE  Load(acct, t)' <= MaxStarts
    BY DEF LoadWithin
  <2>1. Load(acct, t) <= MaxStarts
    BY DEF LoadWithin
  <2>2. \A v, w \in Aiming(acct, t)' : v = w
    <3>1. \A w \in Workers : JobOK(w)'
      BY DEF Standing, Evidence, TypeInv
    <3> QED
      BY <3>1 DEF Aiming, Coming, Apart, Busy, JobOK
  <2>3. Cardinality(Aiming(acct, t)') <= 1
    <3>1. PICK A : A = Aiming(acct, t)'
      OBVIOUS
    <3>2. A = {} \/ \E w : A = {w}
      BY <2>2, <3>1
    <3> QED
      BY <3>1, <3>2, FS_EmptySet, FS_Singleton
  <2>4. Load(acct, t)' = Cardinality(HourFrom(acct, t)') + Cardinality(Aiming(acct, t)')
    BY DEF Load
  <2> QED
    BY <1>1, <2>1, <2>3, <2>4, LoadSteps, LoadFiniteNext
<1>4. Standing /\ InBudget => StartsBudgetKept
  BY <1>1, LoadBounds DEF LoadWithin, StartsBudgetKept
<1> QED
  BY <1>2, <1>3, <1>4, DatesHold, PTL DEF Spec
-----------------------------------------------------------------------------
(* The standing of a member at the moment of the authorization.            *)

\* No link is revoked while a member's approval is under way.
RevokesLeaveApprovalsAlone ==
  [][\A w \in Workers : job[w].op = "approve" => links \subseteq links']_vars

ApproversLinked ==
  \A w \in Workers : job[w].op = "approve" => Linked(job[w].actor, job[w].acct)

LEMMA NextApproversLinked ==
  ASSUME Standing, ApproversLinked, [Next]_vars,
         \A w \in Workers : job[w].op = "approve" => links \subseteq links'
  PROVE  ApproversLinked'
<1>1. ASSUME NEW v \in Workers, job'[v] = job[v], job'[v].op = "approve"
      PROVE  {job'[v].actor, job'[v].acct} \in links'
  BY <1>1 DEF ApproversLinked, Linked
<1>2. CASE UNCHANGED vars \/ Tick \/ \E a, b \in Accounts : LinkUsable(a, b)
  BY <1>1, <1>2 DEF vars, Tick, LinkUsable, ApproversLinked, Linked
<1>3. ASSUME NEW w \in Workers, Crash(w) PROVE ApproversLinked'
  <2>1. \A v \in Workers : job'[v] = job[v] \/ job'[v] = Idle
    BY <1>3, Handler DEF Crash, Finish
  <2>2. Idle.op # "approve"
    BY DEF Idle, Call
  <2> QED
    BY <1>1, <2>1, <2>2 DEF ApproversLinked, Linked
<1>4. ASSUME NEW w \in Workers, Work(w) PROVE ApproversLinked'
  <2>1. \A v \in Workers : v # w => job'[v] = job[v]
    BY <1>4, OthersKeepJobs
  <2>2. ASSUME job'[w].op = "approve" PROVE {job'[w].actor, job'[w].acct} \in links'
    <3>1. ASSUME NEW member \in Accounts, NEW acct \in Accounts, ApproveStanding(w, member, acct)
          PROVE  {job'[w].actor, job'[w].acct} \in links'
      <4>1. job'[w].actor = member /\ job'[w].acct = acct /\ links' = links /\ Linked(member, acct)
        BY <3>1, Handler DEF ApproveStanding, Call, tables
      <4> QED
        BY <4>1 DEF Linked
    <3>2. CASE /\ job[w].op = "approve" /\ job'[w].actor = job[w].actor
               /\ job'[w].acct = job[w].acct
      BY <3>2 DEF ApproversLinked, Linked
    <3> QED
      BY <1>4, <2>2, <3>1, <3>2, CarriesOn, Begins
  <2> QED
    BY <1>1, <2>1, <2>2 DEF ApproversLinked, Linked
<1> QED
  BY <1>2, <1>3, <1>4 DEF Next

\* Only an approval and a grant authorize.
LEMMA EndorsedBy ==
  ASSUME [Next]_vars, endorsed' # endorsed
  PROVE  \E w \in Workers : ApproveSave(w) \/ GrantSave(w)
<1>1. CASE UNCHANGED vars \/ Tick
  BY <1>1 DEF vars, history, Tick
<1>2. CASE \E a, b \in Accounts : LinkUsable(a, b)
  BY <1>2 DEF LinkUsable
<1>3. CASE \E w \in Workers : Crash(w)
  BY <1>3 DEF Crash, history
<1>4. ASSUME NEW w \in Workers, Work(w) PROVE ApproveSave(w) \/ GrantSave(w)
  <2>1. ~(FindActive(w) \/ GetRow(w))
    BY DEF FindActive, GetRow, history
  <2>2. ~Start(w)
    BY DEF Start, StartBudget, StartOtpBudget, StartSendOtp, StartSendFails, StartSupersede,
       StartResolve, StartInsert, StartPing, history
  <2>3. ~Verify(w)
    BY DEF Verify, VerifyStart, VerifySelect, VerifyCharge, VerifyConsume, VerifyBranch,
       VerifySave, VerifyPing, history
  <2>4. ~Cancel(w)
    BY DEF Cancel, CancelStanding, CancelSave, CancelPing, history
  <2>5. ~Complete(w)
    BY DEF Complete, CompleteStart, CompleteDecide, CompleteDevice, CompleteWall,
       CompleteSetPassword, CompleteLdapDown, CompleteSave, CompletePing, history
  <2>6. ~DeviceOps(w)
    BY DEF DeviceOps, RegisterDevice, DeleteFind, VoidFind, VoidGet, VoidSave, DropDevice, history
  <2>7. ~ \E a, b \in Accounts : RevokeLink(w, a, b)
    BY DEF RevokeLink, history
  <2>8. Authorize(w)
    BY <1>4, <2>1, <2>2, <2>3, <2>4, <2>5, <2>6, <2>7 DEF Work
  <2> QED
    BY <2>8 DEF Authorize, ApproveStanding, ApproveDecide, GrantGet, history
<1> QED
  BY <1>1, <1>2, <1>3, <1>4 DEF Next

(***************************************************************************)
(* family_approve checks the link statements before it writes: whatever    *)
(* overlaps, and however often, only a revocation in between can make the  *)
(* approval one of a member who is no longer linked.                       *)
(***************************************************************************)
THEOREM EndorserLinkedUnlessRevoked ==
  Spec /\ RevokesLeaveApprovalsAlone => EndorserLinkedNow
<1>1. Init => ApproversLinked
  BY DEF Init, ApproversLinked, Idle, Call
<1>2. /\ Standing /\ ApproversLinked /\ [Next]_vars
      /\ [\A w \in Workers : job[w].op = "approve" => links \subseteq links']_vars
      => ApproversLinked'
  <2>1. ASSUME UNCHANGED vars PROVE links \subseteq links'
    BY <2>1 DEF vars, tables
  <2> QED
    BY <2>1, NextApproversLinked
<1>3. ASSUME Standing, ApproversLinked, [Next]_vars
      PROVE  [\A e \in endorsed' \ endorsed :
                e[2] # ADMIN => Linked(e[2], requests[e[1]].acct)]_vars
  <2> SUFFICES ASSUME NEW e \in endorsed' \ endorsed, e[2] # ADMIN
               PROVE  Linked(e[2], requests[e[1]].acct)
    OBVIOUS
  <2>1. PICK w \in Workers : ApproveSave(w) \/ GrantSave(w)
    BY <1>3, EndorsedBy
  <2>2. CASE GrantSave(w)
    BY <2>2 DEF GrantSave
  <2>3. CASE ApproveSave(w)
    <3>1. e = <<job[w].rid, job[w].actor>> /\ job[w].op = "approve" /\ job[w].pc = "save"
      BY <2>3 DEF ApproveSave, Doing
    <3>2. Linked(job[w].actor, job[w].acct)
      BY <1>3, <3>1 DEF ApproversLinked
    <3>3. requests[job[w].rid].acct = job[w].acct
      BY <1>3, <3>1, Handler DEF JobStanding, HoldsRow
    <3> QED
      BY <3>1, <3>2, <3>3
  <2> QED
    BY <2>1, <2>2, <2>3
<1> QED
  BY <1>1, <1>2, <1>3, StandingHolds, PTL DEF Spec, EndorserLinkedNow, RevokesLeaveApprovalsAlone
=============================================================================
