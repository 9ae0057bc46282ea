---------------------------- MODULE SignupProofs ----------------------------
(***************************************************************************)
(* What an account rests on, whatever handlers interleave or die between   *)
(* create_user, the INSERT and the burning of the session: an OTP of its   *)
(* own, one session for its password and its row, a document or an         *)
(* approval for tier 2, the proved phone for a minor.                      *)
(***************************************************************************)
EXTENDS Signup, ChallengeProofs

ChallengeT == [phone : Phones, purpose : {"signup"}, created : Nat, exp : Nat,
               left : Nat, consumed : BOOLEAN]

SessionT == [addr : Addresses, phone : Phones, guardian : Guardians,
             stage : Stages \cup {"gone"}, exp : Nat]

ReviewT == [addr : Addresses, status : {"pending", "approved", "rejected"}]

AccountT == [by : 0..Len(sessions), phone : Phones \cup {NONE},
             guardian : Phones \cup Guardians \cup {NONE}, tier : 0..2,
             doc : Documents \cup {NONE, "manual"}]

\* A handler before it has a session; one that carries the payload of one;
\* and one whose session has cleared its OTP.
Starting == {"start_budget", "start_send", "start_create"}
Providing == {"identity", "pause", "provision_ldap", "provision_insert"}
Carrying == {"verify_select", "verify_charge", "verify_consume"} \cup Providing
Proven == {"verify_update", "burn"} \cup Providing

Labels == {"idle", "decide"} \cup Starting \cup Carrying \cup Proven

JobT == [pc : Labels, sid : Nat,
         addr : Addresses \cup {NONE}, phone : Phones \cup {NONE},
         guardian : Phones \cup Guardians \cup {NONE}, now : Nat, id : Nat,
         doc : Documents \cup {NONE}, decision : {"approved", "rejected", NONE}]

JobFits(w) ==
  /\ job[w].sid \in 0..Len(sessions)
  /\ job[w].pc \in Starting => job[w].addr \in Addresses /\ job[w].phone \in Phones
                               /\ job[w].guardian \in Guardians
  /\ job[w].pc \in Carrying => job[w].sid # 0 /\ job[w].addr = sessions[job[w].sid].addr
                               /\ job[w].phone = sessions[job[w].sid].phone
  /\ job[w].pc \in Proven => job[w].sid # 0 /\ job[w].sid \in proved
  /\ job[w].pc \in {"verify_charge", "verify_consume"} => job[w].id \in 1..Len(challenges)
  /\ job[w].pc = "provision_insert" => directory[job[w].addr] = job[w].sid
  /\ job[w].pc = "decide" => job[w].id \in 1..Len(reviews)
  /\ job[w].doc = "minor" => job[w].guardian = job[w].phone

\* TypeOK without what it says of the handlers.
TablesOK ==
  /\ clock \in Nat
  /\ challenges \in Seq(ChallengeT)
  /\ sessions \in Seq(SessionT)
  /\ reviews \in Seq(ReviewT)
  /\ directory \in [Addresses -> 0..Len(sessions)]
  /\ accounts \in [Addresses -> AccountT]
  /\ proved \subseteq 1..Len(sessions)
  /\ blocked \subseteq 1..Len(sessions)
  /\ approvals \subseteq 1..Len(reviews)

\* Past its first stage a session has cleared its OTP, and the entry a
\* session made is that of its own address.
RowsOK ==
  /\ \A t \in 1..Len(sessions) :
       sessions[t].stage \notin {"awaiting_otp", "gone"} => t \in proved
  /\ \A a \in Addresses : directory[a] # 0 => sessions[directory[a]].addr = a

Promises ==
  /\ DirectoryMatchesTable
  /\ PhoneProven
  /\ Tier2Earned
  /\ MinorsManaged
  /\ SessionBurned

SignupInv ==
  /\ TablesOK
  /\ job \in [Workers -> JobT]
  /\ \A w \in Workers : JobFits(w)
  /\ RowsOK
  /\ Promises

LEMMA Lengths ==
  ASSUME TablesOK
  PROVE  /\ Len(sessions) \in Nat /\ DOMAIN sessions = 1..Len(sessions)
         /\ Len(challenges) \in Nat /\ DOMAIN challenges = 1..Len(challenges)
         /\ Len(reviews) \in Nat /\ DOMAIN reviews = 1..Len(reviews)
BY LenProperties DEF TablesOK

LEMMA SessionOf ==
  ASSUME TablesOK, NEW t \in 1..Len(sessions)
  PROVE  sessions[t] \in SessionT /\ sessions[t].addr \in Addresses
         /\ sessions[t].phone \in Phones /\ sessions[t].guardian \in Guardians
<1>1. sessions \in Seq(SessionT)
  BY DEF TablesOK
<1>2. sessions[t] \in SessionT
  BY <1>1, ElementOfSeq
<1> QED
  BY <1>2 DEF SessionT

LEMMA ReviewOf ==
  ASSUME TablesOK, NEW r \in 1..Len(reviews)
  PROVE  reviews[r] \in ReviewT /\ reviews[r].addr \in Addresses
<1>1. reviews \in Seq(ReviewT)
  BY DEF TablesOK
<1>2. reviews[r] \in ReviewT
  BY <1>1, ElementOfSeq
<1> QED
  BY <1>2 DEF ReviewT

LEMMA InvTypes == SignupInv => TypeOK
<1> SUFFICES ASSUME SignupInv PROVE TypeOK
  OBVIOUS
<1>1. TablesOK /\ \A w \in Workers : job[w].sid \in 0..Len(sessions)
  BY DEF SignupInv, JobFits
<1> QED
  BY <1>1, Lengths DEF TablesOK, TypeOK, ChallengeT, SessionT, ReviewT, AccountT

\* Rows of sessions, challenges and reviews stay where they are, a session
\* keeps its payload, and an entry of the directory its password.
Kept ==
  /\ Len(sessions) <= Len(sessions')
  /\ Len(challenges) <= Len(challenges')
  /\ Len(reviews) <= Len(reviews')
  /\ \A t \in 1..Len(sessions) :
       /\ sessions'[t].addr = sessions[t].addr
       /\ sessions'[t].phone = sessions[t].phone
       /\ sessions[t].stage = "gone" => sessions'[t].stage = "gone"
  /\ \A a \in Addresses : directory[a] # 0 => directory'[a] = directory[a]
  /\ proved \subseteq proved'
  /\ approvals \subseteq approvals'
  /\ died \subseteq died'

\* The handlers that did not move still fit.
LEMMA OthersFit ==
  ASSUME SignupInv, TablesOK', Kept, NEW v \in Workers, job'[v] = job[v]
  PROVE  JobFits(v)'
<1>1. JobFits(v) /\ job[v] \in JobT /\ TablesOK
  BY DEF SignupInv
<1>2. /\ Len(sessions) \in Nat /\ Len(challenges) \in Nat /\ Len(reviews) \in Nat
      /\ Len(sessions') \in Nat /\ Len(challenges') \in Nat /\ Len(reviews') \in Nat
  BY <1>1, LenProperties DEF TablesOK
<1>3. job[v].pc \in Carrying => job[v].addr \in Addresses
  <2>1. \A t \in 1..Len(sessions) : sessions[t].addr \in Addresses
    BY <1>1, SessionOf
  <2>2. job[v].pc \in Carrying =>
          job[v].sid \in 1..Len(sessions) /\ job[v].addr = sessions[job[v].sid].addr
    BY <1>1, <1>2 DEF JobFits
  <2> QED
    BY <2>1, <2>2
<1>4. PICK j : j = job[v] /\ j = job'[v]
  OBVIOUS
<1>5. /\ j.sid \in 0..Len(sessions')
      /\ j.pc \in Starting => j.addr \in Addresses /\ j.phone \in Phones
                               /\ j.guardian \in Guardians
      /\ j.pc \in Carrying => j.sid # 0 /\ j.addr = sessions'[j.sid].addr
                               /\ j.phone = sessions'[j.sid].phone
      /\ j.pc \in Proven => j.sid # 0 /\ j.sid \in proved'
      /\ j.pc \in {"verify_charge", "verify_consume"} => j.id \in 1..Len(challenges')
      /\ j.pc = "decide" => j.id \in 1..Len(reviews')
      /\ j.doc = "minor" => j.guardian = j.phone
  BY <1>1, <1>2, <1>4 DEF JobFits, Kept, JobT
<1>6. j.pc = "provision_insert" => directory'[j.addr] = j.sid
  BY <1>1, <1>3, <1>4 DEF JobFits, Kept, Carrying, Providing
<1> QED
  BY <1>4, <1>5, <1>6 DEF JobFits

\* A handler that leaves a step it alone was to make has made it, or died.
Left(v) ==
  /\ At(v, "provision_insert") => job[v].sid \in died'
  /\ At(v, "burn") => job[v].sid \in died' \/ sessions'[job[v].sid].stage = "gone"

\* The steps that touch neither the directory nor accounts.
LEMMA FrameStep ==
  ASSUME SignupInv, TablesOK', job' \in [Workers -> JobT], Kept, RowsOK',
         UNCHANGED <<directory, accounts, approvals>>,
         \A r \in 1..Len(reviews) : reviews'[r] = reviews[r],
         \A r \in 1..Len(reviews') : r \notin 1..Len(reviews) => reviews'[r].status = "pending",
         \A v \in Workers : job'[v] = job[v] \/ (JobFits(v)' /\ Left(v))
  PROVE  SignupInv'
<1>1. \A v \in Workers : JobFits(v)'
  BY OthersFit
<1>2. /\ TablesOK /\ DirectoryMatchesTable /\ PhoneProven /\ Tier2Earned /\ MinorsManaged
      /\ SessionBurned
      /\ Len(sessions) \in Nat /\ Len(reviews) \in Nat /\ DOMAIN reviews = 1..Len(reviews)
      /\ DOMAIN reviews' = 1..Len(reviews')
  BY Lengths, LenProperties DEF SignupInv, Promises, TablesOK
<1>3. DirectoryMatchesTable'
  BY <1>2 DEF DirectoryMatchesTable, Kept, Left, At
<1>4. \A a \in Addresses : accounts[a] # NoAccount => accounts[a].by \in 1..Len(sessions)
  BY <1>2 DEF PhoneProven, TablesOK
<1>5. PhoneProven'
  BY <1>2, <1>4 DEF PhoneProven, Kept, NoAccount
<1>6. Tier2Earned'
  <2>1. \A a \in Addresses : accounts'[a].tier = 2 =>
          \/ accounts'[a].doc \in Documents
          \/ \E r \in approvals' : reviews'[r].addr = a
    BY <1>2 DEF Tier2Earned, TablesOK
  <2>2. \A r \in 1..Len(reviews') :
          reviews'[r].status = "approved" => accounts'[reviews'[r].addr].tier = 2
    BY <1>2 DEF Tier2Earned
  <2> QED
    BY <1>2, <2>1, <2>2 DEF Tier2Earned
<1>7. MinorsManaged'
  BY <1>2 DEF MinorsManaged
<1>8. SessionBurned'
  BY <1>2, <1>4 DEF SessionBurned, Kept, Left, At, NoAccount
<1> QED
  BY <1>1, <1>3, <1>5, <1>6, <1>7, <1>8 DEF SignupInv, Promises

LEMMA JobIs ==
  ASSUME SignupInv, NEW w \in Workers
  PROVE  /\ job \in [Workers -> JobT] /\ job[w] \in JobT /\ JobFits(w) /\ TablesOK /\ RowsOK
         /\ Len(sessions) \in Nat /\ Len(challenges) \in Nat /\ Len(reviews) \in Nat
         /\ clock \in Nat
BY Lengths DEF SignupInv, TablesOK

\* A step of one handler that writes sessions or challenges at most.
LEMMA MoveStep ==
  ASSUME SignupInv, TablesOK', NEW w \in Workers, NEW j \in JobT,
         job' = [job EXCEPT ![w] = j], JobFits(w)', Left(w), Kept, RowsOK',
         UNCHANGED <<directory, accounts, reviews, approvals>>
  PROVE  SignupInv'
<1>1. job \in [Workers -> JobT]
  BY JobIs
<1>2. /\ job' \in [Workers -> JobT]
      /\ \A v \in Workers : job'[v] = job[v] \/ (JobFits(v)' /\ Left(v))
  BY <1>1
<1> QED
  BY <1>2, FrameStep

\* A step that writes no table: the locals alone change.
LEMMA LocalStep ==
  ASSUME SignupInv, NEW w \in Workers, NEW j \in JobT, job' = [job EXCEPT ![w] = j],
         JobFits(w)', Left(w),
         UNCHANGED <<clock, tables, proved, approvals>>, died \subseteq died',
         blocked' \subseteq 1..Len(sessions)
  PROVE  SignupInv'
<1>1. TablesOK' /\ Kept /\ RowsOK'
  BY JobIs DEF TablesOK, AccountT, RowsOK, Kept, tables
<1> QED
  BY <1>1, MoveStep DEF tables

LEMMA IdleFits ==
  ASSUME NEW w \in Workers, job'[w] = Idle, TablesOK'
  PROVE  JobFits(w)' /\ Idle \in JobT
<1>1. Idle.sid = 0 /\ Idle.pc = "idle" /\ Idle.doc = NONE /\ Idle \in JobT
  BY DEF Idle, JobT, Labels
<1>2. NONE # "minor"
  BY SignupAssumption
<1>3. Len(sessions') \in Nat
  BY LenProperties DEF TablesOK
<1> QED
  BY <1>1, <1>2, <1>3 DEF JobFits, Starting, Carrying, Providing, Proven

\* A handler that returns, raises or dies without a write of its own.
LEMMA FinishStep ==
  ASSUME SignupInv, NEW w \in Workers, Finish(w), Left(w),
         UNCHANGED <<clock, tables, proved, approvals>>, died \subseteq died',
         blocked' \subseteq 1..Len(sessions)
  PROVE  SignupInv'
<1>1. job'[w] = Idle /\ job' = [job EXCEPT ![w] = Idle]
  BY JobIs DEF Finish
<1>2. TablesOK'
  BY JobIs DEF TablesOK, AccountT, tables
<1> QED
  BY <1>1, <1>2, IdleFits, LocalStep

\* What a handler does to otp_challenges alone.
LEMMA ChallengeStep ==
  ASSUME SignupInv, NEW w \in Workers, NEW j \in JobT, job' = [job EXCEPT ![w] = j],
         JobFits(w)', ~At(w, "provision_insert"), ~At(w, "burn"),
         challenges' \in Seq(ChallengeT), Len(challenges) <= Len(challenges'),
         UNCHANGED <<clock, sessions, directory, accounts, reviews, approvals, blocked, died>>,
         proved \subseteq proved', proved' \subseteq 1..Len(sessions)
  PROVE  SignupInv'
<1>1. TablesOK' /\ Kept /\ RowsOK'
  BY JobIs DEF TablesOK, AccountT, RowsOK, Kept
<1> QED
  BY <1>1, MoveStep DEF Left

-----------------------------------------------------------------------------
(* POST /signup/start *)

LEMMA StartSteps ==
  ASSUME SignupInv, NEW w \in Workers,
         \/ \E addr \in Addresses, phone \in Phones, guardian \in Guardians :
              StartProbe(w, addr, phone, guardian)
         \/ StartBudget(w) \/ StartSend(w) \/ StartSendFails(w) \/ StartCreate(w)
  PROVE  SignupInv'
<1>1. /\ job \in [Workers -> JobT] /\ job[w] \in JobT /\ JobFits(w) /\ TablesOK /\ RowsOK
      /\ Len(sessions) \in Nat /\ Len(challenges) \in Nat /\ clock \in Nat
  BY JobIs
<1>2. NONE # "minor" /\ CodeTTL \in Nat /\ MaxVerify \in Nat /\ SessionTTL \in Nat
      /\ {"start_budget", "start_send", "start_create"} \subseteq Labels
  BY SignupAssumption DEF Labels, Starting
<1>3. ASSUME NEW addr \in Addresses, NEW phone \in Phones, NEW guardian \in Guardians,
             StartProbe(w, addr, phone, guardian)
      PROVE  SignupInv'
  <2> DEFINE j == [Idle EXCEPT !.pc = "start_budget", !.addr = addr, !.phone = phone,
                               !.guardian = guardian]
  <2>1. /\ j \in JobT /\ j.pc = "start_budget" /\ j.sid = 0 /\ j.addr = addr
        /\ j.phone = phone /\ j.guardian = guardian /\ j.doc = NONE
    BY <1>2 DEF Idle, JobT
  <2> HIDE DEF j
  <2>2. job' = [job EXCEPT ![w] = j] /\ UNCHANGED <<clock, tables, history>> /\ At(w, "idle")
    BY <1>3 DEF StartProbe, j
  <2>3. job'[w] = j
    BY <1>1, <2>2
  <2>4. JobFits(w)'
    BY <1>1, <1>2, <2>1, <2>2, <2>3 DEF JobFits, Starting, Carrying, Providing, Proven, tables
  <2> QED
    BY <1>1, <2>1, <2>2, <2>4, LocalStep DEF Left, At, history, TablesOK
<1>4. CASE StartBudget(w)
  <2>1. /\ At(w, "start_budget") /\ UNCHANGED <<clock, tables, history>>
        /\ Finish(w) \/ job' = [job EXCEPT ![w] = [job[w] EXCEPT !.pc = "start_send", !.now = clock]]
    BY <1>1, <1>4 DEF StartBudget, Finish
  <2>2. CASE Finish(w)
    BY <1>1, <2>1, <2>2, FinishStep DEF Left, At, history, TablesOK
  <2>3. CASE job' = [job EXCEPT ![w] = [job[w] EXCEPT !.pc = "start_send", !.now = clock]]
    <3>1. PICK old, j : old = job[w] /\ j = [old EXCEPT !.pc = "start_send", !.now = clock]
      OBVIOUS
    <3>2. /\ j \in JobT /\ j.pc = "start_send" /\ j.sid = old.sid /\ j.addr = old.addr
          /\ j.phone = old.phone /\ j.guardian = old.guardian /\ j.doc = old.doc
      BY <1>1, <1>2, <3>1 DEF JobT
    <3>3. job' = [job EXCEPT ![w] = j] /\ job'[w] = j
      BY <1>1, <2>3, <3>1
    <3>4. JobFits(w)'
      BY <1>1, <2>1, <3>1, <3>2, <3>3
         DEF At, JobFits, Starting, Carrying, Providing, Proven, tables
    <3> QED
      BY <1>1, <2>1, <3>2, <3>3, <3>4, LocalStep DEF Left, At, history, TablesOK
  <2> QED
    BY <2>1, <2>2, <2>3
<1>5. CASE StartSend(w)
  <2>1. PICK old, j : old = job[w] /\ j = [old EXCEPT !.pc = "start_create", !.now = 0]
    OBVIOUS
  <2>2. /\ j \in JobT /\ j.pc = "start_create" /\ j.sid = old.sid /\ j.addr = old.addr
        /\ j.phone = old.phone /\ j.guardian = old.guardian /\ j.doc = old.doc
        /\ old.now \in Nat
    BY <1>1, <1>2, <2>1 DEF JobT
  <2>3. job' = [job EXCEPT ![w] = j] /\ job'[w] = j /\ At(w, "start_send")
        /\ UNCHANGED <<clock, sessions, directory, accounts, reviews, history>>
    BY <1>1, <1>5, <2>1 DEF StartSend
  <2>4. PICK row : row = ChallengeRow(old.phone, "signup", clock, old.now + CodeTTL, MaxVerify)
    OBVIOUS
  <2>5. row \in ChallengeT
    <3>1. old.phone \in Phones
      BY <1>1, <2>1, <2>3 DEF JobFits, At, Starting
    <3> QED
      BY <1>1, <1>2, <2>2, <2>4, <3>1 DEF ChallengeRow, ChallengeT
  <2>6. challenges' = Append(challenges, row) /\ challenges \in Seq(ChallengeT)
    BY <1>1, <1>5, <2>1, <2>4 DEF StartSend, TablesOK
  <2>7. challenges' \in Seq(ChallengeT) /\ Len(challenges') = Len(challenges) + 1
    BY <2>5, <2>6, AppendProperties
  <2>8. JobFits(w)'
    BY <1>1, <2>1, <2>2, <2>3 DEF At, JobFits, Starting, Carrying, Providing, Proven
  <2>9. /\ proved \subseteq proved' /\ proved' \subseteq 1..Len(sessions)
        /\ Len(challenges) <= Len(challenges') /\ UNCHANGED <<approvals, blocked, died>>
        /\ ~At(w, "provision_insert") /\ ~At(w, "burn")
    BY <1>1, <2>3, <2>7 DEF At, history, TablesOK
  <2> QED
    BY <2>2, <2>3, <2>7, <2>8, <2>9, ChallengeStep
<1>6. CASE StartSendFails(w)
  BY <1>1, <1>6, FinishStep DEF StartSendFails, Left, At, history, TablesOK
<1>7. CASE StartCreate(w)
  <2>1. PICK row : row = Session(job[w].addr, job[w].phone, job[w].guardian)
    OBVIOUS
  <2>2. At(w, "start_create") /\ sessions' = Append(sessions, row) /\ Finish(w)
        /\ UNCHANGED <<clock, challenges, directory, accounts, reviews, history>>
    BY <1>7, <2>1 DEF StartCreate
  <2>3. row \in SessionT /\ row.stage = "awaiting_otp"
    BY <1>1, <1>2, <2>1, <2>2, SignupAssumption DEF JobFits, At, Starting, Session, SessionT
  <2>4. sessions \in Seq(SessionT)
    BY <1>1 DEF TablesOK
  <2>5. /\ sessions' \in Seq(SessionT) /\ Len(sessions') = Len(sessions) + 1
        /\ \A t \in 1..Len(sessions) : sessions'[t] = sessions[t]
        /\ sessions'[Len(sessions) + 1] = row
    BY <2>2, <2>3, <2>4, AppendProperties
  <2>6. TablesOK'
    BY <1>1, <2>2, <2>5 DEF TablesOK, AccountT, history
  <2>7. Kept
    BY <1>1, <2>2, <2>5 DEF Kept, history
  <2>8. RowsOK'
    BY <1>1, <2>2, <2>3, <2>5 DEF RowsOK, TablesOK, history
  <2>9. job' = [job EXCEPT ![w] = Idle] /\ job'[w] = Idle
    BY <1>1, <2>2 DEF Finish
  <2> QED
    BY <2>2, <2>6, <2>7, <2>8, <2>9, IdleFits, MoveStep DEF Left, At, history
<1> QED
  BY <1>3, <1>4, <1>5, <1>6, <1>7

-----------------------------------------------------------------------------
(* The handlers that go on with a session *)

LEMMA CarryStep ==
  ASSUME SignupInv, NEW w \in Workers, NEW t \in 1..Len(sessions), NEW j \in JobT,
         At(w, "idle"), job' = [job EXCEPT ![w] = j],
         j.sid = t, j.addr = sessions[t].addr, j.phone = sessions[t].phone,
         j.pc \in {"verify_select", "identity", "provision_ldap"},
         j.pc # "verify_select" => t \in proved,
         j.doc = "minor" => j.guardian = j.phone,
         UNCHANGED <<clock, tables, history>>
  PROVE  SignupInv'
<1>1. job'[w] = j /\ Len(sessions) \in Nat /\ TablesOK
  BY JobIs
<1>2. sessions' = sessions /\ proved' = proved
  BY DEF tables, history
<1>3. JobFits(w)'
  BY <1>1, <1>2 DEF JobFits, Starting, Carrying, Providing, Proven
<1> QED
  BY <1>1, <1>3, LocalStep DEF Left, At, history, TablesOK

LEMMA CarriedIs ==
  ASSUME SignupInv, NEW t \in 1..Len(sessions),
         NEW pc \in {"verify_select", "identity", "provision_ldap"}
  PROVE  /\ Carried(pc, t) \in JobT /\ Carried(pc, t).sid = t /\ Carried(pc, t).pc = pc
         /\ Carried(pc, t).addr = sessions[t].addr /\ Carried(pc, t).phone = sessions[t].phone
         /\ Carried(pc, t).doc = NONE
<1>1. /\ sessions[t].addr \in Addresses /\ sessions[t].phone \in Phones
      /\ sessions[t].guardian \in Guardians /\ t \in Nat
  BY SessionOf, Lengths DEF SignupInv
<1>2. pc \in Labels
  BY DEF Labels, Carrying, Providing
<1> QED
  BY <1>1, <1>2 DEF Carried, Idle, JobT

LEMMA TakeSteps ==
  ASSUME SignupInv, NEW w \in Workers, NEW t \in DOMAIN sessions,
         \/ VerifyGet(w, t) \/ CompleteSkip(w, t) \/ CompleteSubmit(w, t)
         \/ \E doc \in Documents : ChoiceGet(w, t, doc)
  PROVE  SignupInv'
<1>1. t \in 1..Len(sessions) /\ TablesOK /\ RowsOK /\ NONE # "minor"
  BY JobIs, Lengths, SignupAssumption
<1>2. CASE VerifyGet(w, t)
  <2>1. PICK j : j = Carried("verify_select", t)
    OBVIOUS
  <2>2. /\ At(w, "idle") /\ job' = [job EXCEPT ![w] = j] /\ UNCHANGED <<clock, tables, history>>
    BY <1>2, <2>1 DEF VerifyGet, Take
  <2>3. /\ j \in JobT /\ j.sid = t /\ j.addr = sessions[t].addr /\ j.phone = sessions[t].phone
        /\ j.pc = "verify_select" /\ j.doc = NONE
    BY <1>1, <2>1, CarriedIs
  <2> QED
    BY <1>1, <2>2, <2>3, CarryStep
<1>3. CASE CompleteSkip(w, t) \/ CompleteSubmit(w, t)
  <2>1. PICK pc \in {"provision_ldap", "identity"} : Take(w, t, "awaiting_identity_choice", pc)
    BY <1>3 DEF CompleteSkip, CompleteSubmit
  <2>2. PICK j : j = Carried(pc, t)
    OBVIOUS
  <2>3. /\ At(w, "idle") /\ job' = [job EXCEPT ![w] = j] /\ UNCHANGED <<clock, tables, history>>
        /\ sessions[t].stage = "awaiting_identity_choice"
    BY <1>3, <2>1, <2>2 DEF CompleteSkip, CompleteSubmit, Take
  <2>4. t \in proved
    BY <1>1, <2>3 DEF RowsOK
  <2>5. /\ j \in JobT /\ j.sid = t /\ j.addr = sessions[t].addr /\ j.phone = sessions[t].phone
        /\ j.pc = pc /\ j.doc = NONE
    BY <1>1, <2>2, CarriedIs
  <2> QED
    BY <1>1, <2>3, <2>4, <2>5, CarryStep
<1>4. ASSUME NEW doc \in Documents, ChoiceGet(w, t, doc) PROVE SignupInv'
  <2>1. PICK k, j : k = Carried("provision_ldap", t) /\ j = Documented(k, doc)
    OBVIOUS
  <2>2. /\ At(w, "idle") /\ job' = [job EXCEPT ![w] = j] /\ UNCHANGED <<clock, tables, history>>
        /\ sessions[t].stage = "choose_identity"
    BY <1>4, <2>1 DEF ChoiceGet
  <2>3. t \in proved
    BY <1>1, <2>2 DEF RowsOK
  <2>4. /\ k \in JobT /\ k.sid = t /\ k.addr = sessions[t].addr /\ k.phone = sessions[t].phone
    BY <1>1, <2>1, CarriedIs
  <2>6. "provision_ldap" \in Labels /\ k.phone \in Phones
    BY <1>1, <2>4, SessionOf DEF Labels, Carrying, Providing
  <2>5. /\ j \in JobT /\ j.sid = t /\ j.addr = sessions[t].addr /\ j.phone = sessions[t].phone
        /\ j.pc = "provision_ldap" /\ (j.doc = "minor" => j.guardian = j.phone)
    BY <2>1, <2>4, <2>6 DEF Documented, JobT
  <2> QED
    BY <1>1, <2>2, <2>3, <2>5, CarryStep
<1> QED
  BY <1>2, <1>3, <1>4

LEMMA CheckStep ==
  ASSUME SignupInv, NEW w \in Workers, NEW matches \in BOOLEAN, VerifySelect(w, matches)
  PROVE  SignupInv'
<1>1. /\ job \in [Workers -> JobT] /\ job[w] \in JobT /\ JobFits(w) /\ TablesOK
      /\ Len(sessions) \in Nat /\ Len(challenges) \in Nat
  BY JobIs
<1>2. /\ At(w, "verify_select") /\ UNCHANGED <<clock, tables, history>>
      /\ ~At(w, "provision_insert") /\ ~At(w, "burn")
  BY DEF VerifySelect, At
<1>3. CASE Finish(w)
  BY <1>1, <1>2, <1>3, FinishStep DEF Left, history, TablesOK
<1>4. CASE ~Finish(w)
  <2>1. PICK id : id = LatestActive(challenges, job[w].phone, "signup", clock, Hour)
    OBVIOUS
  <2>2. PICK pc \in {"verify_charge", "verify_consume"} :
          id # 0 /\ job' = [job EXCEPT ![w] = [job[w] EXCEPT !.pc = pc, !.id = id]]
    BY <1>4, <2>1 DEF VerifySelect, Finish, Charged
  <2>3. id \in 0..Len(challenges)
    BY <1>1, <2>1, LatestActiveInRange DEF TablesOK
  <2>4. PICK old, j : old = job[w] /\ j = [old EXCEPT !.pc = pc, !.id = id]
    OBVIOUS
  <2>5. /\ j \in JobT /\ j.pc = pc /\ j.id = id /\ j.sid = old.sid /\ j.addr = old.addr
        /\ j.phone = old.phone /\ j.guardian = old.guardian /\ j.doc = old.doc
    <3>1. id \in Nat /\ pc \in Labels
      BY <1>1, <2>3 DEF Labels, Carrying
    <3> QED
      BY <1>1, <2>4, <3>1 DEF JobT
  <2>6. job' = [job EXCEPT ![w] = j] /\ job'[w] = j
    BY <1>1, <2>2, <2>4
  <2>7. UNCHANGED <<sessions, challenges>>
    BY <1>2 DEF tables
  <2>8. JobFits(w)'
    BY <1>1, <1>2, <2>2, <2>3, <2>4, <2>5, <2>6, <2>7
       DEF At, JobFits, Starting, Carrying, Providing, Proven
  <2> QED
    BY <1>1, <1>2, <2>5, <2>6, <2>8, LocalStep DEF Left, history, TablesOK
<1> QED
  BY <1>3, <1>4

\* _update_session and the deletion: a stage only a proved session gets, and
\* never back from the dead.
LEMMA StageKept ==
  ASSUME SignupInv, NEW t \in 1..Len(sessions), NEW stage \in Stages \cup {"gone"},
         sessions' = [sessions EXCEPT ![t].stage = stage],
         sessions[t].stage = "gone" => stage = "gone",
         stage \notin {"awaiting_otp", "gone"} => t \in proved,
         UNCHANGED <<clock, challenges, directory, accounts, reviews, history>>
  PROVE  TablesOK' /\ Kept /\ RowsOK' /\ sessions'[t].stage = stage
<1>1. TablesOK /\ RowsOK /\ Len(sessions) \in Nat /\ Len(challenges) \in Nat
      /\ Len(reviews) \in Nat /\ sessions \in Seq(SessionT) /\ sessions[t] \in SessionT
  BY JobIs, Lengths, SessionOf DEF SignupInv, TablesOK
<1>2. PICK row : row = [sessions[t] EXCEPT !.stage = stage]
  OBVIOUS
<1>3. /\ row \in SessionT /\ row.stage = stage
      /\ row.addr = sessions[t].addr /\ row.phone = sessions[t].phone
  BY <1>1, <1>2 DEF SessionT
<1>4. sessions' = [sessions EXCEPT ![t] = row]
  BY <1>1, <1>2
<1>5. /\ sessions' \in Seq(SessionT) /\ Len(sessions') = Len(sessions)
      /\ \A i \in 1..Len(sessions) : sessions'[i] = IF i = t THEN row ELSE sessions[i]
  BY <1>1, <1>3, <1>4
<1>6. TablesOK'
  BY <1>1, <1>5 DEF TablesOK, AccountT, history
<1>7. Kept
  BY <1>1, <1>3, <1>5 DEF Kept, history
<1>8. RowsOK'
  BY <1>1, <1>3, <1>5 DEF RowsOK, TablesOK, history
<1> QED
  BY <1>3, <1>5, <1>6, <1>7, <1>8

LEMMA SweepStep ==
  ASSUME SignupInv, NEW t \in DOMAIN sessions, Sweep(t)
  PROVE  SignupInv'
<1>1. t \in 1..Len(sessions) /\ Len(sessions) \in Nat /\ DOMAIN reviews = 1..Len(reviews)
  BY Lengths DEF SignupInv
<1>2. TablesOK' /\ Kept /\ RowsOK'
  BY <1>1, StageKept DEF Sweep
<1> QED
  BY <1>1, <1>2, FrameStep DEF Sweep, history, SignupInv

LEMMA VerifySteps ==
  ASSUME SignupInv, NEW w \in Workers, VerifyCharge(w) \/ VerifyConsume(w) \/ VerifyUpdate(w)
  PROVE  SignupInv'
<1>1. /\ job \in [Workers -> JobT] /\ job[w] \in JobT /\ JobFits(w) /\ TablesOK /\ RowsOK
      /\ Len(sessions) \in Nat /\ challenges \in Seq(ChallengeT)
  BY JobIs DEF TablesOK
<1>2. CASE VerifyCharge(w)
  <2>1. PICK id : id = job[w].id
    OBVIOUS
  <2>2. id \in 1..Len(challenges)
    BY <1>1, <1>2, <2>1 DEF VerifyCharge, At, JobFits
  <2>3. PICK row : row = [challenges[id] EXCEPT !.left = IF @ > 0 THEN @ - 1 ELSE @]
    OBVIOUS
  <2>4. row \in ChallengeT
    <3>1. challenges[id] \in ChallengeT
      BY <1>1, <2>2, ElementOfSeq
    <3> QED
      BY <2>3, <3>1 DEF ChallengeT
  <2>5. challenges' = [challenges EXCEPT ![id] = row]
    BY <1>1, <1>2, <2>1, <2>2, <2>3 DEF VerifyCharge, Charge
  <2>6. challenges' \in Seq(ChallengeT) /\ Len(challenges') = Len(challenges)
    BY <1>1, <2>2, <2>4, <2>5
  <2>7. UNCHANGED <<clock, sessions, directory, accounts, reviews, proved, approvals, blocked, died>>
        /\ job' = [job EXCEPT ![w] = Idle] /\ job'[w] = Idle
        /\ ~At(w, "provision_insert") /\ ~At(w, "burn")
    BY <1>1, <1>2 DEF VerifyCharge, Finish, history, At
  <2>8. TablesOK' /\ Len(challenges) <= Len(challenges')
    BY <1>1, <2>6, <2>7, Lengths DEF TablesOK, AccountT
  <2>9. JobFits(w)' /\ Idle \in JobT /\ proved' \subseteq 1..Len(sessions)
    BY <1>1, <2>7, <2>8, IdleFits DEF TablesOK
  <2> QED
    BY <2>6, <2>7, <2>8, <2>9, ChallengeStep
<1>3. CASE VerifyConsume(w)
  <2>1. PICK id, sid : id = job[w].id /\ sid = job[w].sid
    OBVIOUS
  <2>2. id \in 1..Len(challenges) /\ sid \in 1..Len(sessions)
    BY <1>1, <1>3, <2>1 DEF VerifyConsume, At, JobFits, Carrying
  <2>3. PICK row : row = [challenges[id] EXCEPT !.consumed = TRUE]
    OBVIOUS
  <2>4. row \in ChallengeT
    <3>1. challenges[id] \in ChallengeT
      BY <1>1, <2>2, ElementOfSeq
    <3> QED
      BY <2>3, <3>1 DEF ChallengeT
  <2>5. challenges' = [challenges EXCEPT ![id] = row]
    BY <1>1, <1>3, <2>1, <2>2, <2>3 DEF VerifyConsume, Consume
  <2>6. challenges' \in Seq(ChallengeT) /\ Len(challenges') = Len(challenges)
    BY <1>1, <2>2, <2>4, <2>5
  <2>7. PICK j : j = [Idle EXCEPT !.pc = "verify_update", !.sid = sid]
    OBVIOUS
  <2>8. /\ j \in JobT /\ j.pc = "verify_update" /\ j.sid = sid /\ j.doc = NONE
    <3>1. "verify_update" \in Labels /\ sid \in Nat
      BY <1>1, <2>2 DEF Labels, Proven
    <3> QED
      BY <2>7, <3>1 DEF Idle, JobT
  <2>9. /\ UNCHANGED <<clock, sessions, directory, accounts, reviews, approvals, blocked, died>>
        /\ proved' = proved \cup {sid} /\ job' = [job EXCEPT ![w] = j] /\ job'[w] = j
        /\ ~At(w, "provision_insert") /\ ~At(w, "burn")
    BY <1>1, <1>3, <2>1, <2>7 DEF VerifyConsume, Rest, At
  <2>10. Len(challenges) <= Len(challenges') /\ proved' \subseteq 1..Len(sessions)
    BY <1>1, <2>2, <2>6, <2>9, Lengths DEF TablesOK
  <2>11. JobFits(w)'
    <3>1. NONE # "minor" /\ sid \in proved'
      BY <2>9, SignupAssumption
    <3> QED
      BY <2>2, <2>8, <2>9, <3>1 DEF JobFits, Starting, Carrying, Providing, Proven
  <2> QED
    BY <2>6, <2>8, <2>9, <2>10, <2>11, ChallengeStep
<1>4. CASE VerifyUpdate(w)
  <2>1. PICK sid : sid = job[w].sid
    OBVIOUS
  <2>2. sid \in 1..Len(sessions) /\ sid \in proved
    BY <1>1, <1>4, <2>1 DEF VerifyUpdate, At, JobFits, Proven
  <2>3. /\ sessions' = Staged(sid, "awaiting_identity_choice") /\ Finish(w)
        /\ UNCHANGED <<clock, challenges, directory, accounts, reviews, history>>
        /\ ~At(w, "provision_insert") /\ ~At(w, "burn")
    BY <1>4, <2>1 DEF VerifyUpdate, At
  <2>4. CASE sessions[sid].stage = "gone"
    <3>1. UNCHANGED tables
      BY <2>3, <2>4 DEF Staged, tables
    <3> QED
      BY <1>1, <2>3, <3>1, FinishStep DEF Left, history, TablesOK
  <2>5. CASE sessions[sid].stage # "gone"
    <3>1. TablesOK' /\ Kept /\ RowsOK'
      BY <2>2, <2>3, <2>5, SignupAssumption, StageKept DEF Staged
    <3>2. job' = [job EXCEPT ![w] = Idle] /\ job'[w] = Idle
      BY <1>1, <2>3 DEF Finish
    <3> QED
      BY <2>3, <3>1, <3>2, IdleFits, MoveStep DEF Left, history
  <2> QED
    BY <2>4, <2>5
<1> QED
  BY <1>2, <1>3, <1>4

-----------------------------------------------------------------------------
(* The identity step, the pause and what ends a handler *)

\* The handler goes on with its session, and with a document or without.
LEMMA ProvideStep ==
  ASSUME SignupInv, NEW w \in Workers, NEW j \in JobT, At(w, "identity"),
         job' = [job EXCEPT ![w] = j], j.sid = job[w].sid, j.addr = job[w].addr,
         j.phone = job[w].phone, j.pc \in {"provision_ldap", "pause"},
         j.doc = "minor" => j.guardian = j.phone,
         UNCHANGED <<clock, tables, history>>
  PROVE  SignupInv'
<1>1. /\ job[w] \in JobT /\ JobFits(w) /\ TablesOK /\ job'[w] = j
      /\ UNCHANGED <<sessions, proved>> /\ ~At(w, "provision_insert") /\ ~At(w, "burn")
  BY JobIs DEF tables, history, At
<1>2. PICK old : old = job[w]
  OBVIOUS
<1>3. JobFits(w)'
  BY <1>1, <1>2 DEF At, JobFits, Starting, Carrying, Providing, Proven
<1> QED
  BY <1>1, <1>3, LocalStep DEF Left, history, TablesOK

LEMMA IdentityStep ==
  ASSUME SignupInv, NEW w \in Workers, NEW answer \in Answers, Identity(w, answer)
  PROVE  SignupInv'
<1>1. /\ job \in [Workers -> JobT] /\ job[w] \in JobT /\ JobFits(w) /\ TablesOK /\ RowsOK
      /\ At(w, "identity") /\ {"provision_ldap", "pause"} \subseteq Labels
      /\ Len(reviews) \in Nat
  BY JobIs DEF Identity, Labels, Carrying, Providing
<1>2. PICK old : old = job[w]
  OBVIOUS
<1>3. /\ old.sid \in 1..Len(sessions) /\ old.addr = sessions[old.sid].addr
      /\ old.phone = sessions[old.sid].phone /\ old.sid \in proved
      /\ old.doc = "minor" => old.guardian = old.phone
  BY <1>1, <1>2 DEF At, JobFits, Carrying, Providing, Proven
<1>4. old.addr \in Addresses /\ old.phone \in Phones
  BY <1>1, <1>3, SessionOf
<1>5. CASE Outcome(answer) \in Documents /\ UNCHANGED reviews
           /\ job' = [job EXCEPT ![w] = Documented(@, answer)]
  <2>1. answer \in Documents
    BY <1>5 DEF Outcome, Documents
  <2>2. PICK j : j = Documented(old, answer)
    OBVIOUS
  <2>3. /\ j \in JobT /\ j.sid = old.sid /\ j.addr = old.addr /\ j.phone = old.phone
        /\ j.pc = "provision_ldap" /\ (j.doc = "minor" => j.guardian = j.phone)
    BY <1>1, <1>2, <1>4, <2>1, <2>2 DEF Documented, JobT
  <2>4. job' = [job EXCEPT ![w] = j] /\ UNCHANGED <<clock, tables, history>>
    BY <1>1, <1>2, <1>5, <2>2 DEF Identity, tables
  <2> QED
    BY <1>1, <1>2, <2>3, <2>4, ProvideStep
<1>6. CASE UNCHANGED reviews /\ (Goto(w, "pause") \/ Goto(w, "provision_ldap"))
  <2>1. PICK pc \in {"pause", "provision_ldap"} : Goto(w, pc)
    BY <1>6
  <2>2. PICK j : j = [old EXCEPT !.pc = pc]
    OBVIOUS
  <2>3. /\ j \in JobT /\ j.sid = old.sid /\ j.addr = old.addr /\ j.phone = old.phone
        /\ j.pc = pc /\ j.doc = old.doc /\ j.guardian = old.guardian
    BY <1>1, <1>2, <2>2 DEF JobT
  <2>4. job' = [job EXCEPT ![w] = j] /\ UNCHANGED <<clock, tables, history>>
    BY <1>1, <1>2, <1>6, <2>1, <2>2 DEF Identity, tables, Goto
  <2> QED
    BY <1>1, <1>2, <1>3, <2>1, <2>3, <2>4, ProvideStep
<1>7. CASE reviews' = Append(reviews, [addr |-> job[w].addr, status |-> "pending"])
           /\ Goto(w, "provision_ldap")
  <2>1. PICK row, j : /\ row = [addr |-> old.addr, status |-> "pending"]
                      /\ j = [old EXCEPT !.pc = "provision_ldap"]
    OBVIOUS
  <2>2. row \in ReviewT /\ row.status = "pending" /\ reviews \in Seq(ReviewT)
    BY <1>1, <1>4, <2>1 DEF ReviewT, TablesOK
  <2>3. /\ reviews' \in Seq(ReviewT) /\ Len(reviews') = Len(reviews) + 1
        /\ \A r \in 1..Len(reviews) : reviews'[r] = reviews[r]
        /\ reviews'[Len(reviews) + 1] = row
    <3>1. reviews' = Append(reviews, row)
      BY <1>2, <1>7, <2>1
    <3> QED
      BY <2>2, <3>1, AppendProperties
  <2>4. UNCHANGED <<clock, challenges, sessions, directory, accounts, history>>
        /\ job' = [job EXCEPT ![w] = j] /\ job'[w] = j
    BY <1>1, <1>2, <1>7, <2>1 DEF Identity, Goto
  <2>5. /\ j \in JobT /\ j.sid = old.sid /\ j.addr = old.addr /\ j.phone = old.phone
        /\ j.pc = "provision_ldap" /\ j.doc = old.doc /\ j.guardian = old.guardian
    BY <1>1, <1>2, <2>1 DEF JobT
  <2>6. JobFits(w)'
    BY <1>1, <1>3, <2>4, <2>5
       DEF JobFits, Starting, Carrying, Providing, Proven, history
  <2>7. TablesOK' /\ Kept /\ RowsOK'
    <3>1. Len(challenges) \in Nat /\ Len(sessions) \in Nat
      BY <1>1, Lengths
    <3>2. TablesOK'
      BY <1>1, <2>3, <2>4 DEF TablesOK, AccountT, history
    <3> QED
      BY <1>1, <2>3, <2>4, <3>1, <3>2 DEF RowsOK, Kept, history
  <2>8. \A r \in 1..Len(reviews') : r \notin 1..Len(reviews) => reviews'[r].status = "pending"
    BY <1>1, <2>2, <2>3
  <2>9. job' \in [Workers -> JobT] /\ \A v \in Workers \ {w} : job'[v] = job[v]
    BY <1>1, <2>4, <2>5
  <2>10. Left(w)
    BY <1>1 DEF Left, At
  <2> QED
    BY <2>3, <2>4, <2>6, <2>7, <2>8, <2>9, <2>10, FrameStep DEF history
<1> QED
  BY <1>5, <1>6, <1>7 DEF Identity

LEMMA PauseStep ==
  ASSUME SignupInv, NEW w \in Workers, Pause(w)
  PROVE  SignupInv'
<1>1. /\ job \in [Workers -> JobT] /\ JobFits(w) /\ TablesOK /\ RowsOK /\ At(w, "pause")
      /\ ~At(w, "provision_insert") /\ ~At(w, "burn")
  BY JobIs DEF Pause, At
<1>2. PICK sid : sid = job[w].sid
  OBVIOUS
<1>3. sid \in 1..Len(sessions) /\ sid \in proved
  BY <1>1, <1>2 DEF At, JobFits, Providing, Proven
<1>4. /\ UNCHANGED <<clock, challenges, directory, accounts, reviews, proved, approvals, died>>
      /\ Finish(w)
  BY DEF Pause
<1>5. CASE UNCHANGED sessions /\ blocked' \subseteq 1..Len(sessions)
  <2>1. UNCHANGED tables
    BY <1>4, <1>5 DEF tables
  <2> QED
    BY <1>1, <1>4, <1>5, <2>1, FinishStep DEF Left
<1>6. CASE /\ sessions[sid].stage # "gone" /\ "choose_identity" \in Stages
           /\ sessions' = [sessions EXCEPT ![sid].stage = "choose_identity"]
           /\ UNCHANGED blocked
  <2>1. TablesOK' /\ Kept /\ RowsOK'
    BY <1>3, <1>4, <1>6, StageKept DEF history
  <2>2. job' = [job EXCEPT ![w] = Idle] /\ job'[w] = Idle
    BY <1>1, <1>4 DEF Finish
  <2> QED
    BY <1>1, <1>4, <2>1, <2>2, IdleFits, MoveStep DEF Left
<1> QED
  <2>1. blocked \subseteq 1..Len(sessions) /\ blocked \cup {sid} \subseteq 1..Len(sessions)
    BY <1>1, <1>3 DEF TablesOK
  <2> QED
    BY <1>2, <1>5, <1>6, <2>1 DEF Pause, Staged

LEMMA EndSteps ==
  ASSUME SignupInv, NEW w \in Workers, ProvisionFails(w) \/ Burn(w) \/ Crash(w)
  PROVE  SignupInv'
<1>1. job \in [Workers -> JobT] /\ JobFits(w) /\ TablesOK
  BY JobIs
<1>2. CASE ProvisionFails(w)
  BY <1>1, <1>2, FinishStep DEF ProvisionFails, Left, At, history, TablesOK
<1>3. CASE Burn(w)
  <2>1. PICK sid : sid = job[w].sid
    OBVIOUS
  <2>2. sid \in 1..Len(sessions) /\ ~At(w, "provision_insert")
    BY <1>1, <1>3, <2>1 DEF Burn, At, JobFits, Proven
  <2>3. TablesOK' /\ Kept /\ RowsOK' /\ sessions'[sid].stage = "gone"
    BY <1>3, <2>1, <2>2, StageKept DEF Burn
  <2>4. job' = [job EXCEPT ![w] = Idle] /\ job'[w] = Idle
    BY <1>1, <1>3 DEF Burn, Finish
  <2> QED
    BY <1>3, <2>1, <2>2, <2>3, <2>4, IdleFits, MoveStep DEF Burn, Left, history
<1>4. CASE Crash(w)
  BY <1>1, <1>4, FinishStep DEF Crash, Left, TablesOK
<1> QED
  BY <1>2, <1>3, <1>4

-----------------------------------------------------------------------------
(* The directory, the row and the decision *)

\* The steps that write the directory, accounts or a review's status show the
\* promises for themselves.
LEMMA PromiseStep ==
  ASSUME SignupInv, TablesOK', Kept, RowsOK', NEW w \in Workers, NEW j \in JobT,
         job' = [job EXCEPT ![w] = j], JobFits(w)', Promises'
  PROVE  SignupInv'
<1>1. job' \in [Workers -> JobT] /\ \A v \in Workers \ {w} : job'[v] = job[v]
  BY JobIs
<1>2. \A v \in Workers : JobFits(v)'
  BY <1>1, OthersFit
<1> QED
  BY <1>1, <1>2 DEF SignupInv

\* An account has been made by a session of the table that cleared its OTP.
LEMMA MadeBy ==
  ASSUME SignupInv, NEW a \in Addresses, accounts[a] # NoAccount
  PROVE  accounts[a].by \in 1..Len(sessions) /\ accounts[a].by \in proved
         /\ directory[a] = accounts[a].by
BY DEF SignupInv, Promises, PhoneProven, TablesOK, DirectoryMatchesTable

LEMMA LdapStep ==
  ASSUME SignupInv, NEW w \in Workers, ProvisionLdap(w)
  PROVE  SignupInv'
<1>1. /\ job \in [Workers -> JobT] /\ job[w] \in JobT /\ JobFits(w) /\ TablesOK /\ RowsOK
      /\ Len(sessions) \in Nat /\ Len(challenges) \in Nat /\ Len(reviews) \in Nat
      /\ "provision_insert" \in Labels
  BY JobIs DEF Labels, Carrying, Providing
<1>2. PICK old, sid, addr : old = job[w] /\ sid = old.sid /\ addr = old.addr
  OBVIOUS
<1>3. /\ old.pc = "provision_ldap" /\ sid \in 1..Len(sessions) /\ addr = sessions[sid].addr
      /\ old.phone = sessions[sid].phone /\ sid \in proved
      /\ old.doc = "minor" => old.guardian = old.phone
  BY <1>1, <1>2 DEF ProvisionLdap, At, JobFits, Carrying, Providing, Proven
<1>4. addr \in Addresses
  BY <1>1, <1>3, SessionOf
<1>5. UNCHANGED <<clock, challenges, sessions, accounts, reviews, history>>
  BY DEF ProvisionLdap
<1>6. CASE directory[addr] # 0
  <2>1. Finish(w) /\ UNCHANGED directory
    BY <1>2, <1>6 DEF ProvisionLdap
  <2> QED
    BY <1>1, <1>2, <1>3, <1>5, <2>1, FinishStep DEF Left, At, tables, history, TablesOK
<1>7. CASE directory[addr] = 0
  <2>1. directory' = [directory EXCEPT ![addr] = sid] /\ Goto(w, "provision_insert")
    BY <1>2, <1>7 DEF ProvisionLdap
  <2>2. PICK j : j = [old EXCEPT !.pc = "provision_insert"]
    OBVIOUS
  <2>3. /\ j \in JobT /\ j.pc = "provision_insert" /\ j.sid = sid /\ j.addr = addr
        /\ j.phone = old.phone /\ j.doc = old.doc /\ j.guardian = old.guardian
    BY <1>1, <1>2, <2>2 DEF JobT
  <2>4. job' = [job EXCEPT ![w] = j] /\ job'[w] = j /\ \A v \in Workers \ {w} : job'[v] = job[v]
    BY <1>1, <1>2, <2>1, <2>2 DEF Goto
  <2>5. /\ directory' \in [Addresses -> 0..Len(sessions)] /\ directory'[addr] = sid
        /\ \A a \in Addresses : a # addr => directory'[a] = directory[a]
    BY <1>1, <1>3, <1>4, <2>1 DEF TablesOK
  <2>6. TablesOK'
    BY <1>1, <1>5, <2>5 DEF TablesOK, AccountT, history
  <2>7. Kept
    BY <1>1, <1>5, <1>7, <2>5 DEF Kept, history
  <2>8. RowsOK'
    BY <1>1, <1>3, <1>5, <2>5 DEF RowsOK, history
  <2>9. JobFits(w)'
    BY <1>1, <1>3, <1>5, <2>3, <2>4, <2>5
       DEF JobFits, Starting, Carrying, Providing, Proven, history
  <2>10. DirectoryMatchesTable'
    <3> SUFFICES ASSUME NEW a \in Addresses
                 PROVE  \/ directory'[a] = accounts'[a].by
                        \/ /\ accounts'[a] = NoAccount
                           /\ \/ directory'[a] \in died'
                              \/ \E v \in Workers : At(v, "provision_insert")'
                                                    /\ job'[v].sid = directory'[a]
      BY DEF DirectoryMatchesTable
    <3>1. CASE a = addr
      <4>1. accounts[a] = NoAccount
        BY <1>7, <3>1, MadeBy
      <4> QED
        BY <1>5, <2>3, <2>4, <2>5, <3>1, <4>1 DEF At
    <3>2. CASE a # addr
      <4>1. \A v \in Workers : At(v, "provision_insert") => job'[v] = job[v]
        BY <1>2, <1>3, <2>4 DEF At
      <4> QED
        BY <1>5, <2>5, <3>2, <4>1 DEF SignupInv, Promises, DirectoryMatchesTable, At, history
    <3> QED
      BY <3>1, <3>2
  <2>11. SessionBurned'
    <3>1. \A v \in Workers : At(v, "burn") => job'[v] = job[v]
      BY <1>2, <1>3, <2>4 DEF At
    <3> QED
      BY <1>5, <3>1 DEF SignupInv, Promises, SessionBurned, At, history
  <2>12. PhoneProven' /\ Tier2Earned' /\ MinorsManaged'
    BY <1>5 DEF SignupInv, Promises, PhoneProven, Tier2Earned, MinorsManaged, history
  <2> QED
    BY <2>3, <2>4, <2>6, <2>7, <2>8, <2>9, <2>10, <2>11, <2>12, PromiseStep DEF Promises
<1> QED
  BY <1>6, <1>7

LEMMA InsertStep ==
  ASSUME SignupInv, NEW w \in Workers, ProvisionInsert(w)
  PROVE  SignupInv'
<1>1. /\ job \in [Workers -> JobT] /\ job[w] \in JobT /\ JobFits(w) /\ TablesOK /\ RowsOK
      /\ Len(sessions) \in Nat /\ Len(challenges) \in Nat /\ Len(reviews) \in Nat
      /\ "burn" \in Labels
  BY JobIs DEF Labels, Proven
<1>2. PICK old, sid, addr : old = job[w] /\ sid = old.sid /\ addr = old.addr
  OBVIOUS
<1>3. /\ old.pc = "provision_insert" /\ sid \in 1..Len(sessions) /\ addr = sessions[sid].addr
      /\ old.phone = sessions[sid].phone /\ sid \in proved /\ directory[addr] = sid
      /\ old.doc = "minor" => old.guardian = old.phone
  BY <1>1, <1>2 DEF ProvisionInsert, At, JobFits, Carrying, Providing, Proven
<1>4. addr \in Addresses /\ old.phone \in Phones
  BY <1>1, <1>3, SessionOf
<1>5. UNCHANGED <<clock, challenges, sessions, directory, reviews, history>>
      /\ Rest(w, "burn")
  BY DEF ProvisionInsert
<1>6. PICK row : row = [by |-> sid, phone |-> old.phone, guardian |-> old.guardian,
                        tier |-> IF old.doc = NONE THEN 1 ELSE 2, doc |-> old.doc]
  OBVIOUS
<1>7. /\ row \in AccountT /\ row.by = sid /\ row.phone = old.phone /\ row.doc = old.doc
      /\ row.guardian = old.guardian /\ (row.tier = 2 => row.doc \in Documents)
  BY <1>1, <1>2, <1>3, <1>4, <1>6 DEF AccountT, JobT
<1>8. /\ accounts \in [Addresses -> AccountT]
      /\ accounts' = [accounts EXCEPT ![addr] = IF @ # NoAccount THEN @ ELSE row]
  BY <1>1, <1>2, <1>6 DEF ProvisionInsert, TablesOK
<1>9. /\ accounts' \in [Addresses -> AccountT]
      /\ \A a \in Addresses :
           accounts'[a] = IF a = addr /\ accounts[a] = NoAccount THEN row ELSE accounts[a]
  BY <1>4, <1>7, <1>8
<1>10. PICK j : j = [Idle EXCEPT !.pc = "burn", !.sid = sid]
  OBVIOUS
<1>11. j \in JobT /\ j.pc = "burn" /\ j.sid = sid /\ j.doc = NONE
  <2>1. sid \in Nat
    BY <1>1, <1>3
  <2> QED
    BY <1>1, <1>10, <2>1 DEF Idle, JobT
<1>12. job' = [job EXCEPT ![w] = j] /\ job'[w] = j /\ \A v \in Workers \ {w} : job'[v] = job[v]
  BY <1>1, <1>2, <1>5, <1>10 DEF Rest
<1>13. TablesOK'
  BY <1>1, <1>5, <1>9 DEF TablesOK, AccountT, history
<1>14. Kept /\ RowsOK'
  BY <1>1, <1>5 DEF Kept, RowsOK, history
<1>15. JobFits(w)'
  <2>1. NONE # "minor"
    BY SignupAssumption
  <2> QED
    BY <1>1, <1>3, <1>5, <1>11, <1>12, <2>1
       DEF JobFits, Starting, Carrying, Providing, Proven, history
<1>16. \A a \in Addresses : accounts'[a] # accounts[a] => a = addr /\ accounts'[a] = row
  BY <1>9
<1>17. row # NoAccount /\ NoAccount.tier # 2
  BY <1>1, <1>3, <1>7 DEF NoAccount
<1>18. DirectoryMatchesTable'
  <2> SUFFICES ASSUME NEW a \in Addresses
               PROVE  \/ directory'[a] = accounts'[a].by
                      \/ /\ accounts'[a] = NoAccount
                         /\ \/ directory'[a] \in died'
                            \/ \E v \in Workers : At(v, "provision_insert")'
                                                  /\ job'[v].sid = directory'[a]
    BY DEF DirectoryMatchesTable
  <2>1. CASE a = addr
    <3>1. CASE accounts[a] = NoAccount
      BY <1>3, <1>5, <1>7, <1>9, <2>1, <3>1
    <3>2. CASE accounts[a] # NoAccount
      BY <1>5, <1>9, <3>2, MadeBy
    <3> QED
      BY <3>1, <3>2
  <2>2. CASE a # addr
    <3>1. sid # directory[a]
      BY <1>1, <1>3, <2>2 DEF RowsOK
    <3>2. \A v \in Workers : job[v].sid = directory[a] => job'[v] = job[v]
      BY <1>2, <1>12, <3>1
    <3> QED
      BY <1>5, <1>9, <2>2, <3>2 DEF SignupInv, Promises, DirectoryMatchesTable, At, history
  <2> QED
    BY <2>1, <2>2
<1>19. PhoneProven'
  BY <1>3, <1>5, <1>7, <1>9 DEF SignupInv, Promises, PhoneProven, history
<1>20. Tier2Earned'
  <2>1. \A r \in DOMAIN reviews : reviews[r].addr \in Addresses
    BY <1>1, Lengths, ReviewOf
  <2> QED
    BY <1>5, <1>7, <1>9, <1>17, <2>1 DEF SignupInv, Promises, Tier2Earned, history
<1>21. MinorsManaged'
  BY <1>3, <1>7, <1>9 DEF SignupInv, Promises, MinorsManaged
<1>22. SessionBurned'
  <2>1. \A v \in Workers : At(v, "burn") => job'[v] = job[v]
    BY <1>2, <1>3, <1>12 DEF At
  <2>2. At(w, "burn")' /\ job'[w].sid = sid
    BY <1>11, <1>12 DEF At
  <2> QED
    BY <1>5, <1>7, <1>9, <2>1, <2>2 DEF SignupInv, Promises, SessionBurned, At, history
<1> QED
  BY <1>11, <1>12, <1>13, <1>14, <1>15, <1>18, <1>19, <1>20, <1>21, <1>22, PromiseStep
     DEF Promises

LEMMA DecideSelectStep ==
  ASSUME SignupInv, NEW w \in Workers, NEW r \in DOMAIN reviews,
         NEW decision \in {"approved", "rejected"}, DecideSelect(w, r, decision)
  PROVE  SignupInv'
<1>1. /\ job \in [Workers -> JobT] /\ TablesOK /\ r \in 1..Len(reviews) /\ r \in Nat
      /\ Len(sessions) \in Nat /\ "decide" \in Labels
  BY JobIs, Lengths DEF Labels
<1>2. PICK j : j = [Idle EXCEPT !.pc = "decide", !.id = r, !.decision = decision]
  OBVIOUS
<1>3. /\ j \in JobT /\ j.pc = "decide" /\ j.id = r /\ j.decision = decision
      /\ j.sid = 0 /\ j.doc = NONE
  BY <1>1, <1>2 DEF Idle, JobT
<1>4. job' = [job EXCEPT ![w] = j] /\ job'[w] = j /\ UNCHANGED <<clock, tables, history>>
      /\ ~At(w, "provision_insert") /\ ~At(w, "burn") /\ UNCHANGED <<sessions, reviews>>
  BY <1>1, <1>2 DEF DecideSelect, At, tables
<1>5. NONE # "minor"
  BY SignupAssumption
<1>6. JobFits(w)'
  BY <1>1, <1>3, <1>4, <1>5 DEF JobFits, Starting, Carrying, Providing, Proven
<1> QED
  BY <1>1, <1>3, <1>4, <1>6, LocalStep DEF Left, history, TablesOK

LEMMA DecideStep ==
  ASSUME SignupInv, NEW w \in Workers, DecideTx(w)
  PROVE  SignupInv'
<1>1. /\ job \in [Workers -> JobT] /\ job[w] \in JobT /\ JobFits(w) /\ TablesOK /\ RowsOK
      /\ Len(sessions) \in Nat /\ Len(challenges) \in Nat /\ Len(reviews) \in Nat
      /\ DOMAIN reviews = 1..Len(reviews) /\ reviews \in Seq(ReviewT)
      /\ accounts \in [Addresses -> AccountT]
  BY JobIs, Lengths DEF TablesOK
<1>2. PICK id, addr, decision :
        id = job[w].id /\ addr = reviews[id].addr /\ decision = job[w].decision
  OBVIOUS
<1>3. At(w, "decide") /\ id \in 1..Len(reviews) /\ ~At(w, "provision_insert") /\ ~At(w, "burn")
  BY <1>1, <1>2 DEF DecideTx, At, JobFits
<1>4. reviews[id] \in ReviewT /\ addr \in Addresses
  BY <1>1, <1>2, <1>3, ReviewOf
<1>5. /\ UNCHANGED <<clock, challenges, sessions, directory, proved, blocked, died>>
      /\ Finish(w) /\ job' = [job EXCEPT ![w] = Idle] /\ job'[w] = Idle
      /\ \A v \in Workers \ {w} : job'[v] = job[v]
  BY <1>1 DEF DecideTx, Finish
<1>6. CASE UNCHANGED <<reviews, accounts, approvals>>
  BY <1>1, <1>3, <1>5, <1>6, FinishStep DEF Left, tables, TablesOK
<1>7. CASE /\ decision \in {"approved", "rejected"}
           /\ reviews' = [reviews EXCEPT ![id].status = decision]
           /\ \/ decision = "rejected" /\ UNCHANGED <<accounts, approvals>>
              \/ /\ decision = "approved" /\ accounts[addr] # NoAccount
                 /\ accounts' = Promoted(addr) /\ approvals' = approvals \cup {id}
  <2>1. PICK row : row = [reviews[id] EXCEPT !.status = decision]
    OBVIOUS
  <2>2. row \in ReviewT /\ row.addr = addr /\ row.status = decision
    BY <1>2, <1>4, <1>7, <2>1 DEF ReviewT
  <2>3. /\ reviews' \in Seq(ReviewT) /\ Len(reviews') = Len(reviews)
        /\ \A r \in 1..Len(reviews) : reviews'[r] = IF r = id THEN row ELSE reviews[r]
    <3>1. reviews' = [reviews EXCEPT ![id] = row]
      BY <1>1, <1>7, <2>1
    <3> QED
      BY <1>1, <1>3, <2>2, <3>1
  <2>4. DOMAIN reviews' = 1..Len(reviews)
    BY <2>3, LenProperties
  <2>5. \A r \in 1..Len(reviews) : reviews'[r].addr = reviews[r].addr
    BY <1>2, <2>2, <2>3
  <2>6. PICK acct : acct = [accounts[addr] EXCEPT !.tier = 2, !.doc = "manual"]
    OBVIOUS
  <2>7. /\ accounts[addr] \in AccountT /\ acct \in AccountT
        /\ acct.by = accounts[addr].by /\ acct.phone = accounts[addr].phone
        /\ acct.tier = 2 /\ acct.doc = "manual"
    <3>1. accounts[addr] \in AccountT
      BY <1>1, <1>4
    <3>2. PICK old : old = accounts[addr]
      OBVIOUS
    <3>3. /\ old.by \in 0..Len(sessions) /\ old.phone \in Phones \cup {NONE}
          /\ old.guardian \in Phones \cup Guardians \cup {NONE}
          /\ acct = [by |-> old.by, phone |-> old.phone, guardian |-> old.guardian,
                     tier |-> 2, doc |-> "manual"]
      BY <2>6, <3>1, <3>2 DEF AccountT
    <3> QED
      BY <3>1, <3>2, <3>3 DEF AccountT
  <2>8. /\ accounts' \in [Addresses -> AccountT]
        /\ \A a \in Addresses : accounts'[a] =
             IF a = addr /\ decision = "approved" THEN acct ELSE accounts[a]
    <3>1. decision = "approved" => accounts' = [accounts EXCEPT ![addr] = acct]
      BY <1>1, <1>4, <1>7, <2>6 DEF Promoted
    <3> QED
      BY <1>1, <1>4, <1>7, <2>7, <3>1
  <2>9. \A a \in Addresses :
          /\ accounts'[a] # NoAccount <=> accounts[a] # NoAccount
          /\ accounts'[a].by = accounts[a].by /\ accounts'[a].phone = accounts[a].phone
    <3>1. decision = "approved" => accounts[addr] # NoAccount /\ acct # NoAccount
      BY <1>7, <2>7 DEF NoAccount
    <3> QED
      BY <2>7, <2>8, <3>1
  <2>10. approvals \subseteq approvals' /\ approvals' \subseteq 1..Len(reviews)
    BY <1>1, <1>3, <1>7 DEF TablesOK
  <2>11. TablesOK'
    BY <1>1, <1>5, <2>3, <2>8, <2>10 DEF TablesOK, AccountT
  <2>12. Kept /\ RowsOK'
    BY <1>1, <1>5, <2>3, <2>10 DEF Kept, RowsOK
  <2>13. \A v \in Workers : At(v, "provision_insert") \/ At(v, "burn") => job'[v] = job[v]
    BY <1>3, <1>5
  <2>14. DirectoryMatchesTable' /\ PhoneProven' /\ SessionBurned'
    BY <1>5, <2>9, <2>13
       DEF SignupInv, Promises, DirectoryMatchesTable, PhoneProven, SessionBurned, At
  <2>15. MinorsManaged'
    BY <2>7, <2>8 DEF SignupInv, Promises, MinorsManaged
  <2>16. Tier2Earned'
    <3>1. ASSUME NEW a \in Addresses, accounts'[a].tier = 2
          PROVE  \/ accounts'[a].doc \in Documents
                 \/ \E r \in approvals' : reviews'[r].addr = a
      <4>1. CASE a = addr /\ decision = "approved"
        BY <1>2, <1>3, <1>7, <2>5, <4>1
      <4>2. CASE ~(a = addr /\ decision = "approved")
        <5>1. accounts'[a] = accounts[a]
          BY <2>8, <4>2
        <5>2. accounts[a].doc \in Documents \/ \E r \in approvals : reviews[r].addr = a
          BY <3>1, <5>1 DEF SignupInv, Promises, Tier2Earned
        <5> QED
          BY <1>1, <2>5, <2>10, <5>1, <5>2 DEF TablesOK
      <4> QED
        BY <4>1, <4>2
    <3>2. ASSUME NEW r \in 1..Len(reviews), reviews'[r].status = "approved"
          PROVE  accounts'[reviews'[r].addr].tier = 2
      <4>1. reviews'[r].addr = reviews[r].addr /\ reviews[r].addr \in Addresses
        BY <1>1, <2>5, ReviewOf
      <4>2. CASE r = id
        BY <1>2, <2>2, <2>3, <2>7, <2>8, <3>2, <4>1, <4>2
      <4>3. CASE r # id
        BY <1>1, <2>3, <2>7, <2>8, <3>2, <4>1, <4>3 DEF SignupInv, Promises, Tier2Earned
      <4> QED
        BY <4>2, <4>3
    <3> QED
      BY <2>4, <3>1, <3>2 DEF Tier2Earned
  <2>17. JobFits(w)' /\ Idle \in JobT
    BY <1>5, <2>11, IdleFits
  <2> QED
    BY <1>5, <2>11, <2>12, <2>14, <2>15, <2>16, <2>17, PromiseStep DEF Promises
<1> QED
  BY <1>2, <1>6, <1>7 DEF DecideTx

-----------------------------------------------------------------------------
LEMMA InitSignup == Init => SignupInv
<1> SUFFICES ASSUME Init PROVE SignupInv
  OBVIOUS
<1>1. /\ sessions = <<>> /\ challenges = <<>> /\ reviews = <<>> /\ clock = 0
      /\ directory = [a \in Addresses |-> 0] /\ accounts = [a \in Addresses |-> NoAccount]
      /\ job = [w \in Workers |-> Idle]
      /\ proved = {} /\ approvals = {} /\ blocked = {}
  BY DEF Init
<1>2. NoAccount \in AccountT /\ NoAccount.by = 0 /\ NoAccount.tier = 0 /\ NoAccount.doc = NONE
  BY <1>1 DEF NoAccount, AccountT
<1>3. NONE # "minor" /\ Idle \in JobT /\ Idle.sid = 0 /\ Idle.pc = "idle" /\ Idle.doc = NONE
  BY SignupAssumption DEF Idle, JobT, Labels
<1>4. TablesOK
  BY <1>1, <1>2 DEF TablesOK
<1>5. ASSUME NEW w \in Workers PROVE JobFits(w)
  <2>1. job[w] = Idle
    BY <1>1
  <2> QED
    BY <1>1, <1>3, <2>1 DEF JobFits, Starting, Carrying, Providing, Proven
<1>6. RowsOK
  BY <1>1 DEF RowsOK
<1>7. Promises
  BY <1>1, <1>2, <1>3
     DEF Promises, DirectoryMatchesTable, PhoneProven, Tier2Earned, MinorsManaged, SessionBurned
<1>8. job \in [Workers -> JobT]
  BY <1>1, <1>3
<1> QED
  BY <1>4, <1>5, <1>6, <1>7, <1>8 DEF SignupInv

LEMMA IdleClock ==
  ASSUME SignupInv, UNCHANGED <<tables, job, history>>, clock' \in Nat
  PROVE  SignupInv'
<1>1. TablesOK' /\ Kept /\ RowsOK'
  BY Lengths DEF SignupInv, TablesOK, AccountT, RowsOK, Kept, tables, history
<1> QED
  BY <1>1, Lengths, FrameStep DEF SignupInv, tables, history

LEMMA NextSignup ==
  ASSUME SignupInv, [Next]_vars
  PROVE  SignupInv'
<1>1. clock \in Nat
  BY DEF SignupInv, TablesOK
<1>2. CASE UNCHANGED vars
  BY <1>1, <1>2, IdleClock DEF vars
<1>3. CASE Tick
  BY <1>1, <1>3, IdleClock DEF Tick
<1>4. ASSUME NEW w \in Workers, Handle(w) PROVE SignupInv'
  BY <1>4, StartSteps, TakeSteps, CheckStep, VerifySteps, IdentityStep, PauseStep, LdapStep,
     InsertStep, EndSteps, DecideSelectStep, DecideStep DEF Handle
<1> QED
  BY <1>2, <1>3, <1>4, SweepStep DEF Next

LEMMA SignupHolds == Spec => []SignupInv
<1>1. Init => SignupInv
  BY InitSignup
<1>2. SignupInv /\ [Next]_vars => SignupInv'
  BY NextSignup
<1> QED
  BY <1>1, <1>2, PTL DEF Spec

(***************************************************************************)
(* The rows that signup, the identity step and decide_review write, and    *)
(* the locals they carry from statement to statement, keep their shape.    *)
(***************************************************************************)
THEOREM SignupTyped == Spec => []TypeOK
  BY SignupHolds, InvTypes, PTL

(***************************************************************************)
(* The row of an address and the password that opens it come from one      *)
(* session of signup_router.py, however many race for the address; only a  *)
(* handler that died between create_user and the INSERT leaves an entry    *)
(* without its row.                                                        *)
(***************************************************************************)
THEOREM OneOwner == Spec => []DirectoryMatchesTable
<1>1. SignupInv => DirectoryMatchesTable
  BY DEF SignupInv, Promises
<1> QED
  BY <1>1, SignupHolds, PTL

(***************************************************************************)
(* No account without an OTP that its own session cleared, and none with   *)
(* another phone than the one that OTP went to.                            *)
(***************************************************************************)
THEOREM PhoneProvenAlways == Spec => []PhoneProven
<1>1. SignupInv => PhoneProven
  BY DEF SignupInv, Promises
<1> QED
  BY <1>1, SignupHolds, PTL

(***************************************************************************)
(* Tier 2 rests on a document the verifier accepted or on an approval that *)
(* decide_review carried out, and no review reads approved over an account *)
(* it did not lift.                                                        *)
(***************************************************************************)
THEOREM Tier2EarnedAlways == Spec => []Tier2Earned
<1>1. SignupInv => Tier2Earned
  BY DEF SignupInv, Promises
<1> QED
  BY <1>1, SignupHolds, PTL

(***************************************************************************)
(* An account on a minor's document is managed by the phone that was       *)
(* proved, by either way into _provision_account_strict.                   *)
(***************************************************************************)
THEOREM MinorsManagedAlways == Spec => []MinorsManaged
<1>1. SignupInv => MinorsManaged
  BY DEF SignupInv, Promises
<1> QED
  BY <1>1, SignupHolds, PTL

(***************************************************************************)
(* The session of an account is deleted, unless its handler is about to or *)
(* died: no _update_session of a late handler brings it back.              *)
(***************************************************************************)
THEOREM SessionBurnedAlways == Spec => []SessionBurned
<1>1. SignupInv => SessionBurned
  BY DEF SignupInv, Promises
<1> QED
  BY <1>1, SignupHolds, PTL
=============================================================================
