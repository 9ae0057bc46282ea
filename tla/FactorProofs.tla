---------------------------- MODULE FactorProofs ----------------------------
(***************************************************************************)
(* No interleaving of the handlers, no failure between two statements and  *)
(* no stale row written back changes a password without an OTP and its     *)
(* second factor.  FactorComposition speaks of resets only; what makes it  *)
(* inductive is that a row is never in a state its histories do not back,  *)
(* neither in the table nor in the locals of a handler that may write it   *)
(* back.                                                                   *)
(***************************************************************************)
EXTENDS RecoveryProofs

Cleared(i) == \E v \in verified : v[1] = i

ClearedBy(i, t) == \E v \in verified : v[1] = i /\ v[2] <= t

Endorsed(i) == \E e \in endorsed : e[1] = i

\* The evidence a row claims by its status.
Backed(i, row) ==
  /\ row.status \in {"pending_family", "pending_dwell", "pending_admin", "authorized"}
       => Cleared(i)
  /\ row.status = "pending_dwell" => ClearedBy(i, row.authAt)
  /\ row.status = "authorized" => Endorsed(i)

RowsBacked == \A i \in 1..Len(requests) : Backed(i, requests[i])

\* A handler about to write an approval has not endorsed the request yet:
\* it does so with the write.
JobBacked(w) ==
  /\ ~ Doing(w, "approve", "save") => Backed(job[w].rid, job[w].row)
  /\ Doing(w, "approve", "save") =>
       job[w].row.status \in {"authorized", "expired"} /\ Cleared(job[w].rid)
  /\ job[w].op = "grant" => Cleared(job[w].rid)
  /\ At(w, "branch") => ClearedBy(job[w].rid, job[w].now)
  /\ job[w].pc \in {"find", "void_find", "otp_budget", "otp_send"} => job[w].row = NoRow
  /\ At(w, "insert") => job[w].row.status = "awaiting_phone"
  /\ At(w, "ldap") /\ job[w].row.status = "pending_dwell" =>
       job[w].row.authAt + Dwell <= clock

Evidence ==
  /\ TypeInv
  /\ RowsBacked
  /\ \A w \in Workers : JobBacked(w)
  /\ FactorComposition

\* Evidence is never withdrawn.
LEMMA BackedStays ==
  ASSUME NEW i, NEW row, Backed(i, row), verified \subseteq verified', endorsed \subseteq endorsed'
  PROVE  Backed(i, row)'
  BY DEF Backed, Cleared, ClearedBy, Endorsed

LEMMA NothingClaimed ==
  ASSUME NEW i, NEW row,
         row.status \in {"none", "awaiting_phone", "completed", "cancelled", "expired"}
  PROVE  Backed(i, row)'
  BY DEF Backed

LEMMA IdleBacked ==
  ASSUME NEW w \in Workers, job'[w] = Idle
  PROVE  JobBacked(w)'
<1>1. job'[w].op = "none" /\ job'[w].pc = "idle" /\ job'[w].rid = 0 /\ job'[w].row = NoRow
  BY DEF Idle, Call
<1>2. Backed(job[w].rid, job[w].row)'
  BY <1>1, NothingClaimed DEF NoRow, Backed
<1> QED
  BY <1>1, <1>2 DEF JobBacked, Doing, At

\* A step of worker w: what it has to show is that its own locals stay
\* backed, and the rows and the resets it writes.
LEMMA EvidenceStep ==
  ASSUME Evidence, TypeInv', NEW w \in Workers,
         \A v \in Workers \ {w} : job'[v] = job[v],
         verified \subseteq verified', endorsed \subseteq endorsed', clock' = clock,
         JobBacked(w)', RowsBacked', FactorComposition'
  PROVE  Evidence'
<1>1. ASSUME NEW v \in Workers \ {w} PROVE JobBacked(v)'
  <2>1. job'[v] = job[v] /\ JobBacked(v)
    BY <1>1 DEF Evidence
  <2>2. PICK rid, row, now : rid = job[v].rid /\ row = job[v].row /\ now = job[v].now
    OBVIOUS
  <2>3. Backed(rid, row) => Backed(rid, row)'
    BY BackedStays
  <2>4. (Cleared(rid) => Cleared(rid)') /\ (ClearedBy(rid, now) => ClearedBy(rid, now)')
    BY DEF Cleared, ClearedBy
  <2>5. /\ ~ (job[v].op = "approve" /\ job[v].pc = "save") => Backed(rid, row)
        /\ job[v].op = "approve" /\ job[v].pc = "save" =>
             row.status \in {"authorized", "expired"} /\ Cleared(rid)
        /\ job[v].op = "grant" => Cleared(rid)
        /\ job[v].pc = "branch" => ClearedBy(rid, now)
        /\ job[v].pc \in {"find", "void_find", "otp_budget", "otp_send"} => row = NoRow
        /\ job[v].pc = "insert" => row.status = "awaiting_phone"
        /\ job[v].pc = "ldap" /\ row.status = "pending_dwell" => row.authAt + Dwell <= clock
    BY <2>1, <2>2 DEF JobBacked, Doing, At
  <2>6. job'[v].rid = rid /\ job'[v].row = row /\ job'[v].now = now
    BY <2>1, <2>2
  <2> QED
    BY <2>1, <2>3, <2>4, <2>5, <2>6 DEF JobBacked, Doing, At
<1> QED
  BY <1>1 DEF Evidence

\* The steps that write neither rows nor resets.
LEMMA LocalEvidence ==
  ASSUME Evidence, TypeInv', NEW w \in Workers,
         \A v \in Workers \ {w} : job'[v] = job[v],
         UNCHANGED <<clock, requests, resets, endorsed>>, verified \subseteq verified',
         JobBacked(w)'
  PROVE  Evidence'
<1>1. RowsBacked'
  <2> SUFFICES ASSUME NEW i \in 1..Len(requests) PROVE Backed(i, requests[i])'
    BY DEF RowsBacked
  <2>1. PICK row : row = requests[i] /\ row = requests'[i]
    OBVIOUS
  <2>2. Backed(i, row)'
    BY <2>1, BackedStays DEF Evidence, RowsBacked
  <2> QED
    BY <2>1, <2>2 DEF Backed
<1>2. FactorComposition'
  BY DEF Evidence, FactorComposition
<1> QED
  BY <1>1, <1>2, EvidenceStep

LEMMA FinishEvidence ==
  ASSUME Evidence, TypeInv', NEW w \in Workers, Finish(w),
         UNCHANGED <<clock, requests, resets, endorsed>>, verified \subseteq verified'
  PROVE  Evidence'
<1>1. job'[w] = Idle /\ \A v \in Workers \ {w} : job'[v] = job[v]
  BY JobOf DEF Finish, Evidence
<1> QED
  BY <1>1, IdleBacked, LocalEvidence

\* A handler that moves on with a row it has evidence for.
LEMMA GotoEvidence ==
  ASSUME Evidence, TypeInv', NEW w \in Workers,
         NEW label \in {"resolve", "wall", "device", "ldap", "drop", "ping", "find"},
         Goto(w, label), UNCHANGED <<clock, requests, resets, endorsed, verified>>,
         ~ Doing(w, "approve", "save"), job[w].op # "grant",
         label = "find" => job[w].row = NoRow,
         label = "ldap" /\ job[w].row.status = "pending_dwell" =>
           job[w].row.authAt + Dwell <= clock
  PROVE  Evidence'
<1>1. job \in [Workers -> Job] /\ job[w] \in Job /\ JobBacked(w)
  BY JobOf DEF Evidence
<1>2. /\ job'[w] = [job[w] EXCEPT !.pc = label]
      /\ \A v \in Workers \ {w} : job'[v] = job[v]
  BY <1>1 DEF Goto
<1>3. PICK rid, row : rid = job[w].rid /\ row = job[w].row
  OBVIOUS
<1>4. Backed(rid, row)'
  BY <1>1, <1>3, BackedStays DEF JobBacked
<1>5. /\ job'[w].rid = rid /\ job'[w].row = row
      /\ job'[w].op # "grant" /\ job'[w].pc = label
  BY <1>1, <1>2, <1>3 DEF Job
<1>6. JobBacked(w)'
  BY <1>3, <1>4, <1>5 DEF JobBacked, Doing, At
<1> QED
  BY <1>2, <1>6, LocalEvidence

\* _save of a row the histories back, as they are after the step.
LEMMA SaveEvidence ==
  ASSUME Evidence, TypeInv', NEW w \in Workers, NEW rid \in 1..Len(requests), NEW row,
         WriteRow(rid, row), Backed(rid, row)', JobBacked(w)',
         \A v \in Workers \ {w} : job'[v] = job[v],
         UNCHANGED <<clock, resets, verified>>, endorsed \subseteq endorsed'
  PROVE  Evidence'
<1>1. requests' = [requests EXCEPT ![rid] = row] /\ requests \in Seq(Row)
  BY JobOf DEF WriteRow, Evidence
<1>2. Len(requests') = Len(requests) /\ DOMAIN requests = 1..Len(requests)
  BY <1>1, LenProperties
<1>3. RowsBacked'
  <2> SUFFICES ASSUME NEW i \in 1..Len(requests) PROVE Backed(i, requests[i])'
    BY <1>2 DEF RowsBacked
  <2>1. CASE i = rid
    <3>1. requests'[i] = row
      BY <1>1, <1>2, <2>1
    <3> QED
      BY <2>1, <3>1 DEF Backed
  <2>2. CASE i # rid
    <3>1. PICK old : old = requests[i] /\ old = requests'[i]
      BY <1>1, <1>2, <2>2
    <3>2. Backed(i, old)'
      BY <3>1, BackedStays DEF Evidence, RowsBacked
    <3> QED
      BY <3>1, <3>2 DEF Backed
  <2> QED
    BY <2>1, <2>2
<1>4. FactorComposition'
  BY DEF Evidence, FactorComposition
<1> QED
  BY <1>3, <1>4, EvidenceStep

\* _save, and on to the next statement or back to the pool.
LEMMA SaveOnEvidence ==
  ASSUME Evidence, TypeInv', NEW w \in Workers, NEW rid, rid = job[w].rid,
         job[w].pc \in Holding, NEW row, WriteRow(rid, row), Backed(rid, row)',
         \/ Finish(w)
         \/ /\ Goto(w, "ping") \/ Goto(w, "drop")
            /\ job[w].op \notin {"approve", "grant"},
         UNCHANGED <<clock, resets, verified>>, endorsed \subseteq endorsed'
  PROVE  Evidence'
<1>1. job \in [Workers -> Job] /\ job[w] \in Job /\ JobBacked(w)
  BY JobOf DEF Evidence
<1>2. job[w].rid \in 1..Len(requests)
  <2>1. JobOK(w) /\ Len(requests) \in Nat
    BY JobOf DEF Evidence
  <2> QED
    BY <1>1, <2>1 DEF JobOK, Job
<1>3. \A v \in Workers \ {w} : job'[v] = job[v]
  BY <1>1 DEF Finish, Goto
<1>4. JobBacked(w)'
  <2>1. CASE Finish(w)
    BY <1>1, <2>1, IdleBacked DEF Finish
  <2>2. CASE ~ Finish(w)
    <3>1. PICK label \in {"ping", "drop"} : Goto(w, label)
      BY <2>2
    <3>2. PICK held : held = job[w].row
      OBVIOUS
    <3>3. /\ job'[w].rid = rid /\ job'[w].row = held /\ job'[w].pc = label
          /\ job'[w].op \notin {"approve", "grant"}
      BY <1>1, <2>2, <3>1, <3>2 DEF Goto, Job
    <3>4. Backed(rid, held)'
      BY <1>1, <2>2, <3>2, BackedStays DEF JobBacked, Doing
    <3> QED
      BY <3>3, <3>4 DEF JobBacked, Doing, At
  <2> QED
    BY <2>1, <2>2
<1> QED
  BY <1>2, <1>3, <1>4, SaveEvidence

\* A handler that goes on with a row it has evidence for, maybe another one.
LEMMA MoveEvidence ==
  ASSUME Evidence, TypeInv', NEW w \in Workers, NEW rid, NEW row, NEW label,
         \A v \in Workers \ {w} : job'[v] = job[v],
         job'[w].rid = rid, job'[w].row = row, job'[w].pc = label, Backed(rid, row)',
         label \notin {"branch", "find", "void_find", "otp_budget", "otp_send", "insert", "ldap"},
         job'[w].op # "grant", ~ (job'[w].op = "approve" /\ label = "save"),
         UNCHANGED <<clock, requests, resets, endorsed>>, verified \subseteq verified'
  PROVE  Evidence'
<1>1. JobBacked(w)'
  BY DEF JobBacked, Doing, At
<1> QED
  BY <1>1, LocalEvidence

LEMMA CallEvidence ==
  ASSUME Evidence, TypeInv', NEW w \in Workers, NEW op, op \notin {"none", "grant"},
         NEW label \in {"find", "void_find", "otp_budget"}, NEW acct, NEW actor, NEW dev,
         job' = [job EXCEPT ![w] = Call(op, label, acct, actor, dev)],
         UNCHANGED <<clock, tables, history>>
  PROVE  Evidence'
<1>1. job'[w] = Call(op, label, acct, actor, dev) /\ \A v \in Workers \ {w} : job'[v] = job[v]
  BY JobOf DEF Evidence
<1>2. /\ job'[w].op = op /\ job'[w].pc = label
      /\ job'[w].rid = 0 /\ job'[w].row = NoRow
  BY <1>1 DEF Call
<1>3. Backed(0, NoRow)'
  BY NothingClaimed DEF NoRow
<1>4. JobBacked(w)'
  BY <1>2, <1>3 DEF JobBacked, Doing, At
<1> QED
  BY <1>1, <1>4, LocalEvidence DEF tables, history

\* What Evidence says of worker w while it holds a request.
LEMMA HeldRow ==
  ASSUME Evidence, NEW w \in Workers, job[w].pc \in Holding
  PROVE  /\ job[w].rid \in 1..Len(requests)
         /\ job[w].row \in Row /\ job[w].row.authAt \in Nat
         /\ JobBacked(w)
         /\ job \in [Workers -> Job] /\ job[w] \in Job
<1>1. /\ job \in [Workers -> Job] /\ job[w] \in Job /\ JobOK(w) /\ JobBacked(w)
      /\ Len(requests) \in Nat
  BY JobOf DEF Evidence
<1> QED
  BY <1>1 DEF JobOK, Job, Row

LEMMA FindActiveEvidence ==
  ASSUME Evidence, TypeInv', NEW w \in Workers, FindActive(w)
  PROVE  Evidence'
<1>1. /\ job \in [Workers -> Job] /\ job[w] \in Job /\ JobOK(w) /\ JobBacked(w)
      /\ UNCHANGED <<clock, tables, history>> /\ job[w].pc = "find"
  BY JobOf DEF Evidence, FindActive, At
<1>2. job[w].row = NoRow /\ job[w].op # "grant"
  BY <1>1 DEF JobBacked, JobOK
<1>3. PICK rid : rid = ActiveFor(job[w].acct)
  OBVIOUS
<1>4. \A i : Backed(i, NoRow)'
  BY NothingClaimed DEF NoRow
<1>5. CASE job' = [job EXCEPT ![w] = [job[w] EXCEPT !.pc = "get", !.rid = rid]]
  <2>1. /\ job'[w].rid = rid /\ job'[w].row = NoRow /\ job'[w].pc = "get"
        /\ job'[w].op # "grant" /\ \A v \in Workers \ {w} : job'[v] = job[v]
    BY <1>1, <1>2, <1>5 DEF Job
  <2> QED
    BY <1>1, <1>4, <2>1, MoveEvidence DEF tables, history
<1>6. CASE Goto(w, "resolve")
  BY <1>1, <1>2, <1>6, GotoEvidence DEF tables, history, Doing
<1>7. CASE Finish(w)
  BY <1>1, <1>7, FinishEvidence DEF tables, history
<1> QED
  BY <1>1, <1>3, <1>5, <1>6, <1>7 DEF FindActive, Goto, Finish

LEMMA GetRowEvidence ==
  ASSUME Evidence, TypeInv', NEW w \in Workers, GetRow(w)
  PROVE  Evidence'
<1>1. job[w].pc = "get" /\ UNCHANGED <<clock, tables, history>>
  BY DEF GetRow, At
<1>2. /\ job[w].rid \in 1..Len(requests)
      /\ job \in [Workers -> Job] /\ job[w] \in Job
  BY <1>1, HeldRow DEF Holding
<1>3. JobOK(w)
  BY JobOf DEF Evidence
<1>4. PICK rid, row : rid = job[w].rid /\ row = requests[rid]
  OBVIOUS
<1>5. Backed(rid, row)'
  BY <1>1, <1>2, <1>4, BackedStays DEF Evidence, RowsBacked, history
<1>6. /\ job'[w].rid = rid /\ job'[w].row = row /\ job'[w].pc = "decide"
      /\ job'[w].op # "grant" /\ \A v \in Workers \ {w} : job'[v] = job[v]
  BY <1>1, <1>2, <1>3, <1>4 DEF GetRow, Job, JobOK
<1> QED
  BY <1>1, <1>5, <1>6, MoveEvidence DEF tables, history

LEMMA StartEvidence ==
  ASSUME Evidence, TypeInv', NEW w \in Workers, Start(w)
  PROVE  Evidence'
<1>1. /\ job \in [Workers -> Job] /\ job[w] \in Job /\ JobOK(w) /\ JobBacked(w)
      /\ requests \in Seq(Row) /\ Len(requests) \in Nat
  BY JobOf DEF Evidence
<1>2. \A i : Backed(i, NoRow)'
  BY NothingClaimed DEF NoRow
<1>3. ASSUME NEW acct \in Subjects, NEW dev \in Devices \cup {NONE}, StartBudget(w, acct, dev)
      PROVE  Evidence'
  BY <1>3, CallEvidence DEF StartBudget
<1>4. CASE StartOtpBudget(w)
  <2>1. CASE Finish(w)
    BY <1>4, <2>1, FinishEvidence DEF StartOtpBudget, tables, history
  <2>2. CASE job' = [job EXCEPT ![w].pc = "otp_send", ![w].now = clock]
    <3>1. job[w].pc = "otp_budget" /\ job[w].row = NoRow
      BY <1>1, <1>4 DEF StartOtpBudget, At, JobBacked
    <3>2. /\ job'[w].row = NoRow /\ job'[w].pc = "otp_send" /\ job'[w].op # "grant"
          /\ \A v \in Workers \ {w} : job'[v] = job[v]
      BY <1>1, <2>2, <3>1 DEF Job, JobOK
    <3>3. JobBacked(w)'
      BY <1>2, <3>2 DEF JobBacked, Doing, At
    <3> QED
      BY <1>4, <3>2, <3>3, LocalEvidence DEF StartOtpBudget, tables, history
  <2> QED
    BY <1>4, <2>1, <2>2 DEF StartOtpBudget
<1>5. CASE StartSendOtp(w)
  <2>1. job[w].pc = "otp_send" /\ job[w].row = NoRow /\ job[w].op # "grant"
    BY <1>1, <1>5 DEF StartSendOtp, At, JobBacked, JobOK
  <2> QED
    BY <1>5, <2>1, GotoEvidence DEF StartSendOtp, history, Doing
<1>6. CASE StartSendFails(w)
  BY <1>6, FinishEvidence DEF StartSendFails, tables, history
<1>7. CASE StartSupersede(w)
  <2>1. job[w].pc = "decide" /\ job[w].op = "start"
    BY <1>7 DEF StartSupersede, Doing
  <2>2. PICK rid, row : rid = job[w].rid /\ row = Cancelled(job[w].row, "superseded")
    OBVIOUS
  <2>3. rid \in 1..Len(requests) /\ row.status = "cancelled"
    BY <1>1, <2>1, <2>2, HeldRow DEF Cancelled, Job, Row, Holding
  <2>4. WriteRow(rid, row) /\ Backed(rid, row)'
    BY <1>7, <2>2, <2>3, NothingClaimed DEF StartSupersede
  <2>5. /\ job'[w].pc = "resolve" /\ job'[w].row = NoRow /\ job'[w].op = "start"
        /\ \A v \in Workers \ {w} : job'[v] = job[v]
    BY <1>1, <1>7, <2>1 DEF StartSupersede, Job
  <2>6. JobBacked(w)'
    BY <1>2, <2>5 DEF JobBacked, Doing, At
  <2> QED
    BY <1>7, <2>3, <2>4, <2>5, <2>6, SaveEvidence DEF StartSupersede, history
<1>8. CASE StartResolve(w)
  <2>1. /\ job'[w].pc = "insert" /\ job'[w].row.status = "awaiting_phone"
        /\ job'[w].op # "grant" /\ \A v \in Workers \ {w} : job'[v] = job[v]
    BY <1>1, <1>8 DEF StartResolve, At, NoRow, Job, JobOK
  <2>2. PICK rid, row : rid = job'[w].rid /\ row = job'[w].row
    OBVIOUS
  <2>3. Backed(rid, row)'
    BY <2>1, <2>2, NothingClaimed
  <2>4. JobBacked(w)'
    BY <2>1, <2>2, <2>3 DEF JobBacked, Doing, At
  <2> QED
    BY <1>8, <2>1, <2>4, LocalEvidence DEF StartResolve, tables, history
<1>9. CASE StartInsert(w)
  <2>1. job[w].pc = "insert" /\ job[w].row.status = "awaiting_phone" /\ job[w].op # "grant"
    BY <1>1, <1>9 DEF StartInsert, At, JobBacked, JobOK
  <2>2. PICK row : row = [job[w].row EXCEPT !.created = clock]
    OBVIOUS
  <2>3. row.status = "awaiting_phone" /\ row \in Row
    <3>1. clock \in Nat
      BY JobOf DEF Evidence
    <3> QED
      BY <1>1, <2>1, <2>2, <3>1 DEF Job, Row
  <2>4. /\ Len(requests') = Len(requests) + 1
        /\ requests'[Len(requests) + 1] = row
        /\ \A i \in 1..Len(requests) : requests'[i] = requests[i]
    BY <1>1, <1>9, <2>2, <2>3, AppendProperties DEF StartInsert
  <2>5. RowsBacked'
    <3> SUFFICES ASSUME NEW i \in 1..(Len(requests) + 1) PROVE Backed(i, requests[i])'
      BY <2>4 DEF RowsBacked
    <3>1. PICK now : now = requests'[i]
      OBVIOUS
    <3>2. Backed(i, now)'
      <4>1. CASE i = Len(requests) + 1
        BY <2>3, <2>4, <3>1, <4>1, NothingClaimed
      <4>2. CASE i \in 1..Len(requests)
        BY <1>9, <2>4, <3>1, <4>2, BackedStays DEF Evidence, RowsBacked, StartInsert, history
      <4> QED
        BY <1>1, <4>1, <4>2
    <3> QED
      BY <3>1, <3>2 DEF Backed
  <2>6. /\ job'[w].pc = "ping" /\ job'[w].row = NoRow /\ job'[w].op # "grant"
        /\ \A v \in Workers \ {w} : job'[v] = job[v]
    BY <1>1, <1>9, <2>1 DEF StartInsert, Job
  <2>7. JobBacked(w)'
    BY <1>2, <2>6 DEF JobBacked, Doing, At
  <2>8. FactorComposition'
    BY <1>9 DEF Evidence, FactorComposition, StartInsert, history
  <2> QED
    BY <1>9, <2>5, <2>6, <2>7, <2>8, EvidenceStep DEF StartInsert, history
<1>10. CASE StartPing(w)
  BY <1>10, FinishEvidence DEF StartPing, history
<1> QED
  BY <1>3, <1>4, <1>5, <1>6, <1>7, <1>8, <1>9, <1>10 DEF Start

LEMMA VerifyEvidence ==
  ASSUME Evidence, TypeInv', NEW w \in Workers, Verify(w)
  PROVE  Evidence'
<1>1. /\ job \in [Workers -> Job] /\ job[w] \in Job /\ JobOK(w) /\ JobBacked(w)
      /\ clock \in Nat
  BY JobOf DEF Evidence
<1>2. PICK rid, held : rid = job[w].rid /\ held = job[w].row
  OBVIOUS
<1>3. ASSUME NEW acct \in Accounts, VerifyStart(w, acct)
      PROVE  Evidence'
  BY <1>3, CallEvidence DEF VerifyStart
<1>4. ASSUME NEW matches \in BOOLEAN, NEW now \in job[w].now .. clock,
             VerifySelect(w, matches, now)
      PROVE  Evidence'
  <2>1. PICK id : id = LatestActive(challenges, PhoneOf[job[w].acct], "recovery", now, Hour)
    OBVIOUS
  <2>2. /\ job[w].pc = "decide" /\ job[w].op = "verify"
        /\ UNCHANGED <<clock, requests, resets, endorsed, verified>>
        /\ \/ \E label \in {"otp_charge", "otp_consume"} :
                job' = [job EXCEPT ![w] = [job[w] EXCEPT !.pc = label, !.ch = id]]
           \/ Finish(w)
    BY <1>4, <2>1 DEF VerifySelect, Finish, Charged, tables, history, Doing
  <2>3. Backed(rid, held)'
    BY <1>1, <1>2, <2>2, BackedStays DEF JobBacked, Doing
  <2>4. ASSUME NEW label \in {"otp_charge", "otp_consume"},
               job' = [job EXCEPT ![w] = [job[w] EXCEPT !.pc = label, !.ch = id]]
        PROVE  Evidence'
    <3>1. /\ job'[w].rid = rid /\ job'[w].row = held /\ job'[w].pc = label
          /\ job'[w].op = "verify" /\ \A v \in Workers \ {w} : job'[v] = job[v]
      BY <1>1, <1>2, <2>2, <2>4 DEF Job
    <3> QED
      BY <2>2, <2>3, <3>1, MoveEvidence
  <2> QED
    BY <2>2, <2>4, FinishEvidence
<1>5. CASE VerifyCharge(w)
  BY <1>5, FinishEvidence DEF VerifyCharge, history
<1>6. CASE VerifyConsume(w)
  <2>1. job[w].pc = "otp_consume" /\ job[w].op # "grant"
    BY <1>1, <1>6 DEF VerifyConsume, At, JobOK
  <2>2. verified' = verified \cup {<<rid, clock>>} /\ endorsed' = endorsed
    BY <1>2, <1>6 DEF VerifyConsume
  <2>3. Backed(rid, held)'
    BY <1>1, <1>2, <2>1, <2>2, BackedStays DEF JobBacked, Doing
  <2>4. ClearedBy(rid, clock)'
    <3>1. clock' = clock
      BY <1>6 DEF VerifyConsume
    <3>2. <<rid, clock>> \in verified' /\ clock <= clock
      BY <1>1, <2>2
    <3> QED
      BY <3>1, <3>2 DEF ClearedBy
  <2>5. /\ job'[w].rid = rid /\ job'[w].row = held /\ job'[w].pc = "branch"
        /\ job'[w].now = clock /\ job'[w].op # "grant"
        /\ \A v \in Workers \ {w} : job'[v] = job[v]
    BY <1>1, <1>2, <1>6, <2>1 DEF VerifyConsume, Job
  <2>6. clock' = clock
    BY <1>6 DEF VerifyConsume
  <2>7. JobBacked(w)'
    BY <2>3, <2>4, <2>5, <2>6 DEF JobBacked, Doing, At, ClearedBy
  <2> QED
    BY <1>6, <2>2, <2>5, <2>7, LocalEvidence DEF VerifyConsume
<1>7. ASSUME NEW now \in job[w].now .. clock, VerifyBranch(w, now)
      PROVE  Evidence'
  <2>1. /\ job[w].pc = "branch" /\ job[w].op # "grant" /\ job[w].op # "approve"
        /\ UNCHANGED <<clock, requests, resets, endorsed, verified>>
    BY <1>1, <1>7 DEF VerifyBranch, At, JobOK, tables, history
  <2>2. ClearedBy(rid, job[w].now)
    BY <1>1, <1>2, <2>1 DEF JobBacked, At
  <2>3. ClearedBy(rid, now)
    <3>1. PICK v \in verified : v[1] = rid /\ v[2] <= job[w].now
      BY <2>2 DEF ClearedBy
    <3>2. v[2] \in Nat /\ job[w].now \in Nat /\ now \in Nat /\ job[w].now <= now
      BY <1>1 DEF Evidence, TypeInv, TypeOK, Job
    <3> QED
      BY <3>1, <3>2 DEF ClearedBy
  <2> DEFINE family == FamilyOf(job[w].acct)
             branch == BranchPick(job[w].acct, held.recog, family)
             row == [held EXCEPT !.status = branch,
                       !.exp = IF branch = "pending_family" THEN now + FamilyTTL ELSE @,
                       !.authAt = IF branch = "pending_dwell" THEN now ELSE @]
  <2>4. branch \in {"pending_admin", "pending_family", "pending_dwell"}
    BY DEF BranchPick
  <2>5. row.status = branch /\ (branch = "pending_dwell" => row.authAt = now)
    <3>1. held \in Row
      BY <1>1, <1>2 DEF Job
    <3> HIDE DEF branch
    <3> QED
      BY <3>1 DEF Row
  <2>6. /\ job'[w].rid = rid /\ job'[w].row = row /\ job'[w].pc = "save"
        /\ job'[w].op # "grant" /\ job'[w].op # "approve"
        /\ \A v \in Workers \ {w} : job'[v] = job[v]
    BY <1>1, <1>2, <1>7, <2>1 DEF VerifyBranch, Job
  <2> HIDE DEF row, branch
  <2>7. PICK kept : kept = row
    OBVIOUS
  <2>8. Backed(rid, kept)'
    BY <2>1, <2>3, <2>4, <2>5, <2>7 DEF Backed, Cleared, ClearedBy
  <2> QED
    BY <2>1, <2>6, <2>7, <2>8, MoveEvidence
<1>8. CASE VerifySave(w)
  <2>1. /\ job[w].pc = "save" /\ job[w].op = "verify"
        /\ verified' = verified /\ endorsed' = endorsed
        /\ WriteRow(rid, held) /\ (Finish(w) \/ Goto(w, "ping"))
    BY <1>2, <1>8 DEF VerifySave, Doing, history
  <2>2. Backed(rid, held)'
    BY <1>1, <1>2, <2>1, BackedStays DEF JobBacked, Doing
  <2> QED
    BY <1>2, <1>8, <2>1, <2>2, SaveOnEvidence DEF VerifySave, Holding
<1>9. CASE VerifyPing(w)
  BY <1>9, FinishEvidence DEF VerifyPing, history
<1> QED
  BY <1>3, <1>4, <1>5, <1>6, <1>7, <1>8, <1>9 DEF Verify

LEMMA AuthorizeEvidence ==
  ASSUME Evidence, TypeInv', NEW w \in Workers, Authorize(w)
  PROVE  Evidence'
<1>1. /\ job \in [Workers -> Job] /\ job[w] \in Job /\ JobOK(w) /\ JobBacked(w)
  BY JobOf DEF Evidence
<1>2. PICK rid, held : rid = job[w].rid /\ held = job[w].row
  OBVIOUS
<1>3. ASSUME NEW member \in Accounts, NEW acct \in Accounts, ApproveStanding(w, member, acct)
      PROVE  Evidence'
  BY <1>3, CallEvidence DEF ApproveStanding
<1>4. CASE ApproveDecide(w)
  <2>1. /\ job[w].pc = "decide" /\ job[w].op = "approve"
        /\ UNCHANGED <<clock, requests, resets, endorsed, verified>>
    BY <1>4 DEF ApproveDecide, Doing, tables, history
  <2>2. CASE Finish(w)
    BY <2>1, <2>2, FinishEvidence
  <2>3. CASE ~ Finish(w)
    <3>1. held.status = "pending_family"
      BY <1>2, <1>4, <2>3 DEF ApproveDecide, Finish
    <3>2. Cleared(rid)'
      BY <1>1, <1>2, <2>1, <3>1 DEF JobBacked, Backed, Doing, Cleared
    <3>3. /\ job'[w].rid = rid /\ job'[w].row.status \in {"authorized", "expired"}
          /\ job'[w].pc = "save" /\ job'[w].op = "approve"
          /\ \A v \in Workers \ {w} : job'[v] = job[v]
      BY <1>1, <1>2, <1>4, <2>1, <3>1 DEF ApproveDecide, Job, Row
    <3>4. JobBacked(w)'
      BY <3>2, <3>3 DEF JobBacked, Doing, At
    <3> QED
      BY <2>1, <3>3, <3>4, LocalEvidence
  <2> QED
    BY <2>2, <2>3
<1>5. CASE ApproveSave(w)
  <2>1. /\ job[w].pc = "save" /\ job[w].op = "approve" /\ verified' = verified
        /\ WriteRow(rid, held) /\ Finish(w)
    BY <1>2, <1>5 DEF ApproveSave, Doing
  <2>2. held.status \in {"authorized", "expired"} /\ Cleared(rid)
    BY <1>1, <1>2, <2>1 DEF JobBacked, Doing
  <2>3. endorsed \subseteq endorsed' /\ (held.status = "authorized" => Endorsed(rid)')
    <3>1. endorsed' = IF held.status = "authorized"
                      THEN endorsed \cup {<<rid, job[w].actor>>} ELSE endorsed
      BY <1>2, <1>5 DEF ApproveSave
    <3>2. held.status = "authorized" => <<rid, job[w].actor>> \in endorsed'
      BY <3>1
    <3> QED
      BY <3>1, <3>2 DEF Endorsed
  <2>4. Backed(rid, held)'
    BY <2>1, <2>2, <2>3 DEF Backed, Cleared
  <2> QED
    BY <1>2, <1>5, <2>1, <2>3, <2>4, SaveOnEvidence DEF ApproveSave, Holding
<1>6. ASSUME NEW i \in DOMAIN requests, GrantGet(w, i)
      PROVE  Evidence'
  <2>1. i \in 1..Len(requests) /\ requests[i].status = "pending_admin"
    BY <1>6, JobOf, LenProperties DEF Evidence, GrantGet
  <2>2. Backed(i, requests[i])
    BY <2>1 DEF Evidence, RowsBacked
  <2>3. PICK row : row = requests[i]
    OBVIOUS
  <2>4. UNCHANGED <<clock, requests, resets, endorsed, verified>>
    BY <1>6 DEF GrantGet, tables, history
  <2>5. Backed(i, row)' /\ Cleared(i)'
    BY <2>1, <2>2, <2>3, <2>4 DEF Backed, Cleared, ClearedBy, Endorsed
  <2>6. /\ job'[w].rid = i /\ job'[w].row = row /\ job'[w].pc = "save"
        /\ job'[w].op = "grant" /\ \A v \in Workers \ {w} : job'[v] = job[v]
    BY <1>1, <1>6, <2>3 DEF GrantGet, Call
  <2>7. JobBacked(w)'
    BY <2>5, <2>6 DEF JobBacked, Doing, At
  <2> QED
    BY <2>4, <2>6, <2>7, LocalEvidence
<1>7. CASE GrantSave(w)
  <2>1. PICK row : row = [held EXCEPT !.status = "authorized", !.by = ADMIN, !.authAt = clock]
    OBVIOUS
  <2>2. /\ job[w].pc = "save" /\ verified' = verified
        /\ WriteRow(rid, row) /\ Finish(w)
        /\ endorsed' = endorsed \cup {<<rid, ADMIN>>}
    BY <1>2, <1>7, <2>1 DEF GrantSave, Doing
  <2>3. row.status = "authorized" /\ Cleared(rid)
    <3>1. held \in Row
      BY <1>1, <1>2 DEF Job
    <3>2. job[w].op = "grant"
      BY <1>7 DEF GrantSave, Doing
    <3>3. row.status = "authorized"
      BY <2>1, <3>1 DEF Row
    <3>4. Cleared(rid)
      BY <1>1, <1>2, <3>2 DEF JobBacked
    <3> QED
      BY <3>3, <3>4
  <2>4. Backed(rid, row)'
    <3>1. <<rid, ADMIN>> \in endorsed'
      BY <2>2
    <3>2. Endorsed(rid)' /\ Cleared(rid)'
      BY <2>2, <2>3, <3>1 DEF Cleared, Endorsed
    <3> QED
      BY <2>3, <3>2 DEF Backed
  <2> QED
    BY <1>2, <1>7, <2>2, <2>4, SaveOnEvidence DEF GrantSave, Holding
<1> QED
  BY <1>3, <1>4, <1>5, <1>6, <1>7 DEF Authorize

LEMMA CancelEvidence ==
  ASSUME Evidence, TypeInv', NEW w \in Workers, Cancel(w)
  PROVE  Evidence'
<1>1. ASSUME NEW actor \in Accounts, NEW acct \in Accounts, CancelStanding(w, actor, acct)
      PROVE  Evidence'
  BY <1>1, CallEvidence DEF CancelStanding
<1>2. CASE CancelSave(w)
  <2>1. job[w].pc = "decide" /\ job[w].op = "cancel" /\ Goto(w, "ping")
    BY <1>2 DEF CancelSave, Doing
  <2>2. PICK rid, row : rid = job[w].rid /\ row = Cancelled(job[w].row, job[w].actor)
    OBVIOUS
  <2>3. row.status = "cancelled"
    BY <2>1, <2>2, HeldRow DEF Cancelled, Row, Holding
  <2>4. WriteRow(rid, row) /\ Backed(rid, row)'
    BY <1>2, <2>2, <2>3, NothingClaimed DEF CancelSave
  <2> QED
    BY <1>2, <2>1, <2>2, <2>4, SaveOnEvidence DEF CancelSave, Holding, history
<1>3. CASE CancelPing(w)
  BY <1>3, FinishEvidence DEF CancelPing, history
<1> QED
  BY <1>1, <1>2, <1>3 DEF Cancel

LEMMA CompleteEvidence ==
  ASSUME Evidence, TypeInv', NEW w \in Workers, Complete(w)
  PROVE  Evidence'
<1>1. /\ job \in [Workers -> Job] /\ job[w] \in Job /\ JobOK(w) /\ JobBacked(w)
      /\ clock \in Nat
  BY JobOf DEF Evidence
<1>2. PICK rid, held : rid = job[w].rid /\ held = job[w].row
  OBVIOUS
<1>3. ASSUME NEW acct \in Accounts, NEW dev \in Devices \cup {NONE}, CompleteStart(w, acct, dev)
      PROVE  Evidence'
  BY <1>3, CallEvidence DEF CompleteStart
<1>4. CASE CompleteDecide(w)
  <2>1. /\ job[w].pc = "decide" /\ job[w].op = "complete"
        /\ UNCHANGED <<clock, requests, resets, endorsed, verified>>
    BY <1>4 DEF CompleteDecide, Doing, tables, history
  <2> DEFINE expired == [held EXCEPT !.status = "expired"]
  <2>2. \/ Finish(w)
        \/ job' = [job EXCEPT ![w] = [job[w] EXCEPT !.pc = "save", !.row = expired]]
        \/ job[w].row.status = "authorized" /\ Goto(w, "ldap")
        \/ Goto(w, "device")
    BY <1>1, <1>2, <1>4 DEF CompleteDecide, Finish, Goto
  <2>3. CASE job' = [job EXCEPT ![w] = [job[w] EXCEPT !.pc = "save", !.row = expired]]
    <3>1. PICK row : row = expired
      OBVIOUS
    <3>2. row.status = "expired"
      BY <1>1, <1>2, <3>1 DEF Job, Row
    <3>3. /\ job'[w].rid = rid /\ job'[w].row = row /\ job'[w].pc = "save"
          /\ job'[w].op = "complete" /\ \A v \in Workers \ {w} : job'[v] = job[v]
      BY <1>1, <1>2, <2>1, <2>3, <3>1 DEF Job
    <3> QED
      BY <2>1, <3>2, <3>3, NothingClaimed, MoveEvidence
  <2> QED
    BY <2>1, <2>2, <2>3, FinishEvidence, GotoEvidence DEF Doing
<1>5. CASE CompleteDevice(w)
  <2>1. /\ job[w].pc = "device" /\ job[w].op = "complete"
        /\ UNCHANGED <<clock, requests, resets, endorsed, verified>>
        /\ Goto(w, "wall") \/ Finish(w)
    BY <1>1, <1>5 DEF CompleteDevice, At, JobOK, tables, history
  <2> QED
    BY <2>1, FinishEvidence, GotoEvidence DEF Doing
<1>6. CASE CompleteWall(w)
  <2>1. /\ job[w].pc = "wall" /\ job[w].op = "complete"
        /\ UNCHANGED <<clock, requests, resets, endorsed, verified>>
        /\ \/ Finish(w)
           \/ ~ (clock < job[w].row.authAt + Dwell) /\ Goto(w, "ldap")
    BY <1>1, <1>6 DEF CompleteWall, At, JobOK, tables, history
  <2>2. job[w].row.authAt \in Nat /\ Dwell \in Nat
    BY <2>1, HeldRow, RecoveryAssumption DEF Holding
  <2>3. ~ (clock < job[w].row.authAt + Dwell) => job[w].row.authAt + Dwell <= clock
    BY <1>1, <2>2
  <2> QED
    BY <2>1, <2>3, FinishEvidence, GotoEvidence DEF Doing
<1>7. CASE CompleteSetPassword(w)
  <2>1. /\ job[w].pc = "ldap" /\ job[w].op = "complete"
        /\ UNCHANGED <<clock, requests, endorsed, verified>>
    BY <1>1, <1>7 DEF CompleteSetPassword, At, JobOK, history
  <2>2. /\ held \in Row /\ held.status \in {"authorized", "pending_dwell"}
        /\ Backed(rid, held)
        /\ held.status = "pending_dwell" => held.authAt + Dwell <= clock
    BY <1>1, <1>2, <2>1 DEF JobOK, JobBacked, Doing, At, Job
  <2> DEFINE reset == [rid |-> job[w].rid, acct |-> job[w].acct,
                       leg |-> job[w].row.status, at |-> clock]
  <2>3. /\ Len(resets) \in Nat /\ resets' = Append(resets, reset)
        /\ \A k \in 1..Len(resets) : resets'[k] = resets[k]
        /\ DOMAIN resets = 1..Len(resets)
        /\ DOMAIN resets' = 1..(Len(resets) + 1)
        /\ resets'[Len(resets) + 1] = reset
    <3>1. PICK S : resets \in Seq(S)
      BY DEF Evidence, TypeInv, TypeOK
    <3>2. resets \in Seq(S \cup {reset}) /\ reset \in S \cup {reset}
      BY <3>1
    <3>3. resets' = Append(resets, reset)
      BY <1>7 DEF CompleteSetPassword
    <3> HIDE DEF reset
    <3> QED
      BY <3>2, <3>3, AppendProperties, LenProperties
  <2>4. reset.rid = rid /\ reset.leg = held.status /\ reset.at = clock
    BY <1>2
  <2> HIDE DEF reset
  <2>5. \E v \in verified :
          /\ v[1] = reset.rid
          /\ \/ \E e \in endorsed : e[1] = reset.rid
             \/ reset.leg = "pending_dwell" /\ v[2] + Dwell <= reset.at
    <3>1. CASE held.status = "authorized"
      BY <2>2, <2>4, <3>1 DEF Backed, Cleared, Endorsed
    <3>2. CASE held.status = "pending_dwell"
      <4>1. PICK v \in verified : v[1] = rid /\ v[2] <= held.authAt
        BY <2>2, <3>2 DEF Backed, ClearedBy
      <4>2. v[2] \in Nat /\ held.authAt \in Nat /\ Dwell \in Nat
        BY <2>2, RecoveryAssumption DEF Evidence, TypeInv, TypeOK, Row
      <4>3. v[2] + Dwell <= clock
        BY <1>1, <2>2, <3>2, <4>1, <4>2
      <4> QED
        BY <2>4, <3>2, <4>1, <4>3
    <3> QED
      BY <2>2, <3>1, <3>2
  <2>6. FactorComposition'
    <3> SUFFICES ASSUME NEW k \in 1..(Len(resets) + 1)
                 PROVE  \E v \in verified :
                          /\ v[1] = resets'[k].rid
                          /\ \/ \E e \in endorsed : e[1] = resets'[k].rid
                             \/ /\ resets'[k].leg = "pending_dwell"
                                /\ v[2] + Dwell <= resets'[k].at
      BY <2>1, <2>3 DEF FactorComposition
    <3>1. CASE k = Len(resets) + 1
      BY <2>3, <2>5, <3>1
    <3>2. CASE k \in 1..Len(resets)
      BY <2>3, <3>2 DEF Evidence, FactorComposition
    <3> QED
      BY <2>3, <3>1, <3>2
  <2>7. PICK row : row = [held EXCEPT !.status = "completed"]
    OBVIOUS
  <2>8. row.status = "completed"
    BY <2>2, <2>7 DEF Row
  <2>9. /\ job'[w].rid = rid /\ job'[w].row = row /\ job'[w].pc = "save"
        /\ job'[w].op = "complete" /\ \A v \in Workers \ {w} : job'[v] = job[v]
    BY <1>1, <1>2, <1>7, <2>1, <2>7 DEF CompleteSetPassword, Job
  <2>10. JobBacked(w)'
    BY <2>8, <2>9, NothingClaimed DEF JobBacked, Doing, At
  <2>11. RowsBacked'
    <3> SUFFICES ASSUME NEW i \in 1..Len(requests) PROVE Backed(i, requests[i])'
      BY <2>1 DEF RowsBacked
    <3>1. Backed(i, requests[i])
      BY DEF Evidence, RowsBacked
    <3> QED
      BY <2>1, <3>1 DEF Backed, Cleared, ClearedBy, Endorsed
  <2> QED
    BY <2>1, <2>6, <2>9, <2>10, <2>11, EvidenceStep
<1>8. CASE CompleteLdapDown(w)
  BY <1>8, FinishEvidence DEF CompleteLdapDown, tables, history
<1>9. CASE CompleteSave(w)
  <2>1. /\ job[w].pc = "save" /\ job[w].op = "complete"
        /\ UNCHANGED <<clock, resets, verified, endorsed>>
        /\ WriteRow(rid, held) /\ (Finish(w) \/ Goto(w, "ping"))
    BY <1>2, <1>9 DEF CompleteSave, Doing, history
  <2>2. Backed(rid, held)'
    BY <1>1, <1>2, <2>1, BackedStays DEF JobBacked, Doing
  <2> QED
    BY <1>2, <2>1, <2>2, SaveOnEvidence DEF Holding
<1>10. CASE CompletePing(w)
  BY <1>10, FinishEvidence DEF CompletePing, history
<1> QED
  BY <1>3, <1>4, <1>5, <1>6, <1>7, <1>8, <1>9, <1>10 DEF Complete

LEMMA DeviceOpsEvidence ==
  ASSUME Evidence, TypeInv', NEW w \in Workers, DeviceOps(w)
  PROVE  Evidence'
<1>1. /\ job \in [Workers -> Job] /\ job[w] \in Job /\ JobOK(w) /\ JobBacked(w)
  BY JobOf DEF Evidence
<1>2. ASSUME NEW acct \in Accounts, NEW d \in Devices, RegisterDevice(w, acct, d)
      PROVE  Evidence'
  <2>1. UNCHANGED <<clock, requests, resets, job, verified, endorsed>>
    BY <1>2 DEF RegisterDevice, history
  <2>2. JobBacked(w)'
    BY <1>1, <2>1 DEF JobBacked, Backed, Cleared, ClearedBy, Endorsed, Doing, At
  <2> QED
    BY <2>1, <2>2, LocalEvidence
<1>3. ASSUME NEW acct \in Accounts, NEW d \in Devices, DeleteFind(w, acct, d)
      PROVE  Evidence'
  BY <1>3, CallEvidence DEF DeleteFind
<1>4. CASE VoidFind(w)
  <2>1. job[w].pc = "void_find" /\ job[w].op # "grant" /\ job[w].row = NoRow
        /\ UNCHANGED <<clock, requests, resets, verified, endorsed>>
    BY <1>1, <1>4 DEF VoidFind, At, JobOK, JobBacked, tables, history
  <2>2. PICK rid, label : rid = ActiveByDevice(job[w].dev)
                          /\ label = IF rid = 0 THEN "drop" ELSE "void_get"
    OBVIOUS
  <2>3. Backed(rid, NoRow)'
    BY NothingClaimed DEF NoRow
  <2>4. /\ job'[w].rid = rid /\ job'[w].row = NoRow /\ job'[w].pc = label
        /\ job'[w].op # "grant" /\ \A v \in Workers \ {w} : job'[v] = job[v]
    BY <1>1, <1>4, <2>1, <2>2 DEF VoidFind, Job
  <2>5. label \in {"drop", "void_get"}
    BY <2>2
  <2> QED
    BY <2>1, <2>3, <2>4, <2>5, MoveEvidence
<1>5. CASE VoidGet(w)
  <2>1. job[w].pc = "void_get" /\ job[w].op = "delete"
        /\ UNCHANGED <<clock, requests, resets, verified, endorsed>>
    BY <1>1, <1>5 DEF VoidGet, At, JobOK, tables, history
  <2>2. PICK rid, row : rid = job[w].rid /\ row = requests[rid]
    OBVIOUS
  <2>3. Backed(rid, row)'
    BY <2>1, <2>2, HeldRow, BackedStays DEF Evidence, RowsBacked, Holding
  <2>4. /\ job'[w].rid = rid /\ job'[w].row = row /\ job'[w].pc = "save"
        /\ job'[w].op = "delete" /\ \A v \in Workers \ {w} : job'[v] = job[v]
    BY <1>1, <1>5, <2>1, <2>2 DEF VoidGet, Job
  <2> QED
    BY <2>1, <2>3, <2>4, MoveEvidence
<1>6. CASE VoidSave(w)
  <2>1. job[w].pc = "save" /\ job[w].op = "delete" /\ Goto(w, "drop")
    BY <1>6 DEF VoidSave, Doing
  <2>2. PICK rid, row : rid = job[w].rid /\ row = Cancelled(job[w].row, "device_removed")
    OBVIOUS
  <2>3. row.status = "cancelled"
    BY <2>1, <2>2, HeldRow DEF Cancelled, Row, Holding
  <2>4. WriteRow(rid, row) /\ Backed(rid, row)'
    BY <1>6, <2>2, <2>3, NothingClaimed DEF VoidSave
  <2> QED
    BY <1>6, <2>1, <2>2, <2>4, SaveOnEvidence DEF VoidSave, Holding, history
<1>7. CASE DropDevice(w)
  BY <1>7, FinishEvidence DEF DropDevice, history
<1> QED
  BY <1>2, <1>3, <1>4, <1>5, <1>6, <1>7 DEF DeviceOps

\* The clock may pass while a handler waits, but it never goes back; the
\* links are no evidence.
LEMMA EnvironmentEvidence ==
  ASSUME Evidence, TypeInv', UNCHANGED <<requests, resets, job, verified, endorsed>>,
         clock' \in Nat, clock <= clock'
  PROVE  Evidence'
<1>1. ASSUME NEW w \in Workers PROVE JobBacked(w)'
  <2>1. JobBacked(w)
    BY DEF Evidence
  <2>2. At(w, "ldap") /\ job[w].row.status = "pending_dwell" =>
          job[w].row.authAt + Dwell <= clock'
    <3> SUFFICES ASSUME At(w, "ldap"), job[w].row.status = "pending_dwell"
                 PROVE  job[w].row.authAt + Dwell <= clock'
      OBVIOUS
    <3>1. job[w].row.authAt \in Nat /\ Dwell \in Nat /\ clock \in Nat
      BY HeldRow, JobOf, RecoveryAssumption DEF Evidence, At, Holding
    <3> QED
      BY <2>1, <3>1 DEF JobBacked
  <2> QED
    BY <2>1, <2>2 DEF JobBacked, Backed, Cleared, ClearedBy, Endorsed, Doing, At
<1>2. RowsBacked'
  BY DEF Evidence, RowsBacked, Backed, Cleared, ClearedBy, Endorsed
<1>3. FactorComposition'
  BY DEF Evidence, FactorComposition
<1> QED
  BY <1>1, <1>2, <1>3 DEF Evidence

LEMMA InitEvidence == Init => Evidence
<1> SUFFICES ASSUME Init PROVE Evidence
  OBVIOUS
<1>1. TypeInv
  BY InitType
<1>2. requests = <<>> /\ resets = <<>> /\ \A w \in Workers : job[w] = Idle
  BY DEF Init
<1>3. RowsBacked /\ FactorComposition
  BY <1>2 DEF RowsBacked, FactorComposition
<1>4. ASSUME NEW w \in Workers PROVE JobBacked(w)
  BY <1>2 DEF Idle, Call, NoRow, JobBacked, Backed, Doing, At
<1> QED
  BY <1>1, <1>3, <1>4 DEF Evidence

LEMMA NextEvidence ==
  ASSUME Evidence, [Next]_vars
  PROVE  Evidence'
<1>1. TypeInv' /\ clock \in Nat
  BY NextType, JobOf DEF Evidence, TypeInv, TypeOK
<1>2. CASE UNCHANGED vars
  BY <1>1, <1>2, EnvironmentEvidence DEF vars, tables, history
<1>3. CASE Tick
  BY <1>1, <1>3, EnvironmentEvidence DEF Tick, tables, history
<1>4. CASE \E a, b \in Accounts : LinkUsable(a, b)
  BY <1>1, <1>4, EnvironmentEvidence DEF LinkUsable
<1>5. ASSUME NEW w \in Workers, Crash(w) PROVE Evidence'
  BY <1>1, <1>5, FinishEvidence DEF Crash, tables, history
<1>6. ASSUME NEW w \in Workers, Work(w) PROVE Evidence'
  <2>1. CASE \E a, b \in Accounts : RevokeLink(w, a, b)
    BY <1>1, <2>1, EnvironmentEvidence DEF RevokeLink, history
  <2> QED
    BY <1>1, <1>6, <2>1, FindActiveEvidence, GetRowEvidence, StartEvidence, VerifyEvidence,
       AuthorizeEvidence, CancelEvidence, CompleteEvidence, DeviceOpsEvidence DEF Work
<1> QED
  BY <1>2, <1>3, <1>4, <1>5, <1>6 DEF Next

(***************************************************************************)
(* maybe_complete never changes a password for a request whose own OTP did *)
(* not clear, nor without an authorization or a dwell waited out after the *)
(* OTP: for any number of threads, accounts, devices and requests, any     *)
(* settings, and handlers that may die anywhere.                           *)
(***************************************************************************)
THEOREM FactorsCompose == Spec => []FactorComposition
<1>1. Init => Evidence
  BY InitEvidence
<1>2. Evidence /\ [Next]_vars => Evidence'
  BY NextEvidence
<1>3. Evidence => FactorComposition
  BY DEF Evidence
<1> QED
  BY <1>1, <1>2, <1>3, PTL DEF Spec
-----------------------------------------------------------------------------
(***************************************************************************)
(* Who may let a recovery through: a managed account's password is changed *)
(* on an administrator's grant only, and any other endorser is another     *)
(* account, not managed, that has been linked.  Both are about a request's *)
(* account, which handlers know from their own locals; so the invariant    *)
(* says that these never disagree with the table, although rows are        *)
(* written back whole.                                                     *)
(***************************************************************************)

\* A row of a managed account is never in a state only others get to.
Sound(i, row) ==
  row.acct \in Managed =>
    /\ row.status \notin {"pending_family", "pending_dwell"}
    /\ row.status = "authorized" => <<i, ADMIN>> \in endorsed

HoldsRow(w) ==
  job[w].pc \in {"decide", "otp_charge", "otp_consume", "branch", "save", "device", "wall", "ldap"}

MayApprove(member, acct) ==
  member \notin Managed /\ member # acct /\ {member, acct} \in everLinked

JobStanding(w) ==
  /\ At(w, "get") => requests[job[w].rid].acct = job[w].acct
  /\ HoldsRow(w) =>
       /\ job[w].row.acct = requests[job[w].rid].acct
       /\ job[w].op # "delete" => job[w].row.acct = job[w].acct
       /\ Sound(job[w].rid, job[w].row)
  /\ job[w].op = "approve" => MayApprove(job[w].actor, job[w].acct)

RowsSound == \A i \in 1..Len(requests) : Sound(i, requests[i])

EndorsedRows == \A e \in endorsed : e[1] \in 1..Len(requests)

Standing ==
  /\ Evidence
  /\ \A w \in Workers : JobStanding(w)
  /\ RowsSound
  /\ EndorsedRows
  /\ EndorsersHadStanding
  /\ ManagedNeedsAdmin

\* _active_for finds a request of the account it was asked about.
LEMMA ActiveForOwns ==
  ASSUME requests \in Seq(Row), NEW acct, ActiveFor(acct) # 0
  PROVE  requests[ActiveFor(acct)].acct = acct
<1> DEFINE I == {i \in 1..Len(requests) : requests[i].acct = acct /\ requests[i].status \in Live}
<1>1. Len(requests) \in Nat
  BY LenProperties
<1>2. I # {} => Max(I) \in I
  BY <1>1, MaxIsMember
<1>3. ActiveFor(acct) = IF I # {} THEN Max(I) ELSE 0
  BY Zenon DEF ActiveFor, SelectLastInSeq
<1>4. ActiveFor(acct) \in I
  <2> HIDE DEF I
  <2> QED
    BY <1>2, <1>3
<1> QED
  BY <1>4

\* Tables only gain rows, a row keeps its account, and endorsements and links
\* that have been are not forgotten: then the other handlers keep standing.
Grows ==
  /\ Len(requests') \in Nat /\ Len(requests') >= Len(requests)
  /\ \A i \in 1..Len(requests) : requests'[i].acct = requests[i].acct
  /\ endorsed \subseteq endorsed'
  /\ everLinked \subseteq everLinked'

LEMMA SoundStays ==
  ASSUME NEW i, NEW row, Sound(i, row), endorsed \subseteq endorsed'
  PROVE  Sound(i, row)'
BY DEF Sound

LEMMA StandingStep ==
  ASSUME Standing, Evidence', Grows, NEW w \in Workers,
         \A v \in Workers \ {w} : job'[v] = job[v], JobStanding(w)',
         RowsSound', EndorsedRows', EndorsersHadStanding', ManagedNeedsAdmin'
  PROVE  Standing'
<1>1. ASSUME NEW v \in Workers \ {w} PROVE JobStanding(v)'
  <2>1. job'[v] = job[v] /\ JobStanding(v) /\ JobOK(v) /\ Len(requests) \in Nat /\ job[v] \in Job
    BY JobOf DEF Standing, Evidence
  <2>2. PICK rid, row, member, acct :
          rid = job[v].rid /\ row = job[v].row /\ member = job[v].actor /\ acct = job[v].acct
    OBVIOUS
  <2>3. HoldsRow(v) \/ At(v, "get") => rid \in 1..Len(requests)
    BY <2>1, <2>2 DEF HoldsRow, At, JobOK, Holding
  <2>4. Sound(rid, row) => Sound(rid, row)'
    BY SoundStays DEF Grows
  <2>5. MayApprove(member, acct) => MayApprove(member, acct)'
    BY DEF MayApprove, Grows
  <2>6. /\ At(v, "get") => requests[rid].acct = acct
        /\ HoldsRow(v) =>
             /\ row.acct = requests[rid].acct
             /\ job[v].op # "delete" => row.acct = acct
             /\ Sound(rid, row)
        /\ job[v].op = "approve" => MayApprove(member, acct)
    BY <2>1, <2>2 DEF JobStanding
  <2>7. /\ job'[v].rid = rid /\ job'[v].row = row
        /\ job'[v].actor = member /\ job'[v].acct = acct
        /\ job'[v].op = job[v].op /\ job'[v].pc = job[v].pc
    BY <2>1, <2>2
  <2> QED
    BY <2>3, <2>4, <2>5, <2>6, <2>7 DEF JobStanding, Grows, HoldsRow, At
<1> QED
  BY <1>1 DEF Standing

\* The steps that write neither rows nor resets nor endorsements.
LEMMA LocalStanding ==
  ASSUME Standing, Evidence', NEW w \in Workers,
         \A v \in Workers \ {w} : job'[v] = job[v], JobStanding(w)',
         UNCHANGED <<requests, resets, endorsed>>, everLinked \subseteq everLinked'
  PROVE  Standing'
<1>1. Grows
  BY JobOf DEF Grows, Standing, Evidence
<1>2. RowsSound' /\ EndorsedRows' /\ EndorsersHadStanding' /\ ManagedNeedsAdmin'
  BY DEF Standing, RowsSound, Sound, EndorsedRows, EndorsersHadStanding, ManagedNeedsAdmin
<1> QED
  BY <1>1, <1>2, StandingStep

LEMMA IdleStanding ==
  ASSUME NEW w \in Workers, job'[w] = Idle
  PROVE  JobStanding(w)'
BY DEF JobStanding, HoldsRow, At, Idle, Call

LEMMA FinishStanding ==
  ASSUME Standing, Evidence', NEW w \in Workers, Finish(w),
         UNCHANGED <<requests, resets, endorsed>>, everLinked \subseteq everLinked'
  PROVE  Standing'
<1>1. job'[w] = Idle /\ \A v \in Workers \ {w} : job'[v] = job[v]
  BY JobOf DEF Finish, Standing, Evidence
<1> QED
  BY <1>1, IdleStanding, LocalStanding

\* A row in the locals belongs to the request and to the account the handler
\* is about; a handler that keeps both, or none, keeps its standing.
LEMMA MoveStanding ==
  ASSUME Standing, Evidence', NEW w \in Workers, NEW rid, NEW row,
         HoldsRow(w), rid = job[w].rid,
         \A v \in Workers \ {w} : job'[v] = job[v],
         job'[w].op = job[w].op, job'[w].acct = job[w].acct, job'[w].actor = job[w].actor,
         job'[w].rid = rid, job'[w].row = row, job'[w].pc # "get",
         row.acct = job[w].row.acct, Sound(rid, row),
         UNCHANGED <<requests, resets, endorsed>>, everLinked \subseteq everLinked'
  PROVE  Standing'
<1>1. JobStanding(w)
  BY DEF Standing
<1>2. PICK member, acct : member = job[w].actor /\ acct = job[w].acct
  OBVIOUS
<1>3. Sound(rid, row)' /\ (MayApprove(member, acct) => MayApprove(member, acct)')
  BY DEF Sound, MayApprove
<1>4. JobStanding(w)'
  BY <1>1, <1>2, <1>3 DEF JobStanding, At, HoldsRow
<1> QED
  BY <1>4, LocalStanding

\* The same, from one label to the next.
LEMMA GotoStanding ==
  ASSUME Standing, Evidence', NEW w \in Workers, NEW label \in Labels, Goto(w, label),
         label # "get", HoldsRow(w) \/ label \in {"resolve", "find", "drop", "ping", "otp_send"},
         UNCHANGED <<requests, resets, endorsed>>, everLinked \subseteq everLinked'
  PROVE  Standing'
<1>1. job[w] \in Job /\ job \in [Workers -> Job] /\ JobStanding(w)
  BY JobOf DEF Standing, Evidence
<1>2. PICK rid, row, member, acct :
        rid = job[w].rid /\ row = job[w].row /\ member = job[w].actor /\ acct = job[w].acct
  OBVIOUS
<1>3. /\ job'[w].rid = rid /\ job'[w].row = row /\ job'[w].actor = member
      /\ job'[w].acct = acct /\ job'[w].op = job[w].op /\ job'[w].pc = label
      /\ \A v \in Workers \ {w} : job'[v] = job[v]
  BY <1>1, <1>2 DEF Goto, Job
<1>4. MayApprove(member, acct) => MayApprove(member, acct)'
  BY DEF MayApprove
<1>5. CASE HoldsRow(w)
  <2>1. row.acct = job[w].row.acct /\ Sound(rid, row)
    BY <1>1, <1>2, <1>5 DEF JobStanding
  <2> QED
    BY <1>2, <1>3, <1>5, <2>1, MoveStanding
<1>6. CASE ~HoldsRow(w)
  <2>1. JobStanding(w)'
    BY <1>1, <1>2, <1>3, <1>4, <1>6 DEF JobStanding, At, HoldsRow
  <2> QED
    BY <1>3, <2>1, LocalStanding
<1> QED
  BY <1>5, <1>6

\* A handler called: it holds no row yet, and approves only with standing.
LEMMA CalledStanding ==
  ASSUME Standing, Evidence', NEW w \in Workers, NEW op, NEW acct, NEW actor, NEW dev,
         NEW label \in {"find", "void_find", "otp_budget"},
         job' = [job EXCEPT ![w] = Call(op, label, acct, actor, dev)],
         op = "approve" => MayApprove(actor, acct)',
         UNCHANGED <<clock, tables, history>>
  PROVE  Standing'
<1>1. job'[w] = Call(op, label, acct, actor, dev) /\ \A v \in Workers \ {w} : job'[v] = job[v]
  BY JobOf DEF Standing, Evidence
<1>2. job'[w].op = op /\ job'[w].pc = label /\ job'[w].acct = acct /\ job'[w].actor = actor
  BY <1>1 DEF Call
<1>3. JobStanding(w)'
  BY <1>2 DEF JobStanding, At, HoldsRow
<1> QED
  BY <1>1, <1>3, LocalStanding DEF tables, history

LEMMA CallStanding ==
  ASSUME Standing, Evidence', NEW w \in Workers, NEW op, op # "approve",
         NEW acct, NEW actor, NEW dev, NEW label \in {"find", "void_find", "otp_budget"},
         job' = [job EXCEPT ![w] = Call(op, label, acct, actor, dev)],
         UNCHANGED <<clock, tables, history>>
  PROVE  Standing'
BY CalledStanding

\* _save of a row of the request's own account, sound with the endorsements
\* the step adds.
LEMMA SaveStanding ==
  ASSUME Standing, Evidence', NEW w \in Workers, NEW rid, NEW row, HoldsRow(w),
         rid = job[w].rid, row.acct = job[w].row.acct, Sound(rid, row)',
         WriteRow(rid, row), \A v \in Workers \ {w} : job'[v] = job[v], JobStanding(w)',
         UNCHANGED <<resets, everLinked>>, endorsed \subseteq endorsed',
         \A e \in endorsed' \ endorsed :
           e[1] = rid /\ (e[2] = ADMIN \/ MayApprove(e[2], row.acct))
  PROVE  Standing'
<1>1. rid \in 1..Len(requests) /\ requests \in Seq(Row) /\ Len(requests) \in Nat
      /\ requests[rid].acct = row.acct
  <2>1. JobStanding(w) /\ JobOK(w) /\ Len(requests) \in Nat /\ requests \in Seq(Row)
    BY JobOf DEF Standing, Evidence
  <2> QED
    BY <2>1 DEF HoldsRow, JobOK, Holding, JobStanding
<1>2. /\ Len(requests') = Len(requests)
      /\ \A i \in 1..Len(requests) : requests'[i] = IF i = rid THEN row ELSE requests[i]
  BY <1>1 DEF WriteRow
<1>3. Grows
  BY <1>1, <1>2 DEF Grows
<1>4. RowsSound'
  <2> SUFFICES ASSUME NEW i \in 1..Len(requests) PROVE Sound(i, requests[i])'
    BY <1>2 DEF RowsSound
  <2>1. PICK old : old = requests'[i]
    OBVIOUS
  <2>2. Sound(i, old)'
    <3>1. CASE i = rid
      BY <1>2, <2>1, <3>1
    <3>2. CASE i # rid
      <4>1. Sound(i, old)
        BY <1>2, <2>1, <3>2 DEF Standing, RowsSound
      <4> QED
        BY <4>1, SoundStays
    <3> QED
      BY <3>1, <3>2
  <2> QED
    BY <2>1, <2>2 DEF Sound
<1>5. EndorsedRows'
  BY <1>1, <1>2 DEF Standing, EndorsedRows
<1>6. EndorsersHadStanding'
  <2> SUFFICES ASSUME NEW e \in endorsed', e[2] # ADMIN
               PROVE  MayApprove(e[2], requests'[e[1]].acct)
    BY DEF EndorsersHadStanding, MayApprove
  <2>1. CASE e \in endorsed
    <3>1. e[1] \in 1..Len(requests) /\ MayApprove(e[2], requests[e[1]].acct)
      BY <2>1 DEF Standing, EndorsedRows, EndorsersHadStanding, MayApprove
    <3> QED
      BY <3>1, <1>1, <1>2
  <2>2. CASE e \notin endorsed
    BY <2>2, <1>1, <1>2
  <2> QED
    BY <2>1, <2>2
<1>7. ManagedNeedsAdmin'
  BY DEF Standing, ManagedNeedsAdmin
<1> QED
  BY <1>3, <1>4, <1>5, <1>6, <1>7, StandingStep

\* _save, and back to the pool or on to a statement that needs no row.
LEMMA SaveOnStanding ==
  ASSUME Standing, Evidence', NEW w \in Workers, NEW rid, NEW row, HoldsRow(w),
         rid = job[w].rid, row.acct = job[w].row.acct, Sound(rid, row)', WriteRow(rid, row),
         Finish(w) \/ Goto(w, "ping") \/ Goto(w, "drop"),
         UNCHANGED <<resets, everLinked>>, endorsed \subseteq endorsed',
         \A e \in endorsed' \ endorsed :
           e[1] = rid /\ (e[2] = ADMIN \/ MayApprove(e[2], row.acct))
  PROVE  Standing'
<1>1. job[w] \in Job /\ job \in [Workers -> Job] /\ JobStanding(w)
  BY JobOf DEF Standing, Evidence
<1>2. \A v \in Workers \ {w} : job'[v] = job[v]
  BY <1>1 DEF Finish, Goto
<1>3. CASE Finish(w)
  BY <1>1, <1>2, <1>3, IdleStanding, SaveStanding DEF Finish
<1>4. CASE Goto(w, "ping") \/ Goto(w, "drop")
  <2>1. PICK member, acct : member = job[w].actor /\ acct = job[w].acct
    OBVIOUS
  <2>2. /\ job'[w].actor = member /\ job'[w].acct = acct /\ job'[w].op = job[w].op
        /\ job'[w].pc \in {"ping", "drop"}
    BY <1>1, <1>4, <2>1 DEF Goto, Job
  <2>3. MayApprove(member, acct) => MayApprove(member, acct)'
    BY DEF MayApprove
  <2>4. JobStanding(w)'
    BY <1>1, <2>1, <2>2, <2>3 DEF JobStanding, HoldsRow, At
  <2> QED
    BY <1>2, <2>4, SaveStanding
<1> QED
  BY <1>3, <1>4

\* A row whose status nobody has to earn.
LEMMA SoundEnd ==
  ASSUME NEW i, NEW row, row.status \notin {"pending_family", "pending_dwell", "authorized"}
  PROVE  Sound(i, row) /\ Sound(i, row)'
BY DEF Sound

-----------------------------------------------------------------------------
LEMMA FindStanding ==
  ASSUME Standing, Evidence', NEW w \in Workers, FindActive(w) \/ GetRow(w)
  PROVE  Standing'
<1>1. /\ job \in [Workers -> Job] /\ job[w] \in Job /\ JobOK(w) /\ JobStanding(w)
      /\ requests \in Seq(Row)
  BY JobOf DEF Standing, Evidence
<1>2. UNCHANGED <<requests, resets, endorsed, everLinked>>
  BY DEF FindActive, GetRow, tables, history
<1>3. PICK member, acct, rid :
        /\ member = job[w].actor /\ acct = job[w].acct
        /\ rid = IF FindActive(w) THEN ActiveFor(acct) ELSE job[w].rid
  OBVIOUS
<1>4. MayApprove(member, acct) => MayApprove(member, acct)'
  BY <1>2 DEF MayApprove
<1>5. CASE FindActive(w)
  <2>1. CASE Finish(w)
    BY <1>2, <2>1, FinishStanding
  <2>2. CASE Goto(w, "resolve")
    BY <1>2, <2>2, GotoStanding DEF Labels
  <2>3. CASE rid # 0 /\ job' = [job EXCEPT ![w] = [job[w] EXCEPT !.pc = "get", !.rid = rid]]
    <3>1. /\ job'[w].pc = "get" /\ job'[w].rid = rid /\ job'[w].acct = acct
          /\ job'[w].actor = member /\ job'[w].op = job[w].op
          /\ \A v \in Workers \ {w} : job'[v] = job[v]
      BY <1>1, <1>3, <2>3 DEF Job
    <3>2. requests[rid].acct = acct
      BY <1>1, <1>3, <1>5, <2>3, ActiveForOwns
    <3>3. JobStanding(w)'
      BY <1>1, <1>2, <1>3, <1>4, <3>1, <3>2 DEF JobStanding, At, HoldsRow
    <3> QED
      BY <1>2, <3>1, <3>3, LocalStanding
  <2> QED
    BY <1>3, <1>5, <2>1, <2>2, <2>3 DEF FindActive, Goto, Finish
<1>6. CASE GetRow(w) /\ ~FindActive(w)
  <2>1. At(w, "get") /\ rid = job[w].rid /\ rid \in 1..Len(requests)
    BY <1>1, <1>3, <1>6, HeldRow DEF GetRow, At, Holding, Standing
  <2>2. PICK row : row = requests[rid]
    OBVIOUS
  <2>3. row.acct = acct /\ Sound(rid, row)
    BY <1>1, <1>3, <2>1, <2>2 DEF JobStanding, Standing, RowsSound
  <2>4. /\ job'[w].rid = rid /\ job'[w].row = row /\ job'[w].acct = acct
        /\ job'[w].actor = member /\ job'[w].op = job[w].op /\ job'[w].pc = "decide"
        /\ \A v \in Workers \ {w} : job'[v] = job[v]
    BY <1>1, <1>3, <1>6, <2>1, <2>2 DEF GetRow, Job
  <2>5. Sound(rid, row)'
    BY <1>2, <2>3, SoundStays
  <2>6. JobStanding(w)'
    BY <1>1, <1>2, <1>3, <1>4, <2>2, <2>3, <2>4, <2>5 DEF JobStanding, At, HoldsRow
  <2> QED
    BY <1>2, <2>4, <2>6, LocalStanding
<1> QED
  BY <1>5, <1>6

\* A handler that needs no row, before or after.
LEMMA RowlessStanding ==
  ASSUME Standing, Evidence', NEW w \in Workers,
         \A v \in Workers \ {w} : job'[v] = job[v],
         job'[w].op = job[w].op, job'[w].acct = job[w].acct, job'[w].actor = job[w].actor,
         job'[w].pc \in {"otp_send", "insert", "ping", "void_get", "drop"},
         UNCHANGED <<requests, resets, endorsed, everLinked>>
  PROVE  Standing'
<1>1. PICK member, acct : member = job[w].actor /\ acct = job[w].acct
  OBVIOUS
<1>2. MayApprove(member, acct) => MayApprove(member, acct)'
  BY DEF MayApprove
<1>3. JobStanding(w)'
  BY <1>1, <1>2 DEF Standing, JobStanding, At, HoldsRow
<1> QED
  BY <1>3, LocalStanding

LEMMA StartStanding ==
  ASSUME Standing, Evidence', NEW w \in Workers, Start(w)
  PROVE  Standing'
<1>1. /\ job \in [Workers -> Job] /\ job[w] \in Job /\ JobOK(w) /\ JobStanding(w)
      /\ JobBacked(w) /\ requests \in Seq(Row) /\ Len(requests) \in Nat
  BY JobOf DEF Standing, Evidence
<1>2. ASSUME NEW acct \in Subjects, NEW dev \in Devices \cup {NONE}, StartBudget(w, acct, dev)
      PROVE  Standing'
  BY <1>2, CallStanding DEF StartBudget
<1>3. CASE StartOtpBudget(w)
  <2>1. UNCHANGED <<requests, resets, endorsed, everLinked>>
    BY <1>3 DEF StartOtpBudget, tables, history
  <2>2. CASE Finish(w)
    BY <2>1, <2>2, FinishStanding
  <2>3. CASE ~Finish(w)
    <3>1. /\ job'[w].pc = "otp_send" /\ job'[w].op = job[w].op
          /\ job'[w].acct = job[w].acct /\ job'[w].actor = job[w].actor
          /\ \A v \in Workers \ {w} : job'[v] = job[v]
      BY <1>1, <1>3, <2>3 DEF StartOtpBudget, Job
    <3> QED
      BY <2>1, <3>1, RowlessStanding
  <2> QED
    BY <2>2, <2>3
<1>4. CASE StartSendOtp(w)
  BY <1>4, GotoStanding DEF StartSendOtp, history, Labels
<1>5. CASE StartSendFails(w)
  BY <1>5, FinishStanding DEF StartSendFails, tables, history
<1>6. CASE StartSupersede(w)
  <2>1. job[w].op = "start" /\ HoldsRow(w)
    BY <1>6 DEF StartSupersede, Doing, HoldsRow
  <2>2. PICK rid, row : rid = job[w].rid /\ row = Cancelled(job[w].row, "superseded")
    OBVIOUS
  <2>3. row.acct = job[w].row.acct /\ row.status = "cancelled"
    BY <1>1, <2>2 DEF Cancelled, Job, Row
  <2>4. /\ job'[w].op = "start" /\ job'[w].pc = "resolve"
        /\ \A v \in Workers \ {w} : job'[v] = job[v]
    BY <1>1, <1>6, <2>1 DEF StartSupersede, Job
  <2>5. JobStanding(w)'
    BY <2>4 DEF JobStanding, At, HoldsRow
  <2>6. Sound(rid, row)'
    BY <2>3, SoundEnd
  <2> QED
    BY <1>6, <2>1, <2>2, <2>3, <2>4, <2>5, <2>6, SaveStanding DEF StartSupersede, history
<1>7. CASE StartResolve(w)
  <2>1. /\ job'[w].pc = "insert" /\ job'[w].op = job[w].op
        /\ job'[w].acct = job[w].acct /\ job'[w].actor = job[w].actor
        /\ \A v \in Workers \ {w} : job'[v] = job[v]
    BY <1>1, <1>7 DEF StartResolve, Job
  <2> QED
    BY <1>7, <2>1, RowlessStanding DEF StartResolve, tables, history
<1>8. CASE StartInsert(w)
  <2>1. PICK row : row = [job[w].row EXCEPT !.created = clock]
    OBVIOUS
  <2>2. job[w].row \in Row /\ job[w].row.status = "awaiting_phone" /\ clock \in Nat
    BY <1>1, <1>8, JobOf DEF StartInsert, At, JobBacked, Job, Standing, Evidence
  <2>3. row \in Row /\ row.status = "awaiting_phone"
    BY <2>1, <2>2 DEF Row
  <2>4. requests' = Append(requests, row) /\ UNCHANGED <<resets, endorsed, everLinked>>
    BY <1>8, <2>1 DEF StartInsert, history
  <2>5. /\ Len(requests') = Len(requests) + 1 /\ requests'[Len(requests) + 1] = row
        /\ \A i \in 1..Len(requests) : requests'[i] = requests[i]
    BY <1>1, <2>3, <2>4, AppendProperties
  <2>6. Grows
    BY <1>1, <2>4, <2>5 DEF Grows
  <2>7. RowsSound'
    <3> SUFFICES ASSUME NEW i \in 1..Len(requests) + 1 PROVE Sound(i, requests[i])'
      BY <2>5 DEF RowsSound
    <3>1. PICK r : r = requests'[i]
      OBVIOUS
    <3>2. CASE i = Len(requests) + 1
      BY <2>3, <2>5, <3>2 DEF Sound
    <3>3. CASE i # Len(requests) + 1
      <4>1. r = requests[i] /\ Sound(i, r)
        BY <1>1, <2>5, <3>1, <3>3 DEF Standing, RowsSound
      <4>2. Sound(i, r)'
        BY <2>4, <4>1, SoundStays
      <4> QED
        BY <3>1, <4>2 DEF Sound
    <3> QED
      BY <3>2, <3>3
  <2>8. EndorsedRows' /\ EndorsersHadStanding' /\ ManagedNeedsAdmin'
    <3>1. \A e \in endorsed : e[1] \in 1..Len(requests) + 1 /\ requests'[e[1]] = requests[e[1]]
      BY <1>1, <2>5 DEF Standing, EndorsedRows
    <3>2. EndorsersHadStanding'
      BY <2>4, <3>1 DEF Standing, EndorsersHadStanding
    <3> QED
      BY <2>4, <2>5, <3>1, <3>2 DEF Standing, EndorsedRows, ManagedNeedsAdmin
  <2>9. /\ job'[w].pc = "ping" /\ \A v \in Workers \ {w} : job'[v] = job[v]
        /\ job'[w].op = job[w].op /\ job'[w].acct = job[w].acct /\ job'[w].actor = job[w].actor
    BY <1>1, <1>8 DEF StartInsert, Job
  <2>10. JobStanding(w)'
    <3>1. PICK member, acct : member = job[w].actor /\ acct = job[w].acct
      OBVIOUS
    <3>2. MayApprove(member, acct) => MayApprove(member, acct)'
      BY <2>4 DEF MayApprove
    <3> QED
      BY <1>1, <2>9, <3>1, <3>2 DEF JobStanding, At, HoldsRow
  <2> QED
    BY <2>6, <2>7, <2>8, <2>9, <2>10, StandingStep
<1>9. CASE StartPing(w)
  BY <1>9, FinishStanding DEF StartPing, history
<1> QED
  BY <1>2, <1>3, <1>4, <1>5, <1>6, <1>7, <1>8, <1>9 DEF Start

LEMMA VerifyStanding ==
  ASSUME Standing, Evidence', NEW w \in Workers, Verify(w)
  PROVE  Standing'
<1>1. /\ job \in [Workers -> Job] /\ job[w] \in Job /\ JobOK(w) /\ JobStanding(w)
  BY JobOf DEF Standing, Evidence
<1>2. PICK rid, held : rid = job[w].rid /\ held = job[w].row
  OBVIOUS
<1>3. ASSUME NEW acct \in Accounts, VerifyStart(w, acct) PROVE Standing'
  BY <1>3, CallStanding DEF VerifyStart
<1>4. ASSUME NEW matches \in BOOLEAN, NEW now \in job[w].now .. clock,
             VerifySelect(w, matches, now)
      PROVE  Standing'
  <2>1. UNCHANGED <<requests, resets, endorsed, everLinked>> /\ HoldsRow(w)
    BY <1>4 DEF VerifySelect, tables, history, Doing, HoldsRow
  <2>2. CASE Finish(w)
    BY <2>1, <2>2, FinishStanding
  <2>3. CASE ~Finish(w)
    <3>1. /\ job'[w].rid = rid /\ job'[w].row = held /\ job'[w].op = job[w].op
          /\ job'[w].acct = job[w].acct /\ job'[w].actor = job[w].actor
          /\ job'[w].pc \in {"otp_charge", "otp_consume"}
          /\ \A v \in Workers \ {w} : job'[v] = job[v]
      BY <1>1, <1>2, <1>4, <2>3 DEF VerifySelect, Finish, Job
    <3>2. Sound(rid, held)
      BY <1>1, <1>2, <2>1 DEF JobStanding
    <3> QED
      BY <1>2, <2>1, <3>1, <3>2, MoveStanding
  <2> QED
    BY <2>2, <2>3
<1>5. CASE VerifyCharge(w)
  BY <1>5, FinishStanding DEF VerifyCharge, history
<1>6. CASE VerifyConsume(w)
  <2>1. UNCHANGED <<requests, resets, endorsed, everLinked>> /\ HoldsRow(w)
    BY <1>6 DEF VerifyConsume, At, HoldsRow
  <2>2. /\ job'[w].rid = rid /\ job'[w].row = held /\ job'[w].op = job[w].op
        /\ job'[w].acct = job[w].acct /\ job'[w].actor = job[w].actor /\ job'[w].pc = "branch"
        /\ \A v \in Workers \ {w} : job'[v] = job[v]
    BY <1>1, <1>2, <1>6 DEF VerifyConsume, Job
  <2>3. Sound(rid, held)
    BY <1>1, <1>2, <2>1 DEF JobStanding
  <2> QED
    BY <1>2, <2>1, <2>2, <2>3, MoveStanding
<1>7. ASSUME NEW now \in job[w].now .. clock, VerifyBranch(w, now)
      PROVE  Standing'
  <2>1. UNCHANGED <<requests, resets, endorsed, everLinked>> /\ HoldsRow(w)
        /\ job[w].op # "delete"
    BY <1>1, <1>7 DEF VerifyBranch, At, HoldsRow, tables, history, JobOK
  <2> DEFINE branch == BranchPick(job[w].acct, held.recog, FamilyOf(job[w].acct))
             row == [held EXCEPT !.status = branch,
                       !.exp = IF branch = "pending_family" THEN now + FamilyTTL ELSE @,
                       !.authAt = IF branch = "pending_dwell" THEN now ELSE @]
  <2>2. /\ job'[w].rid = rid /\ job'[w].row = row /\ job'[w].op = job[w].op
        /\ job'[w].acct = job[w].acct /\ job'[w].actor = job[w].actor /\ job'[w].pc = "save"
        /\ \A v \in Workers \ {w} : job'[v] = job[v]
    BY <1>1, <1>2, <1>7 DEF VerifyBranch, Job
  <2>3. /\ job[w].acct \in Managed => branch = "pending_admin"
        /\ branch # "authorized"
    BY DEF BranchPick
  <2> HIDE DEF branch
  <2>4. row.acct = held.acct /\ row.status = branch
    BY <1>1, <1>2 DEF Job, Row
  <2> HIDE DEF row
  <2>5. PICK kept : kept = row
    OBVIOUS
  <2>6. held.acct = job[w].acct
    BY <1>1, <1>2, <2>1 DEF JobStanding
  <2>7. Sound(rid, kept)
    BY <2>3, <2>4, <2>5, <2>6 DEF Sound
  <2> QED
    BY <1>2, <2>1, <2>2, <2>4, <2>5, <2>7, MoveStanding
<1>8. CASE VerifySave(w)
  <2>1. HoldsRow(w) /\ WriteRow(rid, held) /\ (Finish(w) \/ Goto(w, "ping"))
        /\ UNCHANGED <<resets, endorsed, everLinked>>
    BY <1>2, <1>8 DEF VerifySave, Doing, HoldsRow, history
  <2>2. Sound(rid, held)'
    BY <1>1, <1>2, <2>1, SoundStays DEF JobStanding
  <2> QED
    BY <1>2, <2>1, <2>2, SaveOnStanding
<1>9. CASE VerifyPing(w)
  BY <1>9, FinishStanding DEF VerifyPing, history
<1> QED
  BY <1>3, <1>4, <1>5, <1>6, <1>7, <1>8, <1>9 DEF Verify

LEMMA CancelsStanding ==
  ASSUME Standing, Evidence', NEW w \in Workers, Cancel(w)
  PROVE  Standing'
<1>1. job[w] \in Job
  BY JobOf DEF Standing, Evidence
<1>2. ASSUME NEW actor \in Accounts, NEW acct \in Accounts, CancelStanding(w, actor, acct)
      PROVE  Standing'
  BY <1>2, CallStanding DEF CancelStanding
<1>3. CASE CancelSave(w)
  <2>1. PICK rid, row : rid = job[w].rid /\ row = Cancelled(job[w].row, job[w].actor)
    OBVIOUS
  <2>2. row.acct = job[w].row.acct /\ row.status = "cancelled"
    BY <1>1, <2>1 DEF Cancelled, Job, Row
  <2>3. Sound(rid, row)'
    BY <2>2, SoundEnd
  <2>4. HoldsRow(w) /\ WriteRow(rid, row) /\ Goto(w, "ping")
        /\ UNCHANGED <<resets, endorsed, everLinked>>
    BY <1>3, <2>1 DEF CancelSave, Doing, HoldsRow, history
  <2> QED
    BY <2>1, <2>2, <2>3, <2>4, SaveOnStanding
<1>4. CASE CancelPing(w)
  BY <1>4, FinishStanding DEF CancelPing, history
<1> QED
  BY <1>2, <1>3, <1>4 DEF Cancel

\* A usable link is one that has been usable.
LinksRemembered == links \subseteq everLinked

LEMMA AuthorizeStanding ==
  ASSUME Standing, LinksRemembered, Evidence', NEW w \in Workers, Authorize(w)
  PROVE  Standing'
<1>1. /\ job \in [Workers -> Job] /\ job[w] \in Job /\ JobOK(w) /\ JobStanding(w)
      /\ JobBacked(w) /\ requests \in Seq(Row) /\ Len(requests) \in Nat
  BY JobOf DEF Standing, Evidence
<1>2. PICK rid, held : rid = job[w].rid /\ held = job[w].row
  OBVIOUS
<1>3. ASSUME NEW member \in Accounts, NEW acct \in Accounts, ApproveStanding(w, member, acct)
      PROVE  Standing'
  <2>1. MayApprove(member, acct)'
    BY <1>3 DEF ApproveStanding, MayApprove, Linked, LinksRemembered, history
  <2> QED
    BY <1>3, <2>1, CalledStanding DEF ApproveStanding
<1>4. CASE ApproveDecide(w)
  <2>1. UNCHANGED <<requests, resets, endorsed, everLinked>> /\ HoldsRow(w)
        /\ job[w].op = "approve"
    BY <1>4 DEF ApproveDecide, tables, history, Doing, HoldsRow
  <2>2. CASE Finish(w)
    BY <2>1, <2>2, FinishStanding
  <2>3. CASE ~Finish(w)
    <3>1. held.status = "pending_family"
      BY <1>2, <1>4, <2>3 DEF ApproveDecide, Finish
    <3>2. PICK row : row = job'[w].row
      OBVIOUS
    <3>3. /\ job'[w].rid = rid /\ row.acct = held.acct /\ job'[w].op = job[w].op
          /\ job'[w].acct = job[w].acct /\ job'[w].actor = job[w].actor
          /\ job'[w].pc = "save" /\ \A v \in Workers \ {w} : job'[v] = job[v]
      BY <1>1, <1>2, <1>4, <3>1, <3>2 DEF ApproveDecide, Job, Row
    <3>4. held.acct \notin Managed
      BY <1>1, <1>2, <2>1, <3>1 DEF JobStanding, Sound
    <3>5. Sound(rid, row)
      BY <3>3, <3>4 DEF Sound
    <3> QED
      BY <1>2, <2>1, <3>2, <3>3, <3>5, MoveStanding
  <2> QED
    BY <2>2, <2>3
<1>5. CASE ApproveSave(w)
  <2>1. /\ HoldsRow(w) /\ job[w].op = "approve" /\ WriteRow(rid, held) /\ Finish(w)
        /\ UNCHANGED <<resets, everLinked>>
        /\ endorsed' = IF held.status = "authorized"
                       THEN endorsed \cup {<<rid, job[w].actor>>} ELSE endorsed
    BY <1>2, <1>5 DEF ApproveSave, Doing, HoldsRow
  <2>2. held.acct = job[w].acct /\ MayApprove(job[w].actor, held.acct) /\ Sound(rid, held)
    BY <1>1, <1>2, <2>1 DEF JobStanding
  <2>3. Sound(rid, held)'
    BY <2>1, <2>2, SoundStays
  <2>4. \A e \in endorsed' \ endorsed : e[1] = rid /\ MayApprove(e[2], held.acct)
    BY <2>1, <2>2
  <2> QED
    BY <1>2, <2>1, <2>3, <2>4, SaveOnStanding
<1>6. ASSUME NEW i \in DOMAIN requests, GrantGet(w, i)
      PROVE  Standing'
  <2>1. i \in 1..Len(requests)
    BY <1>1, LenProperties
  <2>2. PICK row : row = requests[i]
    OBVIOUS
  <2>3. UNCHANGED <<requests, resets, endorsed, everLinked>>
    BY <1>6 DEF GrantGet, tables, history
  <2>4. /\ job'[w].rid = i /\ job'[w].row = row /\ job'[w].pc = "save"
        /\ job'[w].op = "grant" /\ job'[w].acct = row.acct
        /\ \A v \in Workers \ {w} : job'[v] = job[v]
    BY <1>1, <1>6, <2>2 DEF GrantGet, Call
  <2>5. Sound(i, row)'
    BY <2>1, <2>2, <2>3, SoundStays DEF Standing, RowsSound
  <2>6. JobStanding(w)'
    BY <2>2, <2>3, <2>4, <2>5 DEF JobStanding, At, HoldsRow
  <2> QED
    BY <2>3, <2>4, <2>6, LocalStanding
<1>7. CASE GrantSave(w)
  <2>1. PICK row : row = [held EXCEPT !.status = "authorized", !.by = ADMIN, !.authAt = clock]
    OBVIOUS
  <2>2. /\ HoldsRow(w) /\ WriteRow(rid, row) /\ Finish(w)
        /\ UNCHANGED <<resets, everLinked>>
        /\ endorsed' = endorsed \cup {<<rid, ADMIN>>}
    BY <1>2, <1>7, <2>1 DEF GrantSave, Doing, HoldsRow
  <2>3. row.acct = held.acct /\ row.status = "authorized"
    BY <1>1, <1>2, <2>1 DEF Job, Row
  <2>4. Sound(rid, row)'
    BY <2>2, <2>3 DEF Sound
  <2> QED
    BY <1>2, <2>2, <2>3, <2>4, SaveOnStanding
<1> QED
  BY <1>3, <1>4, <1>5, <1>6, <1>7 DEF Authorize

LEMMA CompleteStanding ==
  ASSUME Standing, Evidence', NEW w \in Workers, Complete(w)
  PROVE  Standing'
<1>1. /\ job \in [Workers -> Job] /\ job[w] \in Job /\ JobOK(w) /\ JobStanding(w)
      /\ Len(requests) \in Nat
  BY JobOf DEF Standing, Evidence
<1>2. PICK rid, held : rid = job[w].rid /\ held = job[w].row
  OBVIOUS
<1>3. ASSUME NEW acct \in Accounts, NEW dev \in Devices \cup {NONE}, CompleteStart(w, acct, dev)
      PROVE  Standing'
  BY <1>3, CallStanding DEF CompleteStart
<1>4. CASE CompleteDecide(w)
  <2>1. UNCHANGED <<requests, resets, endorsed, everLinked>> /\ HoldsRow(w)
    BY <1>4 DEF CompleteDecide, tables, history, Doing, HoldsRow
  <2> DEFINE expired == [held EXCEPT !.status = "expired"]
  <2>2. \/ Finish(w)
        \/ job' = [job EXCEPT ![w] = [job[w] EXCEPT !.pc = "save", !.row = expired]]
        \/ Goto(w, "ldap")
        \/ Goto(w, "device")
    BY <1>1, <1>2, <1>4 DEF CompleteDecide, Finish, Goto
  <2>3. CASE job' = [job EXCEPT ![w] = [job[w] EXCEPT !.pc = "save", !.row = expired]]
    <3>1. PICK row : row = expired
      OBVIOUS
    <3>2. row.status = "expired" /\ row.acct = held.acct
      BY <1>1, <1>2, <3>1 DEF Job, Row
    <3>3. /\ job'[w].rid = rid /\ job'[w].row = row /\ job'[w].pc = "save"
          /\ job'[w].op = job[w].op /\ job'[w].acct = job[w].acct
          /\ job'[w].actor = job[w].actor /\ \A v \in Workers \ {w} : job'[v] = job[v]
      BY <1>1, <1>2, <2>3, <3>1 DEF Job
    <3>4. Sound(rid, row)
      BY <3>2, SoundEnd
    <3> QED
      BY <1>2, <2>1, <3>2, <3>3, <3>4, MoveStanding
  <2> QED
    BY <2>1, <2>2, <2>3, FinishStanding, GotoStanding DEF Labels
<1>5. CASE CompleteDevice(w) \/ CompleteWall(w)
  <2>1. UNCHANGED <<requests, resets, endorsed, everLinked>> /\ HoldsRow(w)
        /\ (Goto(w, "wall") \/ Goto(w, "ldap") \/ Finish(w))
    BY <1>5 DEF CompleteDevice, CompleteWall, At, HoldsRow, tables, history
  <2> QED
    BY <2>1, FinishStanding, GotoStanding DEF Labels
<1>6. CASE CompleteSetPassword(w)
  <2>1. /\ HoldsRow(w) /\ job[w].op = "complete"
        /\ UNCHANGED <<requests, endorsed, everLinked>>
    BY <1>1, <1>6 DEF CompleteSetPassword, At, HoldsRow, JobOK, history
  <2>2. /\ held.status \in {"authorized", "pending_dwell"} /\ held \in Row
        /\ held.acct = job[w].acct /\ held.acct = requests[rid].acct /\ Sound(rid, held)
    BY <1>1, <1>2, <1>6, <2>1 DEF CompleteSetPassword, At, JobOK, JobStanding, Job
  <2> DEFINE reset == [rid |-> job[w].rid, acct |-> job[w].acct,
                       leg |-> job[w].row.status, at |-> clock]
  <2>3. /\ Len(resets) \in Nat /\ resets' = Append(resets, reset)
        /\ \A k \in 1..Len(resets) : resets'[k] = resets[k]
        /\ DOMAIN resets = 1..Len(resets)
        /\ DOMAIN resets' = 1..(Len(resets) + 1)
        /\ resets'[Len(resets) + 1] = reset
    <3>1. PICK S : resets \in Seq(S)
      BY DEF Standing, Evidence, TypeInv, TypeOK
    <3>2. resets \in Seq(S \cup {reset}) /\ reset \in S \cup {reset}
      BY <3>1
    <3>3. resets' = Append(resets, reset)
      BY <1>6 DEF CompleteSetPassword
    <3> HIDE DEF reset
    <3> QED
      BY <3>2, <3>3, AppendProperties, LenProperties
  <2>4. reset.rid = rid /\ reset.acct = held.acct
    BY <1>2, <2>2
  <2> HIDE DEF reset
  <2>5. reset.acct \in Managed => <<reset.rid, ADMIN>> \in endorsed
    BY <2>2, <2>4 DEF Sound
  <2>6. ManagedNeedsAdmin'
    <3> SUFFICES ASSUME NEW k \in 1..(Len(resets) + 1), resets'[k].acct \in Managed
                 PROVE  <<resets'[k].rid, ADMIN>> \in endorsed
      BY <2>1, <2>3 DEF ManagedNeedsAdmin
    <3>1. CASE k = Len(resets) + 1
      BY <2>3, <2>5, <3>1
    <3>2. CASE k \in 1..Len(resets)
      BY <2>3, <3>2 DEF Standing, ManagedNeedsAdmin
    <3> QED
      BY <2>3, <3>1, <3>2
  <2>7. PICK row : row = [held EXCEPT !.status = "completed"]
    OBVIOUS
  <2>8. row.status = "completed" /\ row.acct = held.acct
    BY <2>2, <2>7 DEF Row
  <2>9. /\ job'[w].rid = rid /\ job'[w].row = row /\ job'[w].pc = "save"
        /\ job'[w].op = "complete" /\ job'[w].acct = job[w].acct
        /\ \A v \in Workers \ {w} : job'[v] = job[v]
    BY <1>1, <1>2, <1>6, <2>1, <2>7 DEF CompleteSetPassword, Job
  <2>10. Sound(rid, row)'
    BY <2>8, SoundEnd
  <2>11. JobStanding(w)'
    BY <2>1, <2>2, <2>8, <2>9, <2>10 DEF JobStanding, At, HoldsRow
  <2>12. Grows /\ RowsSound' /\ EndorsedRows' /\ EndorsersHadStanding'
    BY <1>1, <2>1 DEF Grows, Standing, RowsSound, Sound, EndorsedRows, EndorsersHadStanding
  <2> QED
    BY <2>6, <2>9, <2>11, <2>12, StandingStep
<1>7. CASE CompleteLdapDown(w)
  BY <1>7, FinishStanding DEF CompleteLdapDown, tables, history
<1>8. CASE CompleteSave(w)
  <2>1. HoldsRow(w) /\ WriteRow(rid, held) /\ (Finish(w) \/ Goto(w, "ping"))
        /\ UNCHANGED <<resets, endorsed, everLinked>>
    BY <1>2, <1>8 DEF CompleteSave, Doing, HoldsRow, history
  <2>2. Sound(rid, held)'
    BY <1>1, <1>2, <2>1, SoundStays DEF JobStanding
  <2> QED
    BY <1>2, <2>1, <2>2, SaveOnStanding
<1>9. CASE CompletePing(w)
  BY <1>9, FinishStanding DEF CompletePing, history
<1> QED
  BY <1>3, <1>4, <1>5, <1>6, <1>7, <1>8, <1>9 DEF Complete

LEMMA DeviceOpsStanding ==
  ASSUME Standing, Evidence', NEW w \in Workers, DeviceOps(w)
  PROVE  Standing'
<1>1. /\ job \in [Workers -> Job] /\ job[w] \in Job /\ JobOK(w) /\ JobStanding(w)
  BY JobOf DEF Standing, Evidence
<1>2. ASSUME NEW acct \in Accounts, NEW d \in Devices, RegisterDevice(w, acct, d)
      PROVE  Standing'
  <2>1. UNCHANGED <<requests, resets, job, endorsed, everLinked>>
    BY <1>2 DEF RegisterDevice, history
  <2>2. JobStanding(w)'
    BY <1>1, <2>1 DEF JobStanding, Sound, MayApprove, HoldsRow, At
  <2> QED
    BY <2>1, <2>2, LocalStanding
<1>3. ASSUME NEW acct \in Accounts, NEW d \in Devices, DeleteFind(w, acct, d)
      PROVE  Standing'
  BY <1>3, CallStanding DEF DeleteFind
<1>4. CASE VoidFind(w)
  <2>1. /\ job'[w].op = job[w].op /\ job'[w].acct = job[w].acct /\ job'[w].actor = job[w].actor
        /\ job'[w].pc \in {"drop", "void_get"} /\ \A v \in Workers \ {w} : job'[v] = job[v]
    BY <1>1, <1>4 DEF VoidFind, Job
  <2> QED
    BY <1>4, <2>1, RowlessStanding DEF VoidFind, tables, history
<1>5. CASE VoidGet(w)
  <2>1. /\ job[w].pc = "void_get" /\ job[w].op = "delete"
        /\ UNCHANGED <<requests, resets, endorsed, everLinked>>
    BY <1>1, <1>5 DEF VoidGet, At, JobOK, tables, history
  <2>2. PICK rid, row : rid = job[w].rid /\ row = requests[rid]
    OBVIOUS
  <2>3. Sound(rid, row)'
    BY <2>1, <2>2, HeldRow, SoundStays DEF Standing, RowsSound, Holding
  <2>4. /\ job'[w].rid = rid /\ job'[w].row = row /\ job'[w].pc = "save"
        /\ job'[w].op = "delete" /\ \A v \in Workers \ {w} : job'[v] = job[v]
    BY <1>1, <1>5, <2>1, <2>2 DEF VoidGet, Job
  <2>5. JobStanding(w)'
    BY <2>1, <2>2, <2>3, <2>4 DEF JobStanding, At, HoldsRow
  <2> QED
    BY <2>1, <2>4, <2>5, LocalStanding
<1>6. CASE VoidSave(w)
  <2>1. PICK rid, row : rid = job[w].rid /\ row = Cancelled(job[w].row, "device_removed")
    OBVIOUS
  <2>2. row.acct = job[w].row.acct /\ row.status = "cancelled"
    BY <1>1, <2>1 DEF Cancelled, Job, Row
  <2>3. Sound(rid, row)'
    BY <2>2, SoundEnd
  <2>4. HoldsRow(w) /\ WriteRow(rid, row) /\ Goto(w, "drop")
        /\ UNCHANGED <<resets, endorsed, everLinked>>
    BY <1>6, <2>1 DEF VoidSave, Doing, HoldsRow, history
  <2> QED
    BY <2>1, <2>2, <2>3, <2>4, SaveOnStanding
<1>7. CASE DropDevice(w)
  BY <1>7, FinishStanding DEF DropDevice, history
<1> QED
  BY <1>2, <1>3, <1>4, <1>5, <1>6, <1>7 DEF DeviceOps

\* The clock and the links: no link that has been is forgotten.
LEMMA EnvironmentStanding ==
  ASSUME Standing, Evidence', UNCHANGED <<requests, resets, job, endorsed>>,
         everLinked \subseteq everLinked'
  PROVE  Standing'
<1>1. ASSUME NEW w \in Workers PROVE JobStanding(w)'
  BY DEF Standing, JobStanding, Sound, MayApprove, HoldsRow, At
<1>2. RowsSound' /\ EndorsedRows' /\ EndorsersHadStanding' /\ ManagedNeedsAdmin'
  BY DEF Standing, RowsSound, Sound, EndorsedRows, EndorsersHadStanding, ManagedNeedsAdmin
<1> QED
  BY <1>1, <1>2 DEF Standing

LEMMA LinksStayRemembered ==
  ASSUME LinksRemembered, [Next]_vars
  PROVE  LinksRemembered'
<1>1. CASE UNCHANGED vars
  BY <1>1 DEF LinksRemembered, vars, tables, history
<1>2. CASE Tick
  BY <1>2 DEF LinksRemembered, Tick, tables, history
<1>3. CASE \E a, b \in Accounts : LinkUsable(a, b)
  BY <1>3 DEF LinksRemembered, LinkUsable
<1>4. ASSUME NEW w \in Workers, Crash(w) PROVE LinksRemembered'
  BY <1>4 DEF LinksRemembered, Crash, tables, history
<1>5. ASSUME NEW w \in Workers, Work(w) PROVE LinksRemembered'
  <2>1. CASE FindActive(w) \/ GetRow(w) \/ Start(w)
    BY <2>1 DEF LinksRemembered, FindActive, GetRow, Start, StartBudget, StartOtpBudget,
       StartSendOtp, StartSendFails, StartSupersede, StartResolve, StartInsert, StartPing,
       tables, history
  <2>2. CASE Verify(w)
    BY <2>2 DEF LinksRemembered, Verify, VerifyStart, VerifySelect, VerifyCharge,
       VerifyConsume, VerifyBranch, VerifySave, VerifyPing, tables, history
  <2>3. CASE Authorize(w) \/ Cancel(w)
    BY <2>3 DEF LinksRemembered, Authorize, ApproveStanding, ApproveDecide, ApproveSave,
       GrantGet, GrantSave, Cancel, CancelStanding, CancelSave, CancelPing, tables, history
  <2>4. CASE Complete(w)
    BY <2>4 DEF LinksRemembered, Complete, CompleteStart, CompleteDecide, CompleteDevice,
       CompleteWall, CompleteSetPassword, CompleteLdapDown, CompleteSave, CompletePing,
       tables, history
  <2>5. CASE DeviceOps(w)
    BY <2>5 DEF LinksRemembered, DeviceOps, RegisterDevice, DeleteFind, VoidFind, VoidGet,
       VoidSave, DropDevice, tables, history
  <2>6. ASSUME NEW a \in Accounts, NEW b \in Accounts, RevokeLink(w, a, b)
        PROVE  LinksRemembered'
    BY <2>6 DEF LinksRemembered, RevokeLink, history
  <2> QED
    BY <1>5, <2>1, <2>2, <2>3, <2>4, <2>5, <2>6 DEF Work
<1> QED
  BY <1>1, <1>2, <1>3, <1>4, <1>5 DEF Next

LEMMA InitStanding == Init => Standing /\ LinksRemembered
<1> SUFFICES ASSUME Init PROVE Standing /\ LinksRemembered
  OBVIOUS
<1>1. Evidence
  BY InitEvidence
<1>2. requests = <<>> /\ resets = <<>> /\ endorsed = {} /\ links = {}
      /\ \A w \in Workers : job[w] = Idle
  BY DEF Init
<1>3. \A w \in Workers : JobStanding(w)
  BY <1>2 DEF JobStanding, HoldsRow, At, Idle, Call
<1> QED
  BY <1>1, <1>2, <1>3 DEF Standing, LinksRemembered, RowsSound, EndorsedRows,
     EndorsersHadStanding, ManagedNeedsAdmin

LEMMA NextStanding ==
  ASSUME Standing, LinksRemembered, [Next]_vars
  PROVE  Standing'
<1>1. Evidence'
  BY NextEvidence DEF Standing
<1>2. CASE UNCHANGED vars
  BY <1>1, <1>2, EnvironmentStanding DEF vars, tables, history
<1>3. CASE Tick
  BY <1>1, <1>3, EnvironmentStanding DEF Tick, tables, history
<1>4. CASE \E a, b \in Accounts : LinkUsable(a, b)
  BY <1>1, <1>4, EnvironmentStanding DEF LinkUsable
<1>5. ASSUME NEW w \in Workers, Crash(w) PROVE Standing'
  BY <1>1, <1>5, FinishStanding DEF Crash, tables, history
<1>6. ASSUME NEW w \in Workers, Work(w) PROVE Standing'
  <2>1. CASE \E a, b \in Accounts : RevokeLink(w, a, b)
    BY <1>1, <2>1, EnvironmentStanding DEF RevokeLink, history
  <2> QED
    BY <1>1, <1>6, <2>1, FindStanding, StartStanding, VerifyStanding, AuthorizeStanding,
       CancelsStanding, CompleteStanding, DeviceOpsStanding DEF Work
<1> QED
  BY <1>2, <1>3, <1>4, <1>5, <1>6 DEF Next

LEMMA StandingHolds == Spec => [](Standing /\ LinksRemembered)
<1>1. Init => Standing /\ LinksRemembered
  BY InitStanding
<1>2. Standing /\ LinksRemembered /\ [Next]_vars => (Standing /\ LinksRemembered)'
  BY NextStanding, LinksStayRemembered
<1> QED
  BY <1>1, <1>2, PTL DEF Spec

(***************************************************************************)
(* maybe_complete changes the password of a managed account only for a     *)
(* request that admin_grant authorized, although its row is written back   *)
(* whole from the locals of any handler that read it: for any number of    *)
(* threads, accounts and links.                                            *)
(***************************************************************************)
THEOREM ManagedByAdminAlways == Spec => []ManagedNeedsAdmin
<1>1. Standing /\ LinksRemembered => ManagedNeedsAdmin
  BY DEF Standing
<1> QED
  BY <1>1, StandingHolds, PTL

(***************************************************************************)
(* Every authorization of family_approve came from another account, not a  *)
(* managed one, that had a usable link with the account of the request:    *)
(* standing is checked before the request is looked up, and the request    *)
(* found is still that account's when it is written.                       *)
(***************************************************************************)
THEOREM EndorsersAlways == Spec => []EndorsersHadStanding
<1>1. Standing /\ LinksRemembered => EndorsersHadStanding
  BY DEF Standing
<1> QED
  BY <1>1, StandingHolds, PTL
=============================================================================
