------------------------------ MODULE OtpProofs ------------------------------
(***************************************************************************)
(* The limits of one-time codes, for any number of threads, phones and     *)
(* messages: by how much threads that overlap, or die, exceed each of      *)
(* them.  Every limit is read in one statement and charged in a later one, *)
(* so none of the bounds is inductive alone; each becomes so once the      *)
(* threads between the two statements are counted with what is charged.    *)
(***************************************************************************)
EXTENDS OtpService, ChallengeProofs, FiniteSetTheorems

RowT == [phone : Phones, purpose : Purposes, created : Nat,
         exp : Nat, left : Nat, consumed : BOOLEAN]

\* What a thread refers to is there.
JobOK(w) ==
  /\ job[w].pc # "idle" => job[w].phone \in Phones /\ job[w].purpose \in Purposes
  /\ job[w].now <= clock
  /\ job[w].pc \in {"verify_charge", "verify_consume"} => job[w].id \in 1..Len(challenges)

\* created_at is the database's clock, and rows are only ever added.
Ordered ==
  /\ \A i \in 1..Len(challenges) : challenges[i].created <= clock
  /\ \A i, j \in 1..Len(challenges) : i <= j => challenges[i].created <= challenges[j].created

TypeInv == TypeOK /\ (\A w \in Workers : JobOK(w)) /\ Ordered

Flying(w) == job[w].pc \in {"send_provider", "send_insert"}

\* A send under way found the cooldown over: what is nearer was written since
\* it had read the clock.
Cooled ==
  \A w \in Workers : Flying(w) =>
    \A i \in 1..Len(challenges) :
      (challenges[i].phone = job[w].phone /\ challenges[i].purpose = job[w].purpose)
        => \/ challenges[i].created >= job[w].now
           \/ job[w].now - challenges[i].created >= Cooldown

CooldownInv == CooldownOnlyByOverlap /\ Cooled

\* The rows of the hour that begins at t, and the threads that may still add
\* one to it.
Rows(phone, t) ==
  {j \in 1..Len(challenges) : challenges[j].phone = phone
                              /\ challenges[j].created \in t .. t + Hour}
Coming(phone, t) ==
  {w \in Workers : Flying(w) /\ job[w].phone = phone /\ job[w].now <= t + Hour}

HourOK(phone, t) ==
  \/ Rows(phone, t) = {} /\ Coming(phone, t) = {}
  \/ Cardinality(Rows(phone, t)) + Cardinality(Coming(phone, t)) <= HourlyCap + Slack

SendInv == \A phone \in Phones, t \in Nat : HourOK(phone, t)

\* The threads that checked a code against row i and have not written down
\* what came of it, and those of them that will mark it consumed.
Checking(i) ==
  {w \in Workers : job[w].pc \in {"verify_charge", "verify_consume"} /\ job[w].id = i}
Accepting(i) == {w \in Workers : job[w].pc = "verify_consume" /\ job[w].id = i}

\* While a row still lets a code be compared, each comparison is charged,
\* about to be, or lost with its thread.
GuessInv ==
  \A i \in 1..Len(challenges) :
    /\ compared[i] <= MaxVerify + Slack + lost
    /\ ~challenges[i].consumed /\ challenges[i].left > 0 =>
         compared[i] + challenges[i].left <= MaxVerify + Cardinality(Checking(i)) + lost

\* A consumed row lets nobody in: those it may still satisfy are on their way.
AcceptInv ==
  \A i \in 1..Len(challenges) :
    /\ accepted[i] + Cardinality(Accepting(i)) <= Cardinality(Workers)
    /\ ~challenges[i].consumed => accepted[i] = 0

Recording(phone) == {w \in Workers : job[w].pc = "send_insert" /\ job[w].phone = phone}
-----------------------------------------------------------------------------
(* Counting.                                                               *)

LEMMA Threads ==
  ASSUME NEW S \in SUBSET Workers
  PROVE  /\ IsFiniteSet(S) /\ Cardinality(S) \in Nat /\ Cardinality(Workers) \in Nat
         /\ Cardinality(S) <= Cardinality(Workers)
<1>1. IsFiniteSet(Workers)
  BY OtpAssumption
<1>2. IsFiniteSet(S) /\ Cardinality(S) <= Cardinality(Workers)
  BY <1>1, FS_Subset
<1> QED
  BY <1>1, <1>2, FS_CardinalityType

\* A thread that leaves a set of threads, and one that joins it.
LEMMA ThreadLeaves ==
  ASSUME NEW S \in SUBSET Workers, NEW w \in S, NEW T, T = S \ {w}
  PROVE  Cardinality(T) = Cardinality(S) - 1
BY Threads, FS_RemoveElement

LEMMA ThreadJoins ==
  ASSUME NEW S \in SUBSET Workers, NEW w \in Workers, w \notin S, NEW T, T = S \cup {w}
  PROVE  Cardinality(T) = Cardinality(S) + 1
BY Threads, FS_AddElement

LEMMA FewerThreads ==
  ASSUME NEW S \in SUBSET Workers, NEW T \in SUBSET S
  PROVE  Cardinality(T) <= Cardinality(S) /\ Cardinality(T) \in Nat
BY Threads, FS_Subset

\* The same for rows.
LEMMA SomeRows ==
  ASSUME NEW n \in Nat, NEW S \in SUBSET (1..n)
  PROVE  IsFiniteSet(S) /\ Cardinality(S) \in Nat
<1>1. IsFiniteSet(1..n)
  BY FS_Interval
<1> QED
  BY <1>1, FS_Subset, FS_CardinalityType

LEMMA FewerRows ==
  ASSUME NEW n \in Nat, NEW S \in SUBSET (1..n), NEW T \in SUBSET S
  PROVE  Cardinality(T) <= Cardinality(S) /\ Cardinality(T) \in Nat
BY SomeRows, FS_Subset

LEMMA OneMoreRow ==
  ASSUME NEW n \in Nat, NEW S \in SUBSET (1..n), NEW T, T = S \cup {n + 1}
  PROVE  Cardinality(T) = Cardinality(S) + 1
<1>1. n + 1 \notin S
  OBVIOUS
<1> QED
  BY <1>1, SomeRows, FS_AddElement
-----------------------------------------------------------------------------
(* Types.                                                                  *)

LEMMA Basics ==
  ASSUME TypeInv
  PROVE  /\ challenges \in Seq(RowT) /\ Len(challenges) \in Nat
         /\ DOMAIN challenges = 1..Len(challenges)
         /\ challenges \in [1..Len(challenges) -> RowT]
         /\ compared \in Seq(Nat) /\ Len(compared) = Len(challenges)
         /\ compared \in [1..Len(challenges) -> Nat] /\ DOMAIN compared = 1..Len(challenges)
         /\ accepted \in Seq(Nat) /\ Len(accepted) = Len(challenges)
         /\ accepted \in [1..Len(challenges) -> Nat] /\ DOMAIN accepted = 1..Len(challenges)
         /\ job \in [Workers -> Job] /\ (\A w \in Workers : JobOK(w))
         /\ clock \in Nat /\ lost \in Nat /\ guesses \in Nat
         /\ delivered \in [Phones -> Nat]
BY LenProperties DEF TypeInv, TypeOK, RowT

LEMMA IdleIsJob == Idle \in Job
BY DEF Idle, Job

\* What a check lets through is compared with a live row.
LEMMA VerdictOf ==
  ASSUME NEW row \in RowT, NEW matches, NEW now \in Nat
  PROVE  Verdict(row, matches, now) \in {"mismatch", "accepted"} => ~row.consumed /\ row.left > 0
<1>1. row.left \in Nat /\ row.consumed \in BOOLEAN /\ row.exp \in Nat
  BY DEF RowT
<1> QED
  BY <1>1 DEF Verdict

LEMMA SetJob ==
  ASSUME TypeInv, NEW w \in Workers, NEW r \in Job, job' = [job EXCEPT ![w] = r]
  PROVE  /\ job' \in [Workers -> Job] /\ job'[w] = r
         /\ \A v \in Workers \ {w} : job'[v] = job[v]
BY Basics

\* A step of one thread that leaves the table alone.
LEMMA TypeLocal ==
  ASSUME TypeInv, NEW w \in Workers, NEW r \in Job, job' = [job EXCEPT ![w] = r],
         JobOK(w)', UNCHANGED <<clock, challenges>>,
         compared' \in Seq(Nat), Len(compared') = Len(compared), accepted' = accepted,
         delivered' \in [Phones -> Nat], guesses' \in Nat, lost' \in Nat
  PROVE  TypeInv'
<1>1. TypeOK'
  BY SetJob, Basics DEF TypeInv, TypeOK
<1>2. ASSUME NEW v \in Workers PROVE JobOK(v)'
  <2>1. CASE v = w
    BY <2>1
  <2>2. CASE v # w
    BY <2>2, SetJob, Basics DEF JobOK
  <2> QED
    BY <2>1, <2>2
<1>3. Ordered'
  BY DEF TypeInv, Ordered
<1> QED
  BY <1>1, <1>2, <1>3 DEF TypeInv

\* A thread that comes to rest.
LEMMA TypeRest ==
  ASSUME TypeInv, NEW w \in Workers, job' = [job EXCEPT ![w] = Idle],
         UNCHANGED <<clock, challenges, delivered, compared, accepted, guesses>>, lost' \in Nat
  PROVE  TypeInv'
<1>1. job'[w] = Idle
  BY SetJob, IdleIsJob
<1>2. JobOK(w)'
  BY <1>1, Basics DEF JobOK, Idle
<1> QED
  BY <1>2, IdleIsJob, Basics, TypeLocal

\* A thread that rewrites a row, and not its place in the order.
LEMMA TypeRewrite ==
  ASSUME TypeInv, NEW w \in Workers, NEW i \in 1..Len(challenges), NEW row \in RowT,
         challenges' = [challenges EXCEPT ![i] = row],
         row.phone = challenges[i].phone, row.purpose = challenges[i].purpose,
         row.created = challenges[i].created, row.exp = challenges[i].exp,
         accepted' \in Seq(Nat), Len(accepted') = Len(accepted),
         job' = [job EXCEPT ![w] = Idle], UNCHANGED <<clock, delivered, compared, guesses, lost>>
  PROVE  /\ TypeInv' /\ Len(challenges') = Len(challenges)
         /\ challenges'[i] = row
         /\ \A k \in 1..Len(challenges) \ {i} : challenges'[k] = challenges[k]
         /\ \A k \in 1..Len(challenges) :
              /\ challenges'[k].phone = challenges[k].phone
              /\ challenges'[k].purpose = challenges[k].purpose
              /\ challenges'[k].created = challenges[k].created
              /\ challenges'[k].exp = challenges[k].exp
<1>1. /\ challenges' \in Seq(RowT) /\ Len(challenges') = Len(challenges)
      /\ challenges'[i] = row
      /\ \A k \in 1..Len(challenges) \ {i} : challenges'[k] = challenges[k]
  BY Basics, ExceptSeq
<1>2. /\ job' \in [Workers -> Job] /\ job'[w] = Idle
      /\ \A v \in Workers \ {w} : job'[v] = job[v]
  BY SetJob, IdleIsJob
<1>3. \A k \in 1..Len(challenges) :
        /\ challenges'[k].phone = challenges[k].phone
        /\ challenges'[k].purpose = challenges[k].purpose
        /\ challenges'[k].created = challenges[k].created
        /\ challenges'[k].exp = challenges[k].exp
  BY <1>1
<1>4. TypeOK'
  BY <1>1, <1>2, Basics DEF TypeInv, TypeOK, RowT
<1>5. Ordered'
  BY <1>1, <1>3 DEF TypeInv, Ordered
<1>6. ASSUME NEW v \in Workers PROVE JobOK(v)'
  BY <1>1, <1>2, Basics DEF JobOK, Idle
<1> QED
  BY <1>1, <1>3, <1>4, <1>5, <1>6 DEF TypeInv

\* The row a send adds is the newest.
LEMMA Recorded ==
  ASSUME TypeInv, NEW w \in Workers, RecordChallenge(w)
  PROVE  LET n == Len(challenges) + 1 IN
         /\ challenges' \in Seq(RowT) /\ Len(challenges') = n
         /\ challenges'[n] = ChallengeRow(job[w].phone, job[w].purpose, clock,
                                          job[w].now + CodeTTL, MaxVerify)
         /\ \A k \in 1..Len(challenges) : challenges'[k] = challenges[k]
         /\ compared' \in Seq(Nat) /\ Len(compared') = n /\ compared'[n] = 0
         /\ \A k \in 1..Len(challenges) : compared'[k] = compared[k]
         /\ accepted' \in Seq(Nat) /\ Len(accepted') = n /\ accepted'[n] = 0
         /\ \A k \in 1..Len(challenges) : accepted'[k] = accepted[k]
         /\ job' \in [Workers -> Job] /\ job'[w] = Idle
         /\ \A v \in Workers \ {w} : job'[v] = job[v]
         /\ challenges'[n] \in RowT
<1> DEFINE row == ChallengeRow(job[w].phone, job[w].purpose, clock, job[w].now + CodeTTL, MaxVerify)
<1>1. row \in RowT
  <2>1. job[w].phone \in Phones /\ job[w].purpose \in Purposes /\ job[w].now \in Nat
    BY Basics DEF JobOK, RecordChallenge, Job
  <2>2. job[w].now + CodeTTL \in Nat /\ MaxVerify \in Nat /\ clock \in Nat
    BY <2>1, Basics, OtpAssumption
  <2> QED
    BY <2>1, <2>2 DEF ChallengeRow, RowT
<1>2. challenges' = Append(challenges, row) /\ compared' = Append(compared, 0)
      /\ accepted' = Append(accepted, 0) /\ job' = [job EXCEPT ![w] = Idle]
  BY DEF RecordChallenge
<1> HIDE DEF row
<1>3. /\ challenges' \in Seq(RowT) /\ Len(challenges') = Len(challenges) + 1
      /\ challenges'[Len(challenges) + 1] = row
      /\ \A k \in 1..Len(challenges) : challenges'[k] = challenges[k]
  BY <1>1, <1>2, Basics, AppendProperties
<1>4. /\ compared' \in Seq(Nat) /\ Len(compared') = Len(challenges) + 1
      /\ compared'[Len(challenges) + 1] = 0
      /\ \A k \in 1..Len(challenges) : compared'[k] = compared[k]
  BY <1>2, Basics, AppendProperties
<1>5. /\ accepted' \in Seq(Nat) /\ Len(accepted') = Len(challenges) + 1
      /\ accepted'[Len(challenges) + 1] = 0
      /\ \A k \in 1..Len(challenges) : accepted'[k] = accepted[k]
  BY <1>2, Basics, AppendProperties
<1>6. /\ job' \in [Workers -> Job] /\ job'[w] = Idle
      /\ \A v \in Workers \ {w} : job'[v] = job[v]
  BY <1>2, SetJob, IdleIsJob
<1> QED
  BY <1>1, <1>3, <1>4, <1>5, <1>6 DEF row

LEMMA TypeRecorded ==
  ASSUME TypeInv, NEW w \in Workers, RecordChallenge(w)
  PROVE  TypeInv'
<1>1. TypeOK'
  BY Recorded, Basics DEF TypeInv, TypeOK, RowT, RecordChallenge
<1>2. ASSUME NEW v \in Workers PROVE JobOK(v)'
  BY Recorded, Basics DEF JobOK, Idle, RecordChallenge
<1>3. challenges'[Len(challenges) + 1].created = clock /\ clock' = clock
  BY Recorded DEF ChallengeRow, RecordChallenge
<1>4. Ordered'
  <2>1. \A k \in 1..Len(challenges') : k # Len(challenges) + 1 => k \in 1..Len(challenges)
    BY Recorded, Basics
  <2>2. \A k \in 1..Len(challenges) : challenges'[k].created = challenges[k].created
                                      /\ challenges[k].created <= clock
    BY Recorded DEF TypeInv, Ordered
  <2>3. ASSUME NEW k \in 1..Len(challenges') PROVE challenges'[k].created <= clock'
    <3>1. CASE k = Len(challenges) + 1
      BY <1>3, <3>1, Basics
    <3>2. CASE k # Len(challenges) + 1
      BY <1>3, <2>1, <2>2, <3>2
    <3> QED
      BY <3>1, <3>2
  <2>4. ASSUME NEW i \in 1..Len(challenges'), NEW j \in 1..Len(challenges'), i <= j
        PROVE  challenges'[i].created <= challenges'[j].created
    <3>1. CASE j = Len(challenges) + 1
      BY <1>3, <2>3, <3>1
    <3>2. CASE j # Len(challenges) + 1
      <4>1. i \in 1..Len(challenges) /\ j \in 1..Len(challenges)
        BY <2>1, <2>4, <3>2, Basics
      <4> QED
        BY <2>2, <2>4, <4>1 DEF TypeInv, Ordered
    <3> QED
      BY <3>1, <3>2
  <2> QED
    BY <2>3, <2>4 DEF Ordered
<1> QED
  BY <1>1, <1>2, <1>4 DEF TypeInv

\* A handler begins: it has read the clock.
LEMMA Begun ==
  ASSUME TypeInv, NEW w \in Workers, NEW phone \in Phones, NEW purpose \in Purposes,
         NEW label \in {"send_provider", "verify_select"},
         job' = [job EXCEPT ![w] = Started(label, phone, purpose)],
         UNCHANGED <<clock, challenges, delivered, compared, accepted, lost>>, guesses' \in Nat
  PROVE  TypeInv' /\ job'[w] = Started(label, phone, purpose)
<1>1. Started(label, phone, purpose) \in Job
  BY Basics DEF Started, Job
<1>2. job'[w] = Started(label, phone, purpose)
  BY <1>1, SetJob
<1>3. JobOK(w)'
  BY <1>2, Basics DEF JobOK, Started
<1> QED
  BY <1>1, <1>2, <1>3, TypeLocal, Basics

\* A handler moves on to its next statement, with the row it has read.
LEMMA MovedOn ==
  ASSUME TypeInv, NEW w \in Workers, NEW r \in Job, job' = [job EXCEPT ![w] = r],
         r.pc \in {"send_insert", "verify_charge", "verify_consume"}, job[w].pc # "idle",
         r.phone = job[w].phone, r.purpose = job[w].purpose, r.now = job[w].now,
         r.pc # "send_insert" => r.id \in 1..Len(challenges),
         UNCHANGED <<clock, challenges, accepted, guesses, lost>>,
         compared' \in Seq(Nat), Len(compared') = Len(compared),
         delivered' \in [Phones -> Nat]
  PROVE  TypeInv' /\ job'[w] = r /\ \A v \in Workers \ {w} : job'[v] = job[v]
<1>1. job'[w] = r /\ \A v \in Workers \ {w} : job'[v] = job[v]
  BY SetJob
<1>2. JobOK(w)'
  BY <1>1, Basics DEF JobOK
<1>3. lost' \in Nat /\ guesses' \in Nat /\ accepted' = accepted
  BY Basics
<1>4. TypeInv'
  BY <1>2, <1>3, TypeLocal
<1> QED
  BY <1>1, <1>4

\* What VerifySelect did: it found nothing to compare with, or charges, or accepts.
LEMMA Selected ==
  ASSUME TypeInv, NEW w \in Workers, NEW matches \in BOOLEAN, VerifySelect(w, matches)
  PROVE  LET id == LatestActive(challenges, job[w].phone, job[w].purpose, job[w].now, Hour) IN
         \/ job' = [job EXCEPT ![w] = Idle] /\ compared' = compared
         \/ /\ id \in 1..Len(challenges)
            /\ \/ /\ job' = [job EXCEPT ![w].pc = "verify_charge", ![w].id = id]
                  /\ compared' = compared
               \/ /\ ~challenges[id].consumed /\ challenges[id].left > 0
                  /\ \/ job' = [job EXCEPT ![w].pc = "verify_charge", ![w].id = id]
                     \/ job' = [job EXCEPT ![w].pc = "verify_consume", ![w].id = id]
                  /\ compared' = [compared EXCEPT ![id] = @ + 1]
<1> DEFINE id == LatestActive(challenges, job[w].phone, job[w].purpose, job[w].now, Hour)
           verdict == IF id = 0 THEN "none" ELSE Verdict(challenges[id], matches, job[w].now)
<1>1. id \in 0..Len(challenges)
  BY Basics, LatestActiveInRange
<1>2. verdict \notin {"none", "consumed", "expired"} => id \in 1..Len(challenges)
  BY <1>1
<1>3. verdict \in {"mismatch", "accepted"} => ~challenges[id].consumed /\ challenges[id].left > 0
  <2>1. ASSUME verdict \in {"mismatch", "accepted"}
        PROVE  ~challenges[id].consumed /\ challenges[id].left > 0
    <3>1. id # 0 /\ id \in 1..Len(challenges)
      BY <1>1, <2>1
    <3>2. challenges[id] \in RowT /\ job[w].now \in Nat
      BY <3>1, Basics DEF Job
    <3>3. Verdict(challenges[id], matches, job[w].now) \in {"mismatch", "accepted"}
      BY <2>1, <3>1
    <3> HIDE DEF id, verdict
    <3> QED
      BY <3>2, <3>3, VerdictOf
  <2> QED
    BY <2>1
<1>4. \/ /\ verdict \in {"none", "consumed", "expired"}
         /\ job' = [job EXCEPT ![w] = Idle]
         /\ UNCHANGED compared
      \/ /\ Charged(verdict)
         /\ job' = [job EXCEPT ![w].pc = "verify_charge", ![w].id = id]
         /\ compared' = IF verdict = "mismatch"
                        THEN [compared EXCEPT ![id] = @ + 1] ELSE compared
      \/ /\ verdict = "accepted"
         /\ job' = [job EXCEPT ![w].pc = "verify_consume", ![w].id = id]
         /\ compared' = [compared EXCEPT ![id] = @ + 1]
  BY DEF VerifySelect
<1> HIDE DEF id, verdict
<1> QED
  BY <1>2, <1>3, <1>4 DEF Charged, id

\* What each kind of step leaves in the thread that made it.
LEMMA Accepts ==
  ASSUME TypeInv, NEW w \in Workers, ProviderAccepts(w)
  PROVE  /\ TypeInv' /\ job'[w].pc = "send_insert" /\ job'[w].phone = job[w].phone
         /\ job'[w].purpose = job[w].purpose /\ job'[w].now = job[w].now
         /\ \A v \in Workers \ {w} : job'[v] = job[v]
<1>1. /\ job' = [job EXCEPT ![w].pc = "send_insert"] /\ job[w].pc = "send_provider"
      /\ UNCHANGED <<clock, challenges, accepted, guesses, lost, compared>>
      /\ delivered' = [delivered EXCEPT ![job[w].phone] = @ + 1]
  BY DEF ProviderAccepts
<1> DEFINE r == [job[w] EXCEPT !.pc = "send_insert"]
<1>2. job[w] \in Job
  BY Basics
<1>3. /\ r \in Job /\ r.pc = "send_insert" /\ r.phone = job[w].phone
      /\ r.purpose = job[w].purpose /\ r.now = job[w].now
  BY <1>2 DEF Job
<1>4. job' = [job EXCEPT ![w] = r]
  BY <1>1
<1>5. delivered' \in [Phones -> Nat] /\ compared' \in Seq(Nat) /\ Len(compared') = Len(compared)
  <2>1. job[w].phone \in Phones /\ delivered \in [Phones -> Nat]
    BY <1>1, Basics DEF JobOK
  <2>2. delivered' \in [Phones -> Nat]
    BY <1>1, <2>1
  <2> QED
    BY <1>1, <2>2, Basics
<1> HIDE DEF r
<1> QED
  BY <1>1, <1>3, <1>4, <1>5, MovedOn

LEMMA Selects ==
  ASSUME TypeInv, NEW w \in Workers, NEW matches \in BOOLEAN, VerifySelect(w, matches)
  PROVE  /\ TypeInv' /\ (\A v \in Workers \ {w} : job'[v] = job[v])
         /\ \/ job'[w] = Idle /\ compared' = compared
            \/ /\ job'[w].pc = "verify_charge" /\ compared' = compared
            \/ \E id \in 1..Len(challenges) :
                  /\ id = LatestActive(challenges, job[w].phone, job[w].purpose, job[w].now, Hour)
                  /\ ~challenges[id].consumed /\ challenges[id].left > 0
                  /\ job'[w].pc \in {"verify_charge", "verify_consume"} /\ job'[w].id = id
                  /\ compared' = [compared EXCEPT ![id] = @ + 1]
<1> DEFINE id == LatestActive(challenges, job[w].phone, job[w].purpose, job[w].now, Hour)
<1>1. /\ job[w].pc = "verify_select"
      /\ UNCHANGED <<clock, challenges, delivered, accepted, guesses, lost>>
  BY DEF VerifySelect
<1>2. \/ job' = [job EXCEPT ![w] = Idle] /\ compared' = compared
      \/ /\ id \in 1..Len(challenges)
         /\ \/ /\ job' = [job EXCEPT ![w].pc = "verify_charge", ![w].id = id]
               /\ compared' = compared
            \/ /\ ~challenges[id].consumed /\ challenges[id].left > 0
               /\ \/ job' = [job EXCEPT ![w].pc = "verify_charge", ![w].id = id]
                  \/ job' = [job EXCEPT ![w].pc = "verify_consume", ![w].id = id]
               /\ compared' = [compared EXCEPT ![id] = @ + 1]
  BY Selected
<1> HIDE DEF id
<1>3. job \in [Workers -> Job] /\ job[w] \in Job /\ lost \in Nat
  BY Basics
<1>4. CASE job' = [job EXCEPT ![w] = Idle] /\ compared' = compared
  BY <1>1, <1>4, SetJob, IdleIsJob, TypeRest, <1>3
<1>5. ASSUME NEW label \in {"verify_charge", "verify_consume"}, id \in 1..Len(challenges),
             job' = [job EXCEPT ![w].pc = label, ![w].id = id],
             compared' = compared \/ compared' = [compared EXCEPT ![id] = @ + 1]
      PROVE  /\ TypeInv' /\ job'[w].pc = label /\ job'[w].id = id
             /\ \A v \in Workers \ {w} : job'[v] = job[v]
  <2> DEFINE r == [job[w] EXCEPT !.pc = label, !.id = id]
  <2>1. job' = [job EXCEPT ![w] = r]
    BY <1>3, <1>5
  <2>2. /\ r \in Job /\ r.pc = label /\ r.id = id /\ r.phone = job[w].phone
        /\ r.purpose = job[w].purpose /\ r.now = job[w].now
    <3>1. id \in Nat
      BY <1>5, Basics
    <3> QED
      BY <1>3, <1>5, <3>1 DEF Job
  <2>3. compared' \in Seq(Nat) /\ Len(compared') = Len(compared)
    <3>1. compared[id] + 1 \in Nat /\ compared \in Seq(Nat)
          /\ Len(compared) = Len(challenges)
      BY <1>5, Basics
    <3>2. CASE compared' = [compared EXCEPT ![id] = compared[id] + 1]
      BY <1>5, <3>1, <3>2, ExceptSeq
    <3> QED
      BY <1>5, <3>1, <3>2
  <2>4. delivered' \in [Phones -> Nat]
    BY <1>1, Basics
  <2> HIDE DEF r
  <2> QED
    BY <1>1, <1>5, <2>1, <2>2, <2>3, <2>4, MovedOn
<1> QED
  BY <1>2, <1>4, <1>5 DEF id

\* A charge, or a mark of consumption.
LEMMA Writes ==
  ASSUME TypeInv, NEW w \in Workers, VerifyCharge(w) \/ VerifyConsume(w)
  PROVE  LET i == job[w].id IN
         /\ TypeInv' /\ i \in 1..Len(challenges) /\ Len(challenges') = Len(challenges)
         /\ job'[w] = Idle /\ (\A v \in Workers \ {w} : job'[v] = job[v])
         /\ \A k \in 1..Len(challenges) \ {i} : challenges'[k] = challenges[k]
         /\ \A k \in 1..Len(challenges) :
              /\ challenges'[k].phone = challenges[k].phone
              /\ challenges'[k].purpose = challenges[k].purpose
              /\ challenges'[k].created = challenges[k].created
              /\ challenges'[k].exp = challenges[k].exp
         /\ VerifyCharge(w) =>
              /\ challenges'[i].consumed = challenges[i].consumed
              /\ challenges'[i].left = IF challenges[i].left > 0 THEN challenges[i].left - 1
                                                                 ELSE challenges[i].left
         /\ VerifyConsume(w) => challenges'[i].consumed
<1> DEFINE i == job[w].id
           charged == [challenges[i] EXCEPT !.left = IF @ > 0 THEN @ - 1 ELSE @]
           consumed == [challenges[i] EXCEPT !.consumed = TRUE]
<1>1. i \in 1..Len(challenges) /\ job' = [job EXCEPT ![w] = Idle]
  BY Basics DEF VerifyCharge, VerifyConsume, JobOK
<1>2. challenges[i] \in RowT
  BY <1>1, Basics
<1>3. /\ charged \in RowT /\ charged.phone = challenges[i].phone
      /\ charged.purpose = challenges[i].purpose /\ charged.created = challenges[i].created
      /\ charged.exp = challenges[i].exp /\ charged.consumed = challenges[i].consumed
      /\ charged.left = IF challenges[i].left > 0 THEN challenges[i].left - 1
                                                   ELSE challenges[i].left
  BY <1>2 DEF RowT
<1>4. /\ consumed \in RowT /\ consumed.phone = challenges[i].phone
      /\ consumed.purpose = challenges[i].purpose /\ consumed.created = challenges[i].created
      /\ consumed.exp = challenges[i].exp /\ consumed.consumed
  BY <1>2 DEF RowT
<1>5. job'[w] = Idle /\ \A v \in Workers \ {w} : job'[v] = job[v]
  BY <1>1, SetJob, IdleIsJob
<1>6. CASE VerifyCharge(w)
  <2>1. challenges' = [challenges EXCEPT ![i] = charged]
    BY <1>1, <1>6, Basics DEF VerifyCharge, Charge
  <2>2. UNCHANGED <<clock, delivered, compared, accepted, guesses, lost>>
    BY <1>6 DEF VerifyCharge, history
  <2>3. ~VerifyConsume(w)
    BY <1>6 DEF VerifyCharge, VerifyConsume
  <2> HIDE DEF i, charged
  <2> QED
    BY <1>1, <1>3, <1>5, <2>1, <2>2, <2>3, Basics, TypeRewrite DEF i
<1>7. CASE VerifyConsume(w)
  <2>1. challenges' = [challenges EXCEPT ![i] = consumed]
    BY <1>1, <1>7, Basics DEF VerifyConsume, Consume
  <2>2. /\ UNCHANGED <<clock, delivered, compared, guesses, lost>>
        /\ accepted' = [accepted EXCEPT ![i] = @ + 1]
    BY <1>7 DEF VerifyConsume
  <2>3. accepted' \in Seq(Nat) /\ Len(accepted') = Len(accepted)
    <3>1. accepted[i] + 1 \in Nat
      BY <1>1, Basics
    <3> QED
      BY <1>1, <2>2, <3>1, Basics, ExceptSeq
  <2>4. ~VerifyCharge(w)
    BY <1>7 DEF VerifyCharge, VerifyConsume
  <2> HIDE DEF i, consumed
  <2> QED
    BY <1>1, <1>4, <1>5, <2>1, <2>2, <2>3, <2>4, Basics, TypeRewrite DEF i
<1> QED
  BY <1>6, <1>7

\* A thread that rests without having written: refused, or dead.
LEMMA Rests ==
  ASSUME TypeInv, NEW w \in Workers, ProviderRejects(w) \/ Crash(w)
  PROVE  /\ TypeInv' /\ job'[w] = Idle /\ (\A v \in Workers \ {w} : job'[v] = job[v])
         /\ UNCHANGED <<clock, challenges, delivered, compared, accepted, guesses>>
         /\ lost' \in Nat /\ lost' >= lost
<1>1. /\ job' = [job EXCEPT ![w] = Idle]
      /\ UNCHANGED <<clock, challenges, delivered, compared, accepted, guesses>>
      /\ lost' \in Nat /\ lost' >= lost
  BY Basics DEF ProviderRejects, Crash, history
<1> QED
  BY <1>1, SetJob, IdleIsJob, TypeRest

LEMMA Begins ==
  ASSUME TypeInv, NEW w \in Workers, NEW phone \in Phones, NEW purpose \in Purposes,
         SendBudget(w, phone, purpose) \/ VerifyStart(w, phone, purpose)
  PROVE  /\ TypeInv' /\ (\A v \in Workers \ {w} : job'[v] = job[v]) /\ job[w].pc = "idle"
         /\ UNCHANGED <<clock, challenges, delivered, compared, accepted, lost>>
         /\ SendBudget(w, phone, purpose) =>
              job'[w] = Started("send_provider", phone, purpose)
         /\ VerifyStart(w, phone, purpose) =>
              job'[w] = Started("verify_select", phone, purpose)
<1>1. Started("send_provider", phone, purpose) \in Job
      /\ Started("verify_select", phone, purpose) \in Job
  BY Basics DEF Started, Job
<1>2. CASE SendBudget(w, phone, purpose)
  <2>1. /\ job' = [job EXCEPT ![w] = Started("send_provider", phone, purpose)]
        /\ UNCHANGED <<clock, challenges, delivered, compared, accepted, lost>>
        /\ guesses' = guesses /\ job[w].pc = "idle"
    BY <1>2 DEF SendBudget, history
  <2>2. guesses' \in Nat
    BY <2>1, Basics
  <2>3. TypeInv' /\ job'[w] = Started("send_provider", phone, purpose)
    BY <2>1, <2>2, Begun
  <2>4. (\A v \in Workers \ {w} : job'[v] = job[v])
    BY <1>1, <2>1, SetJob
  <2>5. VerifyStart(w, phone, purpose) => job'[w] = Started("verify_select", phone, purpose)
    BY <1>1, SetJob DEF VerifyStart
  <2> QED
    BY <2>1, <2>3, <2>4, <2>5
<1>3. CASE VerifyStart(w, phone, purpose)
  <2>1. /\ job' = [job EXCEPT ![w] = Started("verify_select", phone, purpose)]
        /\ UNCHANGED <<clock, challenges, delivered, compared, accepted, lost>>
        /\ guesses' = guesses + 1 /\ job[w].pc = "idle"
    BY <1>3 DEF VerifyStart
  <2>2. guesses' \in Nat
    BY <2>1, Basics
  <2>3. TypeInv' /\ job'[w] = Started("verify_select", phone, purpose)
    BY <2>1, <2>2, Begun
  <2>4. (\A v \in Workers \ {w} : job'[v] = job[v])
    BY <1>1, <2>1, SetJob
  <2>5. SendBudget(w, phone, purpose) => job'[w] = Started("send_provider", phone, purpose)
    BY <1>1, SetJob DEF SendBudget
  <2> QED
    BY <2>1, <2>3, <2>4, <2>5
<1> QED
  BY <1>2, <1>3

\* What it writes down when it begins.
LEMMA Begin ==
  ASSUME TypeInv, NEW w \in Workers, NEW phone \in Phones, NEW purpose \in Purposes,
         SendBudget(w, phone, purpose) \/ VerifyStart(w, phone, purpose)
  PROVE  /\ job'[w].phone = phone /\ job'[w].purpose = purpose /\ job'[w].now = clock
         /\ job'[w].pc \in {"send_provider", "verify_select"}
         /\ job'[w].pc = "send_provider" => SendBudget(w, phone, purpose)
<1>1. CASE SendBudget(w, phone, purpose)
  <2>1. job'[w] = Started("send_provider", phone, purpose)
    BY <1>1, Begins
  <2> QED
    BY <1>1, <2>1 DEF Started
<1>2. CASE VerifyStart(w, phone, purpose)
  <2>1. job'[w] = Started("verify_select", phone, purpose)
    BY <1>2, Begins
  <2> QED
    BY <1>2, <2>1 DEF Started
<1> QED
  BY <1>1, <1>2

LEMMA Ticks ==
  ASSUME TypeInv, Tick
  PROVE  TypeInv' /\ clock <= clock' /\ UNCHANGED <<challenges, job, history>>
<1>1. clock' \in Nat /\ clock <= clock' /\ UNCHANGED <<challenges, job, history>>
  BY Basics DEF Tick
<1>2. TypeOK'
  BY <1>1 DEF TypeInv, TypeOK, history
<1>3. Ordered'
  <2>1. \A i \in 1..Len(challenges) : challenges[i].created \in Nat
    BY Basics DEF RowT
  <2> QED
    BY <1>1, <2>1, Basics DEF TypeInv, Ordered
<1>4. ASSUME NEW w \in Workers PROVE JobOK(w)'
  <2>1. job[w].now \in Nat /\ JobOK(w)
    BY Basics DEF Job
  <2> QED
    BY <1>1, <2>1, Basics DEF JobOK
<1> QED
  BY <1>1, <1>2, <1>3, <1>4 DEF TypeInv

LEMMA TypeStep ==
  ASSUME TypeInv, [Next]_vars
  PROVE  TypeInv'
<1>1. CASE Tick
  BY <1>1, Ticks
<1>2. ASSUME NEW w \in Workers, Send(w) PROVE TypeInv'
  BY <1>2, Begins, Accepts, Rests, TypeRecorded DEF Send
<1>3. ASSUME NEW w \in Workers, Verify(w) PROVE TypeInv'
  BY <1>3, Begins, Selects, Writes DEF Verify
<1>4. ASSUME NEW w \in Workers, Crash(w) PROVE TypeInv'
  BY <1>4, Rests
<1>5. CASE UNCHANGED vars
  BY <1>5 DEF vars, history, TypeInv, TypeOK, JobOK, Ordered
<1> QED
  BY <1>1, <1>2, <1>3, <1>4, <1>5 DEF Next

LEMMA TypeInit == Init => TypeInv
<1> SUFFICES ASSUME Init PROVE TypeInv
  OBVIOUS
<1>1. challenges = <<>> /\ compared = <<>> /\ accepted = <<>> /\ Len(challenges) = 0
  BY EmptySeq DEF Init
<1>2. TypeOK
  BY <1>1, EmptySeq, IdleIsJob DEF Init, TypeOK
<1>3. \A w \in Workers : JobOK(w)
  BY DEF Init, JobOK, Idle
<1>4. Ordered
  BY <1>1 DEF Ordered
<1> QED
  BY <1>2, <1>3, <1>4 DEF TypeInv

\* Rows and the locals of threads have the types the statements give them, a
\* thread refers to rows of the table, and the table is in the order of its
\* created_at.
THEOREM OtpTyped == Spec => []TypeInv
<1> QED
  BY TypeInit, TypeStep, PTL DEF Spec

\* Every variable keeps its shape.
THEOREM OtpTypes == Spec => []TypeOK
<1>1. TypeInv => TypeOK
  BY DEF TypeInv
<1> QED
  BY <1>1, OtpTyped, PTL
-----------------------------------------------------------------------------
(* One code, and how many verifications it satisfies.                      *)

LEMMA AcceptKept ==
  ASSUME TypeInv, AcceptInv, NEW w \in Workers, UNCHANGED <<challenges, accepted>>,
         \A v \in Workers \ {w} : job'[v] = job[v], job'[w].pc # "verify_consume"
  PROVE  AcceptInv'
<1> SUFFICES ASSUME NEW i \in 1..Len(challenges)
             PROVE  /\ accepted[i] + Cardinality(Accepting(i)') <= Cardinality(Workers)
                    /\ ~challenges[i].consumed => accepted[i] = 0
  BY DEF AcceptInv
<1>1. Accepting(i)' \subseteq Accepting(i) /\ Accepting(i) \subseteq Workers
  BY DEF Accepting
<1>2. Cardinality(Accepting(i)') <= Cardinality(Accepting(i))
  BY <1>1, FewerThreads
<1>3. /\ Cardinality(Accepting(i)) \in Nat /\ Cardinality(Accepting(i)') \in Nat
      /\ Cardinality(Workers) \in Nat /\ accepted[i] \in Nat
  BY <1>1, Threads, Basics
<1> QED
  BY <1>2, <1>3 DEF AcceptInv

LEMMA AcceptSelect ==
  ASSUME TypeInv, AcceptInv, NEW w \in Workers, NEW matches \in BOOLEAN, VerifySelect(w, matches)
  PROVE  AcceptInv'
<1>1. UNCHANGED <<challenges, accepted>> /\ job[w].pc = "verify_select"
  BY DEF VerifySelect
<1>2. CASE job'[w].pc # "verify_consume"
  BY <1>1, <1>2, Selects, AcceptKept
<1>3. CASE job'[w].pc = "verify_consume"
  <2>1. PICK id \in 1..Len(challenges) : ~challenges[id].consumed /\ job'[w].id = id
    BY <1>3, Selects DEF Idle
  <2> SUFFICES ASSUME NEW i \in 1..Len(challenges)
               PROVE  /\ accepted[i] + Cardinality(Accepting(i)') <= Cardinality(Workers)
                      /\ ~challenges[i].consumed => accepted[i] = 0
    BY <1>1 DEF AcceptInv
  <2>2. CASE i = id
    <3>1. accepted[i] = 0 /\ Accepting(i)' \subseteq Workers
      BY <2>1, <2>2 DEF AcceptInv, Accepting
    <3>2. Cardinality(Accepting(i)') \in Nat /\ Cardinality(Accepting(i)') <= Cardinality(Workers)
      BY <3>1, Threads
    <3> QED
      BY <3>1, <3>2
  <2>3. CASE i # id
    <3>1. Accepting(i)' = Accepting(i)
      BY <1>1, <2>1, <2>3, Selects DEF Accepting
    <3> QED
      BY <3>1 DEF AcceptInv
  <2> QED
    BY <2>2, <2>3
<1> QED
  BY <1>2, <1>3

LEMMA AcceptWrite ==
  ASSUME TypeInv, AcceptInv, NEW w \in Workers, VerifyCharge(w) \/ VerifyConsume(w)
  PROVE  AcceptInv'
<1>1. /\ job[w].id \in 1..Len(challenges) /\ Len(challenges') = Len(challenges)
      /\ job'[w] = Idle /\ \A v \in Workers \ {w} : job'[v] = job[v]
      /\ \A k \in 1..Len(challenges) \ {job[w].id} : challenges'[k] = challenges[k]
  BY Writes
<1> SUFFICES ASSUME NEW i \in 1..Len(challenges)
             PROVE  /\ accepted'[i] + Cardinality(Accepting(i)') <= Cardinality(Workers)
                    /\ ~challenges'[i].consumed => accepted'[i] = 0
  BY <1>1 DEF AcceptInv
<1>2. /\ Accepting(i) \subseteq Workers /\ Accepting(i)' = Accepting(i) \ {w}
      /\ accepted[i] + Cardinality(Accepting(i)) <= Cardinality(Workers)
      /\ ~challenges[i].consumed => accepted[i] = 0
  BY <1>1 DEF Accepting, Idle, AcceptInv
<1>3. /\ Cardinality(Accepting(i)) \in Nat /\ Cardinality(Accepting(i)') \in Nat
      /\ Cardinality(Workers) \in Nat /\ accepted[i] \in Nat
      /\ Cardinality(Accepting(i)') <= Cardinality(Accepting(i))
  <2>1. Accepting(i)' \subseteq Accepting(i)
    BY <1>2
  <2> QED
    BY <1>2, <2>1, Threads, FewerThreads, Basics
<1>4. CASE VerifyCharge(w)
  <2>1. accepted' = accepted /\ challenges'[i].consumed = challenges[i].consumed
    BY <1>1, <1>4, Writes DEF VerifyCharge, history
  <2> QED
    BY <1>2, <1>3, <2>1
<1>5. CASE VerifyConsume(w) /\ i # job[w].id
  <2>1. accepted'[i] = accepted[i] /\ challenges'[i] = challenges[i]
    BY <1>1, <1>5, Basics DEF VerifyConsume
  <2> QED
    BY <1>2, <1>3, <2>1
<1>6. CASE VerifyConsume(w) /\ i = job[w].id
  <2>1. accepted'[i] = accepted[i] + 1 /\ challenges'[i].consumed
    BY <1>6, Writes, Basics DEF VerifyConsume
  <2>2. w \in Accepting(i)
    BY <1>6 DEF Accepting, VerifyConsume
  <2>3. Cardinality(Accepting(i)') = Cardinality(Accepting(i)) - 1
    BY <1>2, <2>2, ThreadLeaves
  <2> QED
    BY <1>2, <1>3, <2>1, <2>3
<1> QED
  BY <1>4, <1>5, <1>6

LEMMA AcceptRecord ==
  ASSUME TypeInv, AcceptInv, NEW w \in Workers, RecordChallenge(w)
  PROVE  AcceptInv'
<1> DEFINE n == Len(challenges) + 1
<1>1. /\ Len(challenges') = n /\ accepted'[n] = 0
      /\ \A k \in 1..Len(challenges) : challenges'[k] = challenges[k] /\ accepted'[k] = accepted[k]
      /\ job'[w] = Idle /\ \A v \in Workers \ {w} : job'[v] = job[v]
  BY Recorded
<1> SUFFICES ASSUME NEW i \in 1..n
             PROVE  /\ accepted'[i] + Cardinality(Accepting(i)') <= Cardinality(Workers)
                    /\ ~challenges'[i].consumed => accepted'[i] = 0
  BY <1>1 DEF AcceptInv
<1>2. Accepting(i)' = Accepting(i) /\ Accepting(i) \subseteq Workers
  BY <1>1 DEF Accepting, Idle, RecordChallenge
<1>3. CASE i = n
  <2>1. Cardinality(Accepting(i)) \in Nat /\ Cardinality(Accepting(i)) <= Cardinality(Workers)
    BY <1>2, Threads
  <2> QED
    BY <1>1, <1>2, <1>3, <2>1
<1>4. CASE i # n
  <2>1. i \in 1..Len(challenges)
    BY <1>4, Basics
  <2> QED
    BY <1>1, <1>2, <2>1 DEF AcceptInv
<1> QED
  BY <1>3, <1>4

LEMMA AcceptStep ==
  ASSUME TypeInv, AcceptInv, [Next]_vars
  PROVE  AcceptInv'
<1>1. CASE Tick \/ UNCHANGED vars
  <2>1. UNCHANGED <<challenges, job, accepted>>
    BY <1>1 DEF Tick, vars, history
  <2> QED
    BY <2>1 DEF AcceptInv, Accepting
<1>2. ASSUME NEW w \in Workers, NEW phone \in Phones, NEW purpose \in Purposes,
             SendBudget(w, phone, purpose) \/ VerifyStart(w, phone, purpose)
      PROVE  AcceptInv'
  <2>1. /\ UNCHANGED <<challenges, accepted>>
        /\ \A v \in Workers \ {w} : job'[v] = job[v]
        /\ job'[w].pc # "verify_consume"
    BY <1>2, Begins, Begin
  <2> QED
    BY <2>1, AcceptKept
<1>3. ASSUME NEW w \in Workers, ProviderAccepts(w) PROVE AcceptInv'
  BY <1>3, Accepts, AcceptKept DEF ProviderAccepts
<1>4. ASSUME NEW w \in Workers, ProviderRejects(w) \/ Crash(w) PROVE AcceptInv'
  BY <1>4, Rests, AcceptKept DEF Idle
<1> QED
  BY <1>1, <1>2, <1>3, <1>4, AcceptRecord, AcceptSelect, AcceptWrite DEF Next, Send, Verify

\* One code satisfies at most as many verifications as there are threads:
\* whoever read its row unconsumed may still mark it, and nobody else.
THEOREM AcceptOverrunAlways == Spec => []AcceptOverrunBounded
<1>1. Init => AcceptInv
  <2> SUFFICES ASSUME Init PROVE AcceptInv
    OBVIOUS
  <2>1. Len(challenges) = 0
    BY EmptySeq DEF Init
  <2> QED
    BY <2>1 DEF AcceptInv
<1>2. TypeInv /\ AcceptInv => AcceptOverrunBounded
  <2> SUFFICES ASSUME TypeInv, AcceptInv, NEW i \in 1..Len(challenges)
               PROVE  accepted[i] <= 1 + Slack
    BY Basics DEF AcceptOverrunBounded
  <2>1. Accepting(i) \subseteq Workers /\ accepted[i] \in Nat
    BY Basics DEF Accepting
  <2>2. Cardinality(Accepting(i)) \in Nat /\ Cardinality(Workers) \in Nat
    BY <2>1, Threads
  <2> QED
    BY <2>1, <2>2 DEF AcceptInv, Slack
<1> QED
  BY <1>1, <1>2, AcceptStep, OtpTyped, PTL DEF Spec
-----------------------------------------------------------------------------
(* The attempts on one challenge.                                          *)

LEMMA GuessNumbers ==
  ASSUME TypeInv, NEW i \in 1..Len(challenges)
  PROVE  /\ compared[i] \in Nat /\ challenges[i].left \in Nat /\ lost \in Nat
         /\ MaxVerify \in Nat /\ MaxVerify > 0
         /\ Cardinality(Workers) \in Nat /\ Slack = Cardinality(Workers) - 1
<1>1. compared[i] \in Nat /\ challenges[i] \in RowT /\ lost \in Nat
  BY Basics
<1>2. challenges[i].left \in Nat
  BY <1>1 DEF RowT
<1>3. Cardinality(Workers) \in Nat
  BY Threads
<1> QED
  BY <1>1, <1>2, <1>3, OtpAssumption DEF Slack

LEMMA OneMoreGuess ==
  ASSUME NEW c \in Nat, NEW left \in Nat, NEW k \in Nat, NEW n \in Nat, NEW o \in Nat,
         c + left <= MaxVerify + k + o, left > 0, k + 1 <= n
  PROVE  /\ c + 1 <= MaxVerify + (n - 1) + o
         /\ c + 1 + left <= MaxVerify + (k + 1) + o
<1>1. MaxVerify \in Nat
  BY OtpAssumption
<1> QED
  BY <1>1

\* A step that compares nothing; one that ends a check without charging it
\* has lost its thread.
LEMMA GuessKept ==
  ASSUME TypeInv, GuessInv, NEW w \in Workers, UNCHANGED <<challenges, compared>>,
         \A v \in Workers \ {w} : job'[v] = job[v],
         lost' \in Nat, lost' >= lost,
         job[w].pc \in {"verify_charge", "verify_consume"} => lost' >= lost + 1
  PROVE  GuessInv'
<1> SUFFICES ASSUME NEW i \in 1..Len(challenges)
             PROVE  /\ compared[i] <= MaxVerify + Slack + lost'
                    /\ ~challenges[i].consumed /\ challenges[i].left > 0 =>
                         compared[i] + challenges[i].left
                           <= MaxVerify + Cardinality(Checking(i)') + lost'
  BY DEF GuessInv
<1>1. /\ compared[i] <= MaxVerify + Slack + lost
      /\ ~challenges[i].consumed /\ challenges[i].left > 0 =>
           compared[i] + challenges[i].left <= MaxVerify + Cardinality(Checking(i)) + lost
  BY DEF GuessInv
<1>2. /\ Checking(i) \subseteq Workers /\ Checking(i)' \subseteq Workers
      /\ Checking(i) \ {w} \subseteq Checking(i)'
  BY DEF Checking
<1>3. /\ Cardinality(Checking(i)) \in Nat /\ Cardinality(Checking(i)') \in Nat
  BY <1>2, Threads
<1>4. Cardinality(Checking(i)) + lost <= Cardinality(Checking(i)') + lost'
  <2>1. CASE w \in Checking(i)
    <3>1. Cardinality(Checking(i) \ {w}) = Cardinality(Checking(i)) - 1
      BY <1>2, <2>1, ThreadLeaves
    <3>2. Cardinality(Checking(i) \ {w}) <= Cardinality(Checking(i)')
      BY <1>2, FewerThreads
    <3>3. lost' >= lost + 1
      BY <2>1 DEF Checking
    <3> QED
      BY <1>3, <3>1, <3>2, <3>3, GuessNumbers
  <2>2. CASE w \notin Checking(i)
    <3>1. Cardinality(Checking(i)) <= Cardinality(Checking(i)')
      BY <1>2, <2>2, FewerThreads
    <3> QED
      BY <1>3, <3>1, GuessNumbers
  <2> QED
    BY <2>1, <2>2
<1>5. /\ compared[i] \in Nat /\ challenges[i].left \in Nat /\ lost \in Nat
      /\ MaxVerify \in Nat /\ Slack \in Int
  BY GuessNumbers
<1>6. compared[i] <= MaxVerify + Slack + lost'
  BY <1>1, <1>5
<1>7. ASSUME ~challenges[i].consumed, challenges[i].left > 0
      PROVE  compared[i] + challenges[i].left <= MaxVerify + Cardinality(Checking(i)') + lost'
  <2>1. compared[i] + challenges[i].left <= MaxVerify + Cardinality(Checking(i)) + lost
    BY <1>1, <1>7
  <2> QED
    BY <1>3, <1>4, <1>5, <2>1
<1> QED
  BY <1>6, <1>7

LEMMA GuessSelect ==
  ASSUME TypeInv, GuessInv, NEW w \in Workers, NEW matches \in BOOLEAN, VerifySelect(w, matches)
  PROVE  GuessInv'
<1>1. UNCHANGED <<challenges, lost>> /\ job[w].pc = "verify_select" /\ lost \in Nat
  BY Basics DEF VerifySelect
<1>2. \A v \in Workers \ {w} : job'[v] = job[v]
  BY Selects
<1>3. CASE compared' = compared
  BY <1>1, <1>2, <1>3, GuessKept
<1>4. CASE compared' # compared
  <2>1. PICK id \in 1..Len(challenges) :
          /\ ~challenges[id].consumed /\ challenges[id].left > 0
          /\ job'[w].pc \in {"verify_charge", "verify_consume"} /\ job'[w].id = id
          /\ compared' = [compared EXCEPT ![id] = @ + 1]
    BY <1>4, Selects
  <2> SUFFICES ASSUME NEW i \in 1..Len(challenges)
               PROVE  /\ compared'[i] <= MaxVerify + Slack + lost
                      /\ ~challenges[i].consumed /\ challenges[i].left > 0 =>
                           compared'[i] + challenges[i].left
                             <= MaxVerify + Cardinality(Checking(i)') + lost
    BY <1>1 DEF GuessInv
  <2>2. /\ compared[i] <= MaxVerify + Slack + lost
        /\ ~challenges[i].consumed /\ challenges[i].left > 0 =>
             compared[i] + challenges[i].left <= MaxVerify + Cardinality(Checking(i)) + lost
    BY DEF GuessInv
  <2>3. CASE i # id
    <3>1. Checking(i)' = Checking(i) /\ compared'[i] = compared[i]
      BY <1>1, <1>2, <2>1, <2>3, Basics DEF Checking
    <3> QED
      BY <2>2, <3>1
  <2>4. CASE i = id
    <3>1. /\ Checking(i)' = Checking(i) \cup {w} /\ w \notin Checking(i)
          /\ Checking(i) \subseteq Workers /\ Checking(i)' \subseteq Workers
      BY <1>1, <1>2, <2>1, <2>4 DEF Checking
    <3>2. compared'[i] = compared[i] + 1
      BY <2>1, <2>4, Basics
    <3>3. Cardinality(Checking(i)') = Cardinality(Checking(i)) + 1
      BY <3>1, ThreadJoins
    <3>4. /\ Cardinality(Checking(i)) \in Nat /\ Cardinality(Workers) \in Nat
          /\ Cardinality(Checking(i)') <= Cardinality(Workers)
      BY <3>1, Threads
    <3>5. compared[i] + challenges[i].left <= MaxVerify + Cardinality(Checking(i)) + lost
          /\ challenges[i].left > 0
      BY <2>1, <2>2, <2>4
    <3>6. /\ compared[i] \in Nat /\ challenges[i].left \in Nat /\ lost \in Nat
          /\ MaxVerify \in Nat /\ Slack = Cardinality(Workers) - 1
      BY GuessNumbers
    <3>7. Cardinality(Checking(i)) + 1 <= Cardinality(Workers)
      BY <3>3, <3>4
    <3>8. /\ compared[i] + 1 <= MaxVerify + Slack + lost
          /\ compared[i] + 1 + challenges[i].left <= MaxVerify + (Cardinality(Checking(i)) + 1) + lost
      BY <3>4, <3>5, <3>6, <3>7, OneMoreGuess
    <3> QED
      BY <3>2, <3>3, <3>8
  <2> QED
    BY <2>3, <2>4
<1> QED
  BY <1>3, <1>4

LEMMA GuessWrite ==
  ASSUME TypeInv, GuessInv, NEW w \in Workers, VerifyCharge(w) \/ VerifyConsume(w)
  PROVE  GuessInv'
<1>1. /\ job[w].id \in 1..Len(challenges) /\ Len(challenges') = Len(challenges)
      /\ job'[w] = Idle /\ \A v \in Workers \ {w} : job'[v] = job[v]
      /\ \A k \in 1..Len(challenges) \ {job[w].id} : challenges'[k] = challenges[k]
  BY Writes
<1>2. UNCHANGED <<compared, lost>>
  BY DEF VerifyCharge, VerifyConsume, history
<1> SUFFICES ASSUME NEW i \in 1..Len(challenges)
             PROVE  /\ compared[i] <= MaxVerify + Slack + lost
                    /\ ~challenges'[i].consumed /\ challenges'[i].left > 0 =>
                         compared[i] + challenges'[i].left
                           <= MaxVerify + Cardinality(Checking(i)') + lost
  BY <1>1, <1>2 DEF GuessInv
<1>3. /\ compared[i] <= MaxVerify + Slack + lost
      /\ ~challenges[i].consumed /\ challenges[i].left > 0 =>
           compared[i] + challenges[i].left <= MaxVerify + Cardinality(Checking(i)) + lost
  BY DEF GuessInv
<1>4. CASE i # job[w].id
  <2>1. Checking(i)' = Checking(i) /\ challenges'[i] = challenges[i]
    BY <1>1, <1>4 DEF Checking, Idle
  <2> QED
    BY <1>3, <2>1
<1>5. CASE i = job[w].id /\ VerifyConsume(w)
  BY <1>3, <1>5, Writes
<1>6. CASE i = job[w].id /\ VerifyCharge(w)
  <2>1. /\ Checking(i)' = Checking(i) \ {w} /\ w \in Checking(i) /\ Checking(i) \subseteq Workers
    BY <1>1, <1>6 DEF Checking, Idle, VerifyCharge
  <2>2. Cardinality(Checking(i)') = Cardinality(Checking(i)) - 1
    BY <2>1, ThreadLeaves
  <2>3. /\ challenges'[i].consumed = challenges[i].consumed
        /\ challenges'[i].left = IF challenges[i].left > 0 THEN challenges[i].left - 1
                                                           ELSE challenges[i].left
    BY <1>6, Writes
  <2>4. /\ Cardinality(Checking(i)) \in Nat /\ MaxVerify \in Nat /\ lost \in Nat
        /\ compared[i] \in Nat /\ challenges[i].left \in Nat
    BY <2>1, Threads, Basics, OtpAssumption DEF RowT
  <2> QED
    BY <1>3, <2>2, <2>3, <2>4
<1> QED
  BY <1>4, <1>5, <1>6

LEMMA GuessRecord ==
  ASSUME TypeInv, GuessInv, NEW w \in Workers, RecordChallenge(w)
  PROVE  GuessInv'
<1> DEFINE n == Len(challenges) + 1
<1>1. /\ Len(challenges') = n /\ compared'[n] = 0
      /\ \A k \in 1..Len(challenges) : challenges'[k] = challenges[k] /\ compared'[k] = compared[k]
      /\ job'[w] = Idle /\ \A v \in Workers \ {w} : job'[v] = job[v]
      /\ challenges'[n] = ChallengeRow(job[w].phone, job[w].purpose, clock,
                                       job[w].now + CodeTTL, MaxVerify)
  BY Recorded
<1>2. lost' = lost /\ job[w].pc = "send_insert"
  BY DEF RecordChallenge
<1> SUFFICES ASSUME NEW i \in 1..n
             PROVE  /\ compared'[i] <= MaxVerify + Slack + lost
                    /\ ~challenges'[i].consumed /\ challenges'[i].left > 0 =>
                         compared'[i] + challenges'[i].left
                           <= MaxVerify + Cardinality(Checking(i)') + lost
  BY <1>1, <1>2 DEF GuessInv
<1>3. Checking(i)' = Checking(i) /\ Checking(i) \subseteq Workers
  BY <1>1, <1>2 DEF Checking, Idle
<1>4. CASE i = n
  <2>1. /\ Cardinality(Checking(i)) \in Nat /\ Cardinality(Workers) \in Nat
        /\ lost \in Nat /\ MaxVerify \in Nat \ {0}
    BY <1>3, Threads, Basics, OtpAssumption
  <2>2. {w} \subseteq Workers /\ Cardinality({w}) = 1
    BY FS_Singleton
  <2>3. Cardinality(Workers) >= 1
    BY <2>2, Threads
  <2> QED
    BY <1>1, <1>3, <1>4, <2>1, <2>3 DEF Slack, ChallengeRow
<1>5. CASE i # n
  <2>1. i \in 1..Len(challenges)
    BY <1>5, Basics
  <2> QED
    BY <1>1, <1>3, <2>1 DEF GuessInv
<1> QED
  BY <1>4, <1>5

LEMMA GuessStep ==
  ASSUME TypeInv, GuessInv, [Next]_vars
  PROVE  GuessInv'
<1>1. CASE Tick \/ UNCHANGED vars
  <2>1. UNCHANGED <<challenges, job, compared, lost>>
    BY <1>1 DEF Tick, vars, history
  <2> QED
    BY <2>1 DEF GuessInv, Checking
<1>2. ASSUME NEW w \in Workers, NEW phone \in Phones, NEW purpose \in Purposes,
             SendBudget(w, phone, purpose) \/ VerifyStart(w, phone, purpose)
      PROVE  GuessInv'
  <2>1. /\ UNCHANGED <<challenges, compared, lost>> /\ job[w].pc = "idle"
        /\ \A v \in Workers \ {w} : job'[v] = job[v]
    BY <1>2, Begins
  <2>2. lost' \in Nat /\ lost' >= lost
    BY <2>1, Basics
  <2> QED
    BY <2>1, <2>2, GuessKept
<1>3. ASSUME NEW w \in Workers, ProviderAccepts(w) PROVE GuessInv'
  <2>1. /\ UNCHANGED <<challenges, compared, lost>> /\ job[w].pc = "send_provider"
        /\ \A v \in Workers \ {w} : job'[v] = job[v]
    BY <1>3, Accepts DEF ProviderAccepts
  <2>2. lost' \in Nat /\ lost' >= lost
    BY <2>1, Basics
  <2> QED
    BY <2>1, <2>2, GuessKept
<1>4. ASSUME NEW w \in Workers, ProviderRejects(w) \/ Crash(w) PROVE GuessInv'
  <2>1. job[w].pc \in {"verify_charge", "verify_consume"} => lost' >= lost + 1
    BY <1>4, Basics DEF ProviderRejects, Crash
  <2> QED
    BY <1>4, <2>1, Rests, GuessKept
<1> QED
  BY <1>1, <1>2, <1>3, <1>4, GuessRecord, GuessSelect, GuessWrite DEF Next, Send, Verify

\* A challenge is guessed at more often than its attempts allow only by
\* threads that had read the row before the last attempt was charged, and by
\* threads that died before they charged theirs.
THEOREM GuessOverrunAlways == Spec => []GuessOverrunBounded
<1>1. Init => GuessInv
  <2> SUFFICES ASSUME Init PROVE GuessInv
    OBVIOUS
  <2>1. Len(challenges) = 0
    BY EmptySeq DEF Init
  <2> QED
    BY <2>1 DEF GuessInv
<1>2. TypeInv /\ GuessInv => GuessOverrunBounded
  BY Basics DEF GuessOverrunBounded, GuessInv
<1> QED
  BY <1>1, <1>2, GuessStep, OtpTyped, PTL DEF Spec
-----------------------------------------------------------------------------
(* The sends of one phone.                                                 *)

\* A step that starts no send and records none.
SendsNothing ==
  /\ Len(challenges') = Len(challenges) /\ clock <= clock'
  /\ \A k \in 1..Len(challenges) :
       /\ challenges'[k].phone = challenges[k].phone
       /\ challenges'[k].purpose = challenges[k].purpose
       /\ challenges'[k].created = challenges[k].created
       /\ challenges'[k].exp = challenges[k].exp
  /\ \A v \in Workers : Flying(v)' =>
       /\ Flying(v)
       /\ job'[v].phone = job[v].phone /\ job'[v].purpose = job[v].purpose
       /\ job'[v].now = job[v].now

LEMMA SendSteps ==
  ASSUME TypeInv, [Next]_vars
  PROVE  \/ SendsNothing
         \/ \E w \in Workers, phone \in Phones, purpose \in Purposes :
              SendBudget(w, phone, purpose)
         \/ \E w \in Workers : RecordChallenge(w)
<1>0. Len(challenges) \in Nat /\ clock \in Nat
  BY Basics
<1>1. CASE Tick \/ UNCHANGED vars
  <2>1. UNCHANGED <<challenges, job>> /\ clock <= clock'
    BY <1>0, <1>1 DEF Tick, vars, history
  <2> QED
    BY <2>1 DEF SendsNothing, Flying
<1>2. ASSUME NEW w \in Workers, NEW phone \in Phones, NEW purpose \in Purposes,
             VerifyStart(w, phone, purpose)
      PROVE  SendsNothing
  <2>1. /\ UNCHANGED <<clock, challenges>>
        /\ job'[w] = Started("verify_select", phone, purpose)
        /\ \A v \in Workers \ {w} : job'[v] = job[v]
    BY <1>2, Begins
  <2> QED
    BY <1>0, <2>1 DEF SendsNothing, Flying, Started
<1>3. ASSUME NEW w \in Workers, ProviderAccepts(w) PROVE SendsNothing
  <2>1. /\ UNCHANGED <<clock, challenges>> /\ job[w].pc = "send_provider"
    BY <1>3 DEF ProviderAccepts
  <2> QED
    BY <1>0, <1>3, <2>1, Accepts DEF SendsNothing, Flying
<1>4. ASSUME NEW w \in Workers, ProviderRejects(w) \/ Crash(w) PROVE SendsNothing
  BY <1>0, <1>4, Rests DEF SendsNothing, Flying, Idle
<1>5. ASSUME NEW w \in Workers, NEW matches \in BOOLEAN, VerifySelect(w, matches)
      PROVE  SendsNothing
  <2>1. UNCHANGED <<clock, challenges>>
    BY <1>5 DEF VerifySelect
  <2>2. ~Flying(w)' /\ \A v \in Workers \ {w} : job'[v] = job[v]
    BY <1>5, Selects DEF Flying, Idle
  <2> QED
    BY <1>0, <2>1, <2>2 DEF SendsNothing, Flying
<1>6. ASSUME NEW w \in Workers, VerifyCharge(w) \/ VerifyConsume(w) PROVE SendsNothing
  <2>1. clock' = clock
    BY <1>6 DEF VerifyCharge, VerifyConsume
  <2> QED
    BY <1>0, <1>6, <2>1, Writes DEF SendsNothing, Flying, Idle
<1> QED
  BY <1>1, <1>2, <1>3, <1>4, <1>5, <1>6 DEF Next, Send, Verify

\* A send starts when the budget allows it, in the one thread.
LEMMA SendStarts ==
  ASSUME TypeInv, NEW w \in Workers, NEW phone \in Phones, NEW purpose \in Purposes,
         SendBudget(w, phone, purpose)
  PROVE  /\ UNCHANGED <<clock, challenges>> /\ ~Flying(w)
         /\ WithinBudget(challenges, phone, purpose, clock, Limits)
         /\ job'[w].phone = phone /\ job'[w].purpose = purpose /\ job'[w].now = clock
         /\ \A v \in Workers \ {w} : job'[v] = job[v]
<1>1. job[w].pc = "idle" /\ UNCHANGED <<clock, challenges>>
      /\ WithinBudget(challenges, phone, purpose, clock, Limits)
  BY DEF SendBudget
<1> QED
  BY <1>1, Begin, Begins DEF Flying

LEMMA RecordJob ==
  ASSUME TypeInv, NEW w \in Workers, RecordChallenge(w)
  PROVE  /\ Flying(w) /\ job[w].pc = "send_insert" /\ job[w].phone \in Phones
         /\ job[w].purpose \in Purposes /\ job[w].now \in Nat /\ job[w].now <= clock
         /\ clock' = clock /\ UNCHANGED <<delivered, lost>>
BY Basics DEF RecordChallenge, JobOK, Flying, Job

\* A row more, or not, among the rows that are counted.
LEMMA CountOneMore ==
  ASSUME NEW n \in Nat, NEW S \in SUBSET (1..n), NEW T \in SUBSET (1..n+1),
         \A k \in 1..n : k \in S <=> k \in T
  PROVE  Cardinality(T) = IF n + 1 \in T THEN Cardinality(S) + 1 ELSE Cardinality(S)
<1>1. \A k \in T : k \in S \/ k = n + 1
  <2>1. \A k \in 1..n+1 : k \in 1..n \/ k = n + 1
    OBVIOUS
  <2> QED
    BY <2>1
<1>2. \A k \in S : k \in T
  OBVIOUS
<1>3. CASE n + 1 \in T
  <2>1. T = S \cup {n + 1}
    BY <1>1, <1>2, <1>3, Zenon
  <2> QED
    BY <1>3, <2>1, OneMoreRow
<1>4. CASE n + 1 \notin T
  <2>1. T = S
    BY <1>1, <1>2, <1>4, Zenon
  <2> QED
    BY <1>4, <2>1
<1> QED
  BY <1>3, <1>4

LEMMA CooldownStep ==
  ASSUME TypeInv, CooldownInv, [Next]_vars
  PROVE  CooldownInv'
<1>0. TypeInv'
  BY TypeStep
<1>1. /\ Len(challenges) \in Nat /\ DOMAIN challenges = 1..Len(challenges)
      /\ DOMAIN challenges' = 1..Len(challenges') /\ clock \in Nat
      /\ Cooldown \in Nat /\ CodeTTL \in Nat
  <2>1. DOMAIN challenges' = 1..Len(challenges')
    BY <1>0, Basics
  <2> QED
    BY <2>1, Basics, OtpAssumption
<1>2. \A i, j \in 1..Len(challenges) :
        (i < j /\ challenges[i].phone = challenges[j].phone
               /\ challenges[i].purpose = challenges[j].purpose
               /\ challenges[j].created - challenges[i].created < Cooldown)
          => challenges[i].created >= challenges[j].exp - CodeTTL
  BY <1>1 DEF CooldownInv, CooldownOnlyByOverlap
<1>3. CASE SendsNothing
  <2>1. CooldownOnlyByOverlap'
    BY <1>1, <1>2, <1>3 DEF SendsNothing, CooldownOnlyByOverlap
  <2>2. Cooled'
    BY <1>3 DEF SendsNothing, CooldownInv, Cooled
  <2> QED
    BY <2>1, <2>2 DEF CooldownInv
<1>4. ASSUME NEW w \in Workers, NEW phone \in Phones, NEW purpose \in Purposes,
             SendBudget(w, phone, purpose)
      PROVE  CooldownInv'
  <2>1. /\ UNCHANGED <<clock, challenges>> /\ job'[w].phone = phone
        /\ job'[w].purpose = purpose /\ job'[w].now = clock
        /\ \A v \in Workers \ {w} : job'[v] = job[v]
    BY <1>4, SendStarts
  <2>2. CooldownOnlyByOverlap'
    BY <2>1 DEF CooldownInv, CooldownOnlyByOverlap
  <2> DEFINE last == LastSend(challenges, phone, purpose)
  <2>3. last # 0 => clock - challenges[last].created >= Cooldown
    BY <1>4, SendStarts DEF WithinBudget, Limits
  <2>4. ASSUME NEW i \in 1..Len(challenges), challenges[i].phone = phone,
               challenges[i].purpose = purpose
        PROVE  clock - challenges[i].created >= Cooldown
    <3>1. last \in 1..Len(challenges) /\ i <= last
      <4>1. last \in 0..Len(challenges) /\ i <= last
        BY <2>4, Basics, LastSendIsNewest
      <4> QED
        BY <1>1, <4>1
    <3>2. challenges[i].created <= challenges[last].created
      BY <3>1 DEF TypeInv, Ordered
    <3>3. challenges[i].created \in Nat /\ challenges[last].created \in Nat
      BY <3>1, Basics DEF RowT
    <3> HIDE DEF last
    <3> QED
      BY <1>1, <2>3, <3>1, <3>2, <3>3
  <2>5. Cooled'
    <3> SUFFICES ASSUME NEW v \in Workers, Flying(v)', NEW i \in 1..Len(challenges),
                        challenges[i].phone = job'[v].phone,
                        challenges[i].purpose = job'[v].purpose
                 PROVE  \/ challenges[i].created >= job'[v].now
                        \/ job'[v].now - challenges[i].created >= Cooldown
      BY <2>1 DEF Cooled
    <3>1. CASE v = w
      BY <2>1, <2>4, <3>1
    <3>2. CASE v # w
      BY <2>1, <3>2 DEF CooldownInv, Cooled, Flying
    <3> QED
      BY <3>1, <3>2
  <2> QED
    BY <2>2, <2>5 DEF CooldownInv
<1>5. ASSUME NEW w \in Workers, RecordChallenge(w) PROVE CooldownInv'
  <2> DEFINE n == Len(challenges) + 1
  <2>1. /\ Len(challenges') = n
        /\ challenges'[n] = ChallengeRow(job[w].phone, job[w].purpose, clock,
                                         job[w].now + CodeTTL, MaxVerify)
        /\ \A k \in 1..Len(challenges) : challenges'[k] = challenges[k]
        /\ job'[w] = Idle /\ \A v \in Workers \ {w} : job'[v] = job[v]
    BY <1>5, Recorded
  <2>2. /\ challenges'[n].phone = job[w].phone /\ challenges'[n].purpose = job[w].purpose
        /\ challenges'[n].created = clock /\ challenges'[n].exp = job[w].now + CodeTTL
    BY <2>1 DEF ChallengeRow
  <2>3. Flying(w) /\ job[w].now \in Nat /\ job[w].now <= clock /\ clock' = clock
    BY <1>5, RecordJob
  <2>4. \A k \in 1..n : k # n => k \in 1..Len(challenges)
    BY <1>1
  <2>5. CooldownOnlyByOverlap'
    <3> SUFFICES ASSUME NEW i \in 1..n, NEW j \in 1..n, i < j,
                        challenges'[i].phone = challenges'[j].phone,
                        challenges'[i].purpose = challenges'[j].purpose,
                        challenges'[j].created - challenges'[i].created < Cooldown
                 PROVE  challenges'[i].created >= challenges'[j].exp - CodeTTL
      BY <1>1, <2>1 DEF CooldownOnlyByOverlap
    <3>1. i \in 1..Len(challenges) /\ challenges'[i] = challenges[i]
      BY <1>1, <2>1
    <3>2. CASE j = n
      <4>1. challenges[i].created \in Nat
        BY <3>1, Basics DEF RowT
      <4>2. \/ challenges[i].created >= job[w].now
            \/ job[w].now - challenges[i].created >= Cooldown
        BY <2>2, <2>3, <3>1, <3>2 DEF CooldownInv, Cooled
      <4>3. clock - challenges[i].created < Cooldown
        BY <2>2, <3>1, <3>2
      <4>4. challenges[i].created >= job[w].now
        BY <1>1, <2>3, <4>1, <4>2, <4>3
      <4>5. (job[w].now + CodeTTL) - CodeTTL = job[w].now
        BY <1>1, <2>3
      <4> QED
        BY <2>2, <3>1, <3>2, <4>4, <4>5
    <3>3. CASE j # n
      BY <1>2, <2>1, <2>4, <3>1, <3>3
    <3> QED
      BY <3>2, <3>3
  <2>6. Cooled'
    <3> SUFFICES ASSUME NEW v \in Workers, Flying(v)', NEW i \in 1..n,
                        challenges'[i].phone = job'[v].phone,
                        challenges'[i].purpose = job'[v].purpose
                 PROVE  \/ challenges'[i].created >= job'[v].now
                        \/ job'[v].now - challenges'[i].created >= Cooldown
      BY <2>1 DEF Cooled
    <3>1. v # w /\ job'[v] = job[v] /\ Flying(v)
      BY <2>1 DEF Flying, Idle
    <3>2. CASE i = n
      BY <2>2, <3>1, <3>2, Basics DEF JobOK
    <3>3. CASE i # n
      BY <2>1, <2>4, <3>1, <3>3 DEF CooldownInv, Cooled
    <3> QED
      BY <3>2, <3>3
  <2> QED
    BY <2>5, <2>6 DEF CooldownInv
<1> QED
  BY <1>3, <1>4, <1>5, SendSteps

\* Two codes go to one phone and purpose closer than the cooldown only when
\* the handlers overlapped: the second had read the clock before the first's
\* row was written.
THEOREM CooldownOverlapAlways == Spec => []CooldownOnlyByOverlap
<1>1. Init => CooldownInv
  <2> SUFFICES ASSUME Init PROVE CooldownInv
    OBVIOUS
  <2>1. Len(challenges) = 0 /\ DOMAIN challenges = {}
    BY EmptySeq DEF Init
  <2>2. \A w \in Workers : ~Flying(w)
    BY DEF Init, Idle, Flying
  <2> QED
    BY <2>1, <2>2 DEF CooldownInv, CooldownOnlyByOverlap, Cooled
<1>2. CooldownInv => CooldownOnlyByOverlap
  BY DEF CooldownInv
<1> QED
  BY <1>1, <1>2, CooldownStep, OtpTyped, PTL DEF Spec
-----------------------------------------------------------------------------
(* The hour's cap.                                                         *)

LEMMA HourSets ==
  ASSUME TypeInv, NEW phone, NEW t
  PROVE  /\ Rows(phone, t) \subseteq 1..Len(challenges) /\ Coming(phone, t) \subseteq Workers
         /\ Cardinality(Rows(phone, t)) \in Nat /\ Cardinality(Coming(phone, t)) \in Nat
<1>1. Rows(phone, t) \subseteq 1..Len(challenges) /\ Coming(phone, t) \subseteq Workers
  BY DEF Rows, Coming
<1> QED
  BY <1>1, Basics, SomeRows, Threads

\* No more rows and no more threads than before.
LEMMA HourKept ==
  ASSUME TypeInv, NEW phone, NEW t, HourOK(phone, t),
         Rows(phone, t)' = Rows(phone, t), Coming(phone, t)' \subseteq Coming(phone, t)
  PROVE  HourOK(phone, t)'
<1>1. Cardinality(Coming(phone, t)') <= Cardinality(Coming(phone, t))
      /\ Cardinality(Coming(phone, t)') \in Nat
  BY HourSets, FewerThreads
<1>2. Cardinality(Rows(phone, t)) \in Nat /\ Cardinality(Coming(phone, t)) \in Nat
  BY HourSets
<1>3. HourlyCap \in Nat /\ Slack \in Int
  BY Threads, OtpAssumption DEF Slack
<1>4. CASE Rows(phone, t) = {} /\ Coming(phone, t) = {}
  BY <1>4 DEF HourOK
<1>5. CASE Cardinality(Rows(phone, t)) + Cardinality(Coming(phone, t)) <= HourlyCap + Slack
  <2>1. Cardinality(Rows(phone, t)) + Cardinality(Coming(phone, t)') <= HourlyCap + Slack
    BY <1>1, <1>2, <1>3, <1>5
  <2> QED
    BY <2>1 DEF HourOK
<1> QED
  BY <1>4, <1>5 DEF HourOK

\* The cap was read over a window that holds the rows of every hour the send
\* may fall into.
LEMMA HourBudget ==
  ASSUME TypeInv, NEW phone, NEW purpose, NEW t \in Nat, clock <= t + Hour,
         WithinBudget(challenges, phone, purpose, clock, Limits)
  PROVE  Cardinality(Rows(phone, t)) + 1 <= HourlyCap
<1> DEFINE since == clock - Hour
           counted == {i \in DOMAIN challenges :
                         challenges[i].phone = phone /\ challenges[i].created >= since}
<1>1. Cardinality(counted) < HourlyCap
  BY DEF WithinBudget, Limits, CountSince
<1>2. Hour \in Nat /\ HourlyCap \in Nat /\ clock \in Nat /\ t >= since
  BY Basics, OtpAssumption
<1>3. DOMAIN challenges = 1..Len(challenges) /\ Len(challenges) \in Nat
  BY Basics
<1>4. Rows(phone, t) \subseteq counted
  <2> SUFFICES ASSUME NEW i \in Rows(phone, t) PROVE i \in counted
    OBVIOUS
  <2>1. i \in 1..Len(challenges) /\ challenges[i].phone = phone
        /\ challenges[i].created \in t .. t + Hour
    BY DEF Rows
  <2>2. challenges[i].created \in Nat
    BY <2>1, Basics DEF RowT
  <2>3. challenges[i].created >= since
    BY <1>2, <2>1, <2>2
  <2> QED
    BY <1>3, <2>1, <2>3
<1>5. counted \subseteq 1..Len(challenges)
  BY <1>3
<1> HIDE DEF counted, since
<1>6. /\ Cardinality(Rows(phone, t)) <= Cardinality(counted)
      /\ Cardinality(Rows(phone, t)) \in Nat /\ Cardinality(counted) \in Nat
  BY <1>3, <1>4, <1>5, FewerRows, SomeRows
<1> QED
  BY <1>1, <1>2, <1>6

LEMMA SendHourStep ==
  ASSUME TypeInv, SendInv, [Next]_vars
  PROVE  SendInv'
<1> SUFFICES ASSUME NEW phone \in Phones, NEW t \in Nat
             PROVE  HourOK(phone, t)'
  BY DEF SendInv
<1>1. HourOK(phone, t)
  BY DEF SendInv
<1>2. Hour \in Nat /\ HourlyCap \in Nat /\ clock \in Nat /\ Len(challenges) \in Nat
      /\ Cardinality(Workers) \in Nat
  BY Basics, Threads, OtpAssumption
<1>3. CASE SendsNothing
  <2>1. Rows(phone, t)' = Rows(phone, t)
    BY <1>3 DEF SendsNothing, Rows
  <2>2. Coming(phone, t)' \subseteq Coming(phone, t)
    BY <1>3 DEF SendsNothing, Coming
  <2> QED
    BY <1>1, <2>1, <2>2, HourKept
<1>4. ASSUME NEW w \in Workers, NEW to \in Phones, NEW purpose \in Purposes,
             SendBudget(w, to, purpose)
      PROVE  HourOK(phone, t)'
  <2>1. /\ UNCHANGED <<clock, challenges>> /\ ~Flying(w)
        /\ WithinBudget(challenges, to, purpose, clock, Limits)
        /\ job'[w].phone = to /\ job'[w].now = clock
        /\ \A v \in Workers \ {w} : job'[v] = job[v]
    BY <1>4, SendStarts
  <2>2. Rows(phone, t)' = Rows(phone, t)
    BY <2>1 DEF Rows
  <2>3. CASE to = phone /\ clock <= t + Hour
    <3>1. Cardinality(Rows(phone, t)) + 1 <= HourlyCap
      BY <2>1, <2>3, HourBudget
    <3>2. Coming(phone, t)' \subseteq Workers
      BY DEF Coming
    <3>3. Cardinality(Coming(phone, t)') \in Nat
          /\ Cardinality(Coming(phone, t)') <= Cardinality(Workers)
      BY <3>2, Threads
    <3>4. Cardinality(Rows(phone, t)) \in Nat
      BY HourSets
    <3>5. Cardinality(Rows(phone, t)) + Cardinality(Coming(phone, t)') <= HourlyCap + Slack
      BY <1>2, <3>1, <3>3, <3>4 DEF Slack
    <3> QED
      BY <2>2, <3>5 DEF HourOK
  <2>4. CASE ~(to = phone /\ clock <= t + Hour)
    <3>1. Coming(phone, t)' \subseteq Coming(phone, t)
      BY <2>1, <2>4 DEF Coming, Flying
    <3> QED
      BY <1>1, <2>2, <3>1, HourKept
  <2> QED
    BY <2>3, <2>4
<1>5. ASSUME NEW w \in Workers, RecordChallenge(w) PROVE HourOK(phone, t)'
  <2> DEFINE n == Len(challenges) + 1
  <2>1. /\ Len(challenges') = n
        /\ challenges'[n] = ChallengeRow(job[w].phone, job[w].purpose, clock,
                                         job[w].now + CodeTTL, MaxVerify)
        /\ \A k \in 1..Len(challenges) : challenges'[k] = challenges[k]
        /\ job'[w] = Idle /\ \A v \in Workers \ {w} : job'[v] = job[v]
    BY <1>5, Recorded
  <2>2. challenges'[n].phone = job[w].phone /\ challenges'[n].created = clock
    BY <2>1 DEF ChallengeRow
  <2>3. Flying(w) /\ job[w].now \in Nat /\ job[w].now <= clock
    BY <1>5, RecordJob
  <2>4. Coming(phone, t)' \subseteq Coming(phone, t) \ {w}
    BY <2>1 DEF Coming, Flying, Idle
  <2>5. /\ Rows(phone, t) \subseteq 1..Len(challenges)
        /\ Rows(phone, t)' \subseteq 1..Len(challenges)+1
        /\ \A k \in 1..Len(challenges) : k \in Rows(phone, t) <=> k \in Rows(phone, t)'
    BY <1>2, <2>1 DEF Rows
  <2>6. CASE n \in Rows(phone, t)'
    <3>1. w \in Coming(phone, t)
      BY <1>2, <2>2, <2>3, <2>6 DEF Rows, Coming
    <3>2. Coming(phone, t)' \subseteq Coming(phone, t) \ {w}
          /\ Cardinality(Coming(phone, t) \ {w}) = Cardinality(Coming(phone, t)) - 1
      BY <2>4, <3>1, HourSets, ThreadLeaves
    <3>3. Cardinality(Coming(phone, t)') <= Cardinality(Coming(phone, t)) - 1
          /\ Cardinality(Coming(phone, t)') \in Nat
      <4>1. Coming(phone, t) \ {w} \subseteq Workers
        BY DEF Coming
      <4> QED
        BY <3>2, <4>1, FewerThreads
    <3>4. Cardinality(Rows(phone, t)') = Cardinality(Rows(phone, t)) + 1
      BY <1>2, <2>5, <2>6, CountOneMore
    <3>5. Cardinality(Rows(phone, t)) + Cardinality(Coming(phone, t)) <= HourlyCap + Slack
      BY <1>1, <3>1 DEF HourOK
    <3>6. Cardinality(Rows(phone, t)) \in Nat /\ Cardinality(Coming(phone, t)) \in Nat
          /\ Slack \in Int
      BY <1>2, HourSets DEF Slack
    <3>7. Cardinality(Rows(phone, t)') + Cardinality(Coming(phone, t)') <= HourlyCap + Slack
      BY <1>2, <3>3, <3>4, <3>5, <3>6
    <3> QED
      BY <3>7 DEF HourOK
  <2>7. CASE n \notin Rows(phone, t)'
    <3>1. \A k \in Rows(phone, t)' : k \in 1..Len(challenges)
      <4>1. \A k \in 1..n : k = n \/ k \in 1..Len(challenges)
        BY <1>2
      <4> QED
        BY <2>5, <2>7, <4>1
    <3>2. Rows(phone, t)' = Rows(phone, t)
      BY <2>5, <3>1
    <3> QED
      BY <1>1, <2>4, <3>2, HourKept
  <2> QED
    BY <2>6, <2>7
<1> QED
  BY <1>3, <1>4, <1>5, SendSteps

\* A phone is sent more messages in an hour than the cap allows only by
\* threads that read the table before the others had written: one message for
\* each thread but one.
THEOREM SendOverrunAlways == Spec => []SendOverrunBounded
<1>1. Init => SendInv
  <2> SUFFICES ASSUME Init PROVE SendInv
    OBVIOUS
  <2>1. Len(challenges) = 0
    BY EmptySeq DEF Init
  <2>2. \A w \in Workers : ~Flying(w)
    BY DEF Init, Idle, Flying
  <2>3. \A phone \in Phones, t \in Nat : Rows(phone, t) = {} /\ Coming(phone, t) = {}
    BY <2>1, <2>2 DEF Rows, Coming
  <2> QED
    BY <2>3 DEF SendInv, HourOK
<1>2. TypeInv /\ SendInv => SendOverrunBounded
  <2> SUFFICES ASSUME TypeInv, SendInv, NEW i \in 1..Len(challenges)
               PROVE  SendsInWindow(i, Hour) <= HourlyCap + Slack
    BY Basics DEF SendOverrunBounded
  <2> DEFINE phone == challenges[i].phone
             t == challenges[i].created
  <2>1. phone \in Phones /\ t \in Nat /\ Hour \in Nat /\ HourlyCap \in Nat
    BY Basics, OtpAssumption DEF RowT
  <2>2. SendsInWindow(i, Hour) = Cardinality(Rows(phone, t))
    BY Basics DEF SendsInWindow, Rows
  <2>3. i \in Rows(phone, t)
    BY <2>1 DEF Rows
  <2>4. Cardinality(Rows(phone, t)) \in Nat /\ Cardinality(Coming(phone, t)) \in Nat
    BY HourSets
  <2>5. Slack \in Int
    BY Threads DEF Slack
  <2>6. HourOK(phone, t)
    BY <2>1 DEF SendInv
  <2> HIDE DEF phone, t
  <2>7. Cardinality(Rows(phone, t)) + Cardinality(Coming(phone, t)) <= HourlyCap + Slack
    BY <2>3, <2>6 DEF HourOK
  <2> QED
    BY <2>1, <2>2, <2>4, <2>5, <2>7
<1> QED
  BY <1>1, <1>2, SendHourStep, OtpTyped, PTL DEF Spec
-----------------------------------------------------------------------------
(* Only what the provider took is charged.                                 *)

Counted(phone) ==
  {i \in 1..Len(challenges) : challenges[i].phone = phone /\ challenges[i].created >= 0}

LEMMA CountSinceZero ==
  ASSUME TypeInv, NEW phone
  PROVE  CountSince(challenges, phone, 0) = Cardinality(Counted(phone))
         /\ Counted(phone) \subseteq 1..Len(challenges)
         /\ Cardinality(Counted(phone)) \in Nat
<1>1. CountSince(challenges, phone, 0) = Cardinality(Counted(phone))
  BY Basics DEF CountSince, Counted
<1>2. Counted(phone) \subseteq 1..Len(challenges)
  BY DEF Counted
<1> QED
  BY <1>1, <1>2, Basics, SomeRows

LEMMA PaidNumbers ==
  ASSUME TypeInv, NEW phone \in Phones
  PROVE  /\ Cardinality(Counted(phone)) \in Nat /\ delivered[phone] \in Nat
         /\ Recording(phone) \subseteq Workers /\ Cardinality(Recording(phone)) \in Nat
<1>1. Recording(phone) \subseteq Workers
  BY DEF Recording
<1> QED
  BY <1>1, CountSinceZero, Threads, Basics

\* The provider took a message for every row and for every INSERT to come.
Paid(phone) ==
  Cardinality(Counted(phone)) + Cardinality(Recording(phone)) <= delivered[phone]

\* A step that neither pays nor records.
LEMMA PaidKept ==
  ASSUME TypeInv, NEW phone \in Phones, Paid(phone),
         Counted(phone)' = Counted(phone), Recording(phone)' \subseteq Recording(phone),
         delivered' = delivered
  PROVE  Paid(phone)'
<1>1. Cardinality(Recording(phone)') <= Cardinality(Recording(phone))
      /\ Cardinality(Recording(phone)') \in Nat
  BY PaidNumbers, FewerThreads
<1>2. /\ Cardinality(Counted(phone)) \in Nat /\ delivered[phone] \in Nat
      /\ Cardinality(Recording(phone)) \in Nat
  BY PaidNumbers
<1>3. Cardinality(Counted(phone)) + Cardinality(Recording(phone)) <= delivered[phone]
  BY DEF Paid
<1>4. Cardinality(Counted(phone)) + Cardinality(Recording(phone)') <= delivered[phone]
  BY <1>1, <1>2, <1>3
<1> QED
  BY <1>4 DEF Paid

\* What a step that is neither of the two does to the rows and the threads.
LEMMA PaysNothing ==
  ASSUME TypeInv, [Next]_vars, NEW phone \in Phones,
         \A w \in Workers : ~ProviderAccepts(w) /\ ~RecordChallenge(w)
  PROVE  /\ Recording(phone)' \subseteq Recording(phone) /\ delivered' = delivered
         /\ Counted(phone)' = Counted(phone)
<1>1. CASE Tick \/ UNCHANGED vars
  <2>1. UNCHANGED <<challenges, job, delivered>>
    BY <1>1 DEF Tick, vars, history
  <2> QED
    BY <2>1 DEF Recording, Counted
<1>2. ASSUME NEW w \in Workers, NEW to \in Phones, NEW purpose \in Purposes,
             SendBudget(w, to, purpose) \/ VerifyStart(w, to, purpose)
      PROVE  /\ Recording(phone)' \subseteq Recording(phone) /\ delivered' = delivered
             /\ Counted(phone)' = Counted(phone)
  <2>1. /\ UNCHANGED <<challenges, delivered>> /\ job'[w].pc # "send_insert"
        /\ \A v \in Workers \ {w} : job'[v] = job[v]
    BY <1>2, Begin, Begins
  <2> QED
    BY <2>1 DEF Recording, Counted
<1>3. ASSUME NEW w \in Workers, ProviderRejects(w) \/ Crash(w)
      PROVE  /\ Recording(phone)' \subseteq Recording(phone) /\ delivered' = delivered
             /\ Counted(phone)' = Counted(phone)
  BY <1>3, Rests DEF Recording, Counted, Idle
<1>4. ASSUME NEW w \in Workers, NEW matches \in BOOLEAN, VerifySelect(w, matches)
      PROVE  /\ Recording(phone)' \subseteq Recording(phone) /\ delivered' = delivered
             /\ Counted(phone)' = Counted(phone)
  <2>1. UNCHANGED <<challenges, delivered>>
    BY <1>4 DEF VerifySelect
  <2>2. job'[w].pc # "send_insert" /\ \A v \in Workers \ {w} : job'[v] = job[v]
    BY <1>4, Selects DEF Idle
  <2> QED
    BY <2>1, <2>2 DEF Recording, Counted
<1>5. ASSUME NEW w \in Workers, VerifyCharge(w) \/ VerifyConsume(w)
      PROVE  /\ Recording(phone)' \subseteq Recording(phone) /\ delivered' = delivered
             /\ Counted(phone)' = Counted(phone)
  <2>1. delivered' = delivered
    BY <1>5 DEF VerifyCharge, VerifyConsume, history
  <2>2. /\ Len(challenges') = Len(challenges)
        /\ \A k \in 1..Len(challenges) :
             /\ challenges'[k].phone = challenges[k].phone
             /\ challenges'[k].created = challenges[k].created
        /\ job'[w] = Idle /\ \A v \in Workers \ {w} : job'[v] = job[v]
    BY <1>5, Writes
  <2>3. Counted(phone)' = Counted(phone)
    BY <2>2 DEF Counted
  <2> QED
    BY <2>1, <2>2, <2>3 DEF Recording, Idle
<1> QED
  BY <1>1, <1>2, <1>3, <1>4, <1>5 DEF Next, Send, Verify

LEMMA PaidAccept ==
  ASSUME TypeInv, NEW phone \in Phones, Paid(phone), NEW w \in Workers, ProviderAccepts(w)
  PROVE  Paid(phone)'
<1>1. /\ challenges' = challenges /\ job[w].pc = "send_provider" /\ job[w].phone \in Phones
      /\ delivered' = [delivered EXCEPT ![job[w].phone] = @ + 1]
  BY Basics DEF ProviderAccepts, JobOK
<1>2. /\ job'[w].pc = "send_insert" /\ job'[w].phone = job[w].phone
      /\ \A v \in Workers \ {w} : job'[v] = job[v]
  BY Accepts
<1>3. Counted(phone)' = Counted(phone)
  BY <1>1 DEF Counted
<1>4. CASE phone # job[w].phone
  <2>1. Recording(phone)' = Recording(phone) /\ delivered'[phone] = delivered[phone]
    BY <1>1, <1>2, <1>4, Basics DEF Recording
  <2> QED
    BY <1>3, <2>1 DEF Paid
<1>5. CASE phone = job[w].phone
  <2>1. /\ Recording(phone)' = Recording(phone) \cup {w} /\ w \notin Recording(phone)
        /\ delivered'[phone] = delivered[phone] + 1
    BY <1>1, <1>2, <1>5, Basics DEF Recording
  <2>2. Cardinality(Recording(phone)') = Cardinality(Recording(phone)) + 1
    BY <2>1, PaidNumbers, ThreadJoins
  <2>3. /\ Cardinality(Counted(phone)) \in Nat /\ delivered[phone] \in Nat
        /\ Cardinality(Recording(phone)) \in Nat
    BY PaidNumbers
  <2>4. Cardinality(Counted(phone)) + Cardinality(Recording(phone)) <= delivered[phone]
    BY DEF Paid
  <2>5. Cardinality(Counted(phone)) + (Cardinality(Recording(phone)) + 1) <= delivered[phone] + 1
    BY <2>3, <2>4
  <2> QED
    BY <1>3, <2>1, <2>2, <2>5 DEF Paid
<1> QED
  BY <1>4, <1>5

LEMMA PaidRecord ==
  ASSUME TypeInv, NEW phone \in Phones, Paid(phone), NEW w \in Workers, RecordChallenge(w)
  PROVE  Paid(phone)'
<1> DEFINE n == Len(challenges) + 1
<1>1. /\ Len(challenges') = n
      /\ challenges'[n] = ChallengeRow(job[w].phone, job[w].purpose, clock,
                                       job[w].now + CodeTTL, MaxVerify)
      /\ \A k \in 1..Len(challenges) : challenges'[k] = challenges[k]
      /\ job'[w] = Idle /\ \A v \in Workers \ {w} : job'[v] = job[v]
  BY Recorded
<1>2. challenges'[n].phone = job[w].phone
  BY <1>1 DEF ChallengeRow
<1>3. job[w].pc = "send_insert" /\ delivered' = delivered /\ Len(challenges) \in Nat
  BY RecordJob, Basics
<1>4. /\ Counted(phone) \subseteq 1..Len(challenges)
      /\ Counted(phone)' \subseteq 1..Len(challenges)+1
      /\ \A k \in 1..Len(challenges) : k \in Counted(phone) <=> k \in Counted(phone)'
  BY <1>1, <1>3 DEF Counted
<1>5. Cardinality(Counted(phone)') = IF n \in Counted(phone)' THEN Cardinality(Counted(phone)) + 1
                                                              ELSE Cardinality(Counted(phone))
  BY <1>3, <1>4, CountOneMore
<1>6. /\ Cardinality(Counted(phone)) \in Nat /\ delivered[phone] \in Nat
      /\ Recording(phone) \subseteq Workers /\ Cardinality(Recording(phone)) \in Nat
  BY PaidNumbers
<1>7. Cardinality(Counted(phone)) + Cardinality(Recording(phone)) <= delivered[phone]
  BY DEF Paid
<1>8. CASE phone # job[w].phone
  <2>1. n \notin Counted(phone)' /\ Recording(phone)' = Recording(phone)
    BY <1>1, <1>2, <1>8 DEF Counted, Recording, Idle
  <2> QED
    BY <1>3, <1>5, <1>7, <2>1 DEF Paid
<1>9. CASE phone = job[w].phone
  <2>1. w \in Recording(phone) /\ Recording(phone)' = Recording(phone) \ {w}
    BY <1>1, <1>3, <1>9 DEF Recording, Idle
  <2>2. Cardinality(Recording(phone)') = Cardinality(Recording(phone)) - 1
    BY <1>6, <2>1, ThreadLeaves
  <2>3. (Cardinality(Counted(phone)) + 1) + (Cardinality(Recording(phone)) - 1) <= delivered[phone]
        /\ Cardinality(Counted(phone)) + (Cardinality(Recording(phone)) - 1) <= delivered[phone]
    BY <1>6, <1>7
  <2> QED
    BY <1>3, <1>5, <2>2, <2>3 DEF Paid
<1> QED
  BY <1>8, <1>9

LEMMA PaidStep ==
  ASSUME TypeInv, \A phone \in Phones : Paid(phone), [Next]_vars
  PROVE  \A phone \in Phones : Paid(phone)'
<1> SUFFICES ASSUME NEW phone \in Phones PROVE Paid(phone)'
  OBVIOUS
<1>1. Paid(phone)
  OBVIOUS
<1>2. CASE \A w \in Workers : ~ProviderAccepts(w) /\ ~RecordChallenge(w)
  BY <1>1, <1>2, PaysNothing, PaidKept
<1> QED
  BY <1>1, <1>2, PaidAccept, PaidRecord

\* The budget of a phone is charged with messages the provider took, and with
\* no other: those about to be recorded are counted with those that are.
THEOREM ChargedAlways == Spec => []ChargedOnlyIfDelivered
<1> DEFINE AllPaid == \A phone \in Phones : Paid(phone)
<1>1. Init => AllPaid
  <2> SUFFICES ASSUME Init, NEW phone \in Phones PROVE Paid(phone)
    OBVIOUS
  <2>1. Len(challenges) = 0
    BY EmptySeq DEF Init
  <2>2. Counted(phone) = {} /\ Recording(phone) = {} /\ delivered[phone] = 0
    BY <2>1 DEF Init, Counted, Recording, Idle
  <2>3. Cardinality({}) = 0
    BY FS_EmptySet
  <2> QED
    BY <2>2, <2>3 DEF Paid
<1>2. TypeInv /\ AllPaid /\ [Next]_vars => AllPaid'
  BY PaidStep
<1>3. TypeInv /\ AllPaid => ChargedOnlyIfDelivered
  <2> SUFFICES ASSUME TypeInv, NEW phone \in Phones, Paid(phone)
               PROVE  CountSince(challenges, phone, 0) <= delivered[phone]
    BY DEF ChargedOnlyIfDelivered
  <2>1. /\ Cardinality(Counted(phone)) \in Nat /\ delivered[phone] \in Nat
        /\ Cardinality(Recording(phone)) \in Nat
    BY PaidNumbers
  <2>2. Cardinality(Counted(phone)) + Cardinality(Recording(phone)) <= delivered[phone]
    BY DEF Paid
  <2> QED
    BY <2>1, <2>2, CountSinceZero
<1> HIDE DEF AllPaid
<1> QED
  BY <1>1, <1>2, <1>3, OtpTyped, PTL DEF Spec
-----------------------------------------------------------------------------
(* Which challenge a code is compared with.                                *)

\* The newest active row is the newest row: created_at follows the order of
\* the table.
LEMMA ActiveIsLastSend ==
  ASSUME TypeInv, NEW phone, NEW purpose, NEW now \in Nat,
         NEW i \in 1..Len(challenges), i = LatestActive(challenges, phone, purpose, now, Hour)
  PROVE  /\ challenges[i].phone = phone /\ challenges[i].purpose = purpose
         /\ i = LastSend(challenges, phone, purpose)
<1> DEFINE last == LastSend(challenges, phone, purpose)
<1>1. challenges \in Seq(RowT) /\ Len(challenges) \in Nat /\ Hour \in Nat /\ i # 0
  BY Basics, OtpAssumption
<1>2. /\ challenges[i].phone = phone /\ challenges[i].purpose = purpose
      /\ challenges[i].created > now - Hour
      /\ \A k \in 1..Len(challenges) :
           challenges[k].phone = phone /\ challenges[k].purpose = purpose
             /\ challenges[k].created > now - Hour => k <= i
  BY <1>1, LatestActiveIsNewest
<1>3. /\ last \in 0..Len(challenges) /\ i <= last
      /\ last # 0 => challenges[last].phone = phone /\ challenges[last].purpose = purpose
  BY <1>1, <1>2, LastSendIsNewest
<1> HIDE DEF last
<1>4. last \in 1..Len(challenges) /\ challenges[last].phone = phone
      /\ challenges[last].purpose = purpose
  BY <1>1, <1>3
<1>5. challenges[i].created <= challenges[last].created
  BY <1>3, <1>4 DEF TypeInv, Ordered
<1>6. challenges[i].created \in Nat /\ challenges[last].created \in Nat
  BY <1>4, Basics DEF RowT
<1>7. last <= i
  BY <1>1, <1>2, <1>4, <1>5, <1>6
<1> QED
  BY <1>1, <1>2, <1>3, <1>4, <1>7 DEF last

\* A code is compared with the newest challenge of its phone and purpose, while
\* that one is unconsumed and has attempts left, and with no other: a resend
\* retires every challenge before it for good.
THEOREM RetiredAlways == Spec => RetiredForGood
<1> DEFINE OnlyNewest ==
      \A i \in DOMAIN compared :
        compared'[i] # compared[i]
          => /\ i = LastSend(challenges, challenges[i].phone, challenges[i].purpose)
             /\ ~challenges[i].consumed
             /\ challenges[i].left > 0
<1>1. TypeInv /\ [Next]_vars => [OnlyNewest]_vars
  <2> SUFFICES ASSUME TypeInv, Next, NEW i \in 1..Len(challenges), compared'[i] # compared[i]
               PROVE  /\ i = LastSend(challenges, challenges[i].phone, challenges[i].purpose)
                      /\ ~challenges[i].consumed
                      /\ challenges[i].left > 0
    BY Basics
  <2>1. PICK w \in Workers : Send(w) \/ Verify(w) \/ Crash(w)
    BY DEF Next, Tick, history
  <2>2. CASE Send(w) \/ Crash(w)
    BY <2>2, Recorded DEF Send, SendBudget, ProviderAccepts, ProviderRejects, Crash, history
  <2>3. CASE Verify(w)
    <3>1. PICK matches \in BOOLEAN : VerifySelect(w, matches)
      BY <2>3 DEF Verify, VerifyStart, VerifyCharge, VerifyConsume, history
    <3>2. PICK id \in 1..Len(challenges) :
            /\ id = LatestActive(challenges, job[w].phone, job[w].purpose, job[w].now, Hour)
            /\ ~challenges[id].consumed /\ challenges[id].left > 0
            /\ compared' = [compared EXCEPT ![id] = @ + 1]
      BY <3>1, Selects
    <3>3. i = id
      BY <3>2, Basics
    <3>4. job[w].now \in Nat
      BY Basics DEF Job
    <3> QED
      BY <3>2, <3>3, <3>4, ActiveIsLastSend
  <2> QED
    BY <2>1, <2>2, <2>3
<1> QED
  BY <1>1, OtpTyped, PTL DEF Spec, RetiredForGood
=============================================================================
