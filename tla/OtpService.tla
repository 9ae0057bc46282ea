----------------------------- MODULE OtpService -----------------------------
(***************************************************************************)
(* Phone-OTP challenges (services/otp_service.py).                         *)
(*                                                                         *)
(* FastAPI runs the synchronous handlers in a pool of threads, and each    *)
(* statement of app/db.py is a connection and a transaction of its own:    *)
(* the grain of an action is one SQL statement (or one provider call), and *)
(* a worker is a thread that is somewhere inside send_challenge or         *)
(* verify_challenge.                                                       *)
(*                                                                         *)
(* The three SELECTs of the budget are one step, placed at the first: rows *)
(* are only ever added, so a budget that passes on later reads also passes *)
(* on the first, and one that fails leaves nothing behind.                 *)
(***************************************************************************)
EXTENDS OtpChallenges

CONSTANTS
  Workers,      \* threads of the server's pool
  Phones,
  Purposes,     \* the column's CHECK allows signup and recovery
  NONE,         \* no phone, no purpose: a worker at rest
  Cooldown,     \* OTP_RESEND_COOLDOWN_SECONDS
  CodeTTL,      \* OTP_CODE_TTL_SECONDS
  MaxVerify,    \* OTP_MAX_VERIFY_ATTEMPTS
  HourlyCap,    \* OTP_MAX_SENDS_PER_HOUR
  DailyCap,     \* OTP_DAILY_CAP
  Hour, Day,    \* the two windows, in clock units
  MaxTime,      \* bound: the clock stops here
  MaxSends,     \* bound: messages sent to each phone
  MaxGuesses,   \* bound: calls of verify_challenge
  Crashes       \* TRUE: a handler may die between two statements

ASSUME OtpAssumption ==
  /\ IsFiniteSet(Workers)
  /\ {Cooldown, CodeTTL, HourlyCap, DailyCap, Hour, Day, MaxTime, MaxSends,
      MaxGuesses} \subseteq Nat
  /\ MaxVerify \in Nat \ {0}
  /\ Crashes \in BOOLEAN

VARIABLES
  clock,
  challenges,   \* table otp_challenges
  job,          \* what each worker is doing
  delivered,    \* history: messages the provider accepted, per phone
  compared,     \* history: codes compared with each challenge's hash
  accepted,     \* history: verifications each challenge satisfied
  guesses,      \* history: calls of verify_challenge so far
  lost          \* history: handlers that died between check_code and its UPDATE

history == <<delivered, compared, accepted, guesses, lost>>
vars    == <<clock, challenges, job, history>>

Limits == [cooldown |-> Cooldown, hourly |-> HourlyCap, daily |-> DailyCap,
           hour |-> Hour, day |-> Day]

\* The local variables of a handler: the arguments, `now`, the row's id and
\* what check_code said of it.
Job == [pc : {"idle", "send_provider", "send_insert", "verify_select",
              "verify_charge", "verify_consume"},
        phone : Phones \cup {NONE}, purpose : Purposes \cup {NONE},
        now : Nat, id : Nat]

Idle == [pc |-> "idle", phone |-> NONE, purpose |-> NONE, now |-> 0, id |-> 0]

Init ==
  /\ clock = 0
  /\ challenges = <<>>
  /\ job = [w \in Workers |-> Idle]
  /\ delivered = [p \in Phones |-> 0]
  /\ compared = <<>>
  /\ accepted = <<>>
  /\ guesses = 0
  /\ lost = 0

Sending(phone) ==
  Cardinality({w \in Workers : job[w].pc = "send_provider" /\ job[w].phone = phone})

\* A handler that has just taken `now`.
Started(label, phone, purpose) ==
  [pc |-> label, phone |-> phone, purpose |-> purpose, now |-> clock, id |-> 0]

\* Over budget, the handler raises BudgetExceeded and changes nothing.
SendBudget(w, phone, purpose) ==
  /\ job[w].pc = "idle"
  /\ delivered[phone] + Sending(phone) < MaxSends
  /\ WithinBudget(challenges, phone, purpose, clock, Limits)
  /\ job' = [job EXCEPT ![w] = Started("send_provider", phone, purpose)]
  /\ UNCHANGED <<clock, challenges, history>>

ProviderAccepts(w) ==
  /\ job[w].pc = "send_provider"
  /\ job' = [job EXCEPT ![w].pc = "send_insert"]
  /\ delivered' = [delivered EXCEPT ![job[w].phone] = @ + 1]
  /\ UNCHANGED <<clock, challenges, compared, accepted, guesses, lost>>

\* Mutant of ProviderRejects: the provider's answer is not looked at.
MutRecordRejected(w) ==
  /\ job[w].pc = "send_provider"
  /\ job' = [job EXCEPT ![w].pc = "send_insert"]
  /\ UNCHANGED <<clock, challenges, history>>

\* OtpSendError: nothing is recorded.
ProviderRejects(w) ==
  /\ job[w].pc = "send_provider"
  /\ job' = [job EXCEPT ![w] = Idle]
  /\ UNCHANGED <<clock, challenges, history>>

\* Mutant of RecordChallenge: the TTL is subtracted.
MutRecordExpired(w) ==
  /\ job[w].pc = "send_insert"
  /\ challenges' = Append(challenges,
       ChallengeRow(job[w].phone, job[w].purpose, clock,
                    job[w].now - CodeTTL, MaxVerify))
  /\ compared' = Append(compared, 0)
  /\ accepted' = Append(accepted, 0)
  /\ job' = [job EXCEPT ![w] = Idle]
  /\ UNCHANGED <<clock, delivered, guesses, lost>>

\* expires_at counts from the handler's `now`, created_at is the database's.
RecordChallenge(w) ==
  /\ job[w].pc = "send_insert"
  /\ challenges' = Append(challenges,
       ChallengeRow(job[w].phone, job[w].purpose, clock,
                    job[w].now + CodeTTL, MaxVerify))
  /\ compared' = Append(compared, 0)
  /\ accepted' = Append(accepted, 0)
  /\ job' = [job EXCEPT ![w] = Idle]
  /\ UNCHANGED <<clock, delivered, guesses, lost>>

VerifyStart(w, phone, purpose) ==
  /\ job[w].pc = "idle"
  /\ guesses < MaxGuesses
  /\ guesses' = guesses + 1
  /\ job' = [job EXCEPT ![w] = Started("verify_select", phone, purpose)]
  /\ UNCHANGED <<clock, challenges, delivered, compared, accepted, lost>>

\* _latest_active, then check_code on the row that was read.
VerifySelect(w, matches) ==
  LET id == LatestActive(challenges, job[w].phone, job[w].purpose, job[w].now, Hour)
      verdict == IF id = 0 THEN "none" ELSE Verdict(challenges[id], matches, job[w].now)
  IN  /\ job[w].pc = "verify_select"
      /\ \/ /\ verdict \in {"none", "consumed", "expired"}
            /\ job' = [job EXCEPT ![w] = Idle]
            /\ UNCHANGED compared
         \/ /\ Charged(verdict)
            /\ job' = [job EXCEPT ![w].pc = "verify_charge", ![w].id = id]
            /\ compared' = IF verdict = "mismatch"
                           THEN [compared EXCEPT ![id] = @ + 1] ELSE compared
         \/ /\ verdict = "accepted"
            /\ job' = [job EXCEPT ![w].pc = "verify_consume", ![w].id = id]
            /\ compared' = [compared EXCEPT ![id] = @ + 1]
      /\ UNCHANGED <<clock, challenges, delivered, accepted, guesses, lost>>

VerifyCharge(w) ==
  /\ job[w].pc = "verify_charge"
  /\ challenges' = Charge(challenges, job[w].id)
  /\ job' = [job EXCEPT ![w] = Idle]
  /\ UNCHANGED <<clock, history>>

\* The UPDATE does not test that the row is still unconsumed.
VerifyConsume(w) ==
  /\ job[w].pc = "verify_consume"
  /\ challenges' = Consume(challenges, job[w].id)
  /\ accepted' = [accepted EXCEPT ![job[w].id] = @ + 1]
  /\ job' = [job EXCEPT ![w] = Idle]
  /\ UNCHANGED <<clock, delivered, compared, guesses, lost>>

Crash(w) ==
  /\ Crashes
  /\ job[w].pc # "idle"
  /\ job' = [job EXCEPT ![w] = Idle]
  /\ lost' = IF job[w].pc \in {"verify_charge", "verify_consume"} THEN lost + 1 ELSE lost
  /\ UNCHANGED <<clock, challenges, delivered, compared, accepted, guesses>>

Tick ==
  /\ clock < MaxTime
  /\ clock' = clock + 1
  /\ UNCHANGED <<challenges, job, history>>

Send(w) ==
  \/ \E phone \in Phones, purpose \in Purposes : SendBudget(w, phone, purpose)
  \/ ProviderAccepts(w)
  \/ ProviderRejects(w)
  \/ RecordChallenge(w)

Verify(w) ==
  \/ \E phone \in Phones, purpose \in Purposes : VerifyStart(w, phone, purpose)
  \/ \E matches \in BOOLEAN : VerifySelect(w, matches)
  \/ VerifyCharge(w)
  \/ VerifyConsume(w)

Next ==
  \/ Tick
  \/ \E w \in Workers : Send(w) \/ Verify(w) \/ Crash(w)

Spec == Init /\ [][Next]_vars
-----------------------------------------------------------------------------
\* Every variable keeps its shape: the rows and jobs the statements write are
\* rows and jobs, and the histories run alongside the table.
TypeOK ==
  /\ clock \in Nat
  /\ challenges \in Seq([phone : Phones, purpose : Purposes, created : Nat,
                         exp : Nat, left : Nat, consumed : BOOLEAN])
  /\ job \in [Workers -> Job]
  /\ delivered \in [Phones -> Nat]
  /\ compared \in Seq(Nat) /\ Len(compared) = Len(challenges)
  /\ accepted \in Seq(Nat) /\ Len(accepted) = Len(challenges)
  /\ guesses \in Nat
  /\ lost \in Nat

\* Rows of a phone whose created_at falls in the window that starts with row i.
SendsInWindow(i, width) ==
  Cardinality({j \in DOMAIN challenges :
                 /\ challenges[j].phone = challenges[i].phone
                 /\ challenges[j].created \in challenges[i].created
                                              .. challenges[i].created + width})

\* Each thread but one may have passed the check before the others' INSERTs.
Slack == Cardinality(Workers) - 1

\* Two challenges of one phone and purpose closer than the cooldown were sent by
\* overlapping handlers: the earlier row was written no earlier than the later
\* handler had read the clock for its own check (exp counts from that reading).
CooldownOnlyByOverlap ==
  \A i, j \in DOMAIN challenges :
    (i < j /\ challenges[i].phone = challenges[j].phone
           /\ challenges[i].purpose = challenges[j].purpose
           /\ challenges[j].created - challenges[i].created < Cooldown)
      => challenges[i].created >= challenges[j].exp - CodeTTL

\* With concurrent handlers the hourly cap is overrun by at most one send per
\* additional thread: every send saw all those whose check preceded its own,
\* except the ones still in flight.
SendOverrunBounded ==
  \A i \in DOMAIN challenges : SendsInWindow(i, Hour) <= HourlyCap + Slack

\* Concurrent guesses overrun the attempt cap by at most one per additional
\* thread, and one per handler that died before it wrote the verdict down.
GuessOverrunBounded ==
  \A i \in DOMAIN compared : compared[i] <= MaxVerify + Slack + lost

\* One code satisfies at most as many verifications as there are threads.
AcceptOverrunBounded == \A i \in DOMAIN accepted : accepted[i] <= 1 + Slack

\* "Provider call BEFORE any state is recorded": the budget of a phone is
\* only charged with messages the provider accepted, whatever fails or dies.
ChargedOnlyIfDelivered ==
  \A p \in Phones : CountSince(challenges, p, 0) <= delivered[p]

\* A code is compared with the newest challenge of its phone and purpose only,
\* and only while that one is unconsumed and has attempts left: a resend retires
\* the challenge before it for good, and a spent newest one is never passed
\* over for an older live one, whatever the other threads do.
RetiredForGood ==
  [][\A i \in DOMAIN compared :
       compared'[i] # compared[i]
         => /\ i = LastSend(challenges, challenges[i].phone, challenges[i].purpose)
            /\ ~challenges[i].consumed
            /\ challenges[i].left > 0]_vars
=============================================================================
