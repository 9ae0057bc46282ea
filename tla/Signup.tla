------------------------------- MODULE Signup -------------------------------
(***************************************************************************)
(* Signup (routers/signup_router.py), the identity step and the manual     *)
(* reviews (services/idverify.py), over the directory and the tables       *)
(* signup_sessions, otp_challenges, accounts and verification_reviews.     *)
(*                                                                         *)
(* One action per SQL statement, provider call or directory call.  A       *)
(* session is its token, the index at which it was created; a deleted one  *)
(* keeps its index with the stage "gone".  The verifier is a subprocess    *)
(* whose answer is an input, and a password is the session it was given    *)
(* to.                                                                     *)
(***************************************************************************)
EXTENDS OtpChallenges

CONSTANTS
  Workers,
  Addresses,
  Phones,
  NONE,         \* no address, phone, guardian or document
  Guardians,    \* what clients declare: a guardian's phone, or NONE
  Mode,         \* IDVERIFY_MODE: "off", "manual" or "auto"
  Stages,       \* stages the table's CHECK lets a row be in
  SessionTTL,   \* SIGNUP_SESSION_TTL_SECONDS
  CodeTTL, MaxVerify, HourlyCap, DailyCap, Cooldown, Hour, Day,   \* see OtpService
  MaxTime,      \* bound: the clock stops here
  MaxSessions,  \* bound: sessions ever created
  MaxReviews,   \* bound: reviews ever queued
  MaxDeaths     \* bound: sessions whose handlers die between two steps

ASSUME SignupAssumption ==
  /\ Mode \in {"off", "manual", "auto"}
  /\ {"awaiting_otp", "awaiting_identity_choice"} \subseteq Stages
  /\ {SessionTTL, CodeTTL, HourlyCap, DailyCap, Cooldown, Hour, Day, MaxTime,
      MaxSessions, MaxReviews, MaxDeaths} \subseteq Nat
  /\ MaxVerify \in Nat \ {0}
  /\ NONE \notin Addresses \cup Phones \cup {"adult", "minor"}

VARIABLES
  clock,
  challenges,   \* table otp_challenges
  sessions,     \* table signup_sessions
  directory,    \* LDAP: the session whose password opens the address, or 0
  accounts,     \* table accounts: a row, or NoAccount
  reviews,      \* table verification_reviews
  job,          \* what each worker is doing
  proved,       \* history: sessions that cleared an OTP
  approvals,    \* history: reviews an administrator's approval took effect for
  blocked,      \* history: sessions whose complete raised an error of its own
  died          \* history: sessions a handler of which died half way

tables  == <<challenges, sessions, directory, accounts, reviews>>
history == <<proved, approvals, blocked, died>>
vars    == <<clock, tables, job, history>>

\* Whom a verified document names; a pause offers one of each.
Documents == {"adult", "minor"}

\* What run_auto_check and map_result make of a submission: one document, a
\* choice, a refusal, or a failure of the verifier that queues a review.
Answers == Documents \cup {"many", "no", "queue"}

\* outcome_for_mode: off refuses every submission, manual queues every one.
Outcome(answer) ==
  CASE Mode = "off" -> "no" [] Mode = "manual" -> "queue" [] OTHER -> answer

\* An account is guardian_managed when it has a guardian.
NoAccount == [by |-> 0, phone |-> NONE, guardian |-> NONE, tier |-> 0, doc |-> NONE]

Idle == [pc |-> "idle", sid |-> 0, addr |-> NONE, phone |-> NONE, guardian |-> NONE,
         now |-> 0, id |-> 0, doc |-> NONE, decision |-> NONE]

\* Limits of send_challenge.
Limits == [cooldown |-> Cooldown, hourly |-> HourlyCap, daily |-> DailyCap,
           hour |-> Hour, day |-> Day]

At(w, pc)   == job[w].pc = pc
Finish(w)   == job' = [job EXCEPT ![w] = Idle]
Goto(w, pc) == job' = [job EXCEPT ![w].pc = pc]

\* Goes on with the token alone: no later step reads another local.
Rest(w, pc) == job' = [job EXCEPT ![w] = [Idle EXCEPT !.pc = pc, !.sid = job[w].sid]]

Init ==
  /\ clock = 0
  /\ challenges = <<>> /\ sessions = <<>> /\ reviews = <<>>
  /\ directory = [a \in Addresses |-> 0]
  /\ accounts = [a \in Addresses |-> NoAccount]
  /\ job = [w \in Workers |-> Idle]
  /\ proved = {} /\ approvals = {} /\ blocked = {} /\ died = {}

-----------------------------------------------------------------------------
(* POST /signup/start                                                      *)

\* The validations hold of every address and phone here.  The probe finds
\* no entry; a failing probe ends the handler and changes nothing.
StartProbe(w, addr, phone, guardian) ==
  /\ At(w, "idle")
  /\ Len(sessions) < MaxSessions
  /\ directory[addr] = 0
  /\ job' = [job EXCEPT ![w] = [Idle EXCEPT !.pc = "start_budget", !.addr = addr,
                                  !.phone = phone, !.guardian = guardian]]
  /\ UNCHANGED <<clock, tables, history>>

\* Over budget: 429, no trace.
StartBudget(w) ==
  /\ At(w, "start_budget")
  /\ job' = [job EXCEPT ![w] =
       IF WithinBudget(challenges, @.phone, "signup", clock, Limits)
       THEN [@ EXCEPT !.pc = "start_send", !.now = clock] ELSE Idle]
  /\ UNCHANGED <<clock, tables, history>>

\* The provider takes the message and the challenge is inserted.
StartSend(w) ==
  /\ At(w, "start_send")
  /\ challenges' = Append(challenges,
       ChallengeRow(job[w].phone, "signup", clock, job[w].now + CodeTTL, MaxVerify))
  /\ job' = [job EXCEPT ![w].pc = "start_create", ![w].now = 0]
  /\ UNCHANGED <<clock, sessions, directory, accounts, reviews, history>>

\* OtpSendError: 503.
StartSendFails(w) ==
  /\ At(w, "start_send")
  /\ Finish(w)
  /\ UNCHANGED <<clock, tables, history>>

\* Mutant of Session: recovery's name of the stage.
MutSession(addr, phone, guardian) ==
  [addr |-> addr, phone |-> phone, guardian |-> guardian,
   stage |-> "awaiting_phone", exp |-> clock + SessionTTL]

Session(addr, phone, guardian) ==
  [addr |-> addr, phone |-> phone, guardian |-> guardian,
   stage |-> "awaiting_otp", exp |-> clock + SessionTTL]

StartCreate(w) ==
  /\ At(w, "start_create")
  /\ Len(sessions) < MaxSessions
  /\ sessions' = Append(sessions, Session(job[w].addr, job[w].phone, job[w].guardian))
  /\ Finish(w)
  /\ UNCHANGED <<clock, challenges, directory, accounts, reviews, history>>

-----------------------------------------------------------------------------
(* Sessions                                                                *)

Expired(t) == sessions[t].exp < clock

Carried(pc, t) ==
  [Idle EXCEPT !.pc = pc, !.sid = t, !.addr = sessions[t].addr,
               !.phone = sessions[t].phone, !.guardian = sessions[t].guardian]

\* Mutant of Take: the stage is not looked at.
MutTakeAny(w, t, stage, pc) ==
  /\ At(w, "idle")
  /\ sessions[t].stage # "gone"
  /\ ~Expired(t)
  /\ job' = [job EXCEPT ![w] = Carried(pc, t)]

\* _get_session of a session at the right stage: the handler goes on with the
\* payload it read.
Take(w, t, stage, pc) ==
  /\ At(w, "idle")
  /\ sessions[t].stage = stage
  /\ ~Expired(t)
  /\ job' = [job EXCEPT ![w] = Carried(pc, t)]

\* An expired row is deleted at the first touch.  The SELECT and the DELETE
\* are one step: no statement puts expires_at off.
Sweep(t) ==
  /\ sessions[t].stage # "gone"
  /\ Expired(t)
  /\ sessions' = [sessions EXCEPT ![t].stage = "gone"]
  /\ UNCHANGED <<clock, challenges, directory, accounts, reviews, job, history>>

\* _update_session writes whatever the row's stage is now; it finds no row
\* when the session is gone.  (The offered identities and the password hash
\* go with the stage choose_identity.)
Staged(t, stage) ==
  IF sessions[t].stage = "gone" THEN sessions
  ELSE [sessions EXCEPT ![t].stage = stage]

-----------------------------------------------------------------------------
(* POST /signup/verify-otp                                                 *)

VerifyGet(w, t) ==
  /\ Take(w, t, "awaiting_otp", "verify_select")
  /\ UNCHANGED <<clock, tables, history>>

\* verify_challenge goes by the phone, not by the session.
VerifySelect(w, matches) ==
  LET id == LatestActive(challenges, job[w].phone, "signup", clock, Hour)
      verdict == IF id = 0 THEN "none" ELSE Verdict(challenges[id], matches, clock)
  IN  /\ At(w, "verify_select")
      /\ job' = [job EXCEPT ![w] =
           IF Charged(verdict) THEN [@ EXCEPT !.pc = "verify_charge", !.id = id]
           ELSE IF verdict = "accepted" THEN [@ EXCEPT !.pc = "verify_consume", !.id = id]
           ELSE Idle]
      /\ UNCHANGED <<clock, tables, history>>

VerifyCharge(w) ==
  /\ At(w, "verify_charge")
  /\ challenges' = Charge(challenges, job[w].id)
  /\ Finish(w)
  /\ UNCHANGED <<clock, sessions, directory, accounts, reviews, history>>

VerifyConsume(w) ==
  /\ At(w, "verify_consume")
  /\ challenges' = Consume(challenges, job[w].id)
  /\ proved' = proved \cup {job[w].sid}
  /\ Rest(w, "verify_update")
  /\ UNCHANGED <<clock, sessions, directory, accounts, reviews, approvals, blocked, died>>

VerifyUpdate(w) ==
  /\ At(w, "verify_update")
  /\ sessions' = Staged(job[w].sid, "awaiting_identity_choice")
  /\ Finish(w)
  /\ UNCHANGED <<clock, challenges, directory, accounts, reviews, history>>

-----------------------------------------------------------------------------
(* POST /signup/complete                                                   *)

CompleteSkip(w, t) ==
  /\ Take(w, t, "awaiting_identity_choice", "provision_ldap")
  /\ UNCHANGED <<clock, tables, history>>

CompleteSubmit(w, t) ==
  /\ Take(w, t, "awaiting_identity_choice", "identity")
  /\ UNCHANGED <<clock, tables, history>>

\* The locals with the document the account will rest on; a minor's makes
\* the account managed by the phone that was just proved.
Documented(j, doc) ==
  [j EXCEPT !.pc = "provision_ldap", !.doc = doc,
            !.guardian = IF doc = "minor" THEN j.phone ELSE @]

\* The verifier's answer, and the review row where there is one.
Identity(w, answer) ==
  /\ At(w, "identity")
  /\ \/ /\ Outcome(answer) \in Documents
        /\ job' = [job EXCEPT ![w] = Documented(@, answer)]
        /\ UNCHANGED reviews
     \/ /\ Outcome(answer) = "many"
        /\ Goto(w, "pause")
        /\ UNCHANGED reviews
     \/ /\ Outcome(answer) = "no"
        /\ Goto(w, "provision_ldap")
        /\ UNCHANGED reviews
     \/ /\ Outcome(answer) = "queue"
        /\ Len(reviews) < MaxReviews
        /\ reviews' = Append(reviews, [addr |-> job[w].addr, status |-> "pending"])
        /\ Goto(w, "provision_ldap")
  /\ UNCHANGED <<clock, challenges, sessions, directory, accounts, history>>

\* _pause_for_identity_choice.  The table's CHECK refuses a stage it does
\* not know: the UPDATE raises and the client gets a 500.
Pause(w) ==
  /\ At(w, "pause")
  /\ Finish(w)
  /\ IF "choose_identity" \in Stages \/ sessions[job[w].sid].stage = "gone"
     THEN sessions' = Staged(job[w].sid, "choose_identity") /\ UNCHANGED blocked
     ELSE blocked' = blocked \cup {job[w].sid} /\ UNCHANGED sessions
  /\ UNCHANGED <<clock, challenges, directory, accounts, reviews, proved, approvals, died>>

-----------------------------------------------------------------------------
(* POST /signup/identity-choice                                            *)

\* Mutant of ChoiceGet: the choice of a minor keeps the declared type.
MutChoiceIndependent(w, t, doc) ==
  /\ At(w, "idle")
  /\ sessions[t].stage = "choose_identity"
  /\ ~Expired(t)
  /\ job' = [job EXCEPT ![w] = [Carried("provision_ldap", t) EXCEPT !.doc = doc]]
  /\ UNCHANGED <<clock, tables, history>>

ChoiceGet(w, t, doc) ==
  /\ At(w, "idle")
  /\ sessions[t].stage = "choose_identity"
  /\ ~Expired(t)
  /\ job' = [job EXCEPT ![w] = Documented(Carried("provision_ldap", t), doc)]
  /\ UNCHANGED <<clock, tables, history>>

-----------------------------------------------------------------------------
(* _provision_account_strict, then the session is burned                   *)

\* Mutant of ProvisionLdap: an entry that exists already will do.
MutProvisionTaken(w) ==
  /\ At(w, "provision_ldap")
  /\ directory' = [directory EXCEPT ![job[w].addr] = IF @ = 0 THEN job[w].sid ELSE @]
  /\ Goto(w, "provision_insert")
  /\ UNCHANGED <<clock, challenges, sessions, accounts, reviews, history>>

\* create_user; AddressTaken answers 409 and keeps the session.
ProvisionLdap(w) ==
  /\ At(w, "provision_ldap")
  /\ IF directory[job[w].addr] = 0
     THEN /\ directory' = [directory EXCEPT ![job[w].addr] = job[w].sid]
          /\ Goto(w, "provision_insert")
     ELSE /\ Finish(w)
          /\ UNCHANGED directory
  /\ UNCHANGED <<clock, challenges, sessions, accounts, reviews, history>>

\* LdapUnavailable: 503, the session is kept.
ProvisionFails(w) ==
  /\ At(w, "provision_ldap")
  /\ Finish(w)
  /\ UNCHANGED <<clock, tables, history>>

\* INSERT ... ON CONFLICT (email) DO NOTHING.
ProvisionInsert(w) ==
  /\ At(w, "provision_insert")
  /\ accounts' = [accounts EXCEPT ![job[w].addr] =
       IF @ # NoAccount THEN @
       ELSE [by |-> job[w].sid, phone |-> job[w].phone, guardian |-> job[w].guardian,
             tier |-> IF job[w].doc = NONE THEN 1 ELSE 2, doc |-> job[w].doc]]
  /\ Rest(w, "burn")
  /\ UNCHANGED <<clock, challenges, sessions, directory, reviews, history>>

\* Mutant of Burn: the session waits for its expiry.
MutKeepSession(w) ==
  /\ At(w, "burn")
  /\ Finish(w)
  /\ UNCHANGED <<clock, tables, history>>

Burn(w) ==
  /\ At(w, "burn")
  /\ sessions' = [sessions EXCEPT ![job[w].sid].stage = "gone"]
  /\ Finish(w)
  /\ UNCHANGED <<clock, challenges, directory, accounts, reviews, history>>

-----------------------------------------------------------------------------
(* decide_review                                                           *)

DecideSelect(w, r, decision) ==
  /\ At(w, "idle")
  /\ reviews[r].status = "pending"
  /\ job' = [job EXCEPT ![w] = [Idle EXCEPT !.pc = "decide", !.id = r, !.decision = decision]]
  /\ UNCHANGED <<clock, tables, history>>

Promoted(addr) == [accounts EXCEPT ![addr].tier = 2, ![addr].doc = "manual"]

\* Mutant of DecideTx: the promotion does not look at the decision.
MutPromoteAlways(w) ==
  LET addr == reviews[job[w].id].addr
  IN  /\ At(w, "decide")
      /\ accounts[addr] # NoAccount
      /\ reviews' = [reviews EXCEPT ![job[w].id].status = job[w].decision]
      /\ accounts' = Promoted(addr)
      /\ approvals' = IF job[w].decision = "approved" THEN approvals \cup {job[w].id}
                      ELSE approvals
      /\ Finish(w)
      /\ UNCHANGED <<clock, challenges, sessions, directory, proved, blocked, died>>

\* One transaction: without an accounts row an approval is rolled back.  The
\* review's status is not looked at again.
DecideTx(w) ==
  LET addr == reviews[job[w].id].addr
      flip == [reviews EXCEPT ![job[w].id].status = job[w].decision]
  IN  /\ At(w, "decide")
      /\ \/ /\ job[w].decision = "rejected"
            /\ reviews' = flip
            /\ UNCHANGED <<accounts, approvals>>
         \/ /\ job[w].decision = "approved" /\ accounts[addr] # NoAccount
            /\ reviews' = flip
            /\ accounts' = Promoted(addr)
            /\ approvals' = approvals \cup {job[w].id}
         \/ /\ job[w].decision = "approved" /\ accounts[addr] = NoAccount
            /\ UNCHANGED <<reviews, accounts, approvals>>
      /\ Finish(w)
      /\ UNCHANGED <<clock, challenges, sessions, directory, proved, blocked, died>>

-----------------------------------------------------------------------------

\* The process ends, or a step raises: the locals are gone.
Crash(w) ==
  /\ ~At(w, "idle")
  /\ Cardinality(died \cup {job[w].sid}) <= MaxDeaths
  /\ Finish(w)
  /\ died' = died \cup {job[w].sid}
  /\ UNCHANGED <<clock, tables, proved, approvals, blocked>>

Tick ==
  /\ clock < MaxTime
  /\ clock' = clock + 1
  /\ UNCHANGED <<tables, job, history>>

Handle(w) ==
  \/ \E addr \in Addresses, phone \in Phones, guardian \in Guardians :
       StartProbe(w, addr, phone, guardian)
  \/ StartBudget(w) \/ StartSend(w) \/ StartSendFails(w) \/ StartCreate(w)
  \/ \E t \in DOMAIN sessions :
       \/ VerifyGet(w, t) \/ CompleteSkip(w, t) \/ CompleteSubmit(w, t)
       \/ \E doc \in Documents : ChoiceGet(w, t, doc)
  \/ \E matches \in BOOLEAN : VerifySelect(w, matches)
  \/ VerifyCharge(w) \/ VerifyConsume(w) \/ VerifyUpdate(w)
  \/ \E answer \in Answers : Identity(w, answer)
  \/ Pause(w)
  \/ ProvisionLdap(w) \/ ProvisionFails(w) \/ ProvisionInsert(w) \/ Burn(w)
  \/ \E r \in DOMAIN reviews, decision \in {"approved", "rejected"} :
       DecideSelect(w, r, decision)
  \/ DecideTx(w)
  \/ Crash(w)

Next ==
  \/ \E w \in Workers : Handle(w)
  \/ \E t \in DOMAIN sessions : Sweep(t)
  \/ Tick

Spec == Init /\ [][Next]_vars

-----------------------------------------------------------------------------
(* Properties                                                              *)

\* Rows and locals keep the shape the code gives them.
TypeOK ==
  /\ clock \in Nat
  /\ challenges \in Seq([phone : Phones, purpose : {"signup"}, created : Nat,
                         exp : Nat, left : Nat, consumed : BOOLEAN])
  /\ sessions \in Seq([addr : Addresses, phone : Phones,
                       guardian : Guardians,
                       stage : Stages \cup {"gone"}, exp : Nat])
  /\ reviews \in Seq([addr : Addresses, status : {"pending", "approved", "rejected"}])
  /\ directory \in [Addresses -> 0..Len(sessions)]
  /\ accounts \in [Addresses ->
       [by : 0..Len(sessions), phone : Phones \cup {NONE},
        guardian : Phones \cup Guardians \cup {NONE}, tier : 0..2,
        doc : Documents \cup {NONE, "manual"}]]
  /\ \A w \in Workers : job[w].sid \in 0..Len(sessions)
  /\ proved \cup blocked \subseteq DOMAIN sessions /\ approvals \subseteq DOMAIN reviews

\* The row of an address and the password that opens it come from one
\* session; an entry without a row is one whose handler is about to insert
\* it, or died before it could.
DirectoryMatchesTable ==
  \A a \in Addresses :
    \/ directory[a] = accounts[a].by
    \/ /\ accounts[a] = NoAccount
       /\ \/ directory[a] \in died
          \/ \E w \in Workers : At(w, "provision_insert") /\ job[w].sid = directory[a]

\* The session behind an account cleared an OTP of its own, and the account
\* carries the phone that OTP was sent to.
PhoneProven ==
  \A a \in Addresses : accounts[a] # NoAccount =>
    /\ accounts[a].by \in proved
    /\ accounts[a].phone = sessions[accounts[a].by].phone

\* Tier 2 is a document the verifier accepted, or an approval of a review of
\* that address that took effect; and no review reads approved over an
\* address without an account, or over one left in tier 1.
Tier2Earned ==
  /\ \A a \in Addresses : accounts[a].tier = 2 =>
       \/ accounts[a].doc \in Documents
       \/ \E r \in approvals : reviews[r].addr = a
  /\ \A r \in DOMAIN reviews :
       reviews[r].status = "approved" => accounts[reviews[r].addr].tier = 2

\* An account that rests on a minor's document is managed by the phone that
\* was proved, whatever type and guardian the client declared.
MinorsManaged ==
  \A a \in Addresses :
    accounts[a].doc = "minor" => accounts[a].guardian = accounts[a].phone

\* A session that made an account is gone, unless its handler is about to
\* burn it or died first: no late stage update brings it back.
SessionBurned ==
  \A a \in Addresses : accounts[a] # NoAccount =>
    LET t == accounts[a].by
    IN  \/ sessions[t].stage = "gone"
        \/ t \in died
        \/ \E w \in Workers : At(w, "burn") /\ job[w].sid = t

\* signup_router.py:3-5: once the phone is verified, complete cannot fail for
\* identity reasons.
IdentityNeverBlocks == blocked = {}
=============================================================================
