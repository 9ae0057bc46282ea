------------------------------ MODULE Recovery ------------------------------
(***************************************************************************)
(* Account recovery (services/recovery.py) with the device registry it     *)
(* leans on (services/devices.py): an OTP always, then one of a dwell on a *)
(* recognized device, the approval of a linked family member, or the grant *)
(* of an administrator, and only then a new password in the directory.     *)
(*                                                                         *)
(* The handlers are synchronous functions in FastAPI's thread pool and     *)
(* each statement of app/db.py is a transaction of its own, so the grain   *)
(* of an action is one SQL statement, and a handler keeps in its locals    *)
(* what earlier statements read.  _save writes the whole row back from     *)
(* those locals, under no condition.                                       *)
(*                                                                         *)
(* accounts rows do not change here (email, phone, account_type and        *)
(* guardian_phone have no UPDATE in the code), so reading them is no step. *)
(***************************************************************************)
EXTENDS OtpChallenges

CONSTANTS
  Workers,         \* threads of the server's pool
  Accounts,
  Managed,         \* accounts whose account_type is guardian_managed
  Devices,         \* device ids: minted fresh, registered at most once
  PhoneOf,         \* phone_e164 of an account; phones need not be unique
  GuardianPhone,   \* guardian_phone of an account, or NONE
  NONE, ADMIN, DELETED,
  Ops,             \* bound: the operations clients call
  Subjects,        \* bound: the accounts clients start recoveries for
  FamilyTTL,       \* RECOVERY_REQUEST_TTL_SECONDS
  Dwell,           \* RECOVERY_MIN_DWELL_SECONDS
  MaxStarts,       \* RECOVERY_MAX_ATTEMPTS_PER_HOUR
  Hour, Day,
  Cooldown, CodeTTL, MaxVerify, HourlyCap, DailyCap,   \* OTP_* settings
  MaxTime,         \* bound: the clock stops here
  MaxRequests,     \* bound: recovery requests ever inserted
  MaxResets,       \* bound: password changes in the directory
  Crashes          \* TRUE: a handler may die between two statements

AllOps == {"start", "verify", "approve", "grant", "cancel", "complete",
           "register", "delete", "link", "revoke"}

ASSUME RecoveryAssumption ==
  /\ IsFiniteSet(Workers)
  /\ Managed \subseteq Accounts
  /\ Subjects \subseteq Accounts
  /\ NONE \notin Accounts \cup Devices
  /\ {ADMIN, DELETED} \cap (Accounts \cup {NONE}) = {}
  /\ Ops \subseteq AllOps
  /\ {FamilyTTL, Dwell, MaxStarts, Hour, Day, Cooldown, CodeTTL, HourlyCap,
      DailyCap, MaxTime, MaxRequests, MaxResets} \subseteq Nat
  /\ MaxVerify \in Nat \ {0}
  /\ Crashes \in BOOLEAN

VARIABLES
  clock,
  requests,     \* table recovery_requests, in the order of created_at
  challenges,   \* table otp_challenges
  owner,        \* table devices: the owner of a device, NONE before, DELETED after
  links,        \* pairs joined by an approved family link past its cooldown
                \* (several rows may join a pair: it is in links while one does)
  notes,        \* table notifications, as far as recovery writes it
  resets,       \* password changes in the directory, in order
  job,          \* what each worker is doing
  verified,     \* history: <<request, time>> of every OTP that cleared
  endorsed,     \* history: <<request, member or ADMIN>> of every authorization
  everLinked    \* history: pairs that have been in links

tables  == <<requests, challenges, owner, links, notes, resets>>
history == <<verified, endorsed, everLinked>>
vars    == <<clock, tables, job, history>>

Live == {"awaiting_phone", "pending_family", "pending_dwell", "pending_admin",
         "authorized"}
Leaning == {"awaiting_phone", "pending_family", "pending_dwell"}
Dead == {"completed", "cancelled", "expired"}

\* A row as _get returns it and _save writes it.  expires_at of a row that
\* is not pending_family is read by nobody and stays 0 here.
Row == [acct : Accounts \cup {NONE}, status : Live \cup Dead \cup {"none"},
        recog : Devices \cup {NONE}, authAt : Nat,
        by : Accounts \cup {ADMIN, NONE},
        why : Accounts \cup {"superseded", "device_removed", NONE},
        exp : Nat, created : Nat]

NoRow == [acct |-> NONE, status |-> "none", recog |-> NONE, authAt |-> 0,
          by |-> NONE, why |-> NONE, exp |-> 0, created |-> 0]

Labels == {"idle", "otp_budget", "otp_send", "find", "get", "decide", "resolve",
           "insert", "otp_charge", "otp_consume", "branch", "save", "ping",
           "device", "wall", "ldap", "void_find", "void_get", "drop"}

\* The locals of a handler: its operation, the account it is about, the
\* caller, the presented device, the request row it read, a time it read,
\* the challenge it checked, and whom it has to notify.
Job == [op : AllOps \cup {"none"}, pc : Labels,
        acct : Accounts \cup {NONE}, actor : Accounts \cup {NONE},
        dev : Devices \cup {NONE}, rid : Nat, row : Row, now : Nat,
        ch : Nat, to : SUBSET Accounts]

Call(op, label, acct, actor, dev) ==
  [op |-> op, pc |-> label, acct |-> acct, actor |-> actor, dev |-> dev,
   rid |-> 0, row |-> NoRow, now |-> 0, ch |-> 0, to |-> {}]

Idle == Call("none", "idle", NONE, NONE, NONE)

Init ==
  /\ clock = 0
  /\ requests = <<>>
  /\ challenges = <<>>
  /\ owner = [d \in Devices |-> NONE]
  /\ links = {}
  /\ notes = {}
  /\ resets = <<>>
  /\ job = [w \in Workers |-> Idle]
  /\ verified = {}
  /\ endorsed = {}
  /\ everLinked = {}

At(w, label) == job[w].pc = label
Doing(w, op, label) == job[w].op = op /\ job[w].pc = label
Free(w, op) == job[w].pc = "idle" /\ op \in Ops
Goto(w, label) == job' = [job EXCEPT ![w].pc = label]
Finish(w) == job' = [job EXCEPT ![w] = Idle]
-----------------------------------------------------------------------------
(* The statements recovery.py shares between its handlers.                 *)

Limits == [cooldown |-> Cooldown, hourly |-> HourlyCap, daily |-> DailyCap,
           hour |-> Hour, day |-> Day]

\* Mutant of ActiveFor: an authorized request is not live.
MutActiveUndecided(acct) ==
  SelectLastInSeq(requests, LAMBDA r : r.acct = acct /\ r.status \in Live \ {"authorized"})

\* Mutant of ActiveFor: no condition on the status.
MutActiveAny(acct) == SelectLastInSeq(requests, LAMBDA r : r.acct = acct)

\* First SELECT of _active_for: the newest live request, 0 when there is none.
ActiveFor(acct) ==
  SelectLastInSeq(requests, LAMBDA r : r.acct = acct /\ r.status \in Live)

\* Mutant of ActiveByDevice: only a request already waiting is voided.
MutDwellingByDevice(d) ==
  SelectLastInSeq(requests, LAMBDA r : r.recog = d /\ r.status = "pending_dwell")

ActiveByDevice(d) ==
  SelectLastInSeq(requests, LAMBDA r : r.recog = d /\ r.status \in Leaning)

\* Mutant of StartsSince: superseded requests burn no budget.
MutLiveStartsSince(acct, since) ==
  Cardinality({i \in DOMAIN requests :
                 requests[i].acct = acct /\ requests[i].created > since
                   /\ requests[i].status \in Live})

StartsSince(acct, since) ==
  Cardinality({i \in DOMAIN requests :
                 requests[i].acct = acct /\ requests[i].created > since})

Linked(a, b) == {a, b} \in links

\* The parties _notify_family_window reaches.
FamilyOf(acct) == {m \in Accounts \ {acct} : Linked(m, acct)}

GuardiansOf(acct) ==
  {g \in Accounts \ {acct} : GuardianPhone[acct] # NONE /\ PhoneOf[g] = GuardianPhone[acct]}

NoteTypes == {"recovery_started", "recovery_cancelled", "password_reset_completed",
              "family_recovery_approval_needed", "guardian_recovery_alert"}

Note(to, type, rid) == [to |-> to, type |-> type, rid |-> rid]

\* Mutant of Cancelled: a status the column's CHECK does not list.
MutCanceled(row, why) == [row EXCEPT !.status = "canceled", !.why = why]

Cancelled(row, why) == [row EXCEPT !.status = "cancelled", !.why = why]

\* _save: every column from the handler's locals, whatever the row is now.
WriteRow(rid, row) == requests' = [requests EXCEPT ![rid] = row]

\* _active_for is two SELECTs: one finds the request, one reads its row.
FindActive(w) ==
  /\ At(w, "find")
  /\ LET rid == ActiveFor(job[w].acct)
     IN  job' = [job EXCEPT ![w] =
                   IF rid # 0 THEN [@ EXCEPT !.pc = "get", !.rid = rid]
                   ELSE IF @.op = "start" THEN [@ EXCEPT !.pc = "resolve"]
                   ELSE Idle]
  /\ UNCHANGED <<clock, tables, history>>

GetRow(w) ==
  /\ At(w, "get")
  /\ job' = [job EXCEPT ![w].pc = "decide", ![w].row = requests[job[w].rid],
                        ![w].now = clock]
  /\ UNCHANGED <<clock, tables, history>>
-----------------------------------------------------------------------------
(* POST /recovery/start                                                    *)

Starting == Cardinality({w \in Workers : job[w].op = "start" /\ job[w].pc # "ping"})

\* An unknown address or one over its budget is answered without a trace.
StartBudget(w, acct, dev) ==
  /\ Free(w, "start")
  /\ Len(requests) + Starting < MaxRequests
  /\ StartsSince(acct, clock - Hour) < MaxStarts
  /\ job' = [job EXCEPT ![w] = Call("start", "otp_budget", acct, NONE, dev)]
  /\ UNCHANGED <<clock, tables, history>>

\* The SELECTs of send_challenge's budget; a refusal is dropped in silence.
StartOtpBudget(w) ==
  /\ At(w, "otp_budget")
  /\ IF WithinBudget(challenges, PhoneOf[job[w].acct], "recovery", clock, Limits)
     THEN job' = [job EXCEPT ![w].pc = "otp_send", ![w].now = clock]
     ELSE Finish(w)
  /\ UNCHANGED <<clock, tables, history>>

\* The provider takes the message and the challenge is inserted.
StartSendOtp(w) ==
  /\ At(w, "otp_send")
  /\ challenges' = Append(challenges,
       ChallengeRow(PhoneOf[job[w].acct], "recovery", clock,
                    job[w].now + CodeTTL, MaxVerify))
  /\ Goto(w, "find")
  /\ UNCHANGED <<clock, requests, owner, links, notes, resets, history>>

\* OtpSendError is dropped in silence as well.
StartSendFails(w) ==
  /\ At(w, "otp_send")
  /\ Finish(w)
  /\ UNCHANGED <<clock, tables, history>>

\* Mutant of StartSupersede: the earlier request is left alone.
MutNoSupersede(w) ==
  /\ Doing(w, "start", "decide")
  /\ job' = [job EXCEPT ![w].pc = "resolve", ![w].row = NoRow]
  /\ UNCHANGED <<clock, tables, history>>

StartSupersede(w) ==
  /\ Doing(w, "start", "decide")
  /\ WriteRow(job[w].rid, Cancelled(job[w].row, "superseded"))
  /\ job' = [job EXCEPT ![w].pc = "resolve", ![w].row = NoRow]
  /\ UNCHANGED <<clock, challenges, owner, links, notes, resets, history>>

\* Mutant of Registered: a deleted device still resolves.
MutEverRegistered(d) == d # NONE /\ owner[d] # NONE

Registered(d) == d # NONE /\ owner[d] \in Accounts

\* devices.resolve: any registered device, whoever owns it (its last_seen_at,
\* which only listings show, is left out).
Resolve(d) == IF Registered(d) THEN d ELSE NONE

StartResolve(w) ==
  /\ At(w, "resolve")
  /\ job' = [job EXCEPT ![w].pc = "insert",
                        ![w].row = [NoRow EXCEPT !.acct = job[w].acct,
                                                !.status = "awaiting_phone",
                                                !.recog = Resolve(job[w].dev)]]
  /\ UNCHANGED <<clock, tables, history>>

StartInsert(w) ==
  /\ At(w, "insert")
  /\ requests' = Append(requests, [job[w].row EXCEPT !.created = clock])
  /\ job' = [job EXCEPT ![w].pc = "ping", ![w].rid = Len(requests) + 1, ![w].row = NoRow]
  /\ UNCHANGED <<clock, challenges, owner, links, notes, resets, history>>

StartPing(w) ==
  /\ Doing(w, "start", "ping")
  /\ notes' = notes \cup {Note(job[w].acct, "recovery_started", job[w].rid)}
  /\ Finish(w)
  /\ UNCHANGED <<clock, requests, challenges, owner, links, resets, history>>
-----------------------------------------------------------------------------
(* POST /recovery/verify-otp                                               *)

VerifyStart(w, acct) ==
  /\ Free(w, "verify")
  /\ job' = [job EXCEPT ![w] = Call("verify", "find", acct, NONE, NONE)]
  /\ UNCHANGED <<clock, tables, history>>

\* The request must await its phone; then _latest_active and check_code.
\* verify_challenge took its `now` between the two SELECTs.
VerifySelect(w, matches, now) ==
  /\ Doing(w, "verify", "decide")
  /\ LET id == LatestActive(challenges, PhoneOf[job[w].acct], "recovery", now, Hour)
         verdict == IF job[w].row.status # "awaiting_phone" \/ id = 0 THEN "none"
                    ELSE Verdict(challenges[id], matches, now)
     IN  job' = [job EXCEPT ![w] =
                   IF Charged(verdict) THEN [@ EXCEPT !.pc = "otp_charge", !.ch = id]
                   ELSE IF verdict = "accepted"
                        THEN [@ EXCEPT !.pc = "otp_consume", !.ch = id]
                   ELSE Idle]
  /\ UNCHANGED <<clock, tables, history>>

VerifyCharge(w) ==
  /\ At(w, "otp_charge")
  /\ challenges' = Charge(challenges, job[w].ch)
  /\ Finish(w)
  /\ UNCHANGED <<clock, requests, owner, links, notes, resets, history>>

VerifyConsume(w) ==
  /\ At(w, "otp_consume")
  /\ challenges' = Consume(challenges, job[w].ch)
  /\ verified' = verified \cup {<<job[w].rid, clock>>}
  /\ job' = [job EXCEPT ![w].pc = "branch", ![w].now = clock, ![w].ch = 0]
  /\ UNCHANGED <<clock, requests, owner, links, notes, resets, endorsed, everLinked>>

\* Mutant of BranchPick: the kind of the account is not looked at.
MutBranchIgnoresManaged(acct, recog, family) ==
  IF family # {} THEN "pending_family"
  ELSE IF recog # NONE THEN "pending_dwell" ELSE "pending_admin"

BranchPick(acct, recog, family) ==
  CASE acct \in Managed                                   -> "pending_admin"
    [] acct \notin Managed /\ family # {}                 -> "pending_family"
    [] acct \notin Managed /\ family = {} /\ recog # NONE -> "pending_dwell"
    [] OTHER                                              -> "pending_admin"

\* The branch pick: `now` was taken between the UPDATE and the SELECT of the
\* family links, which is not made for a managed account: its branch does not
\* depend on them.
VerifyBranch(w, now) ==
  LET acct   == job[w].acct
      family == FamilyOf(acct)
      branch == BranchPick(acct, job[w].row.recog, family)
      to     == IF acct \in Managed THEN GuardiansOf(acct) ELSE family
      row    == [job[w].row EXCEPT
                   !.status = branch,
                   !.exp = IF branch = "pending_family" THEN now + FamilyTTL ELSE @,
                   !.authAt = IF branch = "pending_dwell" THEN now ELSE @]
  IN  /\ At(w, "branch")
      /\ job' = [job EXCEPT ![w] = [@ EXCEPT !.pc = "save", !.now = 0, !.to = to, !.row = row]]
      /\ UNCHANGED <<clock, tables, history>>

\* Mutant of VerifySave: the pings go out before the write.
MutPingFirst(w) ==
  /\ Doing(w, "verify", "save")
  /\ IF job[w].to # {} THEN Goto(w, "ping") /\ UNCHANGED requests
     ELSE Finish(w) /\ WriteRow(job[w].rid, job[w].row)
  /\ UNCHANGED <<clock, challenges, owner, links, notes, resets, history>>

\* _save commits before any ping.
VerifySave(w) ==
  /\ Doing(w, "verify", "save")
  /\ WriteRow(job[w].rid, job[w].row)
  /\ IF job[w].to # {} THEN Goto(w, "ping") ELSE Finish(w)
  /\ UNCHANGED <<clock, challenges, owner, links, notes, resets, history>>

VerifyPing(w) ==
  /\ Doing(w, "verify", "ping")
  /\ LET type == IF job[w].acct \in Managed THEN "guardian_recovery_alert"
                 ELSE "family_recovery_approval_needed"
     IN  notes' = notes \cup {Note(m, type, job[w].rid) : m \in job[w].to}
  /\ Finish(w)
  /\ UNCHANGED <<clock, requests, challenges, owner, links, resets, history>>
-----------------------------------------------------------------------------
(* POST /recovery/family-approve and the administrator's grant             *)

\* Mutant of ApproveStanding: any account with a link may approve itself.
MutSelfApproval(w, member, acct) ==
  /\ Free(w, "approve")
  /\ member \notin Managed
  /\ FamilyOf(acct) # {}
  /\ member \in FamilyOf(acct) \cup {acct}
  /\ job' = [job EXCEPT ![w] = Call("approve", "find", acct, member, NONE)]
  /\ UNCHANGED <<clock, tables, history>>

\* Mutant of ApproveStanding: a link that was revoked still counts.
MutFormerLink(w, member, acct) ==
  /\ Free(w, "approve")
  /\ member # acct
  /\ member \notin Managed
  /\ {member, acct} \in everLinked
  /\ job' = [job EXCEPT ![w] = Call("approve", "find", acct, member, NONE)]
  /\ UNCHANGED <<clock, tables, history>>

\* Standing: another account, not managed, party to a usable link right now.
ApproveStanding(w, member, acct) ==
  /\ Free(w, "approve")
  /\ member # acct
  /\ member \notin Managed
  /\ Linked(member, acct)
  /\ job' = [job EXCEPT ![w] = Call("approve", "find", acct, member, NONE)]
  /\ UNCHANGED <<clock, tables, history>>

\* The window is compared with the clock on touch; an elapsed one is flipped
\* to expired by the same handler.
ApproveDecide(w) ==
  /\ Doing(w, "approve", "decide")
  /\ job' = [job EXCEPT ![w] =
               IF @.row.status # "pending_family" THEN Idle
               ELSE IF clock > @.row.exp
                    THEN [@ EXCEPT !.pc = "save", !.row.status = "expired"]
               ELSE [@ EXCEPT !.pc = "save", !.row.status = "authorized",
                              !.row.by = job[w].actor, !.row.authAt = clock]]
  /\ UNCHANGED <<clock, tables, history>>

ApproveSave(w) ==
  /\ Doing(w, "approve", "save")
  /\ WriteRow(job[w].rid, job[w].row)
  /\ endorsed' = IF job[w].row.status = "authorized"
                 THEN endorsed \cup {<<job[w].rid, job[w].actor>>} ELSE endorsed
  /\ Finish(w)
  /\ UNCHANGED <<clock, challenges, owner, links, notes, resets, verified, everLinked>>

\* admin_grant addresses the request by its id.
GrantGet(w, rid) ==
  /\ Free(w, "grant")
  /\ requests[rid].status = "pending_admin"
  /\ job' = [job EXCEPT ![w] = [Call("grant", "save", requests[rid].acct, NONE, NONE)
                                EXCEPT !.rid = rid, !.row = requests[rid]]]
  /\ UNCHANGED <<clock, tables, history>>

GrantSave(w) ==
  /\ Doing(w, "grant", "save")
  /\ WriteRow(job[w].rid, [job[w].row EXCEPT !.status = "authorized",
                                             !.by = ADMIN, !.authAt = clock])
  /\ endorsed' = endorsed \cup {<<job[w].rid, ADMIN>>}
  /\ Finish(w)
  /\ UNCHANGED <<clock, challenges, owner, links, notes, resets, verified, everLinked>>
-----------------------------------------------------------------------------
(* POST /recovery/cancel                                                   *)

CancelStanding(w, actor, acct) ==
  /\ Free(w, "cancel")
  /\ actor = acct \/ Linked(actor, acct)
  /\ job' = [job EXCEPT ![w] = Call("cancel", "find", acct, actor, NONE)]
  /\ UNCHANGED <<clock, tables, history>>

\* Mutant of CancelSave: the owner is not told.
MutCancelQuietly(w) ==
  /\ Doing(w, "cancel", "decide")
  /\ WriteRow(job[w].rid, Cancelled(job[w].row, job[w].actor))
  /\ Finish(w)
  /\ UNCHANGED <<clock, challenges, owner, links, notes, resets, history>>

CancelSave(w) ==
  /\ Doing(w, "cancel", "decide")
  /\ WriteRow(job[w].rid, Cancelled(job[w].row, job[w].actor))
  /\ Goto(w, "ping")
  /\ UNCHANGED <<clock, challenges, owner, links, notes, resets, history>>

CancelPing(w) ==
  /\ Doing(w, "cancel", "ping")
  /\ notes' = notes \cup {Note(job[w].acct, "recovery_cancelled", job[w].rid)}
  /\ Finish(w)
  /\ UNCHANGED <<clock, requests, challenges, owner, links, resets, history>>
-----------------------------------------------------------------------------
(* POST /recovery/complete                                                 *)

CompleteStart(w, acct, dev) ==
  /\ Free(w, "complete")
  /\ job' = [job EXCEPT ![w] = Call("complete", "find", acct, NONE, dev)]
  /\ UNCHANGED <<clock, tables, history>>

\* _refresh_state, then the branch on the status; every refusal ends the
\* handler with a 400 or a 403 and no write.
CompleteDecide(w) ==
  /\ Doing(w, "complete", "decide")
  /\ job' = [job EXCEPT ![w] =
               CASE @.row.status = "pending_family" /\ clock > @.row.exp ->
                      [@ EXCEPT !.pc = "save", !.row.status = "expired"]
                 [] @.row.status = "authorized" -> [@ EXCEPT !.pc = "ldap"]
                 [] @.row.status = "pending_dwell" /\ @.dev # NONE ->
                      [@ EXCEPT !.pc = "device"]
                 [] OTHER -> Idle]
  /\ UNCHANGED <<clock, tables, history>>

\* The device that vouched at the start must still be registered.
CompleteDevice(w) ==
  /\ At(w, "device")
  /\ IF Resolve(job[w].dev) = job[w].row.recog
     THEN Goto(w, "wall") ELSE Finish(w)
  /\ UNCHANGED <<clock, tables, history>>

\* Mutant of CompleteWall: one unit short.
MutWallTooLow(w) ==
  /\ At(w, "wall")
  /\ IF clock + 1 < job[w].row.authAt + Dwell THEN Finish(w) ELSE Goto(w, "ldap")
  /\ UNCHANGED <<clock, tables, history>>

CompleteWall(w) ==
  /\ At(w, "wall")
  /\ IF clock < job[w].row.authAt + Dwell THEN Finish(w) ELSE Goto(w, "ldap")
  /\ UNCHANGED <<clock, tables, history>>

\* set_password on the directory, which no transaction covers.
CompleteSetPassword(w) ==
  /\ At(w, "ldap")
  /\ Len(resets) < MaxResets
  /\ resets' = Append(resets, [rid |-> job[w].rid, acct |-> job[w].acct,
                               leg |-> job[w].row.status, at |-> clock])
  /\ job' = [job EXCEPT ![w].pc = "save", ![w].row.status = "completed"]
  /\ UNCHANGED <<clock, requests, challenges, owner, links, notes, history>>

\* LdapUnavailable: a 500, the request stays as it is.
CompleteLdapDown(w) ==
  /\ At(w, "ldap")
  /\ Finish(w)
  /\ UNCHANGED <<clock, tables, history>>

\* Mutant of CompleteSave: the row stays authorized.
MutCompleteUnsaved(w) ==
  /\ Doing(w, "complete", "save")
  /\ Goto(w, "ping")
  /\ UNCHANGED <<clock, tables, history>>

\* Mutant of CompleteSave: the owner is not told.
MutCompleteQuietly(w) ==
  /\ Doing(w, "complete", "save")
  /\ WriteRow(job[w].rid, job[w].row)
  /\ Finish(w)
  /\ UNCHANGED <<clock, challenges, owner, links, notes, resets, history>>

CompleteSave(w) ==
  /\ Doing(w, "complete", "save")
  /\ WriteRow(job[w].rid, job[w].row)
  /\ IF job[w].row.status = "completed" THEN Goto(w, "ping") ELSE Finish(w)
  /\ UNCHANGED <<clock, challenges, owner, links, notes, resets, history>>

CompletePing(w) ==
  /\ Doing(w, "complete", "ping")
  /\ notes' = notes \cup {Note(job[w].acct, "password_reset_completed", job[w].rid)}
  /\ Finish(w)
  /\ UNCHANGED <<clock, requests, challenges, owner, links, resets, history>>
-----------------------------------------------------------------------------
(* Devices: register, and delete with the hook that voids a request        *)

RegisterDevice(w, acct, d) ==
  /\ Free(w, "register")
  /\ owner[d] = NONE
  /\ owner' = [owner EXCEPT ![d] = acct]
  /\ UNCHANGED <<clock, requests, challenges, links, notes, resets, job, history>>

DeleteFind(w, acct, d) ==
  /\ Free(w, "delete")
  /\ owner[d] = acct
  /\ job' = [job EXCEPT ![w] = Call("delete", "void_find", acct, NONE, d)]
  /\ UNCHANGED <<clock, tables, history>>

\* void_requests_for_device: one request at most, the newest.
VoidFind(w) ==
  /\ At(w, "void_find")
  /\ LET rid == ActiveByDevice(job[w].dev)
     IN  job' = [job EXCEPT ![w].pc = IF rid = 0 THEN "drop" ELSE "void_get",
                            ![w].rid = rid]
  /\ UNCHANGED <<clock, tables, history>>

VoidGet(w) ==
  /\ At(w, "void_get")
  /\ job' = [job EXCEPT ![w].pc = "save", ![w].row = requests[job[w].rid]]
  /\ UNCHANGED <<clock, tables, history>>

VoidSave(w) ==
  /\ Doing(w, "delete", "save")
  /\ WriteRow(job[w].rid, Cancelled(job[w].row, "device_removed"))
  /\ Goto(w, "drop")
  /\ UNCHANGED <<clock, challenges, owner, links, notes, resets, history>>

\* Removal comes after the hook.
DropDevice(w) ==
  /\ At(w, "drop")
  /\ owner' = [owner EXCEPT ![job[w].dev] = DELETED]
  /\ Finish(w)
  /\ UNCHANGED <<clock, requests, challenges, links, notes, resets, history>>
-----------------------------------------------------------------------------
(* Family links, as far as recovery sees them: the set active_links_for    *)
(* yields.  A managed account cannot request a link but can be its target. *)

LinkUsable(a, b) ==
  /\ "link" \in Ops
  /\ a # b
  /\ {a, b} \ Managed # {}
  /\ links' = links \cup {{a, b}}
  /\ everLinked' = everLinked \cup {{a, b}}
  /\ UNCHANGED <<clock, requests, challenges, owner, notes, resets, job, verified, endorsed>>

\* revoke is one UPDATE.
RevokeLink(w, a, b) ==
  /\ Free(w, "revoke")
  /\ Linked(a, b)
  /\ links' = links \ {{a, b}}
  /\ UNCHANGED <<clock, requests, challenges, owner, notes, resets, job, history>>
-----------------------------------------------------------------------------
\* The handler dies: an exception in a statement or a call, or the process.
Crash(w) ==
  /\ Crashes
  /\ ~At(w, "idle")
  /\ Finish(w)
  /\ UNCHANGED <<clock, tables, history>>

Tick ==
  /\ clock < MaxTime
  /\ clock' = clock + 1
  /\ UNCHANGED <<tables, job, history>>

Start(w) ==
  \/ \E acct \in Subjects, dev \in Devices \cup {NONE} : StartBudget(w, acct, dev)
  \/ StartOtpBudget(w) \/ StartSendOtp(w) \/ StartSendFails(w)
  \/ StartSupersede(w) \/ StartResolve(w) \/ StartInsert(w) \/ StartPing(w)

Verify(w) ==
  \/ \E acct \in Accounts : VerifyStart(w, acct)
  \/ \E matches \in BOOLEAN, now \in job[w].now .. clock : VerifySelect(w, matches, now)
  \/ VerifyCharge(w) \/ VerifyConsume(w)
  \/ \E now \in job[w].now .. clock : VerifyBranch(w, now)
  \/ VerifySave(w) \/ VerifyPing(w)

Authorize(w) ==
  \/ \E member, acct \in Accounts : ApproveStanding(w, member, acct)
  \/ ApproveDecide(w) \/ ApproveSave(w)
  \/ \E rid \in DOMAIN requests : GrantGet(w, rid)
  \/ GrantSave(w)

Cancel(w) ==
  \/ \E actor, acct \in Accounts : CancelStanding(w, actor, acct)
  \/ CancelSave(w) \/ CancelPing(w)

Complete(w) ==
  \/ \E acct \in Accounts, dev \in Devices \cup {NONE} : CompleteStart(w, acct, dev)
  \/ CompleteDecide(w) \/ CompleteDevice(w) \/ CompleteWall(w)
  \/ CompleteSetPassword(w) \/ CompleteLdapDown(w) \/ CompleteSave(w) \/ CompletePing(w)

DeviceOps(w) ==
  \/ \E acct \in Accounts, d \in Devices : RegisterDevice(w, acct, d) \/ DeleteFind(w, acct, d)
  \/ VoidFind(w) \/ VoidGet(w) \/ VoidSave(w) \/ DropDevice(w)

Work(w) ==
  \/ FindActive(w) \/ GetRow(w) \/ Start(w) \/ Verify(w) \/ Authorize(w) \/ Cancel(w)
  \/ Complete(w) \/ DeviceOps(w)
  \/ \E a, b \in Accounts : RevokeLink(w, a, b)

Next ==
  \/ Tick
  \/ \E a, b \in Accounts : LinkUsable(a, b)
  \/ \E w \in Workers : Work(w) \/ Crash(w)

Spec == Init /\ [][Next]_vars

\* A thread that has begun a handler carries it on; clients, the clock and
\* the links' cooldown owe nothing.
Fairness == \A w \in Workers : WF_vars(~At(w, "idle") /\ Work(w))

FairSpec == Spec /\ Fairness
-----------------------------------------------------------------------------
\* Rows, jobs and histories keep their shape, and whatever a handler or a
\* history refers to by id is a row of the table.
TypeOK ==
  /\ clock \in Nat
  /\ requests \in Seq(Row)
  /\ challenges \in Seq([phone : {PhoneOf[a] : a \in Accounts}, purpose : {"recovery"},
                         created : Nat, exp : Nat, left : Nat, consumed : BOOLEAN])
  /\ owner \in [Devices -> Accounts \cup {NONE, DELETED}]
  /\ links \subseteq SUBSET Accounts
  /\ notes \subseteq [to : Accounts, type : NoteTypes, rid : Nat]
  /\ resets \in Seq([rid : Nat, acct : Accounts,
                     leg : {"authorized", "pending_dwell"}, at : Nat])
  /\ job \in [Workers -> Job]
  /\ verified \subseteq Nat \X Nat
  /\ endorsed \subseteq Nat \X (Accounts \cup {ADMIN})
  /\ everLinked \subseteq SUBSET Accounts

\* However handlers interleave, fail or write back stale rows, a password is
\* changed only for a request whose own OTP cleared, and which an authorized
\* party endorsed or which waited out the dwell after the OTP.
FactorComposition ==
  \A k \in DOMAIN resets :
    \E v \in verified :
      /\ v[1] = resets[k].rid
      /\ \/ \E e \in endorsed : e[1] = resets[k].rid
         \/ resets[k].leg = "pending_dwell" /\ v[2] + Dwell <= resets[k].at

\* A managed account gets a new password from an administrator's grant only
\* (the assisted queue of verify_otp's branch pick).
ManagedNeedsAdmin ==
  \A k \in DOMAIN resets :
    resets[k].acct \in Managed => <<resets[k].rid, ADMIN>> \in endorsed

\* Whoever endorsed a request is an administrator, or another account, not a
\* managed one, that has been linked with the request's account.
EndorsersHadStanding ==
  \A e \in endorsed :
    \/ e[2] = ADMIN
    \/ /\ e[2] \notin Managed
       /\ e[2] # requests[e[1]].acct
       /\ {e[2], requests[e[1]].acct} \in everLinked

LiveOf(acct) == {i \in DOMAIN requests : requests[i].acct = acct /\ requests[i].status \in Live}

\* A newer attempt supersedes the earlier one: an account never has two live
\* requests (start_recovery's cancel before its insert).
OneLiveRequest == \A acct \in Accounts : Cardinality(LiveOf(acct)) <= 1

Rank(status) == CASE status = "awaiting_phone" -> 0
                  [] status \in {"pending_family", "pending_dwell", "pending_admin"} -> 1
                  [] status = "authorized" -> 2
                  [] OTHER -> 3

\* A request only moves forward: the branch is picked once, an authorization
\* is not undone by less than its end, and the end is final.
LifecycleForward ==
  [][\A i \in DOMAIN requests :
       requests'[i].status # requests[i].status
         => Rank(requests'[i].status) > Rank(requests[i].status)]_vars

\* A cancelled request stays cancelled.
CancelIsFinal ==
  [][\A i \in DOMAIN requests :
       requests[i].status = "cancelled" => requests'[i].status = "cancelled"]_vars

\* An authorization is consumed by the password change it permits.
OneResetPerRequest ==
  \A j, k \in DOMAIN resets : resets[j].rid = resets[k].rid => j = k

\* A member who authorizes a request is linked with its account at that
\* moment: revoked links approve nothing.
EndorserLinkedNow ==
  [][\A e \in endorsed' \ endorsed :
       e[2] # ADMIN => Linked(e[2], requests[e[1]].acct)]_vars

\* A superseded request never changes the password: it is the newest request
\* of the account that does.
ResetByNewest ==
  [][\A k \in DOMAIN resets' \ DOMAIN resets :
       \A i \in DOMAIN requests :
         requests[i].acct = resets'[k].acct => i <= resets'[k].rid]_vars

\* A dwell that leaned on a device since deleted completes nothing.
DeletedDeviceVouchesNoMore ==
  [][\A k \in DOMAIN resets' \ DOMAIN resets :
       resets'[k].leg = "pending_dwell"
         => owner[requests[resets'[k].rid].recog] \in Accounts]_vars

\* Once a device is deleted no live request leans on it.
DeleteVoids ==
  \A i \in DOMAIN requests :
    (requests[i].recog # NONE /\ owner[requests[i].recog] = DELETED)
      => requests[i].status \notin Leaning

StartsInWindow(i) ==
  Cardinality({j \in DOMAIN requests :
                 /\ requests[j].acct = requests[i].acct
                 /\ requests[j].created \in requests[i].created
                                            .. requests[i].created + Hour - 1})

\* No hour sees more than MaxStarts requests for one account.
StartsBudgetKept == \A i \in DOMAIN requests : StartsInWindow(i) <= MaxStarts

\* Starts that overlap all count before any of them inserts: an hour sees one
\* more for each further thread, and no more however they go on or die.
StartsOverrunBounded ==
  \A i \in DOMAIN requests : StartsInWindow(i) <= MaxStarts + Cardinality(Workers) - 1

\* Pings follow the write they tell of: a notification is only about a
\* request that is in the state it announces.
NotesFollowWrites ==
  [][\A n \in notes' \ notes :
       requests[n.rid].status =
         CASE n.type = "recovery_started" -> "awaiting_phone"
           [] n.type = "family_recovery_approval_needed" -> "pending_family"
           [] n.type = "guardian_recovery_alert" -> "pending_admin"
           [] n.type = "recovery_cancelled" -> "cancelled"
           [] n.type = "password_reset_completed" -> "completed"]_vars

\* The owner of a changed password is told, and so is the owner of a request
\* that somebody cancelled, unless the handler dies.
ResetAnnounced ==
  \A i \in 1..MaxRequests, acct \in Accounts :
    (\E k \in DOMAIN resets : resets[k].rid = i /\ resets[k].acct = acct)
      ~> Note(acct, "password_reset_completed", i) \in notes

CancelAnnounced ==
  \A i \in 1..MaxRequests, acct \in Accounts :
    (i \in DOMAIN requests /\ requests[i].acct = acct /\ requests[i].why \in Accounts)
      ~> Note(acct, "recovery_cancelled", i) \in notes
=============================================================================
