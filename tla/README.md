# A verification project for B.auth

B.auth is the API of a self-hosted mail system: it signs members up with a
phone and optionally an identity document, logs them in through Keycloak, and
recovers lost passwords with the help of a phone, a recognized device, the
family or an administrator. This directory holds TLA+ models of the parts that
keep state, TLC configurations that check them on small instances, and proofs
that TLAPS checks for every instance.

Run a model with `tlc -config <Run>.cfg <Module>.tla` and a proof module with
`tlapm <Module>.tla`. `PROJECT.json` lists the runs, what each of them checks,
which lines of the code each definition stands for, a mutant of the code for
every property, the hazards of the code and the theorems.

## 1. The system and its parts

| part | code (under `src/api/app`) | state it keeps | operations |
| --- | --- | --- | --- |
| one-time codes | `services/otp_service.py` | table `otp_challenges` | `send_challenge`, `verify_challenge` |
| recovery | `services/recovery.py`, `routers/recovery_router.py` | table `recovery_requests` | start, verify-otp, family-approve, complete, cancel, grant |
| devices | `services/devices.py` | table `devices` | register, resolve, delete with void hooks |
| family links | `services/family.py` | table `family_links` | request, approve, revoke, `active_links_for` |
| signup | `routers/signup_router.py` | tables `signup_sessions`, `accounts`; the directory | start, verify-otp, complete, identity-choice |
| identity checks | `services/idverify.py` | table `verification_reviews` | the verifier's outcome, queueing and deciding a review |
| administration | `routers/admin_router.py` | admin sessions and login states in memory | login, callback, logout, pages, decide, grant |
| login | `keycloak.py`, `routers/auth_router.py`, `auth.py` | login-state stores and the discovery cache in memory | login, callback |
| directory writes | `services/ldap_admin.py` | entries and passwords in OpenLDAP | `address_exists`, `create_user`, `set_password` |
| notifications | `services/notifications.py` | table `notifications` | `notify`, e-mail copies, SMS alerts |
| mail | `imap_client.py`, `smtp_client.py`, two routers | none | each request opens and closes a session of its own |
| database access | `db.py`, `src/db/migrations/001_sovereign_app.sql` | the tables | `execute`, `one`, `many`, `tx` |

How they interact. Recovery calls the one-time codes (`send_challenge` before it
writes anything, `verify_challenge` before it picks a branch), reads family
links through `active_links_for`, resolves devices, writes the directory and
then notifies. Devices call recovery back: `recovery.py` registers
`void_requests_for_device` in `devices.VOID_HOOKS`, and `devices.delete` runs
the hooks before it drops the row. Signup calls the one-time codes, the
verifier (a subprocess) and the directory. The administrator's endpoints call
`idverify.decide_review` and `recovery.admin_grant`; both callbacks, members'
and administrators', take their login out of a `LoginStateStore` of
`keycloak.py` and exchange its code, and the dashboard keeps a store of its own
and makes a cookie session of the tokens.

What makes it hard. The handlers that touch this state are synchronous
functions, which FastAPI runs in a pool of threads, but for `review_decide`, a
coroutine that awaits its form and then holds the event loop. `db.py` opens a connection and a transaction
**per statement**, so nothing a handler has read is still true when it writes:
budgets are counted and then inserted into, `consumed_at` and `attempts_left`
are read, compared in memory and updated without a condition, and recovery's
`_save` writes every column of a row back from a copy read several statements
earlier. LDAP, the SMS provider and the mail server are outside of any
transaction, and a handler may die between any two steps. Time limits
(expiry, windows, dwell, cooldown) are compared with the clock when something
touches the row; there is no background job. Logins and dashboard sessions live
in dictionaries of the process, shared by the threads without a lock and gone
at a restart, while the browsers keep their states and cookies.

What makes each part correct:

- one-time codes: a code satisfies one verification, is compared with a bounded
  number of guesses, is retired by its successor; sends stay within the budget,
  and the budget pays only for messages that were delivered;
- recovery: a password changes only after an OTP and one more factor; the
  parties that endorse have standing; a request only moves forward, an account
  has one live request, what was cancelled or voided stays dead, one
  authorization permits one change, and the owner hears of it;
- devices: a deleted device vouches for nothing;
- family links: a pair becomes usable only after the target's consent and the
  cooldown, and a revoked link never comes back;
- signup: one owner per address, no account without a proven phone, identity
  checks never block an account, a minor's account is managed;
- reviews: what an administrator promotes is what was submitted, and a review is
  decided once;
- login: a state is worth one token request, and a login that was begun can be
  finished;
- dashboard sessions: they serve until logout, expiry or restart, not after.

## 2. Modules

| module | what it is |
| --- | --- |
| `OtpChallenges` | the table `otp_challenges` and the pure decisions on it (`WithinBudget`, `Verdict`, ...), shared by the two state machines |
| `OtpService` | `send_challenge` and `verify_challenge`, one action per SQL statement or provider call |
| `Recovery` | every handler of recovery and the device registry, one action per SQL statement, directory call or fan-out |
| `OtpProofs` | every property of `OtpService`, proved |
| `ChallengeProofs` | what `_latest_active` and the newest send return, shared by the proofs of the one-time codes, recovery and signup |
| `RecoveryProofs` | type correctness of `Recovery`, proved |
| `FactorProofs` | the composition of factors; managed accounts need an administrator, endorsers have standing; proved |
| `SerialProofs` | what recovery keeps unless handlers of one account overlap, and by how much overlapping starts exceed their budget, proved |
| `LinkConsent` | abstract: what a family link promises, without threads, statements or a table |
| `Family` | `request_link`, `approve`, `revoke` and their fan-outs, row by row; implements `LinkConsent` |
| `FamilyProofs` | every property of `Family` but the one a run refutes, and the refinement, proved |
| `Signup` | the four signup handlers, the verifier's outcomes, provisioning, and `decide_review` |
| `SignupProofs` | every property of `Signup` but the one a run refutes, proved |
| `OidcLogin` | the two login flows in memory: discovery cache, login-state stores, code exchange; it has no `Next` of its own |
| `AdminSessions` | extends `OidcLogin` by the dashboard: cookie sessions, pages, the form, the API, restart |
| `AdminProofs` | every property of `AdminSessions` and `OidcLogin`, proved |
| `MCOtpService`, `MCRecovery`, `MCFamily`, `MCSignup`, `MCAdminSessions` | symmetry and the definitions the configurations use |

### How state and actions correspond to the code

A table is a sequence of records in the order of `created_at` (a row's index is
its id), a dictionary or set where order does not matter. A handler that has
begun is the record `job[w]` of the thread `w` that runs it: `pc` is where it
stands and the other fields are its Python locals. Every action is one
transaction of `db.py` (or one call to the provider or the directory) with the
computation up to the next one. Merging is done in four places only, each said
at the definition: the three budget SELECTs of `send_challenge` (rows are only
added, so a budget that passes later has passed on the first read, and a
refusal writes nothing); the read of `account_type`, `phone_e164` and
`guardian_phone`, which no code updates; a fan-out over several recipients, whose
rows nobody reads; and the SELECT and DELETE of an expired signup session, since
no statement puts its expiry off.

- `OtpService`: `SendBudget`, `ProviderAccepts`/`ProviderRejects`,
  `RecordChallenge`; `VerifyStart`, `VerifySelect` (the SELECT and
  `check_code`), `VerifyCharge` or `VerifyConsume`. Codes are not represented:
  whether the presented code matches is an input of `Verdict`. `delivered`,
  `compared`, `accepted`, `guesses` and `lost` are history.
- `Recovery`: `FindActive`/`GetRow` are the two SELECTs of `_active_for`, which
  four handlers share. `Start*`, `Verify*`, `Approve*`, `Grant*`, `Cancel*` and
  `Complete*` are the handlers in order; `WriteRow` is `_save`. `Row` is the
  row as `_get` returns it. `RegisterDevice`, `DeleteFind`, `VoidFind`,
  `VoidGet`, `VoidSave`, `DropDevice` are the registry and its hook. `links` is
  the set of pairs `active_links_for` yields; it grows (`LinkUsable`) when a
  cooldown elapses and shrinks (`RevokeLink`) at a revocation. `verified`,
  `endorsed` and `everLinked` are history.
- `Family`: `RequestCheck` (the validations and the budget SELECT) and
  `RequestInsert`; `ApproveGet`/`ApproveUpdate` and `RevokeGet`/`RevokeUpdate`
  are the read and the write of a press. `request_link` reads the clock twice,
  for the day it counts and, after the count, for the expiry it writes: the
  second reading is any moment up to the INSERT. `Approved` is the guarded UPDATE of
  `_STATUS_CHANGE`: it changes nothing unless the row is still `requested`, and
  the handler does not look at the row count; expiry was checked at the read.
  `Look` is the SELECTs of the neighborhood, `Tell` the whole fan-out; a
  `Crash` in it leaves any part of the recipients told. Expiry and usability
  are comparisons with the clock, as in the queries: no statement writes
  `expired`.
- `Signup`: `Start*`, `Verify*`, `Complete*`, `ChoiceGet` are the handlers;
  `Identity` is the verifier's answer mapped by mode; `Provision*` and `Burn`
  are the tail that complete and identity-choice share; `DecideSelect` and
  `DecideTx` are the read and the transaction of `decide_review`. A session
  stands for the password it was given, so `directory[a]` says whose password
  opens the address and `accounts[a].by` whose payload the row carries. The
  one-time codes are the operators of `OtpChallenges`. `Stages` is what the
  CHECK of `signup_sessions.stage` admits.
- `OidcLogin`: a step is one access to memory the threads share, or one call to
  Keycloak. `DiscoveryLookup`/`DiscoveryFetched`/`DiscoveryFails` are
  `get_discovery`. `StoreLoad` and `StoreAssign` are the two halves of
  `_state_store = _state_store or LoginStateStore()`: the read, and the write of
  what was read or of a new store. `LoginPut` and `CallbackPop` are `put` and
  `pop` on the global, read once more. A state token is a fresh secret, so a
  login is named by its order; a callback may present any login to either
  flow. `Exchange` is the token request; what Keycloak answers is its choice.
  `waiting` (begun in this process, not called back), `raced` (two threads of
  this process saw no store) and `exchanges` are history.
- `AdminSessions`: `OpenSession`/`RefuseSession` end `admin_callback`.
  `Looked` is the pop of an expired entry in `_session_from_cookie`, which every
  guard makes. `PageOpen` and `PageRender` are a page's two looks at the session,
  with a query between them; `FormOpen` is `review_decide` up to its await,
  `FormArrive` the CSRF check and the decision once the body is there. `OnLoop`
  is the form that holds the event loop from there on, SQL included: other
  coroutines wait, threads do not. `ApiOpen` is `require_admin` by bearer token
  or session; `DecideSelect`, `DecideTx` and `DecideNoAccount` are
  `decide_review` with its two transactions, seen from the review's side
  (`Signup` has the account's side). `decided` and `left` are history,
  `restarts` numbers the processes. `Restart` forgets the logins and sessions
  and whatever the threads were doing. The grant of a recovery is in `Recovery`.
- `Crash` of each of the other modules: an exception or the end of the process between two
  steps, after which the locals are gone and the tables are as they are.

## 3. Runs

Time is an integer; the constants keep the order of the real limits (a window
longer than a TTL, a cooldown shorter than the window), not their size. The
clock, the rows and the guesses are bounded, so every behaviour of the small
instances comes to rest: the runs switch the deadlock check off for that reason.

| run | question | instance |
| --- | --- | --- |
| `Otp` | by how much are the limits overrun when handlers overlap and die, and what is never overrun? | two threads that may die anywhere, one phone, two purposes, cooldown 2, TTL 1, one attempt, caps 2 per hour and 3 per day, an hour of 2, time 0..3, 4 sends, 3 guesses |
| `RecFamily` | do the factors compose, do endorsers have standing, and by how much do starts exceed their budget, under every interleaving? | two threads, an account, a member and a device, links come and go, a start budget of 1 in an hour, one request as far as the other handlers go and up to three of starts alone, one reset, time 0..1 |
| `RecSerialFamily` | lifecycle, standing and order of notifications, family branch | one thread that may die anywhere, links come and go, two requests, a start budget of 1 |
| `RecSerialDevice` | the dwell branch: voiding, newest request, types | one thread that may die anywhere, two devices, two requests |
| `RecNoFaults` | one change per request; a managed account needs an administrator; is the owner told? (liveness) | one thread, no crash, fairness, a managed account whose linked guardian tries to approve, grants, two requests, two resets |
| `Family` | does the table keep the promise of consent, and who is told what? | two threads, three members of whom one may ask, two links and time 0..1 (three links of one pair and time 0..2 while nobody has approved), one death, cap 1 per pair and day, a day of 1, cooldown 1 |
| `Signup` | do directory and table agree, and what does each account rest on? | two threads, two sessions and one address, clients that declare a guardian and clients that do not, one session may lose its handlers, one review, an hourly cap of 1 (the second session comes of two starts that overlap, each with a code of its own), TTLs of 0 so that both expiries fall within the clock |
| `Admin` | what is a login worth, how long does a session serve, who decides a review? | two threads, both flows, two logins, one session, one review, one restart, TTLs of 0 for states and sessions and 1 for the discovery document, time 0..1 |
| `IdentityPause` | can complete fail for identity reasons? (yes) | one thread, the shipped CHECK |
| `RaceCancel` | is a cancellation final? (no) | two threads |
| `SharedDevice` | does a deletion void every request that leaned on the device? (no) | one thread, two accounts, one device |
| `DuplicateLink` | does a pair hold one active link at most? (no) | one thread, two members, a pair cap of 2 |

Why the bounds are enough: a race of this code needs two handlers (each holds
one row), so two threads; a supersession needs two requests; the windows are
crossed when the clock passes the window's length once; an attempt cap of 1 or
2 is reached and passed by the guesses allowed. `attempts_left` saturates at 0
(the code lets it run negative, and compares with `<= 0` only).

`Otp` states the limits as the code keeps them: with `n` threads a cap is
overrun by at most `n - 1`, a code accepted at most `n` times, guesses exceeded
by one per additional thread and one per handler that died before it wrote the
verdict down. With `n = 1` and no death these are the limits themselves. The cooldown has no such
count, but `CooldownOnlyByOverlap` says who may break it: a send that had read
the clock before the other one's row was written. `RetiredForGood` has no slack
at all: whatever overlaps, a code is compared with the newest challenge only,
unconsumed and with attempts left at that moment.

Two runs prune with a CONSTRAINT. `OneRequestOrStarts` of `RecFamily` follows
further requests only where starts alone make them: the budget of starts needs
three of these, and two threads that both count before either inserts, but not
what becomes of the requests. `LongOnlyUnapproved` of `Family` keeps the third
row and the third moment to one pair that nobody has approved: the cap needs
three rows and the end of the day, and revocations, but no approval.

`Admin`'s lifetimes of 0 and 1 with a clock of 0..1 put each expiry between any
two steps of a handler; two threads are what the race of two first logins, two
callbacks with one state, or a form against an API call need.

What the violations show. `RaceCancel`: `verify_otp` reads the request, the
owner cancels it, `verify_otp` saves its copy, and the cancelled request is
live again; the owner was told of a cancellation that did not last.
`SharedDevice`: a device id of one account vouches in the recoveries of another
(`devices.resolve` does not look at the owner), and deleting it voids only the
newest of the requests that lean on it.

`IdentityPause`: a document that names several people makes complete write the
stage `choose_identity`, which the migration's CHECK refuses; the client gets a
500 after its OTP was spent, and the session stays where it was. The tests run
over a fake table without the CHECK. `Signup` is therefore checked with a CHECK
that admits the stage, so that the pause and the choice are explored at all.

`DuplicateLink`: `request_link` looks at tier, type and the pair's cap of two a
day, never at an approved link of the same pair. Both requests are approved,
and revoking one link leaves the pair usable through the other, while the
design document (`docs/superpowers/specs/2026-08-25-identity-auth-flow-design.md:370`)
asks for "no duplicate active link" and `docs/README.md:363` says a revocation
"kills usability immediately".

Why `Family`'s and `Signup`'s bounds are enough: the races are of two handlers
over one row (approve against revoke, two requests of one pair, two sessions
for one address, two administrators over one review). With TTLs of 0 and a
clock of 0..1 a row is alive, or expired between any two steps of a handler.
One session whose handlers die suffices to leave a half-made account behind for
the other to meet.

What the family run says beyond its verdict. An approve whose UPDATE
matched no row still notifies: `ApprovalAnnouncedTruly` only says that the link
is no longer merely requested by then, since another handler approved or revoked it. The
daily cap of a pair can be exceeded: `PairOverrunBounded` says by one for each
thread but the first, as many as can stand between the count and the INSERT. A
handler that dies after the revocation's UPDATE leaves parties untold, and
`RevocationNotLost` excuses that death and no other. The design's
tier-2 condition on the target (spec, lines 369-370) has no code; the budget
counts the unordered pair where the design counts requester to target; and a
request notifies the two parties only, where `docs/README.md:367-370` speaks of
the neighborhoods.

What the signup run leaves true and is worth knowing: a handler that dies after
`create_user` leaves a directory entry without a row, and a retry answers 409
(`DirectoryMatchesTable` names exactly that exception); a review carries an
address and no session, so a review queued by a session that then loses the
address is approved onto the winner's account; and of two administrators who
read one pending review, a rejection that comes second flips the review's
status but takes no tier back (`Tier2Earned` counts approvals that took effect).

What the administration run leaves true and is worth knowing. A form and an API
call can both take effect on one review, as two API calls can; two forms cannot,
for the sole reason that the coroutine calls the database without giving the
loop away (`DoubleDecisionOnlyByApi`). The first logins of a process may lose
one another's state, since `get_state_store` is not locked: the member's callback
answers as for an unknown state and the login has to be begun again
(`LostOnlyByRace`; the dashboard's store is made at import and loses none). A
state popped while Keycloak does not answer is spent. A session that ends
between a page's check and `_page`'s own look (`admin_router.py:150`) raises on
`None`, a 500 without an effect. Neither dictionary is swept: an expired session
is dropped when its cookie comes back, a state when its callback comes
(`admin_router.py:49`).

Known limits that the passing runs and the models make visible and that have no
run of their own: two concurrent starts leave two live requests (`OneLiveRequest`
is checked with one thread); two concurrent completions both set a password
(`OneResetPerRequest`, likewise); a link revoked between the standing check and
the save still authorizes (`EndorserLinkedNow`, likewise; `EndorsersHadStanding`
is what survives the race). `SerialProofs` says that such an overlap is all that
can bring these about. No code reads `recovery_reset_session_ttl_seconds`,
so an authorization does not age; the daily cap counts one phone's messages.

Fairness. `RecNoFaults` assumes weak fairness of each thread once it has begun a
handler: a thread of the pool that runs a synchronous handler is scheduled and
each of its calls returns or raises. Nothing is assumed of clients, of the
clock, of the links' cooldown or of a handler that has not begun.

## 4. Proofs

`OtpProofs` proves every property of `OtpService`, for any number of threads,
phones, purposes and sends and any limits. What makes the bounds inductive is
that a thread between its read and its write is counted with what it is about
to do: the rows of an hour with the sends under way that read the clock before
its end (`SendInv`), a challenge's comparisons and remaining attempts with the
threads that have yet to charge it (`GuessInv`), its acceptances with the
threads about to mark it consumed (`AcceptInv`). A set
of threads and a set of rows grow and shrink by one at each step, which a few
lemmas on cardinalities say once. `Ordered` says that the table's order is the
clock's, so that the rows younger than a handler's reading form a suffix, and
`ChallengeProofs` says that the newest send and the latest active challenge are
what their names promise. The assumption is `OtpAssumption`.

`RecoveryProofs` proves `Spec => []TypeOK`. `TypeOK` is not inductive: a handler
in the middle refers to rows by id and to accounts and devices by name, and
which of its locals are set depends on its `pc`. `JobOK` says so, label by
label, and `TypeInv` is `TypeOK` with `JobOK` for every worker. The proof has one
lemma per group of actions and uses the community library's `SelectLastInSeq`
through one lemma on what it returns.

`FactorProofs` proves `Spec => []FactorComposition`: for any number of threads,
accounts and devices, and although `_save` may write a stale row over a newer
one, a password is changed only for a request whose OTP cleared and which
somebody endorsed, or which waited out the dwell. The invariant `Evidence` says
that every copy of a row, in the table or in a handler's locals, is *backed*: if
it is past `awaiting_phone` its OTP is in `verified`, if it is `authorized` an
endorsement is in `endorsed`, or is about to be put there by the very handler
that holds it, and if it is `pending_dwell` its `authAt` is no earlier than a
verification. Stale copies do no harm because histories only grow: what backed a
row when it was read still backs it when it is written.

Its second half proves `Spec => []ManagedNeedsAdmin` and `Spec =>
[]EndorsersHadStanding` on top of that. Both speak of a request's account, which a
handler knows from its own locals, so the invariant `Standing` adds that these
agree with the table (a row keeps its account although `_save` writes it whole),
that no copy of a managed account's row is in a status only the other branches
reach, and is `authorized` only with an administrator's endorsement behind it
(`Sound`), and that a handler of `family_approve` past its checks acts for a
member linked with that account at some time (`MayApprove`).

`SerialProofs` is about the properties that overlapping handlers do break, as
`RaceCancel` shows of one of them. It proves each of them, for any number of
threads, accounts, devices and requests and wherever handlers die, from the
hypothesis `[]Apart`: handlers under way at the same time are about different
accounts, and a deletion is alone (its hook may reach a request of any
account). Nothing in the code enforces `Apart`; it is a hypothesis of the
theorems and not of the model, and what they say is that an overlap on one account
is the only way to two live requests, a branch picked twice, a cancellation or
an end undone, a password changed by a superseded request or on a deleted
device, or a notification of what is not so. With one thread `Apart` is true
(`OneThreadApart`), so the theorems cover the serial runs. The invariant is
`Orderly`: the row in a handler's locals is the table's row, label by label
(`Fresh`), so that every `_save` goes on from what the table has; a start past
the superseding has left nothing live (`Clear`); a device past its check is
registered (`Vouched`); and what is live is the newest request of its account
(`NewestLive`). Three theorems need one thing more or less:

- `DeleteVoids` also needs that a device vouches for one account only; without
  that the hook, which voids one request, is not enough, as `SharedDevice` shows;
- `OneResetPerRequest` needs `~Crashes`: a handler that dies between
  `set_password` and the write leaves the authorization live;
- `EndorserLinkedNow` needs no `Apart` at all, but that no link is revoked while
  an approval is under way.

The budget of starts is proved without any hypothesis (`StartsOverrunBounded`):
no `_save` changes the account or the date of a row (`DatesOK`), and an hour's
requests are counted together with the starts that may still insert into it
(`Load`), which only a start that has just found room in that hour adds to. With
`Apart` the same count gives the budget itself (`StartsBudgetKept`).

The proofs about recovery rest on `RecoveryAssumption`, the constants'
assumptions, which TLC evaluates in every run of `MCRecovery`.

`FamilyProofs` proves `Spec => []TypeOK`, `Spec => []UsableAfterCooldown` and
`Spec => ImplementsConsent`, for any number of members, threads, links and any
limits. None of them is inductive: when the UPDATE of `approve` takes effect, the
press it rests on lies a statement back. So `FamilyInv` also says what a
handler knows at each label, above all that a handler about to approve has a
press of the target at its `now`, made before the row's expiry (`Under`), and
that an approved row has kept such a press one cooldown before `usable`
(`Backed`). The refinement maps a row to the abstract link by the
columns it has; each action maps to one abstract action or to a stutter, and
the step that matters is `ApproveUpdate`, which must stutter when the row has
been approved or revoked since it was read. Who is told what
(`ApprovalAnnouncedTruly`, `RevocationNotLost`) rests on `NotesInv`: a thread on
its way to tell of a row tells both of its parties, and a row that left
`requested`, or was revoked, never comes back. `PairOverrunBounded` rests on
`CapInv`: a pair's requests of a day are counted together with the threads that
have counted and may still insert into it (`Load`), which only a thread that has
just found room in that day adds to. The assumptions are
`FamilyAssumption`, evaluated by the run `Family`. `LinkConsent` states none of
its own.

`SignupProofs` proves `TypeOK`, `DirectoryMatchesTable`, `PhoneProven`,
`Tier2Earned`, `MinorsManaged` and `SessionBurned` of `Signup` for any number of
threads, addresses, phones and sessions, any limits, each mode of the
verifier and whatever stages the CHECK admits. The properties are inductive
only together and with what a handler knows at each label (`JobFits`): the
address and phone it carries are its session's, past the OTP its session is in
`proved`, about to insert the row it owns the directory entry, and a minor's
document has replaced the declared guardian by the phone. `RowsOK` adds that a
session past its first stage has cleared its OTP, which is what complete and
identity-choice rely on when they read no challenge. The assumption is
`SignupAssumption`.

`AdminProofs` proves every property of the run `Admin`, the
action property included, for any number of threads, logins, sessions and
restarts and any lifetimes. "One token request per login" holds because a
callback that has popped its state is the only one to hold it, and the state is
in no store any more (`HeldOK`, `HeldOnce`); "no login is lost" because as long
as no two threads found no store, what a thread loaded is what the global is
(`OneStore`). A session's life is stated apart from what the code looks at:
`_sessions` has no entry of an ended session and misses none but the too old
(`KeptOK`), so that the age check of `_session_from_cookie` is what ends the
hour (`ValidIsAlive`). A form that is about to write found its review undecided, and if
it no longer is, the API decided it (`ReviewsInv`), given that at most one form
holds the loop. The assumptions are `LoginAssumption` and `SessionAssumption`.

Only model-checked: the liveness properties (`ResetAnnounced`,
`CancelAnnounced`), since TLAPS here proves neither `ENABLED` nor what follows
from fairness. Every invariant and action property of the passing runs is the
subject of a theorem.

## 5. Not modelled

Mail reading and sending (stateless, parsing and wire format), the providers'
HTTP calls, JWT verification (`auth.py` around a library), PKCE values and URLs,
the application's wiring and read-only projections of tables, the HTML of the
dashboard and its masked listings, the deployment's compose files, templates
and seeding scripts. Listing notifications and `mark_read` are one statement
each on rows no other handler reads. The wording and the masking of notifications, the
e-mail copies and SMS alerts (best effort by design) and constant response
bodies are output no state depends on. `denied` and `expired` of
`recovery_requests`: `denied` has no writer in the code.

## 6. Plan

Done, in this order: `OtpChallenges` and `OtpService`; `Recovery` with its types
and the composition of factors; `LinkConsent`, `Family` and the refinement;
`Signup` and the reviews; `OidcLogin` and `AdminSessions`; the proofs of
standing, of signup, and of the logins and sessions; the proofs of the one-time
codes' limits, of who is told what of a link, and of what recovery keeps unless
handlers of one account overlap.

What is left, in the order of its worth:

1. Abstract specifications: an atomic one-time code that `OtpService` implements
   with one thread, and an atomic recovery that `Recovery` implements up to the
   stale writes.
2. One model of links and recovery: today `Recovery` sees the pairs that
   `active_links_for` yields come and go, and `Family` says which pairs may.
