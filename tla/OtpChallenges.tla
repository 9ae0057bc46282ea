--------------------------- MODULE OtpChallenges ---------------------------
(***************************************************************************)
(* The table otp_challenges and the decisions otp_service.py takes on it.  *)
(* The table is a sequence: rows are never deleted, created_at is the      *)
(* database's now() at the INSERT, so the order of the sequence is the     *)
(* order of created_at and a row's index stands for its id.                *)
(*                                                                         *)
(* A code is not represented.  Whether a presented code hashes to the one  *)
(* stored in the row is an input of Verdict, so a wrong code, the code of  *)
(* an older challenge and a lucky guess are all covered.                   *)
(***************************************************************************)
EXTENDS Naturals, Integers, FiniteSets, Sequences, SequencesExt

ChallengeRow(phone, purpose, created, exp, left) ==
  [phone |-> phone, purpose |-> purpose, created |-> created,
   exp |-> exp, left |-> left, consumed |-> FALSE]

\* Mutant of LatestActive: the oldest row of the hour.
MutOldestActive(tbl, phone, purpose, now, hour) ==
  SelectInSeq(tbl, LAMBDA c : /\ c.phone = phone
                              /\ c.purpose = purpose
                              /\ c.created > now - hour)

\* Index of the newest row of the phone and purpose, 0 when there is none.
\* The one-hour horizon ignores whether the row is consumed or expired.
LatestActive(tbl, phone, purpose, now, hour) ==
  SelectLastInSeq(tbl, LAMBDA c : /\ c.phone = phone
                                  /\ c.purpose = purpose
                                  /\ c.created > now - hour)

LastSend(tbl, phone, purpose) ==
  SelectLastInSeq(tbl, LAMBDA c : c.phone = phone /\ c.purpose = purpose)

\* Every purpose of the phone counts, unlike the cooldown.
CountSince(tbl, phone, since) ==
  Cardinality({i \in DOMAIN tbl : tbl[i].phone = phone /\ tbl[i].created >= since})

\* Mutant of WithinBudget: no cooldown.
MutCapsOnly(tbl, phone, purpose, now, limits) ==
  /\ CountSince(tbl, phone, now - limits.hour) < limits.hourly
  /\ CountSince(tbl, phone, now - limits.day) < limits.daily

\* Mutant of WithinBudget: the hourly cap is off by one.
MutOneMore(tbl, phone, purpose, now, limits) ==
  /\ LET last == LastSend(tbl, phone, purpose)
     IN  last # 0 => now - tbl[last].created >= limits.cooldown
  /\ CountSince(tbl, phone, now - limits.hour) <= limits.hourly
  /\ CountSince(tbl, phone, now - limits.day) < limits.daily

\* send_challenge's budget: cooldown, hourly cap, daily cap (limits is a
\* record with fields cooldown, hourly, daily, hour, day).
WithinBudget(tbl, phone, purpose, now, limits) ==
  /\ LET last == LastSend(tbl, phone, purpose)
     IN  last # 0 => now - tbl[last].created >= limits.cooldown
  /\ CountSince(tbl, phone, now - limits.hour) < limits.hourly
  /\ CountSince(tbl, phone, now - limits.day) < limits.daily

\* Mutant of Verdict: attempts are refused below zero, not at zero.
MutExhaustedLate(row, matches, now) ==
  CASE row.consumed                                        -> "consumed"
    [] ~row.consumed /\ now > row.exp                      -> "expired"
    [] ~row.consumed /\ now <= row.exp /\ row.left < 0     -> "exhausted"
    [] ~row.consumed /\ now <= row.exp /\ row.left >= 0 /\ ~matches -> "mismatch"
    [] OTHER                                               -> "accepted"

\* check_code's answer for a row it was given; the order of the tests is the
\* order of the code.
Verdict(row, matches, now) ==
  CASE row.consumed                                        -> "consumed"
    [] ~row.consumed /\ now > row.exp                      -> "expired"
    [] ~row.consumed /\ now <= row.exp /\ row.left <= 0    -> "exhausted"
    [] ~row.consumed /\ now <= row.exp /\ row.left > 0 /\ ~matches -> "mismatch"
    [] OTHER                                               -> "accepted"

\* The refusals verify_challenge charges to attempts_left.
Charged(verdict) == verdict \in {"exhausted", "mismatch"}

\* attempts_left = attempts_left - 1, which the code lets run below zero.
\* Nothing distinguishes one non-positive value from another, so the counter
\* saturates at 0: this is what bounds it.
Charge(tbl, id) ==
  [tbl EXCEPT ![id].left = IF @ > 0 THEN @ - 1 ELSE @]

\* Mutant of Consume: the row is not marked.
MutConsumeNothing(tbl, id) == tbl

\* UPDATE ... SET consumed_at=now(): no condition on the row.
Consume(tbl, id) == [tbl EXCEPT ![id].consumed = TRUE]
=============================================================================
