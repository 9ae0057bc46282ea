----------------------------- MODULE MCRecovery -----------------------------
(* Small instances of Recovery.  Every account has a phone of its own; a    *)
(* managed account's guardian is Guardian.                                  *)
EXTENDS Recovery, TLC

CONSTANT Guardian

MCPhoneOf == [acct \in Accounts |-> acct]
MCGuardianPhone ==
  [acct \in Accounts |-> IF acct \in Managed THEN MCPhoneOf[Guardian] ELSE NONE]

\* No definition singles out a worker or a device.
Symmetry == Permutations(Workers) \cup Permutations(Devices)

\* A bound: every handler is followed around one request, and further requests
\* as far as starts alone make them.
StartsAlone ==
  /\ \A w \in Workers : job[w].op \in {"none", "start"}
  /\ \A i \in DOMAIN requests : requests[i].status \in {"awaiting_phone", "cancelled"}
  /\ verified = {} /\ links = {}
  /\ \A d \in Devices : owner[d] = NONE

OneRequestOrStarts == Len(requests) + Starting > 1 => StartsAlone
=============================================================================
