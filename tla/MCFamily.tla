------------------------------ MODULE MCFamily ------------------------------
(* Small instances of Family.  No definition singles out a worker, or a     *)
(* member other than by what Eligible says.                                 *)
EXTENDS Family, TLC

Symmetry == Permutations(Workers) \cup Permutations(Members \ Eligible)

\* The third row and the third moment only for one pair, and only where nobody
\* has approved: enough to overrun the cap by requests and revocations, and to
\* leave the day behind.
LongOnlyUnapproved ==
  \/ Len(links) <= 2 /\ clock <= 1
  \/ presses = {} /\ \A i \in DOMAIN links : Parties(i) = Parties(1)
=============================================================================
