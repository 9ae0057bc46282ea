---------------------------- MODULE MCOtpService ----------------------------
(* Small instances of OtpService.  Workers, purposes and phones are        *)
(* interchangeable: no definition singles one of them out.                 *)
EXTENDS OtpService, TLC

Symmetry == Permutations(Workers) \cup Permutations(Purposes) \cup Permutations(Phones)
=============================================================================
