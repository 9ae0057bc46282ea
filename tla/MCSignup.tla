------------------------------ MODULE MCSignup ------------------------------
(* Small instances of Signup.  Workers are interchangeable.                 *)
EXTENDS Signup, TLC

Symmetry == Permutations(Workers)
=============================================================================
