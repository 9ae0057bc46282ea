-------------------------- MODULE MCAdminSessions --------------------------
(* Small instances of AdminSessions.  No definition singles out a thread or *)
(* a review.                                                                *)
EXTENDS AdminSessions, TLC

Symmetry == Permutations(Workers) \cup Permutations(Reviews)
=============================================================================
