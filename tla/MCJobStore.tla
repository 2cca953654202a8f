----------------------------- MODULE MCJobStore -----------------------------
(* Instances of JobStore for TLC. *)
EXTENDS JobStore, TLC

Symmetry == Permutations(Servers) \cup Permutations(Jobs)
=============================================================================
