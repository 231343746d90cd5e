-------------------------- MODULE MCAuthLifecycle --------------------------
(* Small instances of AuthLifecycle for TLC. *)
EXTENDS AuthLifecycle, TLC

Symmetry == Permutations(Ops) \cup Permutations(Notes)
=============================================================================
