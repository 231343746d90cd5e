-------------------------- MODULE MCReleaseFlusher --------------------------
(* Instances of ReleaseFlusher for TLC. *)
EXTENDS ReleaseFlusher, TLC

Symmetry == Permutations(Groups)
=============================================================================
