------------------------ MODULE MCExecutionRegistry ------------------------
(* Instances of ExecutionRegistry for TLC. *)
EXTENDS ExecutionRegistryRefinement, TLC

Symmetry == Permutations(Groups) \cup Permutations(Sinks)
            \cup Permutations(Drainers) \cup Permutations(Closers)
=============================================================================
