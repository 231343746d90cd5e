--------------------- MODULE ExecutionRegistryRefinement ---------------------
(***************************************************************************)
(* ExecutionRegistry implements AtomicRegistry.  BeginDispatch, Install    *)
(* and Bind take effect, as far as a user can tell, when they load the     *)
(* state under mu: what the holder of mu is about to do is counted as done.*)
(***************************************************************************)
EXTENDS ExecutionRegistry

Holding(op) == IF mu = op THEN {muId} ELSE {}

\* The refinement mapping.
BegunIds == IF mu = "begin" THEN next + 1 ELSE next
WaitingIds == (pending \cup Holding("begin")) \ Holding("install")
RunningIds == scopes \cup Holding("install")
OpenIds == {i \in Ids : resource[i] \in {"bound", "closing"}}
             \cup {i \in Holding("bind") : resource[i] = "none"}

A == INSTANCE AtomicRegistry WITH
        phase <- state, begun <- BegunIds, waiting <- WaitingIds,
        running <- RunningIds, open <- OpenIds

\* The registry behaves like the atomic one (registry.go:147, 208 and 275 read
\* the state under mu; registry.go:387, 413 and 445 change it without).
AtomicSpec == A!Spec
=============================================================================
