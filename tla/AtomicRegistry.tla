--------------------------- MODULE AtomicRegistry ---------------------------
(***************************************************************************)
(* What the execution registry promises its users: a dispatch is begun,    *)
(* installed and given its resource in single steps, each of which happens *)
(* only while the registry accepts work; a scope leaves after its resource *)
(* is closed.  ExecutionRegistry implements it, although there the check   *)
(* and the effect of these operations are two steps and the state changes  *)
(* in between (AtomicRegistry is the specification A of                    *)
(* ExecutionRegistryRefinement).                                           *)
(***************************************************************************)
EXTENDS Naturals

CONSTANT MaxDispatch

VARIABLES
    phase,     \* "accepting", "draining" or "closed"
    begun,     \* the number of dispatches begun so far
    waiting,   \* dispatches whose Home response is unresolved
    running,   \* installed executions
    open       \* executions whose resource is open

Ids == 1..MaxDispatch
vars == <<phase, begun, waiting, running, open>>

Init ==
    /\ phase = "accepting" /\ begun = 0
    /\ waiting = {} /\ running = {} /\ open = {}

Begin ==
    /\ phase = "accepting"
    /\ begun' = begun + 1
    /\ waiting' = waiting \cup {begun'}
    /\ UNCHANGED <<phase, running, open>>

Resolve(i) ==
    /\ i \in waiting
    /\ waiting' = waiting \ {i}
    /\ UNCHANGED <<phase, begun, running, open>>

Install(i) ==
    /\ phase = "accepting"
    /\ i \in waiting
    /\ waiting' = waiting \ {i}
    /\ running' = running \cup {i}
    /\ UNCHANGED <<phase, begun, open>>

Open(i) ==
    /\ phase = "accepting"
    /\ i \in running
    /\ open' = open \cup {i}
    /\ UNCHANGED <<phase, begun, waiting, running>>

Shut(i) ==
    /\ i \in open
    /\ open' = open \ {i}
    /\ UNCHANGED <<phase, begun, waiting, running>>

Leave(i) ==
    /\ i \in running \ open
    /\ running' = running \ {i}
    /\ UNCHANGED <<phase, begun, waiting, open>>

\* Drain stops the intake and closes the registry once it is empty; Close
\* closes it at once.
Refuse ==
    /\ phase = "accepting"
    /\ phase' = "draining"
    /\ UNCHANGED <<begun, waiting, running, open>>
Seal ==
    /\ phase' = "closed"
    /\ UNCHANGED <<begun, waiting, running, open>>

Next ==
    \/ Begin \/ Refuse \/ Seal
    \/ \E i \in Ids : Resolve(i) \/ Install(i) \/ Open(i) \/ Shut(i) \/ Leave(i)

Spec == Init /\ [][Next]_vars
=============================================================================
