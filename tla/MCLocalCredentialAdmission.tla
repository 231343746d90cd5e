--------------------- MODULE MCLocalCredentialAdmission ---------------------
(* Small instances of LocalCredentialAdmission for TLC. *)
EXTENDS LocalCredentialAdmission, TLC

\* A limit of one with a queue of one.
One == {[max |-> 1, cap |-> 1]}

\* The same limit with and without a queue.
Queues == {[max |-> 1, cap |-> 1], [max |-> 1, cap |-> 0]}

\* The limit is lifted.
Lifted == {[max |-> 1, cap |-> 1], [max |-> 0, cap |-> 0]}

Symmetry == Permutations(Requests) \cup Permutations(Admins)
=============================================================================
