---------------------------- MODULE MCAuthWatcher ----------------------------
(* AuthWatcher for TLC.                                                     *)
EXTENDS AuthWatcher, TLC

\* The contents that are credentials are alike.
Symmetry == Permutations(Contents \ Alien)

=============================================================================
