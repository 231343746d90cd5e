------------------------ MODULE MCCredentialCooldown ------------------------
EXTENDS CredentialCooldown, TLC
Symmetry == Permutations(Models) \cup Permutations(Requests)
=============================================================================
