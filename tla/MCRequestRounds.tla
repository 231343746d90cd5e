--------------------------- MODULE MCRequestRounds ---------------------------
EXTENDS RequestRounds, TLC

CONSTANTS c1, c2, c3

\* One credential with a retry round, one without.
MCLimit == [c \in Creds |-> IF c = c1 THEN 1 ELSE 0]

MCRest == [k \in Kinds |-> IF k = "quota" THEN 2 ELSE 1]

Symmetry == Permutations(Requests)
=============================================================================
