---------------------------- MODULE MCGraphReads ----------------------------
EXTENDS GraphReads, TLC

CONSTANTS w1, w2

MCWorkers == {w1, w2}

\* 2 refers to 1
BackRefs == (1 :> {}) @@ (2 :> {1})

Symmetry == Permutations(MCWorkers)
=============================================================================
