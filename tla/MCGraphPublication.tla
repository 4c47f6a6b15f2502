------------------------- MODULE MCGraphPublication -------------------------
EXTENDS GraphRefinement, TLC

CONSTANTS w1, w2

MCWorkers == {w1, w2}

\* 1 and 2 refer to each other
MutualRefs == (1 :> {2}) @@ (2 :> {1})

\* 2 refers to 3; 1 sorts before both and refers to nothing
ChainRefs == (1 :> {}) @@ (2 :> {3}) @@ (3 :> {})

Symmetry == Permutations(MCWorkers)
=============================================================================
