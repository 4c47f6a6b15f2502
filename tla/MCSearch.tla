------------------------------ MODULE MCSearch ------------------------------
(* Three chunks of two files. *)
EXTENDS HybridSearch

MCChunks == 1 .. 3
MCFileOf == <<"a", "b", "a">>
MCRankings ==
    {<<>>, <<1>>, <<0, 2>>, <<2, 0, 1>>, [c \in {3} |-> 2], [c \in {2, 3} |-> 1]}
MCWeights == [semantic |-> 2, lexical |-> 1, structural |-> 1]
=============================================================================
