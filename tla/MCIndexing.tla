----------------------------- MODULE MCIndexing -----------------------------
(* Two versions of a document of two chunks, the second of which is split.  *)
EXTENDS DocumentIndexing

mcFirst == <<[key |-> 1, text |-> <<4, 8>>],
             [key |-> 2, text |-> <<12, 16, 1, 20, 2, 24, 28, 32>>]>>
mcSecond == <<[key |-> 1, text |-> <<4, 8>>], [key |-> 2, text |-> <<12, 16, 3>>]>>
mcAnalyses == << <<mcFirst, mcSecond>>, << <<mcFirst[2]>>, mcSecond>> >>

mcConfig == [analyzer |-> 1, space |-> 1, dimension |-> 0, input |-> 8, batch |-> 9,
             items |-> 3, reserved |-> 1, overlap |-> 1, prefix |-> 1]
mcConfigs == {mcConfig, [mcConfig EXCEPT !.space = 2, !.dimension = 1],
              [mcConfig EXCEPT !.analyzer = 2, !.input = 0, !.batch = 0]}
mcServing == [input |-> 9, batch |-> 12, dimension |-> 1]
mcServings == {mcServing,
               [input |-> 4, batch |-> 6, dimension |-> 1],
               [input |-> 9, batch |-> 9, dimension |-> 2]}
=============================================================================
