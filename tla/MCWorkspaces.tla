---------------------------- MODULE MCWorkspaces ----------------------------
(***************************************************************************)
(* What a server does for a workspace beside its graph, in one run: keep    *)
(* its index, index a document, keep it registered, take its work up       *)
(* again, look back over it, search it, walk its graph.  The parts share no *)
(* row; "side" names the one that acts.                                    *)
(***************************************************************************)
EXTENDS MCWorkspaceIndex, WorkspaceRemoval, TemporalRetrieval, MCSearch, MCTraversal,
        MCIndexing, TLC

CONSTANTS s1, s2, t1, t2, n1

VARIABLE side

\* One file, rewritten and read by two tasks.
OnePath == {1}

MCSessions == {s1, s2}
MCWorks == {t1, t2}
MCNotes == {n1}

SessionSymmetry == Permutations(MCSessions) \cup Permutations(MCWorks)

AtRest == [kind |-> "impact", seeds |-> {1}, types |-> {"calls"}, outgoing |-> FALSE,
           incoming |-> TRUE, nodes |-> 1, edges |-> 3, depth |-> 1]

WorkspacesInit ==
    /\ side \in {"index", "registration", "resume", "recall", "search", "walk",
                "document"}
    /\ Init /\ RemovalInit /\ ResumeInit /\ RecallInit /\ SearchInit /\ WalkInit
    /\ IndexInit
    /\ side # "walk" => stored = {} /\ bounds = AtRest
    /\ side # "search" => search.limit = 1
    /\ side # "document" => file = 1 /\ config = mcConfig /\ served = mcServing

WorkspacesNext ==
    /\ UNCHANGED side
    /\ side # "index" => UNCHANGED vars
    /\ side # "registration" => UNCHANGED removalVars
    /\ side # "recall" => UNCHANGED recallVars
    /\ side \notin {"resume", "recall"} => UNCHANGED resumeVars
    /\ side # "search" => UNCHANGED searchVars
    /\ side # "walk" => UNCHANGED walkVars
    /\ side # "document" => UNCHANGED indexVars
    /\ \/ side = "index" /\ Next
       \/ side = "registration" /\ RemovalNext
       \/ side = "resume" /\ ResumeNext
       \/ side = "recall" /\ RecallNext
       \/ side = "search" /\ SearchNext
       \/ side = "walk" /\ WalkNext
       \/ side = "document" /\ IndexNext

WorkspacesSpec ==
    WorkspacesInit /\ [][WorkspacesNext]_<<side, vars, removalVars, resumeVars, recallVars,
                                           searchVars, walkVars, indexVars>>

\* The variables of the side that acts have their types.
SidesTypeOK ==
    CASE side = "index" -> TypeOK
      [] side = "registration" -> RemovalTypeOK
      [] side = "resume" -> ResumeTypeOK
      [] side = "recall" -> ResumeTypeOK /\ RecallTypeOK
      [] side = "search" -> SearchTypeOK
      [] side = "walk" -> WalkTypeOK
      [] side = "document" -> IndexTypeOK
=============================================================================
