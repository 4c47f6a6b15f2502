--------------------------- MODULE MCConvergence ---------------------------
(***************************************************************************)
(* The two things a server has to bring about in the end, in one run: rows  *)
(* that are the files, and a graph that is published.  The parts share no   *)
(* row; "side" names the one that acts, the other rests as it began, with   *)
(* nothing for its tasks to do.                                            *)
(***************************************************************************)
EXTENDS MCWorkspaceIndex, TLC

CONSTANTS
    w1, w2,
    Refs, MaxAttempts, RepairModes, InPlaceRefresh,
    MaxRevision, MaxStamp, MaxGeneration, MaxGraphFaults

VARIABLES side, row, repair, docs, graph, tasks, graphFaults

MCWorkers == {w1, w2}

\* 1 and 2 refer to each other
MutualRefs == (1 :> {2}) @@ (2 :> {1})

G == INSTANCE GraphPublication
        WITH Workers <- MCWorkers, job <- tasks, faults <- graphFaults,
             MaxFaults <- MaxGraphFaults

graphVars == <<row, repair, docs, graph, tasks, graphFaults>>
all == <<side, vars, graphVars>>

ConvergenceInit == side \in {"rows", "graph"} /\ Init /\ G!Init

ConvergenceNext ==
    /\ UNCHANGED side
    /\ \/ side = "rows" /\ Next /\ UNCHANGED graphVars
       \/ side = "graph" /\ G!ServiceNext /\ UNCHANGED vars

\* WorkspaceIndex's Scheduling, of the side that acts: resting rows are those
\* of a server that is not started.
RowsScheduling ==
    /\ WF_vars(side = "rows" /\ StartServer)
    /\ WF_vars(side = "rows" /\ Callback) /\ WF_vars(side = "rows" /\ Worker)
    /\ \A t \in Tasks : /\ WF_vars(side = "rows" /\ ReindexStep(t))
                        /\ WF_vars(side = "rows" /\ ReconcileStep(t))

ConvergenceSpec ==
    /\ ConvergenceInit /\ [][ConvergenceNext]_all
    /\ RowsScheduling /\ G!Scheduling

\* GraphPublication's property, of its instance.
GraphConverges == G!GraphConverges
=============================================================================
