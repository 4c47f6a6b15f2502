----------------------------- MODULE GraphReads -----------------------------
(***************************************************************************)
(* A structural read beside the writers of GraphPublication.               *)
(*                                                                         *)
(* StructuralService takes no transaction: it reads the revision row, the   *)
(* repair row and the analysis states one query at a time, walks the graph  *)
(* tables with further queries, and takes the snapshot a second time to     *)
(* decide whether the answer may be given.                                  *)
(***************************************************************************)
EXTENDS GraphPublication

VARIABLE
    reader  \* one structural read and what it has seen

readVars == <<row, repair, docs, graph, job, faults, reader>>

ReaderIdle ==
    [pc |-> "idle", stale |-> FALSE, again |-> FALSE,
     snapshot |-> row, before |-> row,  \* the row now, and the first time
     listed |-> docs, unchecked |-> {}, \* documents of the version check
     unread |-> {}, answer |-> graph,   \* graph queries to make, and made
     described |-> docs,                \* "listed" of the first check
     first |-> graph]                   \* what the graph was at the start

ReadInit == Init /\ reader = ReaderIdle

SnapshotIsCurrent(s) ==
    s.state = "current" /\ s.content = s.indexed /\ ~s.errored

-----------------------------------------------------------------------------
(* graph_snapshot, run before and after the queries *)

\* "first" is the observer's note of what the read ought to report.
BeginRead(stale) ==
    /\ reader.pc = "idle"
    /\ reader' = [ReaderIdle EXCEPT !.pc = "repair", !.stale = stale]
    /\ UNCHANGED vars

RefuseDuringRepair ==
    /\ reader.pc = "repair" /\ RepairOpen
    /\ reader' = [reader EXCEPT !.pc = "refused"]
    /\ UNCHANGED vars

NoRepairOpen ==
    /\ reader.pc = "repair" /\ ~RepairOpen
    /\ reader' = [reader EXCEPT !.pc = IF SnapshotIsCurrent(reader.snapshot)
                                         THEN "list" ELSE "decide"]
    /\ UNCHANGED vars

\* analysis_versions_are_current lists the documents, then asks for the
\* analysis state of each; the first that disagrees makes the snapshot stale.
ListDocuments ==
    /\ reader.pc = "list"
    /\ reader' = [reader EXCEPT !.pc = "check", !.listed = docs,
                                !.unchecked = Indexed]
    /\ UNCHANGED vars

VersionIsCurrent(p) == graph[p].rev = reader.listed[p].rev

CheckDocument(p) ==
    /\ reader.pc = "check" /\ p \in reader.unchecked
    /\ reader' = IF VersionIsCurrent(p)
                   THEN [reader EXCEPT !.unchecked = @ \ {p}]
                   ELSE [reader EXCEPT !.pc = "decide",
                                       !.snapshot.state = "stale"]
    /\ UNCHANGED vars

AllChecked ==
    /\ reader.pc = "check" /\ reader.unchecked = {}
    /\ reader' = [reader EXCEPT !.pc = "decide"]
    /\ UNCHANGED vars

\* The snapshot taken after the queries is compared with the one before as a
\* whole, updated_at included.
AnySnapshot(a, b) == TRUE \* mutated
SameSnapshot(a, b) == a = b

Decide ==
    /\ reader.pc = "decide"
    /\ reader' =
          IF ~reader.stale /\ ~SnapshotIsCurrent(reader.snapshot)
            THEN [reader EXCEPT !.pc = "refused"]
          ELSE IF ~reader.again
            THEN [reader EXCEPT !.pc = "query", !.before = reader.snapshot,
                                !.described = reader.listed, !.unread = Paths]
          ELSE [reader EXCEPT !.pc = IF SameSnapshot(reader.snapshot, reader.before)
                                       THEN "served" ELSE "refused"]
    /\ UNCHANGED vars

-----------------------------------------------------------------------------

\* The rows of one document, a query of its own among the read's queries.
QueryGraph(p) ==
    /\ reader.pc = "query" /\ p \in reader.unread
    /\ reader' = [reader EXCEPT !.answer[p] = graph[p], !.unread = @ \ {p}]
    /\ UNCHANGED vars

\* ensure_snapshot_unchanged starts over with the revision row.
TakeSnapshotAgain ==
    /\ reader.pc = "query" /\ reader.unread = {}
    /\ reader' = [reader EXCEPT !.pc = "repair", !.again = TRUE, !.snapshot = row]
    /\ UNCHANGED vars

ReadStep ==
    \/ \E stale \in BOOLEAN : BeginRead(stale)
    \/ RefuseDuringRepair \/ NoRepairOpen
    \/ ListDocuments \/ AllChecked \/ Decide \/ TakeSnapshotAgain
    \/ \E p \in Paths : CheckDocument(p) \/ QueryGraph(p)

\* One read is followed to its end.
ReadNext ==
    /\ reader.pc \notin {"served", "refused"}
    /\ ReadStep \/ (ServiceNext /\ UNCHANGED reader)

ReadSpec == ReadInit /\ [][ReadNext]_readVars

-----------------------------------------------------------------------------
(* Properties *)

Facts(g) == [p \in Paths |-> [rev |-> g[p].rev, edges |-> g[p].edges,
                              unresolved |-> g[p].unresolved]]

\* graph-architecture: a change during a read is retryable rather than a
\* mixed-snapshot answer.  Whatever is served, stale or not, is the graph as it
\* was when the read began, although every query saw a different database; and a
\* current-only answer describes every document at the revision its row had at
\* one moment of the read, also when a document was written again under an older
\* revision than the one the workspace row calls current.
ServedIsOneSnapshot ==
    reader.pc = "served" =>
        /\ Facts(reader.answer) = Facts(reader.first)
        /\ ~reader.stale =>
              \A p \in Paths : reader.answer[p].rev = reader.described[p].rev
=============================================================================
