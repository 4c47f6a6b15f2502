-------------------------- MODULE GraphPublication --------------------------
(***************************************************************************)
(* Publication of one workspace's structural graph.                        *)
(*                                                                         *)
(* Indexing workers (watcher tasks, reindex calls, graph repairs, several   *)
(* processes on one SQLite file) write source documents and project them   *)
(* into the graph tables.  The row of workspace_graph_revisions says which  *)
(* content revision the graph describes, the row of                        *)
(* workspace_graph_repairs who may rewrite it.  Every SQL transaction is    *)
(* one step; everything a worker remembers between two transactions is in   *)
(* its job record and may be stale when it is used.                        *)
(*                                                                         *)
(* Data abstraction.  A document is its id and the content revision it was  *)
(* last written at.  The analysed facts of path p point at the paths        *)
(* Refs[p]; a fact is resolved (an edge) when its target has nodes in the   *)
(* graph and unresolved otherwise.  All documents use one analyzer version. *)
(***************************************************************************)
EXTENDS Integers, FiniteSets

CONSTANTS
    Workers,        \* tasks that may index or repair, in any process
    Paths,          \* relative paths, numbered in their sort order
    Refs,           \* Refs[p]: the paths the relationships of p point at
    MaxAttempts,    \* MAX_RECONCILIATION_ATTEMPTS
    RepairModes,    \* the modes repairs are requested in
    InPlaceRefresh, \* may a document be rewritten without a new revision?
    MaxRevision,    \* bound: content revisions
    MaxStamp,       \* bound: updates of the revision row per content revision
    MaxGeneration,  \* bound: repair generations
    MaxFaults       \* bound: crashes, I/O errors, source drifts, slow owners,
                    \* rewritings in place

ASSUME PathsAssumption ==
    /\ Paths \subseteq Nat \ {0}
    /\ IsFiniteSet(Paths)
    /\ Refs \in [Paths -> SUBSET Paths]

ASSUME BoundsAssumption ==
    /\ MaxAttempts \in Nat \ {0}
    /\ RepairModes \subseteq {"IfNeeded", "Force"}
    /\ InPlaceRefresh \in BOOLEAN
    /\ {MaxRevision, MaxStamp, MaxGeneration, MaxFaults} \subseteq Nat

VARIABLES
    row,     \* the workspace_graph_revisions row
    repair,  \* the workspace_graph_repairs row
    docs,    \* documents: path -> [id, rev], id 0 when there is no such row
    graph,   \* graph tables by owning path; rev 0 when there are no such rows
    job,     \* what each worker is doing and remembers
    faults   \* faults so far

vars == <<row, repair, docs, graph, job, faults>>

-----------------------------------------------------------------------------
(* Rows *)

NoDoc   == [id |-> 0, rev |-> 0]
NoGraph == [rev |-> 0, edges |-> {}, unresolved |-> {}, counted |-> {}]

Row == [content : Nat, indexed : Nat,
        state   : {"current", "updating", "stale", "error"},
        started : Nat, errored : BOOLEAN, updated : Nat]

Repair == [gen : Nat, target : Nat, live : BOOLEAN,
           state : {"none", "active", "failed", "interrupted", "completed"}]

\* "counted" is the edge set the projection manifest counted: between two
\* refreshes edges only disappear, so equal counts are equal sets.
DocRow   == [id : Nat, rev : Nat]
GraphRow == [rev : Nat, edges : SUBSET Paths, unresolved : SUBSET Paths,
             counted : SUBSET Paths]
Entry    == [path : Paths, id : Nat, rev : Nat]

Steps == {"idle", "write", "plan", "acquire", "expect", "next",
          "snapshot", "prepare", "mark", "apply", "clear", "progress",
          "complete", "fail", "delread", "delprepare", "delapply"}

Deleting == {"delread", "delprepare", "delapply"}

Job == [pc : Steps, mode : {"none", "source", "direct", "repair"},
        path : Paths \cup {0}, id : Nat, rev : Nat, expect : SUBSET Nat,
        content : Nat, updated : Nat, started : Nat, view : SUBSET Paths,
        gen : Nat, target : Nat, todo : SUBSET Entry, settled : BOOLEAN,
        blocked : BOOLEAN, tries : Nat]

Idle == [pc |-> "idle", mode |-> "none", path |-> 0, id |-> 0, rev |-> 0,
         expect |-> {}, content |-> 0, updated |-> 0, started |-> 0,
         view |-> {}, gen |-> 0, target |-> 0, todo |-> {},
         settled |-> FALSE, blocked |-> FALSE, tries |-> 0]

TypeOK ==
    /\ row \in Row
    /\ repair \in Repair
    /\ docs \in [Paths -> DocRow]
    /\ graph \in [Paths -> GraphRow]
    /\ job \in [Workers -> Job]
    /\ \A w \in Workers : job[w].pc \in Deleting => job[w].path \in Paths
    /\ faults \in Nat

\* A registered workspace: the insert trigger creates its revision row.
Init ==
    /\ row = [content |-> 0, indexed |-> 0, state |-> "current",
              started |-> 0, errored |-> FALSE, updated |-> 0]
    /\ repair = [gen |-> 0, target |-> 0, live |-> FALSE, state |-> "none"]
    /\ docs = [p \in Paths |-> NoDoc]
    /\ graph = [p \in Paths |-> NoGraph]
    /\ job = [w \in Workers |-> Idle]
    /\ faults = 0

-----------------------------------------------------------------------------
(* Reading the tables *)

Indexed   == {p \in Paths : docs[p].id # 0}
Projected == {p \in Paths : graph[p].rev # 0}
DocIds    == {docs[p].id : p \in Indexed}

IsCurrent == row.state = "current" /\ row.content = row.indexed /\ ~row.errored

\* The repair row keeps ordinary graph writes and structural reads out.
RepairOpen == repair.state \in {"active", "failed", "interrupted"}

\* The generation is this worker's, for this revision, and its lease runs.
OwnsRepair(w, revision) ==
    /\ repair.state = "active" /\ repair.live
    /\ repair.gen = job[w].gen /\ repair.target = revision

\* Whether p's analysis state and projection manifest are those of its document.
CompleteByManifest(p, d, g) == g[p].rev # 0 /\ g[p].counted = g[p].edges \* mutated
Complete(p, d, g) == g[p].rev = d[p].rev /\ g[p].counted = g[p].edges

AnalysisMatches(expected, d, g) ==
    LET present == {p \in Paths : d[p].id # 0}
    IN  /\ {d[p].id : p \in present} = expected
        /\ \A p \in present : Complete(p, d, g)

(***************************************************************************)
(* Stamps.  updated_at and graph_update_started_at are compared, never      *)
(* subtracted, so a stamp is a number.  next_update_time returns the clock  *)
(* or, when the clock has not passed the given stamp, one nanosecond more;  *)
(* the model takes the second case, the one that keeps stamps closest.      *)
(***************************************************************************)
NextUpdateBackwards(stamp) == stamp - 1 \* mutated
NextUpdateOfClock(stamp) == stamp \* mutated: the clock has not advanced
NextUpdate(stamp) == stamp + 1

-----------------------------------------------------------------------------
(* Graph table contents *)

\* Deleting a document removes the rows it owns and, through to_node, the
\* edges of other documents that end in its nodes.
Cascade(g, p) ==
    [q \in Paths |->
        IF q = p THEN NoGraph ELSE [g[q] EXCEPT !.edges = @ \ {p}]]

\* The manifests of all analysed documents are recounted.
Recount(g) == [q \in Paths |-> [g[q] EXCEPT !.counted = g[q].edges]]

\* Project path p at revision rev from the nodes seen at preparation: p's own
\* relationships, and those of other documents when p's symbols are new.
ProjectDocument(g, p, rev, seen) ==
    LET nodes == seen \cup {p}
    IN  [q \in Paths |->
            IF q = p
              THEN [rev |-> rev, edges |-> Refs[p] \cap nodes,
                    unresolved |-> Refs[p] \ nodes, counted |-> {}]
            ELSE IF p \notin seen /\ q \in seen /\ p \in Refs[q] /\ g[q].rev # 0
              THEN [g[q] EXCEPT !.edges = @ \cup {p}, !.unresolved = @ \ {p}]
            ELSE g[q]]

\* Deleting p through the graph re-resolves what pointed at it.
ProjectDeletion(g, p, seen) ==
    [q \in Paths |->
        IF q = p THEN NoGraph
        ELSE IF q \in seen /\ p \in seen /\ p \in Refs[q] /\ g[q].rev # 0
          THEN [g[q] EXCEPT !.edges = @ \ {p}, !.unresolved = @ \cup {p}]
        ELSE [g[q] EXCEPT !.edges = @ \ {p}]]

\* mutated: the published graph is not withdrawn
BumpShown == [row EXCEPT !.content = @ + 1, !.started = 0, !.errored = FALSE,
                         !.updated = 0]

\* bump_content_revision.  The stamp is a clock reading taken before the
\* analysis began and may precede every stamp in the row.
Bump == [row EXCEPT !.content = @ + 1, !.state = "stale", !.started = 0,
                    !.errored = FALSE, !.updated = 0]

Published(revision) ==
    [row EXCEPT !.indexed = revision, !.state = "current", !.started = 0,
                !.errored = FALSE, !.updated = @ + 1]

-----------------------------------------------------------------------------
(* Job bookkeeping *)

Go(w, step) == job' = [job EXCEPT ![w].pc = step]
Finish(w)   == job' = [job EXCEPT ![w] = Idle]

\* Only the generation is needed to record that a repair failed.
ToFailure(w) == job' = [job EXCEPT ![w] = [Idle EXCEPT !.pc = "fail",
                           !.mode = "repair", !.gen = job[w].gen]]

\* The graph indexer returns an error: a repair records the failure.
Abort(w) == IF job[w].mode = "repair" THEN ToFailure(w) ELSE Finish(w)

\* One of MAX_RECONCILIATION_ATTEMPTS is spent; the row is read again.
Retry(w) ==
    IF job[w].tries + 1 >= MaxAttempts
      THEN Abort(w)
      ELSE job' = [job EXCEPT ![w].pc = "snapshot", ![w].tries = @ + 1]

Fault == faults < MaxFaults /\ faults' = faults + 1

-----------------------------------------------------------------------------
(* Source documents *)

\* reconcile_file and reconcile_file_source_only look the document up before
\* the source is analysed and embedded.
BeginWrite(w, p, mode) ==
    /\ job[w].pc = "idle"
    /\ job' = [job EXCEPT ![w] = [Idle EXCEPT !.pc = "write", !.mode = mode,
                  !.path = p, !.id = docs[p].id, !.rev = docs[p].rev]]
    /\ UNCHANGED <<row, repair, docs, graph, faults>>

\* After apply_document_reconciliation: project, or leave it to a repair.
AfterWrite(w, id, rev) ==
    IF job[w].mode = "direct"
      THEN job' = [job EXCEPT ![w].pc = "expect", ![w].id = id, ![w].rev = rev]
      ELSE Finish(w)

\* New content or a new chunk tree: the content revision advances.  A row
\* already there under another id refuses the chunks' foreign key.
WriteDocument(w) ==
    /\ job[w].pc = "write"
    /\ row.content < MaxRevision
    /\ LET p  == job[w].path
           id == IF job[w].id = 0 THEN row.content + 1 ELSE job[w].id
       IN  /\ docs[p].id \in {0, id}
           /\ row' = Bump
           /\ docs' = [docs EXCEPT ![p] = [id |-> id, rev |-> row.content + 1]]
           /\ AfterWrite(w, id, row.content + 1)
    /\ UNCHANGED <<repair, graph, faults>>

\* The document looked up is unchanged but its embeddings (or, for a direct
\* caller, its analysis) are not compatible: it is written back under the
\* revision read before the analysis and the workspace revision stays.  That
\* takes a change of configuration, which is bounded like a fault; Refreshing
\* are the tasks that may meet one.
Refreshing == {w \in Workers : InPlaceRefresh}

RewriteInPlace(w) ==
    /\ job[w].pc = "write" /\ job[w].id # 0
    /\ LET p == job[w].path
       IN  /\ docs[p].id \in {0, job[w].id}
           /\ docs' = [docs EXCEPT ![p] = [id |-> job[w].id, rev |-> job[w].rev]]
    /\ AfterWrite(w, job[w].id, job[w].rev)
    /\ Fault
    /\ UNCHANGED <<row, repair, graph>>

\* Unchanged source (early return), a source that changed while it was being
\* indexed, an embedding failure, or the foreign key error.
AbandonWrite(w) ==
    /\ job[w].pc = "write"
    /\ Finish(w)
    /\ UNCHANGED <<row, repair, docs, graph, faults>>

\* storage.delete_document: a missing or stale document of a source pass.
DeleteSource(w, p) ==
    /\ job[w].pc = "idle"
    /\ docs[p].id # 0 /\ row.content < MaxRevision
    /\ docs' = [docs EXCEPT ![p] = NoDoc]
    /\ graph' = Cascade(graph, p)
    /\ row' = Bump
    /\ UNCHANGED <<repair, job, faults>>

-----------------------------------------------------------------------------
(* Graph repair: plan, lease, per-document projections, completion *)

\* repair_graph begins by planning against the revision and repair rows ...
BeginRepair(w) ==
    /\ job[w].pc = "idle"
    /\ job' = [job EXCEPT ![w] = [Idle EXCEPT !.pc = "plan", !.mode = "repair",
                  !.target = row.content, !.settled = IsCurrent /\ ~RepairOpen]]
    /\ UNCHANGED <<row, repair, docs, graph, faults>>

\* mutated: no document to repair means nothing to do
NothingToProject(w, needed, drifted) == drifted = {} /\ needed = {}
NothingToRepair(w, needed, drifted) ==
    drifted = {} /\ needed = {} /\ job[w].settled

\* ... and reads the documents and the graph tables later.  A document whose
\* file no longer matches its hash blocks the repair.  Nothing to do and no
\* unfinished generation: the call reports "current".
PlanRepair(w, mode, drifted) ==
    LET needed == {p \in Indexed \ drifted :
                      mode = "Force" \/ ~Complete(p, docs, graph)}
    IN  /\ job[w].pc = "plan"
        /\ drifted \subseteq Indexed
        /\ IF drifted = {} THEN UNCHANGED faults ELSE Fault
        /\ IF NothingToRepair(w, needed, drifted)
             THEN Finish(w)
             ELSE job' = [job EXCEPT ![w].pc = "acquire", ![w].settled = FALSE,
                             ![w].blocked = drifted # {},
                             ![w].todo = {[path |-> p, id |-> docs[p].id,
                                           rev |-> 0] : p \in needed}]
        /\ UNCHANGED <<row, repair, docs, graph>>

\* acquire_graph_repair: an expired owner becomes interrupted in the same
\* transaction that installs the new generation.
AcquireRepair(w) ==
    /\ job[w].pc = "acquire"
    /\ repair.state # "active" \/ ~repair.live
    /\ repair.gen < MaxGeneration
    /\ repair' = [gen |-> repair.gen + 1, target |-> job[w].target,
                  live |-> TRUE, state |-> "active"]
    /\ job' = [job EXCEPT ![w] =
                  IF job[w].blocked
                    THEN [Idle EXCEPT !.pc = "fail", !.mode = "repair",
                                      !.gen = repair.gen + 1]
                    ELSE [job[w] EXCEPT !.pc = "expect", !.gen = repair.gen + 1]]
    /\ UNCHANGED <<row, docs, graph, faults>>

RepairInProgress(w) ==
    /\ job[w].pc = "acquire"
    /\ repair.state = "active" /\ repair.live
    /\ Finish(w)
    /\ UNCHANGED <<row, repair, docs, graph, faults>>

\* The lease runs out: 120 s without a renewal, the owner slow or gone.
LeaseExpires ==
    /\ repair.state = "active" /\ repair.live
    /\ repair' = [repair EXCEPT !.live = FALSE]
    /\ IF \E w \in Workers : job[w].gen = repair.gen
         THEN Fault ELSE UNCHANGED faults
    /\ UNCHANGED <<row, docs, graph, job>>

\* The expected document set, and for a repair the documents themselves, are
\* listed once, before anything is projected.
ListExpectations(w) ==
    LET found(e) == {p \in Paths : docs[p].id = e.id}
    IN  /\ job[w].pc = "expect"
        /\ job' = [job EXCEPT ![w].expect = DocIds,
              ![w].pc = IF job[w].mode = "repair" THEN "next" ELSE "snapshot",
              ![w].todo = {[e EXCEPT !.rev = IF found(e) = {} THEN 0
                               ELSE docs[CHOOSE p \in found(e) : TRUE].rev] :
                              e \in job[w].todo}]
        /\ UNCHANGED <<row, repair, docs, graph, faults>>

\* Documents are repaired in path order, each after its file is read again.
NextDocument(w) ==
    /\ job[w].pc = "next"
    /\ \E e \in job[w].todo :
          /\ \A other \in job[w].todo : e.path <= other.path
          /\ e.rev # 0
          /\ job' = [job EXCEPT ![w].pc = "snapshot", ![w].tries = 0,
                        ![w].path = e.path, ![w].id = e.id, ![w].rev = e.rev,
                        ![w].todo = @ \ {e}]
    /\ UNCHANGED <<row, repair, docs, graph, faults>>

\* "repair document disappeared": the call returns an error and leaves its
\* generation active until the lease expires.
DocumentDisappeared(w) ==
    /\ job[w].pc = "next"
    /\ \E e \in job[w].todo :
          e.rev = 0 /\ \A other \in job[w].todo : e.path <= other.path
    /\ Finish(w)
    /\ UNCHANGED <<row, repair, docs, graph, faults>>

\* The file changed since it was indexed, or its analysis fails.
SourceChangedDuringRepair(w) ==
    /\ job[w].pc = "next" /\ job[w].todo # {}
    /\ ToFailure(w) /\ Fault
    /\ UNCHANGED <<row, repair, docs, graph>>

AllProjected(w) ==
    /\ job[w].pc = "next" /\ job[w].todo = {}
    /\ Go(w, "complete")
    /\ UNCHANGED <<row, repair, docs, graph, faults>>

-----------------------------------------------------------------------------
(* One optimistic projection: snapshot, prepare, mark updating, apply *)

ReadSnapshot(w) ==
    /\ job[w].pc = "snapshot"
    /\ job' = [job EXCEPT ![w].pc = "prepare", ![w].content = row.content,
                          ![w].updated = row.updated]
    /\ UNCHANGED <<row, repair, docs, graph, faults>>

PrepareBatch(w) ==
    /\ job[w].pc = "prepare"
    /\ job' = [job EXCEPT ![w].pc = "mark", ![w].view = Projected]
    /\ UNCHANGED <<row, repair, docs, graph, faults>>

\* mutated: the snapshot is compared by content revision only
SnapshotHoldsByContent(w) ==
    /\ row.content = job[w].content
    /\ IF job[w].mode = "repair"
         THEN OwnsRepair(w, job[w].content)
         ELSE ~RepairOpen

\* The row this worker saw is unchanged, and no unfinished repair stands in
\* the way, or the worker owns the repair of this revision.
SnapshotHolds(w) ==
    /\ row.content = job[w].content
    /\ row.updated = job[w].updated
    /\ IF job[w].mode = "repair"
         THEN OwnsRepair(w, job[w].content)
         ELSE ~RepairOpen

MarkError == [row EXCEPT !.state = "error", !.started = 0, !.errored = TRUE,
                         !.updated = NextUpdate(@)]

\* Preparation fails: the error is recorded if the snapshot still holds.
PrepareFails(w) ==
    /\ job[w].pc = "prepare"
    /\ row' = IF SnapshotHolds(w) THEN MarkError ELSE row
    /\ Abort(w) /\ Fault
    /\ UNCHANGED <<repair, docs, graph>>

MarkUpdating(w) ==
    /\ job[w].pc = "mark"
    /\ SnapshotHolds(w)
    /\ row.updated < MaxStamp
    /\ row' = [row EXCEPT !.state = "updating",
                          !.started = NextUpdate(job[w].updated),
                          !.updated = NextUpdate(job[w].updated)]
    /\ job' = [job EXCEPT ![w].pc = "apply",
                          ![w].started = NextUpdate(job[w].updated)]
    /\ UNCHANGED <<repair, docs, graph, faults>>

MarkRefused(w) ==
    /\ job[w].pc = "mark"
    /\ ~SnapshotHolds(w)
    /\ Retry(w)
    /\ UNCHANGED <<row, repair, docs, graph, faults>>

\* The update announced in the row is still this worker's.
OwnsUpdate(w) ==
    /\ row.content = job[w].content
    /\ row.state = "updating" /\ row.started = job[w].started

\* The document row is the one that was analysed.
SourceIsCurrentById(w) == docs[job[w].path].id = job[w].id \* mutated
SourceIsCurrent(w) ==
    docs[job[w].path] = [id |-> job[w].id, rev |-> job[w].rev]

\* mutated: an update announced before the repair began is let through
MayApplyIgnoringRepair(w) ==
    /\ OwnsUpdate(w)
    /\ job[w].mode = "repair" => OwnsRepair(w, job[w].content)
    /\ SourceIsCurrent(w)

MayApply(w) ==
    /\ OwnsUpdate(w)
    /\ IF job[w].mode = "repair"
         THEN OwnsRepair(w, job[w].content) ELSE ~RepairOpen
    /\ SourceIsCurrent(w)

\* apply_graph_reconciliation: project, recount every manifest and publish,
\* unless a repair owns the publication or some document is not covered.
ApplyProjection(w) ==
    /\ job[w].pc = "apply"
    /\ MayApply(w)
    /\ graph' = Recount(ProjectDocument(graph, job[w].path, job[w].rev,
                                        job[w].view))
    /\ IF job[w].mode # "repair" /\ AnalysisMatches(job[w].expect, docs, graph')
         THEN row' = Published(job[w].content)
         ELSE row' = [row EXCEPT !.state = "stale", !.started = 0,
                                 !.updated = NextUpdate(job[w].started)]
    /\ IF job[w].mode = "repair" THEN Go(w, "progress") ELSE Finish(w)
    /\ UNCHANGED <<repair, docs, faults>>

ApplySuperseded(w) ==
    /\ job[w].pc = "apply"
    /\ ~MayApply(w)
    /\ Go(w, "clear")
    /\ UNCHANGED <<row, repair, docs, graph, faults>>

\* clear_graph_update_if_owned, then another attempt.
ClearUpdate(w) ==
    /\ job[w].pc = "clear"
    /\ row' = IF OwnsUpdate(w)
                THEN [row EXCEPT !.state = "stale", !.started = 0,
                                 !.updated = NextUpdate(job[w].started)]
                ELSE row
    /\ Retry(w)
    /\ UNCHANGED <<repair, docs, graph, faults>>

\* The transaction fails; mark_graph_error_for_update records it if owned.
ApplyFails(w) ==
    /\ job[w].pc = "apply"
    /\ row' = IF OwnsUpdate(w) THEN MarkError ELSE row
    /\ Abort(w) /\ Fault
    /\ UNCHANGED <<repair, docs, graph>>

-----------------------------------------------------------------------------
(* The end of a repair *)

\* The manifest is read back, and record_graph_repair_progress renews the lease
\* or finds it lost; either way out leaves the generation as it is.
RecordProgress(w) ==
    /\ job[w].pc = "progress"
    /\ IF /\ docs[job[w].path].id = job[w].id /\ graph[job[w].path].rev # 0
          /\ repair.state = "active" /\ repair.live /\ repair.gen = job[w].gen
         THEN Go(w, "next") ELSE Finish(w)
    /\ UNCHANGED <<row, repair, docs, graph, faults>>

MayComplete(w) ==
    /\ OwnsRepair(w, job[w].target)
    /\ AnalysisMatches(job[w].expect, docs, graph)
    /\ row.content = job[w].target

\* complete_graph_repair publishes the target revision and closes the
\* generation in one transaction.
CompleteRepair(w) ==
    /\ job[w].pc = "complete"
    /\ MayComplete(w)
    /\ row' = Published(job[w].target)
    /\ repair' = [repair EXCEPT !.state = "completed", !.live = FALSE]
    /\ Finish(w)
    /\ UNCHANGED <<docs, graph, faults>>

CompletionRefused(w) ==
    /\ job[w].pc = "complete"
    /\ ~MayComplete(w)
    /\ ToFailure(w)
    /\ UNCHANGED <<row, repair, docs, graph, faults>>

\* fail_graph_repair: only the owner of a live generation marks it failed.
FailRepair(w) ==
    /\ job[w].pc = "fail"
    /\ IF repair.state = "active" /\ repair.live /\ repair.gen = job[w].gen
         THEN repair' = [repair EXCEPT !.state = "failed"]
         ELSE UNCHANGED repair
    /\ Finish(w)
    /\ UNCHANGED <<row, docs, graph, faults>>

-----------------------------------------------------------------------------
(* GraphIndexer::delete_document: removal of a document through the graph *)

\* The expectations leave the path out.
BeginDelete(w, p) ==
    /\ job[w].pc = "idle"
    /\ job' = [job EXCEPT ![w] = [Idle EXCEPT !.pc = "delread",
                  !.mode = "direct", !.path = p,
                  !.expect = DocIds \ {docs[p].id}]]
    /\ UNCHANGED <<row, repair, docs, graph, faults>>

ReadDeletion(w) ==
    /\ job[w].pc = "delread"
    /\ IF docs[job[w].path].id = 0
         THEN Finish(w)
         ELSE job' = [job EXCEPT ![w].pc = "delprepare",
                         ![w].id = docs[job[w].path].id,
                         ![w].content = row.content,
                         ![w].updated = row.updated]
    /\ UNCHANGED <<row, repair, docs, graph, faults>>

PrepareDeletion(w) ==
    /\ job[w].pc = "delprepare"
    /\ job' = [job EXCEPT ![w].pc = "delapply", ![w].view = Projected]
    /\ UNCHANGED <<row, repair, docs, graph, faults>>

MayDelete(w) ==
    /\ row.content = job[w].content /\ row.updated = job[w].updated
    /\ ~RepairOpen
    /\ docs[job[w].path].id # 0

ApplyDeletion(w) ==
    LET p == job[w].path
    IN  /\ job[w].pc = "delapply"
        /\ MayDelete(w)
        /\ row.content < MaxRevision
        /\ docs' = [docs EXCEPT ![p] = NoDoc]
        /\ graph' = Recount(ProjectDeletion(graph, p, job[w].view))
        /\ row' = IF AnalysisMatches(job[w].expect, docs', graph')
                    THEN [Bump EXCEPT !.indexed = row.content + 1,
                                      !.state = "current", !.updated = 1]
                    ELSE Bump
        /\ Finish(w)
        /\ UNCHANGED <<repair, faults>>

DeletionSuperseded(w) ==
    /\ job[w].pc = "delapply"
    /\ ~MayDelete(w)
    /\ IF job[w].tries + 1 >= MaxAttempts
         THEN Finish(w)
         ELSE job' = [job EXCEPT ![w].pc = "delread", ![w].tries = @ + 1]
    /\ UNCHANGED <<row, repair, docs, graph, faults>>

-----------------------------------------------------------------------------

\* The process dies or the task is dropped: the rows stay as they are.
Crash(w) ==
    /\ job[w].pc # "idle"
    /\ Finish(w) /\ Fault
    /\ UNCHANGED <<row, repair, docs, graph>>

SourceStep(w) ==
    \/ \E p \in Paths : BeginWrite(w, p, "source") \/ DeleteSource(w, p)
    \/ WriteDocument(w) \/ AbandonWrite(w)
    \/ \E v \in {w} \cap Refreshing : RewriteInPlace(v)

ProjectionStep(w) ==
    \/ ListExpectations(w) \/ ReadSnapshot(w) \/ PrepareBatch(w)
    \/ MarkUpdating(w) \/ MarkRefused(w)
    \/ ApplyProjection(w) \/ ApplySuperseded(w) \/ ClearUpdate(w)

RepairStep(w) ==
    \/ \E mode \in RepairModes, drifted \in SUBSET Paths :
          PlanRepair(w, mode, drifted)
    \/ AcquireRepair(w) \/ RepairInProgress(w)
    \/ NextDocument(w) \/ DocumentDisappeared(w) \/ AllProjected(w)
    \/ RecordProgress(w) \/ CompleteRepair(w) \/ CompletionRefused(w)
    \/ FailRepair(w)

FaultStep(w) ==
    \/ Crash(w) \/ PrepareFails(w) \/ ApplyFails(w)
    \/ SourceChangedDuringRepair(w)

\* A document is reconciled or removed together with its graph.
DirectStep(w) ==
    \/ \E p \in Paths : BeginWrite(w, p, "direct") \/ BeginDelete(w, p)
    \/ ReadDeletion(w) \/ PrepareDeletion(w)
    \/ ApplyDeletion(w) \/ DeletionSuperseded(w)

\* What the watcher, reindex_workspace and the repair commands do (D067).
ServiceNext ==
    \/ \E w \in Workers :
          SourceStep(w) \/ BeginRepair(w) \/ ProjectionStep(w)
             \/ RepairStep(w) \/ FaultStep(w)
    \/ LeaseExpires

\* With the incremental operations D067 leaves to other callers.
Next == ServiceNext \/ \E w \in Workers : DirectStep(w)

ServiceSpec == Init /\ [][ServiceNext]_vars

Spec == Init /\ [][Next]_vars

(***************************************************************************)
(* Fairness.  The runtime schedules a task that runs.  Nothing is assumed   *)
(* of the callers: nobody has to ask for a repair, nothing in the code       *)
(* repeats a failed one, and calls of watcher batches, reindexes and server  *)
(* starts may overlap as they like.                                          *)
(***************************************************************************)
TaskStep(w) ==
    \/ WriteDocument(w) \/ AbandonWrite(w)
    \/ \E v \in {w} \cap Refreshing : RewriteInPlace(v)
    \/ ProjectionStep(w) \/ RepairStep(w)

Scheduling == \A w \in Workers : WF_vars(TaskStep(w))

FairServiceSpec == ServiceSpec /\ Scheduling

-----------------------------------------------------------------------------
(* Properties *)

\* Hazard: a document indexed, deleted or only half projected while another
\* worker publishes.  When the revision row says "current", every indexed
\* document has an analysis of the revision it is stored at, and nothing that
\* was deleted is still in the graph.
PublishedMatchesDocuments ==
    row.state = "current" =>
        /\ row.indexed = row.content
        /\ \A p \in Paths : graph[p].rev = docs[p].rev

\* Hazard: a batch prepared from graph tables that changed before it was
\* applied.  Whatever the interleaving, an edge ends in a projected document
\* and a fact is kept unresolved only while its target has no nodes.
ProjectionSound ==
    \A p \in Projected :
        /\ graph[p].edges \subseteq Refs[p] \cap Projected
        /\ graph[p].unresolved \subseteq Refs[p] \ Projected

(***************************************************************************)
(* What the two invariants above rest on.  Within one content revision       *)
(* updated_at only grows, so a snapshot that still holds was followed by no   *)
(* write to the graph tables: the projected paths it was prepared from are    *)
(* those of now.                                                             *)
(***************************************************************************)
Comparing  == {"prepare", "mark", "delprepare", "delapply"}
Announcing == {"apply", "clear"}
Projecting == {"snapshot", "prepare", "mark", "apply", "clear"}

RowsBelongTogether ==
    \A p \in Paths : /\ docs[p].id = 0 <=> docs[p].rev = 0
                     /\ docs[p].id = 0 => graph[p].rev = 0

NamesRevision(w) ==
    /\ job[w].pc \in {"plan", "acquire"} => job[w].mode = "repair"
    /\ \/ job[w].pc \in Projecting
       \/ job[w].pc = "expect" /\ job[w].mode # "repair"
       \/ job[w].pc = "write" /\ job[w].id # 0
       => job[w].rev # 0

JobsNameRevisions == \A w \in Workers : NamesRevision(w)

Stamped(w) ==
    /\ job[w].pc \in Comparing \cup Announcing => job[w].content <= row.content
    /\ job[w].pc \in Comparing /\ job[w].content = row.content =>
          job[w].updated <= row.updated
    /\ job[w].pc \in Announcing /\ job[w].content = row.content =>
          job[w].started <= row.updated

StampsGrow ==
    /\ row.state = "updating" => row.started = row.updated
    /\ \A w \in Workers : Stamped(w)

ViewHolds(w) ==
    \/ /\ job[w].pc \in {"mark", "delapply"}
       /\ job[w].content = row.content /\ job[w].updated = row.updated
    \/ job[w].pc = "apply" /\ OwnsUpdate(w)
    => job[w].view = Projected

ViewsHold == \A w \in Workers : ViewHolds(w)

\* Hazard: optimistic concurrency that compares too little.  A worker whose
\* compare-and-swap is about to succeed prepared its batch from the projected
\* documents of this very moment, and names a revision that exists.
SnapshotsFresh ==
    RowsBelongTogether /\ JobsNameRevisions /\ StampsGrow /\ ViewsHold

\* D066, ownership fenced at every mutation.  From the moment a repair is
\* acquired until a generation completes, nobody publishes, and projections are
\* written only under a running lease for the revision the documents are at,
\* although ordinary writers may have announced their update before.
RepairFencesGraph ==
    [][RepairOpen' =>
          /\ row'.state = "current" => row.state = "current"
          /\ (\E p \in Paths : graph'[p].rev \notin {0, graph[p].rev}) =>
                repair.live /\ repair.target = row.content]_vars

\* Hazard: a worker retries with the analysis of a document that has been
\* indexed again meanwhile.  A projection never takes a document back: what is
\* written for p is the revision p's row has at that moment.
ProjectsStoredRevision ==
    [][\A p \in Paths : graph'[p].rev # graph[p].rev /\ graph'[p].rev # 0
          => graph'[p].rev = docs[p].rev]_vars

\* What a repair cannot make up for: documents that change, and faults.
Disturbances == row.content + faults

\* A caller asks for a repair and the rows call for one; no repair has got
\* further than that, and no dead owner's lease runs.
RepairAsked ==
    /\ \E w \in Workers : job[w].pc = "plan" /\ ~job[w].settled
    /\ \A w \in Workers : job[w].mode = "repair" =>
          job[w].pc = "plan" /\ job[w].target = row.content
    /\ ~repair.live

\* Hazard: repairs that overtake one another, find each other's lease, or lose
\* a snapshot to a projection that began before them, and each give up for the
\* other.  However many calls overlap, a repair asked for leads to a published
\* graph unless the sources change or something fails once more.  (A call that
\* finds a repair at work that began before a change or a fault is not spoken
\* of: it reports that repair and nobody asks again.  Before the first document
\* and the first fault the rows call for no repair.  The last disjunct is the
\* bound on generations.)
GraphConverges ==
    \A d \in 1 .. MaxRevision + MaxFaults :
        RepairAsked /\ Disturbances = d ~>
            \/ IsCurrent /\ ~RepairOpen
            \/ Disturbances # d
            \/ repair.gen = MaxGeneration

\* D065: every relationship fact of a published document is projected, as an
\* edge or as unresolved.
NoFactLost ==
    row.state = "current" =>
        \A p \in Projected : graph[p].edges \cup graph[p].unresolved = Refs[p]
=============================================================================
