----------------------- MODULE GraphPublicationProofs -----------------------
(***************************************************************************)
(* Types and safety of GraphPublication, that it implements GraphContract    *)
(* when documents are not rewritten in place, and that structural reads      *)
(* serve one snapshot whether they are or not, for any number of workers    *)
(* and documents, any reference structure and any bounds.                   *)
(***************************************************************************)
EXTENDS GraphRefinement, GraphReads, TLAPS

-----------------------------------------------------------------------------
(* Types *)

\* The job of a worker that moves on stays a job.
LEMMA JobMoves ==
    ASSUME TypeOK, NEW w \in Workers
    PROVE  /\ \A step \in Steps : Go(w, step) => job' \in [Workers -> Job]
           /\ Finish(w) => job' \in [Workers -> Job]
           /\ ToFailure(w) => job' \in [Workers -> Job]
           /\ Abort(w) => job' \in [Workers -> Job]
           /\ Retry(w) => job' \in [Workers -> Job]
<1>1. ASSUME NEW step \in Steps, Go(w, step)
      PROVE  job' \in [Workers -> Job]
  BY <1>1 DEF TypeOK, Go, Job
<1>2. Idle \in Job
  BY DEF Idle, Job, Steps
<1>3. Finish(w) => job' \in [Workers -> Job]
  BY <1>2 DEF TypeOK, Finish
<1>4. ToFailure(w) => job' \in [Workers -> Job]
  <2>1. job[w].gen \in Nat
    BY DEF TypeOK, Job
  <2>2. \A gen \in Nat : [Idle EXCEPT !.pc = "fail", !.mode = "repair",
                                       !.gen = gen] \in Job
    BY DEF Idle, Job, Steps
  <2> QED  BY <2>1, <2>2 DEF TypeOK, ToFailure
<1>5. Abort(w) => job' \in [Workers -> Job]
  BY <1>3, <1>4 DEF Abort
<1>6. Retry(w) => job' \in [Workers -> Job]
  BY <1>5 DEF TypeOK, Retry, Job, Steps
<1> QED  BY <1>1, <1>3, <1>4, <1>5, <1>6

\* The values the row is given are rows.
LEMMA RowMoves ==
    ASSUME TypeOK
    PROVE  /\ Bump \in Row
           /\ MarkError \in Row
           /\ \A revision \in Nat : Published(revision) \in Row
           /\ \A w \in Workers : [row EXCEPT !.state = "stale", !.started = 0,
                                     !.updated = NextUpdate(job[w].started)] \in Row
<1>1. /\ row \in Row
      /\ row.content + 1 \in Nat /\ row.updated + 1 \in Nat
  BY DEF TypeOK, Row
<1>2. Bump \in Row
  BY <1>1 DEF Bump, Row
<1>3. MarkError \in Row
  BY <1>1 DEF MarkError, Row, NextUpdate
<1>4. \A revision \in Nat : Published(revision) \in Row
  BY <1>1 DEF Published, Row
<1>5. ASSUME NEW w \in Workers
      PROVE  [row EXCEPT !.state = "stale", !.started = 0,
                         !.updated = NextUpdate(job[w].started)] \in Row
  <2>1. job[w].started \in Nat /\ job[w].started + 1 \in Nat
    BY DEF TypeOK, Job
  <2> QED  BY <1>1, <2>1 DEF Row, NextUpdate
<1> QED  BY <1>2, <1>3, <1>4, <1>5

\* So are the values of the graph tables, after a cascade ...
LEMMA CascadeMoves ==
    ASSUME TypeOK, NEW p
    PROVE  Cascade(graph, p) \in [Paths -> GraphRow]
<1>1. \A q \in Paths : /\ graph[q] \in GraphRow
                       /\ graph[q].edges \ {p} \in SUBSET Paths
  BY DEF TypeOK, GraphRow
<1>2. \A r \in GraphRow, e \in SUBSET Paths : [r EXCEPT !.edges = e] \in GraphRow
  BY DEF GraphRow
<1> QED  BY <1>1, <1>2 DEF Cascade, GraphRow, NoGraph

\* ... and after a projection.
LEMMA GraphMoves ==
    ASSUME TypeOK, NEW p, NEW seen \in SUBSET Paths, NEW rev \in Nat
    PROVE  /\ ProjectDocument(graph, p, rev, seen) \in [Paths -> GraphRow]
           /\ ProjectDeletion(graph, p, seen) \in [Paths -> GraphRow]
           /\ Recount(ProjectDocument(graph, p, rev, seen)) \in [Paths -> GraphRow]
           /\ Recount(ProjectDeletion(graph, p, seen)) \in [Paths -> GraphRow]
<1>1. \A g \in [Paths -> GraphRow] : Recount(g) \in [Paths -> GraphRow]
  BY DEF Recount, GraphRow
<1>2. \A q \in Paths :
         /\ graph[q] \in GraphRow
         /\ graph[q].edges \ {p} \in SUBSET Paths
         /\ graph[q].unresolved \ {p} \in SUBSET Paths
         /\ p \in Refs[q] => /\ graph[q].edges \cup {p} \in SUBSET Paths
                             /\ graph[q].unresolved \cup {p} \in SUBSET Paths
  BY PathsAssumption DEF TypeOK, GraphRow
<1>3. \A r \in GraphRow, e, u \in SUBSET Paths :
         /\ [r EXCEPT !.edges = e] \in GraphRow
         /\ [r EXCEPT !.edges = e, !.unresolved = u] \in GraphRow
  BY DEF GraphRow
<1>4. ProjectDocument(graph, p, rev, seen) \in [Paths -> GraphRow]
  <2> DEFINE nodes == seen \cup {p}
  <2>1. p \in Paths =>
           [rev |-> rev, edges |-> Refs[p] \cap nodes,
            unresolved |-> Refs[p] \ nodes, counted |-> {}] \in GraphRow
    BY PathsAssumption DEF GraphRow
  <2> QED  BY <1>2, <1>3, <2>1 DEF ProjectDocument
<1>5. ProjectDeletion(graph, p, seen) \in [Paths -> GraphRow]
  <2>1. NoGraph \in GraphRow
    BY DEF NoGraph, GraphRow
  <2> QED  BY <1>2, <1>3, <2>1 DEF ProjectDeletion
<1> QED  BY <1>1, <1>4, <1>5

\* The parts of TypeOK, one by one: each step keeps the rows of the database
\* in their types ...
LEMMA TablesStep ==
    ASSUME TypeOK, [Next]_vars
    PROVE  /\ row' \in Row /\ repair' \in Repair /\ faults' \in Nat
           /\ docs' \in [Paths -> DocRow] /\ graph' \in [Paths -> GraphRow]
<1> DEFINE Goal == /\ row' \in Row /\ repair' \in Repair /\ faults' \in Nat
                   /\ docs' \in [Paths -> DocRow]
                   /\ graph' \in [Paths -> GraphRow]
<1>0. /\ row \in Row /\ repair \in Repair /\ faults \in Nat
      /\ docs \in [Paths -> DocRow] /\ graph \in [Paths -> GraphRow]
      /\ job \in [Workers -> Job]
  BY DEF TypeOK
<1>f. Fault => faults' \in Nat
  BY <1>0 DEF Fault
<1>j. \A w \in Workers :
         /\ job[w].id \in Nat /\ job[w].rev \in Nat /\ job[w].target \in Nat
         /\ job[w].content \in Nat /\ job[w].updated \in Nat
         /\ job[w].updated + 1 \in Nat /\ job[w].view \in SUBSET Paths
  BY <1>0 DEF Job
<1>n. /\ row.content \in Nat /\ row.content + 1 \in Nat
      /\ repair.gen + 1 \in Nat
  BY <1>0 DEF Row, Repair
<1>1. CASE UNCHANGED vars
  BY <1>1, <1>0 DEF vars
<1>2. ASSUME NEW w \in Workers, SourceStep(w)
      PROVE  Goal
  <2>1. CASE \E p \in Paths : BeginWrite(w, p, "source")
    BY <2>1, <1>0 DEF BeginWrite
  <2>2. ASSUME NEW p \in Paths, DeleteSource(w, p)
        PROVE  Goal
    <3>1. Cascade(graph, p) \in [Paths -> GraphRow]
      BY CascadeMoves
    <3>2. NoDoc \in DocRow
      BY DEF NoDoc, DocRow
    <3> QED  BY <2>2, <3>1, <3>2, <1>0, RowMoves DEF DeleteSource
  <2>3. CASE WriteDocument(w)
    BY <2>3, <1>0, <1>j, <1>n, RowMoves DEF WriteDocument, DocRow
  <2>4. CASE RewriteInPlace(w)
    BY <2>4, <1>0, <1>j, <1>f DEF RewriteInPlace, DocRow
  <2>5. CASE AbandonWrite(w)
    BY <2>5, <1>0 DEF AbandonWrite
  <2> QED  BY <1>2, <2>1, <2>2, <2>3, <2>4, <2>5 DEF SourceStep
<1>3. ASSUME NEW w \in Workers, BeginRepair(w)
      PROVE  Goal
  BY <1>3, <1>0 DEF BeginRepair
<1>4. ASSUME NEW w \in Workers, ProjectionStep(w)
      PROVE  Goal
  <2>1. CASE ListExpectations(w) \/ ReadSnapshot(w) \/ PrepareBatch(w)
             \/ MarkRefused(w) \/ ApplySuperseded(w)
    BY <2>1, <1>0 DEF ListExpectations, ReadSnapshot, PrepareBatch,
                      MarkRefused, ApplySuperseded
  <2>2. CASE MarkUpdating(w)
    BY <2>2, <1>0, <1>j DEF MarkUpdating, Row, NextUpdate
  <2>3. CASE ApplyProjection(w)
    BY <2>3, <1>0, <1>j, RowMoves, GraphMoves DEF ApplyProjection
  <2>4. CASE ClearUpdate(w)
    BY <2>4, <1>0, RowMoves DEF ClearUpdate
  <2> QED  BY <1>4, <2>1, <2>2, <2>3, <2>4 DEF ProjectionStep
<1>5. ASSUME NEW w \in Workers, RepairStep(w)
      PROVE  Goal
  <2>1. CASE \E mode \in RepairModes, drifted \in SUBSET Paths :
                PlanRepair(w, mode, drifted)
    BY <2>1, <1>0, <1>f DEF PlanRepair
  <2>2. CASE AcquireRepair(w)
    BY <2>2, <1>0, <1>j, <1>n DEF AcquireRepair, Repair
  <2>3. CASE RepairInProgress(w) \/ NextDocument(w) \/ DocumentDisappeared(w)
             \/ AllProjected(w) \/ RecordProgress(w) \/ CompletionRefused(w)
    BY <2>3, <1>0 DEF RepairInProgress, NextDocument, DocumentDisappeared,
                      AllProjected, RecordProgress, CompletionRefused
  <2>4. CASE CompleteRepair(w)
    BY <2>4, <1>0, <1>j, RowMoves DEF CompleteRepair, Repair
  <2>5. CASE FailRepair(w)
    BY <2>5, <1>0 DEF FailRepair, Repair
  <2> QED  BY <1>5, <2>1, <2>2, <2>3, <2>4, <2>5 DEF RepairStep
<1>6. ASSUME NEW w \in Workers, FaultStep(w)
      PROVE  Goal
  BY <1>6, <1>0, <1>f, RowMoves
     DEF FaultStep, Crash, PrepareFails, ApplyFails, SourceChangedDuringRepair
<1>7. ASSUME NEW w \in Workers, DirectStep(w)
      PROVE  Goal
  <2>1. CASE \E p \in Paths : BeginWrite(w, p, "direct") \/ BeginDelete(w, p)
    BY <2>1, <1>0 DEF BeginWrite, BeginDelete
  <2>2. CASE ReadDeletion(w) \/ PrepareDeletion(w) \/ DeletionSuperseded(w)
    BY <2>2, <1>0 DEF ReadDeletion, PrepareDeletion, DeletionSuperseded
  <2>3. CASE ApplyDeletion(w)
    <3>1. [Bump EXCEPT !.indexed = row.content + 1, !.state = "current",
                       !.updated = 1] \in Row
      BY <1>n, RowMoves DEF Row
    <3> QED  BY <2>3, <3>1, <1>0, <1>j, RowMoves, GraphMoves
             DEF ApplyDeletion, NoDoc, DocRow
  <2> QED  BY <1>7, <2>1, <2>2, <2>3 DEF DirectStep
<1>8. CASE LeaseExpires
  BY <1>8, <1>0, <1>f DEF LeaseExpires, Repair
<1> QED  BY <1>1, <1>2, <1>3, <1>4, <1>5, <1>6, <1>7, <1>8
         DEF Next, ServiceNext

\* Changing fields of a job within their types gives a job.
LEMMA JobRecords ==
    ASSUME NEW j \in Job, NEW step \in Steps
    PROVE  /\ \A view \in SUBSET Paths :
                 [j EXCEPT !.pc = step, !.view = view] \in Job
           /\ \A content, updated \in Nat :
                 [j EXCEPT !.pc = step, !.content = content,
                           !.updated = updated] \in Job
           /\ \A id, content, updated \in Nat :
                 [j EXCEPT !.pc = step, !.id = id, !.content = content,
                           !.updated = updated] \in Job
           /\ \A id, rev \in Nat :
                 [j EXCEPT !.pc = step, !.id = id, !.rev = rev] \in Job
           /\ \A started \in Nat : [j EXCEPT !.pc = step, !.started = started] \in Job
           /\ \A gen \in Nat : [j EXCEPT !.pc = step, !.gen = gen] \in Job
           /\ \A tries \in Nat : [j EXCEPT !.pc = step, !.tries = tries] \in Job
<1>1. ASSUME NEW view \in SUBSET Paths
      PROVE  [j EXCEPT !.pc = step, !.view = view] \in Job
  BY DEF Job
<1>2. ASSUME NEW content \in Nat, NEW updated \in Nat
      PROVE  [j EXCEPT !.pc = step, !.content = content, !.updated = updated] \in Job
  BY DEF Job
<1>3. ASSUME NEW id \in Nat, NEW content \in Nat, NEW updated \in Nat
      PROVE  [j EXCEPT !.pc = step, !.id = id, !.content = content,
                       !.updated = updated] \in Job
  BY DEF Job
<1>4. ASSUME NEW id \in Nat, NEW rev \in Nat
      PROVE  [j EXCEPT !.pc = step, !.id = id, !.rev = rev] \in Job
  BY DEF Job
<1>5. ASSUME NEW n \in Nat
      PROVE  /\ [j EXCEPT !.pc = step, !.started = n] \in Job
             /\ [j EXCEPT !.pc = step, !.gen = n] \in Job
             /\ [j EXCEPT !.pc = step, !.tries = n] \in Job
  BY DEF Job
<1> QED  BY <1>1, <1>2, <1>3, <1>4, <1>5

\* ... and the same of what an action that plans or takes a document remembers.
LEMMA PlanRecords ==
    ASSUME NEW j \in Job, NEW step \in Steps, NEW todo \in SUBSET Entry
    PROVE  /\ \A expect \in SUBSET Nat :
                 [j EXCEPT !.expect = expect, !.pc = step, !.todo = todo] \in Job
           /\ \A blocked, settled \in BOOLEAN :
                 [j EXCEPT !.pc = step, !.settled = settled,
                           !.blocked = blocked, !.todo = todo] \in Job
           /\ \A path \in Paths \cup {0}, id, rev, tries \in Nat :
                 [j EXCEPT !.pc = step, !.tries = tries, !.path = path,
                           !.id = id, !.rev = rev, !.todo = todo] \in Job
<1>1. ASSUME NEW expect \in SUBSET Nat
      PROVE  [j EXCEPT !.expect = expect, !.pc = step, !.todo = todo] \in Job
  BY DEF Job
<1>2. ASSUME NEW blocked \in BOOLEAN, NEW settled \in BOOLEAN
      PROVE  [j EXCEPT !.pc = step, !.settled = settled,
                       !.blocked = blocked, !.todo = todo] \in Job
  BY DEF Job
<1>3. ASSUME NEW path \in Paths \cup {0}, NEW id \in Nat, NEW rev \in Nat,
             NEW tries \in Nat
      PROVE  [j EXCEPT !.pc = step, !.tries = tries, !.path = path,
                       !.id = id, !.rev = rev, !.todo = todo] \in Job
  BY DEF Job
<1> QED  BY <1>1, <1>2, <1>3

\* ... and each worker's record in its type.
LEMMA JobStep ==
    ASSUME TypeOK, [Next]_vars
    PROVE  job' \in [Workers -> Job]
<1> DEFINE Goal == job' \in [Workers -> Job]
<1>0. /\ row \in Row /\ repair \in Repair
      /\ docs \in [Paths -> DocRow] /\ job \in [Workers -> Job]
  BY DEF TypeOK
<1>d. DocIds \in SUBSET Nat /\ Projected \in SUBSET Paths
  BY <1>0 DEF DocIds, Indexed, Projected, DocRow
<1>n. /\ row.content \in Nat /\ row.content + 1 \in Nat /\ row.updated \in Nat
      /\ repair.gen + 1 \in Nat
  BY <1>0 DEF Row, Repair
<1>p. \A p \in Paths : docs[p].id \in Nat /\ docs[p].rev \in Nat
  BY <1>0 DEF DocRow
<1>i. Idle \in Job
  BY DEF Idle, Job, Steps
<1>w. \A w \in Workers : job[w] \in Job
  BY <1>0
<1>s. /\ "expect" \in Steps /\ "prepare" \in Steps /\ "mark" \in Steps
      /\ "apply" \in Steps /\ "acquire" \in Steps /\ "snapshot" \in Steps
      /\ "next" \in Steps /\ "delread" \in Steps /\ "delprepare" \in Steps
      /\ "delapply" \in Steps
  BY DEF Steps
<1>1. CASE UNCHANGED vars
  BY <1>1, <1>0 DEF vars
<1>b. ASSUME NEW w \in Workers, NEW p \in Paths, NEW m \in {"source", "direct"},
             BeginWrite(w, p, m)
      PROVE  Goal
  <2>1. [Idle EXCEPT !.pc = "write", !.mode = m, !.path = p,
                     !.id = docs[p].id, !.rev = docs[p].rev] \in Job
    BY <1>p DEF Idle, Job, Steps
  <2> QED  BY <1>b, <1>0, <2>1 DEF BeginWrite
<1>2. ASSUME NEW w \in Workers, SourceStep(w)
      PROVE  Goal
  <2>a. ASSUME NEW id \in Nat, NEW rev \in Nat, AfterWrite(w, id, rev)
        PROVE  Goal
    <3>0. job[w] \in Job
      BY <1>w
    <3>1. [job[w] EXCEPT !.pc = "expect", !.id = id, !.rev = rev] \in Job
      BY <3>0, <1>s, JobRecords
    <3> QED  BY <2>a, <3>1, <1>0, JobMoves DEF AfterWrite
  <2>1. CASE \E p \in Paths : BeginWrite(w, p, "source")
    BY <2>1, <1>b
  <2>2. CASE \E p \in Paths : DeleteSource(w, p)
    BY <2>2, <1>0 DEF DeleteSource
  <2>3. CASE WriteDocument(w)
    <3> DEFINE id == IF job[w].id = 0 THEN row.content + 1 ELSE job[w].id
    <3>1. id \in Nat
      BY <1>n, <1>w DEF Job
    <3> QED  BY <2>3, <2>a, <3>1, <1>n DEF WriteDocument
  <2>4. CASE RewriteInPlace(w)
    <3>1. job[w].id \in Nat /\ job[w].rev \in Nat
      BY <1>w DEF Job
    <3> QED  BY <2>4, <2>a, <3>1 DEF RewriteInPlace
  <2>5. CASE AbandonWrite(w)
    BY <2>5, JobMoves DEF AbandonWrite
  <2> QED  BY <1>2, <2>1, <2>2, <2>3, <2>4, <2>5 DEF SourceStep
<1>3. ASSUME NEW w \in Workers, BeginRepair(w)
      PROVE  Goal
  <2>1. [Idle EXCEPT !.pc = "plan", !.mode = "repair", !.target = row.content,
                     !.settled = IsCurrent /\ ~RepairOpen] \in Job
    BY <1>n DEF Idle, Job, Steps, IsCurrent, RepairOpen
  <2> QED  BY <1>3, <1>0, <2>1 DEF BeginRepair
<1>4. ASSUME NEW w \in Workers, ProjectionStep(w)
      PROVE  Goal
  <2>1. CASE ListExpectations(w)
    <3> DEFINE found(e) == {p \in Paths : docs[p].id = e.id}
               revised(e) == [e EXCEPT !.rev = IF found(e) = {} THEN 0
                                ELSE docs[CHOOSE p \in found(e) : TRUE].rev]
    <3>1. \A e \in job[w].todo : revised(e) \in Entry
      <4> SUFFICES ASSUME NEW e \in job[w].todo
                   PROVE  revised(e) \in Entry
        OBVIOUS
      <4>1. e \in Entry
        BY <1>w DEF Job
      <4>2. found(e) # {} => docs[CHOOSE p \in found(e) : TRUE].rev \in Nat
        BY <1>p
      <4> QED  BY <4>1, <4>2 DEF Entry
    <3> DEFINE todo == {revised(e) : e \in job[w].todo}
               step == IF job[w].mode = "repair" THEN "next" ELSE "snapshot"
    <3>2. todo \in SUBSET Entry /\ step \in Steps
      BY <3>1, <1>s
    <3>3. job' = [job EXCEPT ![w] = [job[w] EXCEPT !.expect = DocIds, !.pc = step,
                                                   !.todo = todo]]
      BY <2>1 DEF ListExpectations
    <3> HIDE DEF todo, step
    <3>4. [job[w] EXCEPT !.expect = DocIds, !.pc = step, !.todo = todo] \in Job
      BY <3>2, <1>w, <1>d, PlanRecords
    <3> QED  BY <3>3, <3>4, <1>0
  <2>2. CASE ReadSnapshot(w)
    <3>1. [job[w] EXCEPT !.pc = "prepare", !.content = row.content,
                         !.updated = row.updated] \in Job
      BY <1>w, <1>n, <1>s, JobRecords
    <3> QED  BY <2>2, <3>1, <1>0 DEF ReadSnapshot
  <2>3. CASE PrepareBatch(w)
    <3>1. [job[w] EXCEPT !.pc = "mark", !.view = Projected] \in Job
      BY <1>s, <1>w, <1>d, JobRecords
    <3> QED  BY <2>3, <3>1, <1>0 DEF PrepareBatch
  <2>4. CASE MarkUpdating(w)
    <3>1. job[w].updated + 1 \in Nat
      BY <1>w DEF Job
    <3>2. [job[w] EXCEPT !.pc = "apply", !.started = job[w].updated + 1] \in Job
      BY <1>w, <3>1, <1>s, JobRecords
    <3> QED  BY <2>4, <3>2, <1>0 DEF MarkUpdating, NextUpdate
  <2>5. CASE MarkRefused(w) \/ ClearUpdate(w)
    BY <2>5, JobMoves DEF MarkRefused, ClearUpdate
  <2>6. CASE ApplyProjection(w) \/ ApplySuperseded(w)
    BY <2>6, JobMoves DEF ApplyProjection, ApplySuperseded, Steps
  <2> QED  BY <1>4, <2>1, <2>2, <2>3, <2>4, <2>5, <2>6 DEF ProjectionStep
<1>5. ASSUME NEW w \in Workers, RepairStep(w)
      PROVE  Goal
  <2>1. ASSUME NEW mode \in RepairModes, NEW drifted \in SUBSET Paths,
               PlanRepair(w, mode, drifted)
        PROVE  Goal
    <3> DEFINE needed == {p \in Indexed \ drifted :
                             mode = "Force" \/ ~Complete(p, docs, graph)}
               todo == {[path |-> p, id |-> docs[p].id, rev |-> 0] : p \in needed}
               blocked == drifted # {}
    <3>1. todo \in SUBSET Entry
      BY <1>p DEF Entry, Indexed
    <3>2. \/ Finish(w)
          \/ job' = [job EXCEPT ![w] = [job[w] EXCEPT !.pc = "acquire",
                        !.settled = FALSE, !.blocked = blocked, !.todo = todo]]
      BY <2>1 DEF PlanRepair
    <3>3. blocked \in BOOLEAN
      OBVIOUS
    <3> HIDE DEF todo, blocked
    <3>4. [job[w] EXCEPT !.pc = "acquire", !.settled = FALSE,
                         !.blocked = blocked, !.todo = todo] \in Job
      BY <3>1, <3>3, <1>s, <1>w, PlanRecords
    <3> QED  BY <3>2, <3>4, <1>0, JobMoves
  <2>2. CASE AcquireRepair(w)
    <3>1. [Idle EXCEPT !.pc = "fail", !.mode = "repair",
                       !.gen = repair.gen + 1] \in Job
      BY <1>n DEF Idle, Job, Steps
    <3>2. [job[w] EXCEPT !.pc = "expect", !.gen = repair.gen + 1] \in Job
      BY <1>n, <1>w, <1>s, JobRecords
    <3> QED  BY <2>2, <3>1, <3>2, <1>0 DEF AcquireRepair
  <2>3. CASE NextDocument(w)
    <3>1. PICK e \in job[w].todo :
             job' = [job EXCEPT ![w].pc = "snapshot", ![w].tries = 0,
                        ![w].path = e.path, ![w].id = e.id, ![w].rev = e.rev,
                        ![w].todo = @ \ {e}]
      BY <2>3 DEF NextDocument
    <3>2. /\ e.path \in Paths \cup {0} /\ e.id \in Nat /\ e.rev \in Nat
          /\ job[w].todo \ {e} \in SUBSET Entry
      BY <1>w DEF Job, Entry
    <3>3. [job[w] EXCEPT !.pc = "snapshot", !.tries = 0, !.path = e.path,
                         !.id = e.id, !.rev = e.rev, !.todo = @ \ {e}] \in Job
      BY <3>2, <1>s, <1>w, PlanRecords
    <3> QED  BY <3>1, <3>3, <1>0
  <2>4. CASE RepairInProgress(w) \/ DocumentDisappeared(w) \/ AllProjected(w)
             \/ RecordProgress(w) \/ CompleteRepair(w) \/ CompletionRefused(w)
             \/ FailRepair(w)
    BY <2>4, JobMoves DEF RepairInProgress, DocumentDisappeared, AllProjected,
       RecordProgress, CompleteRepair, CompletionRefused, FailRepair, Steps
  <2> QED  BY <1>5, <2>1, <2>2, <2>3, <2>4 DEF RepairStep
<1>6. ASSUME NEW w \in Workers, FaultStep(w)
      PROVE  Goal
  BY <1>6, JobMoves
     DEF FaultStep, Crash, PrepareFails, ApplyFails, SourceChangedDuringRepair
<1>7. ASSUME NEW w \in Workers, DirectStep(w)
      PROVE  Goal
  <2>1. CASE \E p \in Paths : BeginWrite(w, p, "direct")
    BY <2>1, <1>b
  <2>2. ASSUME NEW p \in Paths, BeginDelete(w, p)
        PROVE  Goal
    <3> DEFINE expect == DocIds \ {docs[p].id}
    <3>1. expect \in SUBSET Nat
      BY <1>d
    <3>2. job' = [job EXCEPT ![w] = [Idle EXCEPT !.pc = "delread",
                     !.mode = "direct", !.path = p, !.expect = expect]]
      BY <2>2 DEF BeginDelete
    <3> HIDE DEF expect
    <3>3. [Idle EXCEPT !.pc = "delread", !.mode = "direct", !.path = p,
                       !.expect = expect] \in Job
      BY <3>1 DEF Idle, Job, Steps
    <3> QED  BY <3>2, <3>3, <1>0
  <2>3. CASE ReadDeletion(w)
    <3>1. job[w].path \in Paths
      BY <2>3 DEF ReadDeletion, TypeOK, Deleting
    <3>2. docs[job[w].path].id \in Nat
      BY <3>1, <1>p
    <3>3. [job[w] EXCEPT !.pc = "delprepare", !.id = docs[job[w].path].id,
                         !.content = row.content, !.updated = row.updated] \in Job
      BY <3>2, <1>s, <1>n, <1>w, JobRecords
    <3> QED  BY <2>3, <3>3, <1>0, JobMoves DEF ReadDeletion
  <2>4. CASE PrepareDeletion(w)
    <3>1. [job[w] EXCEPT !.pc = "delapply", !.view = Projected] \in Job
      BY <1>s, <1>w, <1>d, JobRecords
    <3> QED  BY <2>4, <3>1, <1>0 DEF PrepareDeletion
  <2>5. CASE ApplyDeletion(w)
    BY <2>5, JobMoves DEF ApplyDeletion
  <2>6. CASE DeletionSuperseded(w)
    <3>1. job[w].tries + 1 \in Nat
      BY <1>w DEF Job
    <3>2. [job[w] EXCEPT !.pc = "delread", !.tries = job[w].tries + 1] \in Job
      BY <3>1, <1>w, <1>s, JobRecords
    <3> QED  BY <2>6, <3>2, <1>0, JobMoves DEF DeletionSuperseded
  <2> QED  BY <1>7, <2>1, <2>2, <2>3, <2>4, <2>5, <2>6 DEF DirectStep
<1>8. CASE LeaseExpires
  BY <1>8, <1>0 DEF LeaseExpires
<1> QED  BY <1>1, <1>2, <1>3, <1>4, <1>5, <1>6, <1>7, <1>8
         DEF Next, ServiceNext

WorkerStep(w) ==
    \/ SourceStep(w) \/ BeginRepair(w) \/ ProjectionStep(w)
    \/ RepairStep(w) \/ FaultStep(w) \/ DirectStep(w)

\* A worker's step leaves what the other workers remember alone.
LEMMA OthersUntouched ==
    ASSUME TypeOK, NEW w \in Workers, WorkerStep(w),
           NEW v \in Workers, v # w
    PROVE  job'[v] = job[v]
<1>0. job \in [Workers -> Job]
  BY DEF TypeOK
<1>1. /\ \A step : Go(w, step) => job'[v] = job[v]
      /\ Finish(w) => job'[v] = job[v]
      /\ ToFailure(w) => job'[v] = job[v]
  BY <1>0 DEF Go, Finish, ToFailure
<1>2. /\ Abort(w) => job'[v] = job[v]
      /\ Retry(w) => job'[v] = job[v]
      /\ \A id, rev : AfterWrite(w, id, rev) => job'[v] = job[v]
  BY <1>0, <1>1 DEF Abort, Retry, AfterWrite
<1>3. CASE SourceStep(w)
  <2>1. CASE RewriteInPlace(w)
    BY <1>0, <1>1, <1>2, <2>1 DEF RewriteInPlace
  <2>2. CASE ~RewriteInPlace(w)
    BY <1>0, <1>1, <1>2, <1>3, <2>2 DEF SourceStep, BeginWrite, WriteDocument,
       AbandonWrite, DeleteSource
  <2> QED  BY <2>1, <2>2
<1>4. CASE BeginRepair(w)
  BY <1>0, <1>4 DEF BeginRepair
<1>5. CASE ProjectionStep(w)
  <2>1. CASE ListExpectations(w)
    BY <2>1, <1>0 DEF ListExpectations
  <2>2. CASE ReadSnapshot(w) \/ PrepareBatch(w) \/ MarkUpdating(w)
    BY <2>2, <1>0 DEF ReadSnapshot, PrepareBatch, MarkUpdating
  <2>3. CASE MarkRefused(w) \/ ApplyProjection(w) \/ ApplySuperseded(w)
             \/ ClearUpdate(w)
    BY <2>3, <1>1, <1>2 DEF MarkRefused, ApplyProjection, ApplySuperseded,
       ClearUpdate
  <2> QED  BY <1>5, <2>1, <2>2, <2>3 DEF ProjectionStep
<1>6. CASE RepairStep(w)
  <2>1. CASE \E mode \in RepairModes, drifted \in SUBSET Paths :
                PlanRepair(w, mode, drifted)
    BY <2>1, <1>0, <1>1 DEF PlanRepair
  <2>2. CASE AcquireRepair(w)
    BY <2>2, <1>0 DEF AcquireRepair
  <2>3. CASE NextDocument(w)
    BY <2>3, <1>0 DEF NextDocument
  <2>4. CASE RepairInProgress(w) \/ DocumentDisappeared(w) \/ AllProjected(w)
             \/ RecordProgress(w) \/ CompleteRepair(w) \/ CompletionRefused(w)
             \/ FailRepair(w)
    BY <2>4, <1>1 DEF RepairInProgress, DocumentDisappeared, AllProjected,
       RecordProgress, CompleteRepair, CompletionRefused, FailRepair
  <2> QED  BY <1>6, <2>1, <2>2, <2>3, <2>4 DEF RepairStep
<1>7. CASE FaultStep(w)
  BY <1>1, <1>2, <1>7
     DEF FaultStep, Crash, PrepareFails, ApplyFails, SourceChangedDuringRepair
<1>8. CASE DirectStep(w)
  BY <1>0, <1>1, <1>8 DEF DirectStep, BeginWrite, BeginDelete, ReadDeletion,
     PrepareDeletion, ApplyDeletion, DeletionSuperseded
<1> QED  BY <1>3, <1>4, <1>5, <1>6, <1>7, <1>8 DEF WorkerStep

\* The record of a worker that goes on, ends, fails or tries again.
LEMMA OwnRecord ==
    ASSUME TypeOK, NEW w \in Workers
    PROVE  /\ job[w] \in Job
           /\ \A step : Go(w, step) =>
                /\ job'[w].pc = step
                /\ job'[w].rev = job[w].rev /\ job'[w].view = job[w].view
                /\ job'[w].content = job[w].content
                /\ job'[w].started = job[w].started
           /\ Finish(w) => job'[w].pc = "idle"
           /\ ToFailure(w) => job'[w].pc = "fail"
           /\ Abort(w) => job'[w].pc \in {"idle", "fail"}
           /\ Retry(w) =>
                \/ job'[w].pc \in {"idle", "fail"}
                \/ job'[w].pc = "snapshot" /\ job'[w].rev = job[w].rev
<1>0. job \in [Workers -> Job] /\ job[w] \in Job
  BY DEF TypeOK
<1>1. ASSUME NEW step, Go(w, step)
      PROVE  /\ job'[w].pc = step
             /\ job'[w].rev = job[w].rev /\ job'[w].view = job[w].view
             /\ job'[w].content = job[w].content
             /\ job'[w].started = job[w].started
  BY <1>0, <1>1 DEF Go, Job
<1>2. Finish(w) => job'[w].pc = "idle"
  BY <1>0 DEF Finish, Idle
<1>3. ToFailure(w) => job'[w].pc = "fail"
  BY <1>0 DEF ToFailure, Idle
<1>4. Abort(w) => job'[w].pc \in {"idle", "fail"}
  BY <1>2, <1>3 DEF Abort
<1>5. Retry(w) => \/ job'[w].pc \in {"idle", "fail"}
                  \/ job'[w].pc = "snapshot" /\ job'[w].rev = job[w].rev
  BY <1>0, <1>4 DEF Retry, Job
<1> QED  BY <1>0, <1>1, <1>2, <1>3, <1>4, <1>5

\* Where a worker is after a step, and what it then remembers of the tables:
\* the steps before a projection is tried ...
LEMMA SourceMoves ==
    ASSUME TypeOK, NEW w \in Workers
    PROVE  /\ \A p \in Paths, m \in {"source", "direct"} : BeginWrite(w, p, m) =>
                /\ job'[w].pc = "write"
                /\ job'[w].id = docs[p].id /\ job'[w].rev = docs[p].rev
           /\ WriteDocument(w) =>
                \/ job'[w].pc = "idle"
                \/ job'[w].pc = "expect" /\ job'[w].rev = row.content + 1
           /\ RewriteInPlace(w) =>
                /\ job[w].pc = "write" /\ job[w].id # 0
                /\ \/ job'[w].pc = "idle"
                   \/ job'[w].pc = "expect" /\ job'[w].rev = job[w].rev
           /\ AbandonWrite(w) => job'[w].pc = "idle"
           /\ BeginRepair(w) => job'[w].pc = "plan" /\ job'[w].mode = "repair"
           /\ \A p \in Paths : BeginDelete(w, p) =>
                job'[w].pc = "delread" /\ job'[w].path = p
<1>0. job \in [Workers -> Job] /\ job[w] \in Job
  BY DEF TypeOK
<1>1. \A p \in Paths, m \in {"source", "direct"} : BeginWrite(w, p, m) =>
                /\ job'[w].pc = "write"
                /\ job'[w].id = docs[p].id /\ job'[w].rev = docs[p].rev
  BY <1>0 DEF BeginWrite, Idle
<1>2. ASSUME NEW id, NEW rev, AfterWrite(w, id, rev)
      PROVE  \/ job'[w].pc = "idle"
             \/ job'[w].pc = "expect" /\ job'[w].rev = rev
  BY <1>0, <1>2, OwnRecord DEF AfterWrite, Job
<1>3. WriteDocument(w) =>
         \/ job'[w].pc = "idle"
         \/ job'[w].pc = "expect" /\ job'[w].rev = row.content + 1
  BY <1>2 DEF WriteDocument
<1>4. RewriteInPlace(w) =>
         /\ job[w].pc = "write" /\ job[w].id # 0
         /\ \/ job'[w].pc = "idle"
            \/ job'[w].pc = "expect" /\ job'[w].rev = job[w].rev
  BY <1>2 DEF RewriteInPlace
<1>5. AbandonWrite(w) => job'[w].pc = "idle"
  BY OwnRecord DEF AbandonWrite
<1>6. /\ BeginRepair(w) => job'[w].pc = "plan" /\ job'[w].mode = "repair"
      /\ \A p \in Paths : BeginDelete(w, p) =>
            job'[w].pc = "delread" /\ job'[w].path = p
  <2>1. PICK settled :
           BeginRepair(w) =>
              job' = [job EXCEPT ![w] = [Idle EXCEPT !.pc = "plan",
                         !.mode = "repair", !.target = row.content,
                         !.settled = settled]]
    BY DEF BeginRepair
  <2>2. BeginRepair(w) => job'[w].pc = "plan" /\ job'[w].mode = "repair"
    BY <1>0, <2>1 DEF Idle
  <2>3. ASSUME NEW p \in Paths, BeginDelete(w, p)
        PROVE  job'[w].pc = "delread" /\ job'[w].path = p
    BY <1>0, <2>3 DEF BeginDelete, Idle
  <2> QED  BY <2>2, <2>3
<1> QED  BY <1>1, <1>3, <1>4, <1>5, <1>6

\* ... the steps of a projection ...
LEMMA ProjectionMoves ==
    ASSUME TypeOK, NEW w \in Workers
    PROVE  /\ ListExpectations(w) =>
                \/ job'[w].pc = "next"
                \/ /\ job'[w].pc = "snapshot" /\ job'[w].rev = job[w].rev
                   /\ job[w].pc = "expect" /\ job[w].mode # "repair"
           /\ ReadSnapshot(w) =>
                /\ job'[w].pc = "prepare" /\ job'[w].rev = job[w].rev
                /\ job'[w].content = row.content /\ job'[w].updated = row.updated
           /\ PrepareBatch(w) =>
                /\ job'[w].pc = "mark" /\ job'[w].rev = job[w].rev
                /\ job'[w].content = job[w].content
                /\ job'[w].updated = job[w].updated /\ job'[w].view = Projected
           /\ MarkUpdating(w) =>
                /\ job'[w].pc = "apply" /\ job'[w].rev = job[w].rev
                /\ job'[w].content = job[w].content
                /\ job'[w].started = job[w].updated + 1
                /\ job'[w].view = job[w].view
           /\ ApplySuperseded(w) =>
                /\ job'[w].pc = "clear" /\ job'[w].rev = job[w].rev
                /\ job'[w].content = job[w].content
                /\ job'[w].started = job[w].started
           /\ ApplyProjection(w) => job'[w].pc \in {"idle", "progress"}
           /\ MarkRefused(w) \/ ClearUpdate(w) =>
                \/ job'[w].pc \in {"idle", "fail"}
                \/ job'[w].pc = "snapshot" /\ job'[w].rev = job[w].rev
<1>0. job \in [Workers -> Job] /\ job[w] \in Job
  BY DEF TypeOK
<1>1. ASSUME ListExpectations(w)
      PROVE  \/ job'[w].pc = "next"
             \/ /\ job'[w].pc = "snapshot" /\ job'[w].rev = job[w].rev
                /\ job[w].pc = "expect" /\ job[w].mode # "repair"
  <2>1. PICK expect, todo :
           job' = [job EXCEPT ![w] = [job[w] EXCEPT !.expect = expect,
                      !.pc = IF job[w].mode = "repair" THEN "next" ELSE "snapshot",
                      !.todo = todo]]
    BY <1>1 DEF ListExpectations
  <2> QED  BY <1>1, <1>0, <2>1 DEF ListExpectations, Job
<1>2. ReadSnapshot(w) =>
         /\ job'[w].pc = "prepare" /\ job'[w].rev = job[w].rev
         /\ job'[w].content = row.content /\ job'[w].updated = row.updated
  BY <1>0 DEF ReadSnapshot, Job
<1>3. PrepareBatch(w) =>
         /\ job'[w].pc = "mark" /\ job'[w].rev = job[w].rev
         /\ job'[w].content = job[w].content
         /\ job'[w].updated = job[w].updated /\ job'[w].view = Projected
  BY <1>0 DEF PrepareBatch, Job
<1>4. MarkUpdating(w) =>
         /\ job'[w].pc = "apply" /\ job'[w].rev = job[w].rev
         /\ job'[w].content = job[w].content
         /\ job'[w].started = job[w].updated + 1
         /\ job'[w].view = job[w].view
  BY <1>0 DEF MarkUpdating, NextUpdate, Job
<1>5. ApplySuperseded(w) =>
         /\ job'[w].pc = "clear" /\ job'[w].rev = job[w].rev
         /\ job'[w].content = job[w].content
         /\ job'[w].started = job[w].started
  BY OwnRecord DEF ApplySuperseded
<1>6. ApplyProjection(w) => job'[w].pc \in {"idle", "progress"}
  BY OwnRecord DEF ApplyProjection
<1>7. MarkRefused(w) \/ ClearUpdate(w) =>
         \/ job'[w].pc \in {"idle", "fail"}
         \/ job'[w].pc = "snapshot" /\ job'[w].rev = job[w].rev
  BY OwnRecord DEF MarkRefused, ClearUpdate
<1> QED  BY <1>1, <1>2, <1>3, <1>4, <1>5, <1>6, <1>7

\* ... the steps of a repair ...
LEMMA RepairMoves ==
    ASSUME TypeOK, NEW w \in Workers
    PROVE  /\ \A mode, drifted : PlanRepair(w, mode, drifted) =>
                \/ job'[w].pc = "idle"
                \/ /\ job'[w].pc = "acquire" /\ job'[w].mode = job[w].mode
                   /\ job[w].pc = "plan"
           /\ AcquireRepair(w) =>
                \/ job'[w].pc = "fail"
                \/ /\ job'[w].pc = "expect" /\ job'[w].mode = job[w].mode
                   /\ job[w].pc = "acquire"
           /\ NextDocument(w) => job'[w].pc = "snapshot" /\ job'[w].rev # 0
           /\ RepairInProgress(w) \/ DocumentDisappeared(w) \/ AllProjected(w)
                 \/ RecordProgress(w) \/ CompleteRepair(w)
                 \/ CompletionRefused(w) \/ FailRepair(w) \/ FaultStep(w) =>
                job'[w].pc \in {"idle", "fail", "next", "complete"}
<1>0. job \in [Workers -> Job] /\ job[w] \in Job
  BY DEF TypeOK
<1>1. ASSUME NEW mode, NEW drifted, PlanRepair(w, mode, drifted)
      PROVE  \/ job'[w].pc = "idle"
             \/ /\ job'[w].pc = "acquire" /\ job'[w].mode = job[w].mode
                /\ job[w].pc = "plan"
  <2>1. PICK blocked, todo :
           \/ Finish(w)
           \/ job' = [job EXCEPT ![w].pc = "acquire", ![w].settled = FALSE,
                         ![w].blocked = blocked, ![w].todo = todo]
    BY <1>1 DEF PlanRepair
  <2>2. job[w].pc = "plan"
    BY <1>1 DEF PlanRepair
  <2> QED  BY <1>0, <2>1, <2>2, OwnRecord DEF Job
<1>2. AcquireRepair(w) =>
         \/ job'[w].pc = "fail"
         \/ /\ job'[w].pc = "expect" /\ job'[w].mode = job[w].mode
            /\ job[w].pc = "acquire"
  BY <1>0 DEF AcquireRepair, Idle, Job
<1>3. ASSUME NextDocument(w)
      PROVE  job'[w].pc = "snapshot" /\ job'[w].rev # 0
  <2>1. PICK e \in job[w].todo :
           /\ e.rev # 0
           /\ job' = [job EXCEPT ![w].pc = "snapshot", ![w].tries = 0,
                         ![w].path = e.path, ![w].id = e.id, ![w].rev = e.rev,
                         ![w].todo = @ \ {e}]
    BY <1>3 DEF NextDocument
  <2> QED  BY <1>0, <2>1 DEF Job
<1>4. RepairInProgress(w) \/ DocumentDisappeared(w) \/ AllProjected(w)
         \/ RecordProgress(w) \/ CompleteRepair(w)
         \/ CompletionRefused(w) \/ FailRepair(w) =>
        job'[w].pc \in {"idle", "fail", "next", "complete"}
  BY OwnRecord DEF RepairInProgress, DocumentDisappeared, AllProjected,
     RecordProgress, CompleteRepair, CompletionRefused, FailRepair
<1>5. FaultStep(w) => job'[w].pc \in {"idle", "fail"}
  BY OwnRecord DEF FaultStep, Crash, PrepareFails, ApplyFails,
     SourceChangedDuringRepair
<1> QED  BY <1>1, <1>2, <1>3, <1>4, <1>5

\* ... and those of a removal through the graph.
LEMMA DeletionMoves ==
    ASSUME TypeOK, NEW w \in Workers
    PROVE  /\ ReadDeletion(w) =>
                \/ job'[w].pc = "idle"
                \/ /\ job'[w].pc = "delprepare" /\ job[w].pc = "delread"
                   /\ job'[w].path = job[w].path
                   /\ job'[w].content = row.content
                   /\ job'[w].updated = row.updated
           /\ PrepareDeletion(w) =>
                /\ job'[w].pc = "delapply" /\ job[w].pc = "delprepare"
                /\ job'[w].path = job[w].path /\ job'[w].view = Projected
                /\ job'[w].content = job[w].content
                /\ job'[w].updated = job[w].updated
           /\ ApplyDeletion(w) => job'[w].pc = "idle"
           /\ DeletionSuperseded(w) =>
                \/ job'[w].pc = "idle"
                \/ /\ job'[w].pc = "delread" /\ job[w].pc = "delapply"
                   /\ job'[w].path = job[w].path
<1>0. job \in [Workers -> Job] /\ job[w] \in Job
  BY DEF TypeOK
<1>1. ReadDeletion(w) =>
         \/ job'[w].pc = "idle"
         \/ /\ job'[w].pc = "delprepare" /\ job[w].pc = "delread"
            /\ job'[w].path = job[w].path
            /\ job'[w].content = row.content
            /\ job'[w].updated = row.updated
  BY <1>0, OwnRecord DEF ReadDeletion, Job
<1>2. PrepareDeletion(w) =>
         /\ job'[w].pc = "delapply" /\ job[w].pc = "delprepare"
         /\ job'[w].path = job[w].path /\ job'[w].view = Projected
         /\ job'[w].content = job[w].content
         /\ job'[w].updated = job[w].updated
  BY <1>0 DEF PrepareDeletion, Job
<1>3. ApplyDeletion(w) => job'[w].pc = "idle"
  BY OwnRecord DEF ApplyDeletion
<1>4. DeletionSuperseded(w) =>
         \/ job'[w].pc = "idle"
         \/ /\ job'[w].pc = "delread" /\ job[w].pc = "delapply"
            /\ job'[w].path = job[w].path
  BY <1>0, OwnRecord DEF DeletionSuperseded, Job
<1> QED  BY <1>1, <1>2, <1>3, <1>4

\* A step of the system is a step of a worker, the end of a lease, or nothing.
LEMMA Steppers ==
    ASSUME [Next]_vars
    PROVE  \/ \E w \in Workers : WorkerStep(w)
           \/ UNCHANGED <<row, docs, graph, job>>
BY DEF Next, ServiceNext, WorkerStep, LeaseExpires, vars

\* A removal through the graph keeps the path it was asked for.
LEMMA DeletionStep ==
    ASSUME TypeOK, [Next]_vars
    PROVE  \A w \in Workers : job'[w].pc \in Deleting => job'[w].path \in Paths
<1>0. job \in [Workers -> Job]
  BY DEF TypeOK
<1>t. \A w \in Workers : job[w].pc \in Deleting => job[w].path \in Paths
  BY DEF TypeOK
<1>1. CASE UNCHANGED <<row, docs, graph, job>>
  BY <1>1, <1>t
<1>2. ASSUME NEW w \in Workers, WorkerStep(w), job'[w].pc \in Deleting
      PROVE  job'[w].path \in Paths
  <2>1. CASE \E p \in Paths : DeleteSource(w, p)
    BY <2>1, <1>2, <1>t DEF DeleteSource
  <2>2. CASE \E p \in Paths, m \in {"source", "direct"} : BeginWrite(w, p, m)
    BY <2>2, <1>2, SourceMoves DEF Deleting
  <2>3. CASE \E p \in Paths : BeginDelete(w, p)
    BY <2>3, <1>2, SourceMoves
  <2>4. CASE WriteDocument(w) \/ RewriteInPlace(w) \/ AbandonWrite(w)
             \/ BeginRepair(w)
    BY <2>4, <1>2, SourceMoves DEF Deleting
  <2>5. CASE ProjectionStep(w)
    BY <2>5, <1>2, ProjectionMoves DEF ProjectionStep, Deleting
  <2>6. CASE RepairStep(w) \/ FaultStep(w)
    BY <2>6, <1>2, RepairMoves DEF RepairStep, Deleting
  <2>7. CASE ReadDeletion(w) \/ PrepareDeletion(w) \/ ApplyDeletion(w)
             \/ DeletionSuperseded(w)
    BY <2>7, <1>2, <1>t, DeletionMoves DEF Deleting
  <2> QED  BY <1>2, <2>1, <2>2, <2>3, <2>4, <2>5, <2>6, <2>7
           DEF WorkerStep, SourceStep, DirectStep
<1> QED  BY <1>1, <1>2, <1>t, Steppers, OthersUntouched

\* Type correctness: whatever the workers do, and however many there are, the
\* rows and records keep their types.
THEOREM TypeCorrect == Spec => []TypeOK
<1>1. Init => TypeOK
  <2>1. Idle \in Job /\ NoDoc \in DocRow /\ NoGraph \in GraphRow
    BY DEF Idle, Job, Steps, NoDoc, DocRow, NoGraph, GraphRow
  <2> QED  BY <2>1 DEF Init, TypeOK, Row, Repair, Idle, Deleting
<1>2. TypeOK /\ [Next]_vars => TypeOK'
  BY TablesStep, JobStep, DeletionStep DEF TypeOK
<1> QED  BY <1>1, <1>2, PTL DEF Spec

-----------------------------------------------------------------------------
(* What projecting does to the rows of one document *)

\* Counting the manifests changes nothing else.
LEMMA RecountKeeps ==
    ASSUME NEW g \in [Paths -> GraphRow], NEW q \in Paths
    PROVE  /\ Recount(g)[q].rev = g[q].rev
           /\ Recount(g)[q].edges = g[q].edges
           /\ Recount(g)[q].unresolved = g[q].unresolved
BY DEF Recount, GraphRow

\* Removing p through the graph leaves nothing of p, and no edge into it.
LEMMA ProjectDeletionRows ==
    ASSUME TypeOK, NEW p, NEW seen \in SUBSET Paths, NEW q \in Paths
    PROVE  LET g == ProjectDeletion(graph, p, seen)
           IN  /\ q = p => g[q] = NoGraph
               /\ q # p => /\ g[q].rev = graph[q].rev
                           /\ g[q].edges = graph[q].edges \ {p}
                           /\ \/ g[q].unresolved = graph[q].unresolved
                              \/ /\ g[q].unresolved = graph[q].unresolved \cup {p}
                                 /\ p \in Refs[q]
<1>1. graph[q] \in GraphRow
  BY DEF TypeOK
<1> QED  BY <1>1 DEF ProjectDeletion, GraphRow

\* The storage cascade leaves nothing of p either, and loses the facts that
\* pointed into it.
LEMMA CascadeRows ==
    ASSUME TypeOK, NEW p, NEW q \in Paths
    PROVE  /\ q = p => Cascade(graph, p)[q] = NoGraph
           /\ q # p => /\ Cascade(graph, p)[q].rev = graph[q].rev
                       /\ Cascade(graph, p)[q].edges = graph[q].edges \ {p}
                       /\ Cascade(graph, p)[q].unresolved = graph[q].unresolved
<1>1. graph[q] \in GraphRow
  BY DEF TypeOK
<1> QED  BY <1>1 DEF Cascade, GraphRow

\* What a worker projects is typed.
LEMMA JobTyped ==
    ASSUME TypeOK, NEW w \in Workers
    PROVE  /\ job[w].rev \in Nat /\ job[w].id \in Nat
           /\ job[w].view \in SUBSET Paths
           /\ job[w].content \in Nat /\ job[w].updated \in Nat
           /\ job[w].started \in Nat
BY DEF TypeOK, Job

-----------------------------------------------------------------------------
(* Revisions *)

\* Documents and their graph rows stay together, given that the workers that
\* write or project name a revision.
LEMMA RowsStep ==
    ASSUME TypeOK, RowsBelongTogether, JobsNameRevisions, [Next]_vars
    PROVE  RowsBelongTogether'
<1>0. /\ docs \in [Paths -> DocRow] /\ graph \in [Paths -> GraphRow]
      /\ job \in [Workers -> Job] /\ row.content \in Nat
  BY DEF TypeOK, Row
<1>1. CASE UNCHANGED <<row, docs, graph, job>>
  BY <1>1 DEF RowsBelongTogether
<1>2. ASSUME NEW w \in Workers, WorkerStep(w)
      PROVE  RowsBelongTogether'
  <2>1. CASE UNCHANGED <<docs, graph>>
    BY <2>1 DEF RowsBelongTogether
  <2>2. CASE WriteDocument(w)
    <3>1. row.content + 1 # 0 /\ job[w].id \in Nat
      BY <1>0 DEF Job
    <3> QED  BY <2>2, <1>0, <3>1 DEF WriteDocument, RowsBelongTogether
  <2>3. CASE RewriteInPlace(w)
    <3>1. job[w].id # 0 /\ job[w].rev # 0
      BY <2>3 DEF RewriteInPlace, JobsNameRevisions, NamesRevision
    <3> QED  BY <2>3, <1>0, <3>1 DEF RewriteInPlace, RowsBelongTogether
  <2>4. ASSUME NEW p \in Paths, DeleteSource(w, p)
        PROVE  RowsBelongTogether'
    <3>1. \A q \in Paths : graph'[q].rev \in {0, graph[q].rev}
      BY <2>4, CascadeRows DEF DeleteSource, NoGraph
    <3>2. graph'[p].rev = 0
      BY <2>4, CascadeRows DEF DeleteSource, NoGraph
    <3> QED  BY <2>4, <1>0, <3>1, <3>2 DEF DeleteSource, RowsBelongTogether, NoDoc
  <2>5. CASE ApplyProjection(w)
    <3>1. job[w].rev # 0 /\ docs[job[w].path].rev = job[w].rev
      BY <2>5 DEF ApplyProjection, MayApply, SourceIsCurrent, Projecting,
                  JobsNameRevisions, NamesRevision
    <3> DEFINE g == ProjectDocument(graph, job[w].path, job[w].rev, job[w].view)
    <3>2. ASSUME NEW q \in Paths, q # job[w].path
          PROVE  graph'[q].rev = graph[q].rev
      <4>1. g \in [Paths -> GraphRow]
        BY JobTyped, GraphMoves
      <4>2. g[q].rev = graph[q].rev
        <5>1. graph[q] \in GraphRow
          BY <1>0
        <5> QED  BY <3>2, <5>1 DEF ProjectDocument, GraphRow
      <4>3. graph' = Recount(g)
        BY <2>5 DEF ApplyProjection
      <4> HIDE DEF g
      <4> QED  BY <4>1, <4>2, <4>3, RecountKeeps
    <3> QED  BY <2>5, <3>1, <3>2 DEF ApplyProjection, RowsBelongTogether
  <2>6. CASE ApplyDeletion(w)
    <3> DEFINE p == job[w].path
    <3>1. \A q \in Paths : graph'[q].rev \in {0, graph[q].rev}
      BY <2>6, <1>0, JobTyped, GraphMoves, RecountKeeps, ProjectDeletionRows
         DEF ApplyDeletion, NoGraph
    <3>2. p \in Paths => graph'[p].rev = 0
      BY <2>6, <1>0, JobTyped, GraphMoves, RecountKeeps, ProjectDeletionRows
         DEF ApplyDeletion, NoGraph
    <3> QED  BY <2>6, <1>0, <3>1, <3>2
             DEF ApplyDeletion, RowsBelongTogether, NoDoc
  <2>7. \/ UNCHANGED <<docs, graph>>
        \/ WriteDocument(w) \/ RewriteInPlace(w) \/ ApplyProjection(w)
        \/ ApplyDeletion(w) \/ \E p \in Paths : DeleteSource(w, p)
    BY <1>2 DEF WorkerStep, SourceStep, ProjectionStep, RepairStep, FaultStep,
       DirectStep, BeginWrite, AbandonWrite, BeginRepair, ListExpectations,
       ReadSnapshot, PrepareBatch, MarkUpdating, MarkRefused, ApplySuperseded,
       ClearUpdate, PlanRepair, AcquireRepair, RepairInProgress, NextDocument,
       DocumentDisappeared, AllProjected, RecordProgress, CompleteRepair,
       CompletionRefused, FailRepair, Crash, PrepareFails, ApplyFails,
       SourceChangedDuringRepair, BeginDelete, ReadDeletion, PrepareDeletion,
       DeletionSuperseded
  <2> QED  BY <2>1, <2>2, <2>3, <2>4, <2>5, <2>6, <2>7
<1> QED  BY <1>1, <1>2, Steppers

\* A worker that writes or projects a document names a revision of it.
LEMMA RevisionsStep ==
    ASSUME TypeOK, RowsBelongTogether, JobsNameRevisions, [Next]_vars
    PROVE  JobsNameRevisions'
<1>0. row.content \in Nat /\ row.content + 1 # 0
  BY DEF TypeOK, Row
<1>j. \A w \in Workers : NamesRevision(w)
  BY DEF JobsNameRevisions
<1>1. CASE UNCHANGED <<row, docs, graph, job>>
  BY <1>1, <1>j DEF JobsNameRevisions, NamesRevision
<1>2. ASSUME NEW w \in Workers, WorkerStep(w)
      PROVE  NamesRevision(w)'
  <2>1. CASE \E p \in Paths : DeleteSource(w, p)
    BY <2>1, <1>j DEF DeleteSource, NamesRevision
  <2>2. CASE \E p \in Paths, m \in {"source", "direct"} : BeginWrite(w, p, m)
    BY <2>2, SourceMoves DEF RowsBelongTogether, NamesRevision, Projecting
  <2>3. CASE WriteDocument(w) \/ RewriteInPlace(w) \/ AbandonWrite(w)
             \/ BeginRepair(w) \/ \E p \in Paths : BeginDelete(w, p)
    BY <2>3, <1>0, <1>j, SourceMoves DEF NamesRevision, Projecting
  <2>4. CASE ProjectionStep(w)
    <3>1. ReadSnapshot(w) \/ PrepareBatch(w) \/ MarkUpdating(w)
             \/ MarkRefused(w) \/ ApplySuperseded(w) \/ ClearUpdate(w)
             => job[w].rev # 0
      BY <1>j DEF ReadSnapshot, PrepareBatch, MarkUpdating, MarkRefused,
                  ApplySuperseded, ClearUpdate, NamesRevision, Projecting
    <3>2. ListExpectations(w) /\ job[w].mode # "repair" => job[w].rev # 0
      BY <1>j DEF ListExpectations, NamesRevision
    <3> QED  BY <2>4, <3>1, <3>2, ProjectionMoves
             DEF ProjectionStep, NamesRevision, Projecting
  <2>5. CASE RepairStep(w) \/ FaultStep(w)
    BY <2>5, <1>j, RepairMoves DEF RepairStep, NamesRevision, Projecting
  <2>6. CASE ReadDeletion(w) \/ PrepareDeletion(w) \/ ApplyDeletion(w)
             \/ DeletionSuperseded(w)
    BY <2>6, DeletionMoves DEF NamesRevision, Projecting
  <2> QED  BY <1>2, <2>1, <2>2, <2>3, <2>4, <2>5, <2>6
           DEF WorkerStep, SourceStep, DirectStep
<1>3. ASSUME NEW w \in Workers, WorkerStep(w), NEW v \in Workers, v # w
      PROVE  NamesRevision(v)'
  BY <1>3, <1>j, OthersUntouched DEF NamesRevision
<1> QED  BY <1>1, <1>2, <1>3, Steppers DEF JobsNameRevisions

-----------------------------------------------------------------------------
(* Publication *)

\* What the publishing transactions check about the analysis states says that
\* every document, present or not, has the rows of its revision.
LEMMA MatchedRows ==
    ASSUME NEW expected, NEW d, NEW g, AnalysisMatches(expected, d, g),
           \A p \in Paths : d[p].id = 0 => g[p].rev = d[p].rev
    PROVE  \A p \in Paths : g[p].rev = d[p].rev
BY DEF AnalysisMatches, Complete

\* A step keeps a published graph published for the documents it describes, or
\* withdraws it.
LEMMA PublishedStep ==
    ASSUME TypeOK, RowsBelongTogether, RowsBelongTogether',
           PublishedMatchesDocuments, [Next]_vars, ~InPlaceRefresh
    PROVE  PublishedMatchesDocuments'
<1>0. /\ row \in Row /\ docs \in [Paths -> DocRow]
      /\ \A p \in Paths : docs[p].id = 0 => docs[p].rev = 0 /\ graph[p].rev = 0
      /\ \A p \in Paths : docs'[p].id = 0 => docs'[p].rev = 0 /\ graph'[p].rev = 0
  BY DEF TypeOK, RowsBelongTogether
<1>n. row.content + 1 \in Nat
  BY <1>0 DEF Row
<1>p. \A revision : /\ Published(revision).indexed = revision
                    /\ Published(revision).content = row.content
                    /\ Published(revision).state = "current"
  BY <1>0 DEF Published, Row
<1>1. CASE UNCHANGED <<row, docs, graph, job>>
  BY <1>1 DEF PublishedMatchesDocuments
<1>2. ASSUME NEW w \in Workers, WorkerStep(w)
      PROVE  PublishedMatchesDocuments'
  <2>1. CASE UNCHANGED <<row, docs, graph>>
    BY <2>1 DEF PublishedMatchesDocuments
  <2>2. CASE row'.state # "current"
    BY <2>2 DEF PublishedMatchesDocuments
  <2>3. CASE ApplyProjection(w) /\ row'.state = "current"
    <3>1. /\ job[w].content = row.content /\ docs' = docs
          /\ row.state = "updating"
      BY <2>3 DEF ApplyProjection, MayApply, OwnsUpdate
    <3>2. row' = Published(row.content) /\ AnalysisMatches(job[w].expect, docs, graph')
      BY <2>3, <3>1, <1>0 DEF ApplyProjection, Row
    <3>3. \A p \in Paths : graph'[p].rev = docs'[p].rev
      BY <3>1, <3>2, <1>0, MatchedRows
    <3> QED  BY <3>2, <3>3, <1>p DEF PublishedMatchesDocuments
  <2>4. CASE CompleteRepair(w)
    <3>1. /\ row.content = job[w].target /\ docs' = docs /\ graph' = graph
          /\ row' = Published(row.content)
          /\ AnalysisMatches(job[w].expect, docs, graph)
      BY <2>4 DEF CompleteRepair, MayComplete
    <3>2. \A p \in Paths : graph'[p].rev = docs'[p].rev
      BY <3>1, <1>0, MatchedRows
    <3> QED  BY <3>1, <3>2, <1>p DEF PublishedMatchesDocuments
  <2>5. CASE ApplyDeletion(w) /\ row'.state = "current"
    <3>1. Bump.state = "stale" /\ Bump.content = row.content + 1 /\ Bump \in Row
      BY <1>0, RowMoves DEF Bump, Row
    <3>2. /\ AnalysisMatches(job[w].expect, docs', graph')
          /\ row' = [Bump EXCEPT !.indexed = row.content + 1,
                                 !.state = "current", !.updated = 1]
      BY <2>5, <3>1 DEF ApplyDeletion
    <3>3. row'.indexed = row'.content
      BY <3>1, <3>2 DEF Row
    <3>4. \A p \in Paths : graph'[p].rev = docs'[p].rev
      BY <3>2, <1>0, MatchedRows
    <3> QED  BY <3>3, <3>4 DEF PublishedMatchesDocuments
  <2>6. WriteDocument(w) \/ (\E p \in Paths : DeleteSource(w, p)) =>
           row'.state # "current"
    BY <1>0 DEF WriteDocument, DeleteSource, Bump, Row
  <2>7. MarkUpdating(w) => row'.state # "current"
    BY <1>0 DEF MarkUpdating, Row
  <2>8. ClearUpdate(w) =>
           UNCHANGED <<row, docs, graph>> \/ row'.state # "current"
    BY <1>0 DEF ClearUpdate, Row
  <2>9. PrepareFails(w) \/ ApplyFails(w) =>
           UNCHANGED <<row, docs, graph>> \/ row'.state # "current"
    BY <1>0 DEF PrepareFails, ApplyFails, MarkError, Row
  <2>10. \/ UNCHANGED <<row, docs, graph>>
         \/ WriteDocument(w) \/ (\E p \in Paths : DeleteSource(w, p))
         \/ MarkUpdating(w) \/ ClearUpdate(w) \/ PrepareFails(w) \/ ApplyFails(w)
         \/ ApplyProjection(w) \/ CompleteRepair(w) \/ ApplyDeletion(w)
    BY <1>2 DEF WorkerStep, SourceStep, ProjectionStep, RepairStep, FaultStep,
       DirectStep, BeginWrite, AbandonWrite, Refreshing,
       RewriteInPlace, BeginRepair,
       ListExpectations, ReadSnapshot, PrepareBatch, MarkRefused,
       ApplySuperseded, PlanRepair, AcquireRepair, RepairInProgress,
       NextDocument, DocumentDisappeared, AllProjected, RecordProgress,
       CompletionRefused, FailRepair, Crash, SourceChangedDuringRepair,
       BeginDelete, ReadDeletion, PrepareDeletion, DeletionSuperseded
  <2> QED  BY <2>1, <2>2, <2>3, <2>4, <2>5, <2>6, <2>7, <2>8, <2>9, <2>10
<1> QED  BY <1>1, <1>2, Steppers

\* Rows that belong together, always.
THEOREM RowsTogether == Spec => [](RowsBelongTogether /\ JobsNameRevisions)
<1>1. Init => RowsBelongTogether /\ JobsNameRevisions
  BY DEF Init, RowsBelongTogether, JobsNameRevisions, NamesRevision, NoDoc,
         NoGraph, Idle, Projecting
<1>2. /\ TypeOK /\ RowsBelongTogether /\ JobsNameRevisions /\ [Next]_vars
      => (RowsBelongTogether /\ JobsNameRevisions)'
  BY RowsStep, RevisionsStep
<1> QED  BY <1>1, <1>2, TypeCorrect, PTL DEF Spec

\* When documents are never rewritten in place, a graph that is published
\* describes exactly the stored documents, for any number of workers, documents
\* and retries.
THEOREM PublishedGraphMatches ==
    ASSUME ~InPlaceRefresh
    PROVE  Spec => []PublishedMatchesDocuments
<1>1. Init => PublishedMatchesDocuments
  BY DEF Init, PublishedMatchesDocuments, NoDoc, NoGraph
<1>2. /\ TypeOK /\ RowsBelongTogether /\ RowsBelongTogether'
      /\ PublishedMatchesDocuments /\ [Next]_vars
      => PublishedMatchesDocuments'
  BY PublishedStep
<1>3. Spec => []RowsBelongTogether
  BY RowsTogether, PTL
<1> QED  BY <1>1, <1>2, <1>3, TypeCorrect, PTL DEF Spec

-----------------------------------------------------------------------------
(* Who may write projections, and what *)

\* Only apply_graph_reconciliation gives a document a new analysis revision.
LEMMA ProjectionWrites ==
    ASSUME TypeOK, [Next]_vars, NEW p \in Paths,
           graph'[p].rev \notin {0, graph[p].rev}
    PROVE  \E w \in Workers : /\ ApplyProjection(w)
                              /\ p = job[w].path /\ graph'[p].rev = job[w].rev
<1>0. graph[p] \in GraphRow
  BY DEF TypeOK
<1>1. ~UNCHANGED graph
  OBVIOUS
<1>2. PICK w \in Workers : WorkerStep(w)
  BY <1>1, Steppers
<1>3. ASSUME NEW q \in Paths, DeleteSource(w, q)
      PROVE  FALSE
  BY <1>3, CascadeRows DEF DeleteSource, NoGraph
<1>4. ASSUME ApplyDeletion(w)
      PROVE  FALSE
  <2> DEFINE g == ProjectDeletion(graph, job[w].path, job[w].view)
  <2>1. g \in [Paths -> GraphRow]
    BY JobTyped, GraphMoves
  <2>2. g[p].rev \in {0, graph[p].rev}
    BY <1>0 DEF ProjectDeletion, GraphRow, NoGraph
  <2>3. graph' = Recount(g)
    BY <1>4 DEF ApplyDeletion
  <2> HIDE DEF g
  <2> QED  BY <2>1, <2>2, <2>3, RecountKeeps
<1>5. ASSUME ApplyProjection(w)
      PROVE  p = job[w].path /\ graph'[p].rev = job[w].rev
  <2> DEFINE g == ProjectDocument(graph, job[w].path, job[w].rev, job[w].view)
  <2>1. g \in [Paths -> GraphRow]
    BY JobTyped, GraphMoves
  <2>2. IF p = job[w].path THEN g[p].rev = job[w].rev
                           ELSE g[p].rev = graph[p].rev
    BY <1>0 DEF ProjectDocument, GraphRow
  <2>3. graph' = Recount(g)
    BY <1>5 DEF ApplyProjection
  <2> HIDE DEF g
  <2> QED  BY <2>1, <2>2, <2>3, RecountKeeps
<1>6. ApplyProjection(w)
  BY <1>1, <1>2, <1>3, <1>4 DEF WorkerStep, SourceStep, ProjectionStep,
     RepairStep, FaultStep, DirectStep, BeginWrite, WriteDocument,
     RewriteInPlace, AbandonWrite, BeginRepair, ListExpectations, ReadSnapshot,
     PrepareBatch, MarkUpdating, MarkRefused, ApplySuperseded, ClearUpdate,
     PlanRepair, AcquireRepair, RepairInProgress, NextDocument,
     DocumentDisappeared, AllProjected, RecordProgress, CompleteRepair,
     CompletionRefused, FailRepair, Crash, PrepareFails, ApplyFails,
     SourceChangedDuringRepair, BeginDelete, ReadDeletion, PrepareDeletion,
     DeletionSuperseded
<1> QED  BY <1>5, <1>6

\* Only the two publishing transactions of the indexer and the completion of a
\* repair turn the graph to current, and none of them leaves a repair open.
LEMMA Publishers ==
    ASSUME TypeOK, [Next]_vars, row'.state = "current", row.state # "current"
    PROVE  ~RepairOpen'
<1>0. row \in Row
  BY DEF TypeOK
<1>1. PICK w \in Workers : WorkerStep(w)
  BY Steppers
<1>2. ASSUME ApplyProjection(w)
      PROVE  ~RepairOpen'
  <2>1. job[w].mode # "repair"
    BY <1>2, <1>0 DEF ApplyProjection, Row
  <2> QED  BY <1>2, <2>1 DEF ApplyProjection, MayApply, RepairOpen
<1>3. CompleteRepair(w) => ~RepairOpen'
  BY DEF CompleteRepair, RepairOpen, TypeOK, Repair
<1>4. ApplyDeletion(w) => ~RepairOpen'
  BY DEF ApplyDeletion, MayDelete, RepairOpen
<1>5. WriteDocument(w) \/ (\E p \in Paths : DeleteSource(w, p)) =>
         row'.state # "current"
  BY <1>0 DEF WriteDocument, DeleteSource, Bump, Row
<1>6. MarkUpdating(w) => row'.state # "current"
  BY <1>0 DEF MarkUpdating, Row
<1>7. ClearUpdate(w) => row' = row \/ row'.state # "current"
  BY <1>0 DEF ClearUpdate, Row
<1>8. PrepareFails(w) \/ ApplyFails(w) => row' = row \/ row'.state # "current"
  BY <1>0 DEF PrepareFails, ApplyFails, MarkError, Row
<1>9. \/ row' = row
      \/ WriteDocument(w) \/ (\E p \in Paths : DeleteSource(w, p))
      \/ MarkUpdating(w) \/ ClearUpdate(w) \/ PrepareFails(w) \/ ApplyFails(w)
      \/ ApplyProjection(w) \/ CompleteRepair(w) \/ ApplyDeletion(w)
  BY <1>1 DEF WorkerStep, SourceStep, ProjectionStep, RepairStep, FaultStep,
     DirectStep, BeginWrite, AbandonWrite, RewriteInPlace, BeginRepair,
     ListExpectations, ReadSnapshot, PrepareBatch, MarkRefused,
     ApplySuperseded, PlanRepair, AcquireRepair, RepairInProgress,
     NextDocument, DocumentDisappeared, AllProjected, RecordProgress,
     CompletionRefused, FailRepair, Crash, SourceChangedDuringRepair,
     BeginDelete, ReadDeletion, PrepareDeletion, DeletionSuperseded
<1> QED  BY <1>2, <1>3, <1>4, <1>5, <1>6, <1>7, <1>8, <1>9

\* D066 for every number of workers: while a repair is open nobody publishes,
\* and only the owner of a running lease for the current revision projects.
THEOREM RepairFences == Spec => RepairFencesGraph
<1> DEFINE Fenced ==
       RepairOpen' =>
          /\ row'.state = "current" => row.state = "current"
          /\ (\E p \in Paths : graph'[p].rev \notin {0, graph[p].rev}) =>
                repair.live /\ repair.target = row.content
<1>1. ASSUME TypeOK, [Next]_vars
      PROVE  Fenced
  <2>1. ASSUME NEW p \in Paths, graph'[p].rev \notin {0, graph[p].rev}, RepairOpen'
        PROVE  repair.live /\ repair.target = row.content
    <3>1. PICK w \in Workers : ApplyProjection(w)
      BY <1>1, <2>1, ProjectionWrites
    <3>2. RepairOpen
      BY <2>1, <3>1 DEF ApplyProjection, RepairOpen
    <3>3. /\ OwnsRepair(w, job[w].content) /\ row.content = job[w].content
      BY <3>1, <3>2 DEF ApplyProjection, MayApply, OwnsUpdate
    <3> QED  BY <3>3 DEF OwnsRepair
  <2> QED  BY <1>1, <2>1, Publishers
<1>2. TypeOK /\ [Next]_vars => [Fenced]_vars
  BY <1>1
<1>3. Spec => [][Fenced]_vars
  BY <1>2, TypeCorrect, PTL DEF Spec
<1> QED  BY <1>3 DEF RepairFencesGraph

\* A projection never takes a document back to an earlier revision.
THEOREM ProjectionsStored == Spec => ProjectsStoredRevision
<1> DEFINE Stored ==
       \A p \in Paths : graph'[p].rev # graph[p].rev /\ graph'[p].rev # 0
          => graph'[p].rev = docs[p].rev
<1>1. ASSUME TypeOK, [Next]_vars
      PROVE  Stored
  <2>1. SUFFICES ASSUME NEW p \in Paths,
                        graph'[p].rev # graph[p].rev, graph'[p].rev # 0
                 PROVE  graph'[p].rev = docs[p].rev
    OBVIOUS
  <2>2. PICK w \in Workers : /\ ApplyProjection(w)
                             /\ p = job[w].path /\ graph'[p].rev = job[w].rev
    BY <1>1, <2>1, ProjectionWrites
  <2> QED  BY <2>2 DEF ApplyProjection, MayApply, SourceIsCurrent
<1>2. TypeOK /\ [Next]_vars => [Stored]_vars
  BY <1>1
<1>3. Spec => [][Stored]_vars
  BY <1>2, TypeCorrect, PTL DEF Spec
<1> QED  BY <1>3 DEF ProjectsStoredRevision

-----------------------------------------------------------------------------
(* Optimistic snapshots *)

\* A step leaves the row and the projected documents alone, or moves the row to
\* a stamp no worker can hold yet.
LEMMA RowAdvances ==
    ASSUME TypeOK, StampsGrow, [Next]_vars
    PROVE  \/ row' = row /\ graph' = graph
           \/ row'.content = row.content + 1 /\ row'.state # "updating"
           \/ /\ row'.content = row.content /\ row'.updated > row.updated
              /\ row'.state = "updating" => row'.started = row'.updated
<1> DEFINE Goal ==
       \/ row' = row /\ graph' = graph
       \/ row'.content = row.content + 1 /\ row'.state # "updating"
       \/ /\ row'.content = row.content /\ row'.updated > row.updated
          /\ row'.state = "updating" => row'.started = row'.updated
<1>0. /\ row \in Row /\ row.content \in Nat /\ row.updated \in Nat
      /\ row.content + 1 \in Nat /\ row.updated + 1 \in Nat
      /\ row.updated + 1 > row.updated
  BY DEF TypeOK, Row
<1>u. row.state = "updating" => row.started = row.updated
  BY DEF StampsGrow
<1>p. \A revision :
         /\ Published(revision).content = row.content
         /\ Published(revision).updated = row.updated + 1
         /\ Published(revision).state = "current"
  BY <1>0 DEF Published, Row
<1>b. Bump.content = row.content + 1 /\ Bump.state = "stale" /\ Bump \in Row
  BY <1>0, RowMoves DEF Bump, Row
<1>e. /\ MarkError.content = row.content /\ MarkError.state = "error"
      /\ MarkError.updated = row.updated + 1
  BY <1>0 DEF MarkError, NextUpdate, Row
<1>s. \A stamp : LET r == [row EXCEPT !.state = "stale", !.started = 0,
                              !.updated = stamp]
                 IN  /\ r.content = row.content /\ r.state = "stale"
                     /\ r.updated = stamp
  BY <1>0 DEF Row
<1>1. CASE UNCHANGED <<row, docs, graph, job>>
  BY <1>1
<1>2. ASSUME NEW w \in Workers, WorkerStep(w)
      PROVE  Goal
  <2>1. CASE WriteDocument(w) \/ \E p \in Paths : DeleteSource(w, p)
    BY <2>1, <1>b DEF WriteDocument, DeleteSource
  <2>2. CASE MarkUpdating(w)
    <3>1. /\ row.updated = job[w].updated
          /\ row' = [row EXCEPT !.state = "updating", !.started = row.updated + 1,
                                !.updated = row.updated + 1]
      BY <2>2 DEF MarkUpdating, SnapshotHolds, NextUpdate
    <3> QED  BY <3>1, <1>0 DEF Row
  <2>3. CASE ApplyProjection(w)
    <3>1. OwnsUpdate(w)
      BY <2>3 DEF ApplyProjection, MayApply
    <3>2. NextUpdate(job[w].started) = row.updated + 1
      BY <3>1, <1>u DEF OwnsUpdate, NextUpdate
    <3>3. \/ row' = Published(job[w].content)
          \/ row' = [row EXCEPT !.state = "stale", !.started = 0,
                                !.updated = row.updated + 1]
      BY <2>3, <3>2 DEF ApplyProjection
    <3>4. CASE row' = Published(job[w].content)
      BY <3>4, <1>0, <1>p
    <3>5. CASE row' = [row EXCEPT !.state = "stale", !.started = 0,
                                  !.updated = row.updated + 1]
      BY <3>5, <1>0, <1>s
    <3> QED  BY <3>3, <3>4, <3>5
  <2>4. CASE ClearUpdate(w)
    <3>1. OwnsUpdate(w) => NextUpdate(job[w].started) = row.updated + 1
      BY <1>u DEF OwnsUpdate, NextUpdate
    <3>2. \/ row' = row /\ graph' = graph
          \/ row' = [row EXCEPT !.state = "stale", !.started = 0,
                                !.updated = row.updated + 1]
      BY <2>4, <3>1 DEF ClearUpdate
    <3> QED  BY <3>2, <1>0, <1>s
  <2>5. CASE CompleteRepair(w)
    BY <2>5, <1>0, <1>p DEF CompleteRepair
  <2>6. CASE PrepareFails(w) \/ ApplyFails(w)
    BY <2>6, <1>0, <1>e DEF PrepareFails, ApplyFails
  <2>7. CASE ApplyDeletion(w)
    <3>1. \/ row' = Bump
          \/ row' = [Bump EXCEPT !.indexed = row.content + 1,
                                 !.state = "current", !.updated = 1]
      BY <2>7 DEF ApplyDeletion
    <3> QED  BY <3>1, <1>b DEF Row
  <2>8. \/ row' = row /\ graph' = graph
        \/ WriteDocument(w) \/ (\E p \in Paths : DeleteSource(w, p))
        \/ MarkUpdating(w) \/ ClearUpdate(w) \/ PrepareFails(w) \/ ApplyFails(w)
        \/ ApplyProjection(w) \/ CompleteRepair(w) \/ ApplyDeletion(w)
    BY <1>2 DEF WorkerStep, SourceStep, ProjectionStep, RepairStep, FaultStep,
       DirectStep, BeginWrite, AbandonWrite, RewriteInPlace, BeginRepair,
       ListExpectations, ReadSnapshot, PrepareBatch, MarkRefused,
       ApplySuperseded, PlanRepair, AcquireRepair, RepairInProgress,
       NextDocument, DocumentDisappeared, AllProjected, RecordProgress,
       CompletionRefused, FailRepair, Crash, SourceChangedDuringRepair,
       BeginDelete, ReadDeletion, PrepareDeletion, DeletionSuperseded
  <2> QED  BY <2>1, <2>2, <2>3, <2>4, <2>5, <2>6, <2>7, <2>8
<1> QED  BY <1>1, <1>2, Steppers

\* A worker whose record a step leaves alone still holds no stamp of the future,
\* and if its compare-and-swap can still succeed its view still holds.
LEMMA KeptRecord ==
    ASSUME TypeOK, StampsGrow, ViewsHold, [Next]_vars,
           NEW v \in Workers, job'[v] = job[v]
    PROVE  Stamped(v)' /\ ViewHolds(v)'
<1>0. /\ job[v].content \in Nat /\ job[v].updated \in Nat
      /\ job[v].started \in Nat
      /\ row.content \in Nat /\ row.updated \in Nat
      /\ row'.content \in Nat /\ row'.updated \in Nat
  BY JobTyped, TablesStep DEF TypeOK, Row
<1>1. Stamped(v) /\ ViewHolds(v)
  BY DEF StampsGrow, ViewsHold
<1>2. CASE row' = row /\ graph' = graph
  <2>1. Projected' = Projected
    BY <1>2 DEF Projected
  <2> QED  BY <1>1, <1>2, <2>1 DEF Stamped, ViewHolds, OwnsUpdate
<1>3. CASE row'.content = row.content + 1
  BY <1>0, <1>1, <1>3
     DEF Stamped, ViewHolds, OwnsUpdate, Comparing, Announcing
<1>4. CASE /\ row'.content = row.content /\ row'.updated > row.updated
           /\ row'.state = "updating" => row'.started = row'.updated
  BY <1>0, <1>1, <1>4
     DEF Stamped, ViewHolds, OwnsUpdate, Comparing, Announcing
<1> QED  BY <1>2, <1>3, <1>4, RowAdvances

\* So does the worker that takes the step.
LEMMA OwnSnapshot ==
    ASSUME TypeOK, StampsGrow, ViewsHold, [Next]_vars,
           NEW w \in Workers, WorkerStep(w)
    PROVE  Stamped(w)' /\ ViewHolds(w)'
<1>0. /\ row \in Row /\ row.content \in Nat /\ row.updated \in Nat
      /\ job[w].updated \in Nat
  BY JobTyped DEF TypeOK, Row
<1>1. Stamped(w) /\ ViewHolds(w)
  BY DEF StampsGrow, ViewsHold
<1>2. ASSUME job'[w].pc \notin Comparing \cup Announcing
      PROVE  Stamped(w)' /\ ViewHolds(w)'
  BY <1>2 DEF Stamped, ViewHolds, Comparing, Announcing
<1>3. CASE \E p \in Paths : DeleteSource(w, p)
  BY <1>3, KeptRecord DEF DeleteSource
<1>4. CASE ReadSnapshot(w)
  <2>1. /\ job'[w].pc = "prepare" /\ job'[w].content = row.content
        /\ job'[w].updated = row.updated /\ row' = row
    BY <1>4, ProjectionMoves DEF ReadSnapshot
  <2> QED  BY <1>0, <2>1 DEF Stamped, ViewHolds, Comparing, Announcing
<1>5. CASE PrepareBatch(w)
  <2>1. /\ job'[w].pc = "mark" /\ job[w].pc = "prepare"
        /\ job'[w].content = job[w].content /\ job'[w].updated = job[w].updated
        /\ job'[w].view = Projected /\ row' = row /\ graph' = graph
    BY <1>5, ProjectionMoves DEF PrepareBatch
  <2>2. Projected' = Projected
    BY <2>1 DEF Projected
  <2> QED  BY <1>1, <2>1, <2>2 DEF Stamped, ViewHolds, Comparing, Announcing
<1>6. CASE MarkUpdating(w)
  <2>1. /\ job'[w].pc = "apply" /\ job[w].pc = "mark"
        /\ job'[w].content = job[w].content
        /\ job'[w].started = job[w].updated + 1
        /\ job'[w].view = job[w].view /\ graph' = graph
    BY <1>6, ProjectionMoves DEF MarkUpdating
  <2>2. job[w].content = row.content /\ job[w].updated = row.updated
    BY <1>6 DEF MarkUpdating, SnapshotHolds
  <2>3. row'.content = row.content /\ row'.updated = job[w].updated + 1
    BY <1>0, <1>6 DEF MarkUpdating, NextUpdate, Row
  <2>4. job[w].view = Projected /\ Projected' = Projected
    BY <1>1, <2>1, <2>2 DEF ViewHolds, Projected
  <2> QED  BY <1>0, <2>1, <2>2, <2>3, <2>4
           DEF Stamped, ViewHolds, Comparing, Announcing
<1>7. CASE ApplySuperseded(w)
  <2>1. /\ job'[w].pc = "clear" /\ job[w].pc = "apply"
        /\ job'[w].content = job[w].content
        /\ job'[w].started = job[w].started /\ row' = row
    BY <1>7, ProjectionMoves DEF ApplySuperseded
  <2> QED  BY <1>1, <2>1 DEF Stamped, ViewHolds, Comparing, Announcing
<1>8. CASE ReadDeletion(w)
  <2>1. /\ row' = row
        /\ \/ job'[w].pc = "idle"
           \/ /\ job'[w].pc = "delprepare" /\ job'[w].content = row.content
              /\ job'[w].updated = row.updated
    BY <1>8, DeletionMoves DEF ReadDeletion
  <2> QED  BY <1>0, <2>1 DEF Stamped, ViewHolds, Comparing, Announcing
<1>9. CASE PrepareDeletion(w)
  <2>1. /\ job'[w].pc = "delapply" /\ job[w].pc = "delprepare"
        /\ job'[w].content = job[w].content /\ job'[w].updated = job[w].updated
        /\ job'[w].view = Projected /\ row' = row /\ graph' = graph
    BY <1>9, DeletionMoves DEF PrepareDeletion
  <2>2. Projected' = Projected
    BY <2>1 DEF Projected
  <2> QED  BY <1>1, <2>1, <2>2 DEF Stamped, ViewHolds, Comparing, Announcing
<1>10. CASE \/ \E p \in Paths, m \in {"source", "direct"} : BeginWrite(w, p, m)
            \/ \E p \in Paths : BeginDelete(w, p)
            \/ WriteDocument(w) \/ RewriteInPlace(w) \/ AbandonWrite(w)
            \/ BeginRepair(w)
  BY <1>2, <1>10, SourceMoves DEF Comparing, Announcing
<1>11. CASE ListExpectations(w) \/ ApplyProjection(w) \/ MarkRefused(w)
            \/ ClearUpdate(w)
  BY <1>2, <1>11, ProjectionMoves DEF Comparing, Announcing
<1>12. CASE RepairStep(w) \/ FaultStep(w)
  BY <1>2, <1>12, RepairMoves DEF RepairStep, Comparing, Announcing
<1>13. CASE ApplyDeletion(w) \/ DeletionSuperseded(w)
  BY <1>2, <1>13, DeletionMoves DEF Comparing, Announcing
<1> QED  BY <1>3, <1>4, <1>5, <1>6, <1>7, <1>8, <1>9, <1>10, <1>11, <1>12, <1>13
         DEF WorkerStep, SourceStep, ProjectionStep, DirectStep

\* The stamps and views of all workers, after any step.
LEMMA SnapshotsStep ==
    ASSUME TypeOK, StampsGrow, ViewsHold, [Next]_vars
    PROVE  StampsGrow' /\ ViewsHold'
<1>1. row'.state = "updating" => row'.started = row'.updated
  BY RowAdvances DEF StampsGrow
<1>2. ASSUME NEW v \in Workers
      PROVE  Stamped(v)' /\ ViewHolds(v)'
  <2>1. CASE job'[v] = job[v]
    BY <2>1, KeptRecord
  <2>2. CASE WorkerStep(v)
    BY <2>2, OwnSnapshot
  <2>3. job'[v] = job[v] \/ WorkerStep(v)
    BY Steppers, OthersUntouched
  <2> QED  BY <2>1, <2>2, <2>3
<1> QED  BY <1>1, <1>2 DEF StampsGrow, ViewsHold

\* What the optimistic transactions rest on, always.
THEOREM SnapshotsStayFresh == Spec => []SnapshotsFresh
<1>1. Init => StampsGrow /\ ViewsHold
  BY DEF Init, StampsGrow, ViewsHold, Stamped, ViewHolds, Idle, Comparing,
         Announcing
<1>2. TypeOK /\ StampsGrow /\ ViewsHold /\ [Next]_vars
      => (StampsGrow /\ ViewsHold)'
  BY SnapshotsStep
<1>3. Spec => [](StampsGrow /\ ViewsHold)
  BY <1>1, <1>2, TypeCorrect, PTL DEF Spec
<1>4. RowsBelongTogether /\ JobsNameRevisions /\ StampsGrow /\ ViewsHold
      => SnapshotsFresh
  BY DEF SnapshotsFresh
<1> QED  BY <1>3, <1>4, RowsTogether, PTL

-----------------------------------------------------------------------------
(* Edges *)

\* Projecting a document from the projected documents of this moment keeps the
\* edges sound.
LEMMA SoundAfterProjection ==
    ASSUME TypeOK, ProjectionSound, NEW p, NEW rev \in Nat \ {0},
           graph' = Recount(ProjectDocument(graph, p, rev, Projected))
    PROVE  ProjectionSound'
<1> DEFINE g == ProjectDocument(graph, p, rev, Projected)
<1>0. Projected \in SUBSET Paths
  BY DEF Projected
<1>1. g \in [Paths -> GraphRow]
  BY <1>0, GraphMoves
<1>2. \A q \in Paths : /\ graph'[q].rev = g[q].rev
                       /\ graph'[q].edges = g[q].edges
                       /\ graph'[q].unresolved = g[q].unresolved
  <2> HIDE DEF g
  <2>1. graph' = Recount(g)
    BY DEF g
  <2> QED  BY <1>1, <2>1, RecountKeeps
<1>3. ASSUME NEW q \in Paths
      PROVE  /\ q = p => /\ g[q].rev = rev
                         /\ g[q].edges = Refs[q] \cap (Projected \cup {p})
                         /\ g[q].unresolved = Refs[q] \ (Projected \cup {p})
             /\ q # p /\ p \notin Projected /\ q \in Projected /\ p \in Refs[q] =>
                   /\ g[q].rev = graph[q].rev
                   /\ g[q].edges = graph[q].edges \cup {p}
                   /\ g[q].unresolved = graph[q].unresolved \ {p}
             /\ q # p /\ (p \in Projected \/ q \notin Projected \/ p \notin Refs[q])
                   => g[q] = graph[q]
  <2>1. graph[q] \in GraphRow /\ (q \in Projected => graph[q].rev # 0)
    BY DEF TypeOK, Projected
  <2> QED  BY <2>1 DEF ProjectDocument, GraphRow
<1>4. Projected' = Projected \cup ({p} \cap Paths)
  <2>1. ASSUME NEW q \in Paths
        PROVE  graph'[q].rev # 0 <=> q = p \/ graph[q].rev # 0
    BY <1>2, <1>3
  <2> QED  BY <2>1 DEF Projected
<1>5. ASSUME NEW q \in Projected'
      PROVE  /\ graph'[q].edges \subseteq Refs[q] \cap Projected'
             /\ graph'[q].unresolved \subseteq Refs[q] \ Projected'
  <2>1. q \in Paths /\ Refs[q] \subseteq Paths
    BY <1>5, PathsAssumption DEF Projected
  <2>2. q \in Projected => /\ graph[q].edges \subseteq Refs[q] \cap Projected
                           /\ graph[q].unresolved \subseteq Refs[q] \ Projected
    BY DEF ProjectionSound
  <2>3. CASE q = p
    BY <1>2, <1>3, <1>4, <2>1, <2>3
  <2>4. CASE q # p
    <3>1. q \in Projected
      BY <1>4, <2>4, <1>5
    <3> QED  BY <1>2, <1>3, <1>4, <2>1, <2>2, <2>4, <3>1
  <2> QED  BY <2>3, <2>4
<1> QED  BY <1>5 DEF ProjectionSound

\* So does removing one through the graph.
LEMMA SoundAfterDeletion ==
    ASSUME TypeOK, ProjectionSound, NEW p \in Paths,
           graph' = Recount(ProjectDeletion(graph, p, Projected))
    PROVE  ProjectionSound'
<1> DEFINE g == ProjectDeletion(graph, p, Projected)
<1>0. Projected \in SUBSET Paths
  BY DEF Projected
<1>1. g \in [Paths -> GraphRow]
  BY <1>0, GraphMoves
<1>2. \A q \in Paths : /\ graph'[q].rev = g[q].rev
                       /\ graph'[q].edges = g[q].edges
                       /\ graph'[q].unresolved = g[q].unresolved
  <2> HIDE DEF g
  <2>1. graph' = Recount(g)
    BY DEF g
  <2> QED  BY <1>1, <2>1, RecountKeeps
<1>3. ASSUME NEW q \in Paths
      PROVE  /\ q = p => g[q].rev = 0
             /\ q # p => /\ g[q].rev = graph[q].rev
                         /\ g[q].edges = graph[q].edges \ {p}
                         /\ \/ g[q].unresolved = graph[q].unresolved
                            \/ /\ g[q].unresolved = graph[q].unresolved \cup {p}
                               /\ p \in Refs[q]
  BY <1>0, ProjectDeletionRows DEF NoGraph
<1>4. Projected' = Projected \ {p}
  <2>1. ASSUME NEW q \in Paths
        PROVE  graph'[q].rev # 0 <=> q # p /\ graph[q].rev # 0
    BY <1>2, <1>3
  <2> QED  BY <2>1 DEF Projected
<1> QED  BY <1>0, <1>2, <1>3, <1>4 DEF ProjectionSound

\* The edges stay sound after any step.
LEMMA SoundStep ==
    ASSUME TypeOK, JobsNameRevisions, ViewsHold, ProjectionSound, [Next]_vars
    PROVE  ProjectionSound'
<1>1. CASE graph' = graph
  BY <1>1 DEF ProjectionSound, Projected
<1>2. ASSUME NEW w \in Workers, NEW p \in Paths, DeleteSource(w, p)
      PROVE  ProjectionSound'
  <2>1. \A q \in Paths :
           /\ q = p => graph'[q].rev = 0
           /\ q # p => /\ graph'[q].rev = graph[q].rev
                       /\ graph'[q].edges = graph[q].edges \ {p}
                       /\ graph'[q].unresolved = graph[q].unresolved
    BY <1>2, CascadeRows DEF DeleteSource, NoGraph
  <2>2. Projected' = Projected \ {p}
    BY <2>1 DEF Projected
  <2>3. Projected \in SUBSET Paths
    BY DEF Projected
  <2> QED  BY <2>1, <2>2, <2>3 DEF ProjectionSound
<1>3. ASSUME NEW w \in Workers, ApplyProjection(w)
      PROVE  ProjectionSound'
  <2>1. job[w].view = Projected
    BY <1>3 DEF ApplyProjection, MayApply, ViewsHold, ViewHolds
  <2>2. job[w].rev \in Nat \ {0}
    BY <1>3, JobTyped
       DEF ApplyProjection, JobsNameRevisions, NamesRevision, Projecting
  <2> QED  BY <1>3, <2>1, <2>2, SoundAfterProjection DEF ApplyProjection
<1>4. ASSUME NEW w \in Workers, ApplyDeletion(w)
      PROVE  ProjectionSound'
  <2>1. job[w].view = Projected
    BY <1>4 DEF ApplyDeletion, MayDelete, ViewsHold, ViewHolds
  <2>2. job[w].path \in Paths
    BY <1>4 DEF ApplyDeletion, TypeOK, Deleting
  <2> QED  BY <1>4, <2>1, <2>2, SoundAfterDeletion DEF ApplyDeletion
<1>5. ASSUME NEW w \in Workers, WorkerStep(w)
      PROVE  \/ graph' = graph \/ ApplyProjection(w) \/ ApplyDeletion(w)
             \/ \E p \in Paths : DeleteSource(w, p)
  BY <1>5 DEF WorkerStep, SourceStep, ProjectionStep,
     RepairStep, FaultStep, DirectStep, BeginWrite, WriteDocument,
     RewriteInPlace, AbandonWrite, BeginRepair, ListExpectations, ReadSnapshot,
     PrepareBatch, MarkUpdating, MarkRefused, ApplySuperseded, ClearUpdate,
     PlanRepair, AcquireRepair, RepairInProgress, NextDocument,
     DocumentDisappeared, AllProjected, RecordProgress, CompleteRepair,
     CompletionRefused, FailRepair, Crash, PrepareFails, ApplyFails,
     SourceChangedDuringRepair, BeginDelete, ReadDeletion, PrepareDeletion,
     DeletionSuperseded
<1> QED  BY <1>1, <1>2, <1>3, <1>4, <1>5, Steppers

\* Whatever the interleaving of any number of workers, an edge ends in a
\* projected document and no fact is kept unresolved whose target has nodes.
THEOREM ProjectionStaysSound == Spec => []ProjectionSound
<1>1. Init => ProjectionSound
  BY DEF Init, ProjectionSound, Projected, NoGraph
<1>2. TypeOK /\ JobsNameRevisions /\ ViewsHold /\ ProjectionSound
      /\ [Next]_vars => ProjectionSound'
  BY SoundStep
<1>3. SnapshotsFresh => JobsNameRevisions /\ ViewsHold
  BY DEF SnapshotsFresh
<1> QED  BY <1>1, <1>2, <1>3, TypeCorrect, SnapshotsStayFresh, PTL DEF Spec

-----------------------------------------------------------------------------
(* What readers are promised *)

\* The steps that change the documents.
LEMMA DocumentSteps ==
    ASSUME [Next]_vars, ~InPlaceRefresh, docs' # docs
    PROVE  \E w \in Workers : \/ WriteDocument(w) \/ ApplyDeletion(w)
                              \/ \E p \in Paths : DeleteSource(w, p)
<1>1. PICK w \in Workers : WorkerStep(w)
  BY Steppers
<1> QED
  BY <1>1 DEF WorkerStep, SourceStep, ProjectionStep, RepairStep, FaultStep,
     DirectStep, BeginWrite, Refreshing, RewriteInPlace,
     AbandonWrite, BeginRepair,
     ListExpectations, ReadSnapshot, PrepareBatch, MarkUpdating, MarkRefused,
     ApplyProjection, ApplySuperseded, ClearUpdate, PlanRepair, AcquireRepair,
     RepairInProgress, NextDocument, DocumentDisappeared, AllProjected,
     RecordProgress, CompleteRepair, CompletionRefused, FailRepair, Crash,
     PrepareFails, ApplyFails, SourceChangedDuringRepair, BeginDelete,
     ReadDeletion, PrepareDeletion, DeletionSuperseded

\* What each of them does to the revisions readers compare.
LEMMA DocumentMoves ==
    ASSUME TypeOK, NEW w \in Workers
    PROVE  /\ WriteDocument(w) =>
                /\ row'.state = "stale"
                /\ \A q \in Paths :
                      docs'[q].rev = IF q = job[w].path THEN row.content + 1
                                                        ELSE docs[q].rev
           /\ \A p \in Paths : DeleteSource(w, p) =>
                /\ docs[p].id # 0 /\ row'.state = "stale"
                /\ \A q \in Paths : docs'[q].rev = IF q = p THEN 0 ELSE docs[q].rev
           /\ ApplyDeletion(w) =>
                /\ job[w].path \in Paths /\ docs[job[w].path].id # 0
                /\ \A q \in Paths : docs'[q].rev = IF q = job[w].path THEN 0
                                                   ELSE docs[q].rev
<1>0. /\ docs \in [Paths -> DocRow] /\ row \in Row
      /\ job[w].pc \in Deleting => job[w].path \in Paths
  BY DEF TypeOK
<1>b. Bump.state = "stale"
  BY <1>0 DEF Bump, Row
<1>1. ASSUME WriteDocument(w)
      PROVE  /\ row'.state = "stale"
             /\ \A q \in Paths :
                   docs'[q].rev = IF q = job[w].path THEN row.content + 1
                                                     ELSE docs[q].rev
  <2>1. PICK id : docs' = [docs EXCEPT ![job[w].path] =
                              [id |-> id, rev |-> row.content + 1]]
    BY <1>1 DEF WriteDocument
  <2> QED  BY <1>1, <1>0, <1>b, <2>1 DEF WriteDocument
<1>2. \A p \in Paths : DeleteSource(w, p) =>
         /\ docs[p].id # 0 /\ row'.state = "stale"
         /\ \A q \in Paths : docs'[q].rev = IF q = p THEN 0 ELSE docs[q].rev
  BY <1>0, <1>b DEF DeleteSource, NoDoc
<1>3. ASSUME ApplyDeletion(w)
      PROVE  /\ job[w].path \in Paths /\ docs[job[w].path].id # 0
             /\ \A q \in Paths : docs'[q].rev = IF q = job[w].path THEN 0
                                                ELSE docs[q].rev
  <2>1. job[w].path \in Paths
    BY <1>0, <1>3 DEF ApplyDeletion, Deleting
  <2> QED  BY <1>0, <1>3, <2>1 DEF ApplyDeletion, MayDelete, NoDoc
<1> QED  BY <1>1, <1>2, <1>3

\* No document is stored at a revision the workspace has not reached.
DocumentsDated == \A p \in Paths : docs[p].rev <= row.content

LEMMA DatedStep ==
    ASSUME TypeOK, StampsGrow, DocumentsDated, [Next]_vars, ~InPlaceRefresh
    PROVE  DocumentsDated'
<1>0. /\ row.content \in Nat /\ \A p \in Paths : docs[p].rev \in Nat
      /\ row'.content \in Nat /\ \A p \in Paths : docs'[p].rev \in Nat
  BY TablesStep DEF TypeOK, Row, DocRow
<1>1. row'.content = row.content \/ row'.content = row.content + 1
  BY RowAdvances
<1>2. CASE docs' = docs
  BY <1>0, <1>1, <1>2 DEF DocumentsDated
<1>3. ASSUME NEW w \in Workers, WriteDocument(w)
      PROVE  DocumentsDated'
  <2>1. row'.content = row.content + 1
    BY <1>3 DEF WriteDocument, Bump, TypeOK, Row
  <2>2. \A q \in Paths : docs'[q].rev \in {row.content + 1, docs[q].rev}
    BY <1>3, DocumentMoves
  <2> QED  BY <1>0, <2>1, <2>2 DEF DocumentsDated
<1>4. ASSUME NEW w \in Workers, ApplyDeletion(w) \/ \E p \in Paths : DeleteSource(w, p)
      PROVE  DocumentsDated'
  <2>1. \A q \in Paths : docs'[q].rev \in {0, docs[q].rev}
    BY <1>4, DocumentMoves
  <2> QED  BY <1>0, <1>1, <2>1 DEF DocumentsDated
<1> QED  BY <1>2, <1>3, <1>4, DocumentSteps

\* Every step of GraphPublication is a step of the contract, or none.
LEMMA ContractStep ==
    ASSUME TypeOK, RowsBelongTogether, DocumentsDated, [Next]_vars,
           PublishedMatchesDocuments, PublishedMatchesDocuments',
           ~InPlaceRefresh
    PROVE  [Contract!Next]_(Contract!vars)
<1> DEFINE stored == [p \in Paths |-> docs[p].rev]
           shown  == IF row.state = "current"
                       THEN [p \in Paths |-> graph[p].rev] ELSE <<>>
<1>0. /\ row.content \in Nat
      /\ \A p \in Paths : /\ docs[p].rev \in Nat
                          /\ docs[p].id # 0 => docs[p].rev # 0
  BY DEF TypeOK, Row, DocRow, RowsBelongTogether
<1>s. /\ shown' \in {<<>>, stored'}
      /\ row'.state = "stale" => shown' = <<>>
  BY DEF PublishedMatchesDocuments
<1>1. CASE stored' = stored
  <2>1. \/ shown' = stored /\ stored' = stored
        \/ shown' = <<>> /\ stored' = stored
    BY <1>1, <1>s
  <2> HIDE DEF stored, shown
  <2>2. Contract!Publish \/ Contract!Withdraw
    BY <2>1 DEF Contract!Publish, Contract!Withdraw, Contract!Hidden, stored, shown
  <2> QED  BY <2>2 DEF Contract!Next
<1>2. ASSUME NEW w \in Workers, WriteDocument(w), stored' # stored
      PROVE  Contract!Next
  <2>1. /\ row'.state = "stale"
        /\ \A q \in Paths :
              docs'[q].rev = IF q = job[w].path THEN row.content + 1
                                                ELSE docs[q].rev
    BY <1>2, DocumentMoves
  <2>2. PICK p \in Paths : p = job[w].path
    BY <1>2, <2>1
  <2>3. stored' = [stored EXCEPT ![p] = stored'[p]]
    BY <2>1, <2>2
  <2>4. \A q \in Paths : stored'[p] > stored[q]
    BY <1>0, <2>1, <2>2 DEF DocumentsDated
  <2>5. shown' = <<>>
    BY <1>s, <2>1
  <2>6. Contract!Store(p)
    BY <2>3, <2>4, <2>5, Zenon DEF Contract!Store, Contract!Hidden
  <2> QED  BY <2>6 DEF Contract!Next
<1>3. ASSUME NEW p \in Paths, docs[p].id # 0,
             \A q \in Paths : docs'[q].rev = IF q = p THEN 0 ELSE docs[q].rev
      PROVE  Contract!Next
  <2>1. stored[p] # 0
    BY <1>0, <1>3
  <2>2. stored' = [stored EXCEPT ![p] = 0]
    BY <1>3
  <2>3. Contract!Remove(p)
    BY <1>s, <2>1, <2>2 DEF Contract!Remove, Contract!Hidden
  <2> QED  BY <2>3 DEF Contract!Next
<1>4. docs' = docs => stored' = stored
  OBVIOUS
<1>5. CASE docs' # docs /\ stored' # stored
  <2>1. PICK w \in Workers : \/ WriteDocument(w) \/ ApplyDeletion(w)
                             \/ \E p \in Paths : DeleteSource(w, p)
    BY <1>5, DocumentSteps
  <2>2. Contract!Next
    BY <1>2, <1>3, <1>5, <2>1, DocumentMoves
  <2> QED  BY <2>2
<1> QED  BY <1>1, <1>4, <1>5

\* Readers are promised the stored documents, and GraphPublication keeps the
\* promise for any number of workers, documents, retries and crashes.
THEOREM PublicationImplementsContract ==
    ASSUME ~InPlaceRefresh
    PROVE  Spec => ImplementsContract
<1>1. Init => DocumentsDated /\ Contract!Init
  BY DEF Init, DocumentsDated, Contract!Init, NoDoc, NoGraph
<1>2. /\ TypeOK /\ SnapshotsFresh /\ DocumentsDated /\ [Next]_vars
      => DocumentsDated'
  BY DatedStep DEF SnapshotsFresh
<1>3. /\ TypeOK /\ SnapshotsFresh /\ DocumentsDated
      /\ PublishedMatchesDocuments /\ PublishedMatchesDocuments' /\ [Next]_vars
      => [Contract!Next]_(Contract!vars)
  BY ContractStep DEF SnapshotsFresh
<1>4. Spec => []PublishedMatchesDocuments
  BY PublishedGraphMatches
<1>5. Spec => [](TypeOK /\ SnapshotsFresh)
  BY TypeCorrect, SnapshotsStayFresh, PTL
<1>6. Spec => Contract!Spec
  BY <1>1, <1>2, <1>3, <1>4, <1>5, PTL DEF Spec, Contract!Spec
<1> QED  BY <1>6 DEF ImplementsContract

-----------------------------------------------------------------------------
(* Structural reads *)

Reader ==
    [pc : {"idle", "repair", "list", "check", "decide", "query", "served", "refused"},
     stale : BOOLEAN, again : BOOLEAN, snapshot : Row, before : Row,
     listed : [Paths -> DocRow], unchecked : SUBSET Paths, unread : SUBSET Paths,
     answer : [Paths -> GraphRow], described : [Paths -> DocRow],
     first : [Paths -> GraphRow]]

ReadTypes == TypeOK /\ reader \in Reader

\* Two snapshots with the same stamps; their states may differ, since a document
\* that disagrees turns "current" into "stale".
SameStamps(s, t) == s.content = t.content /\ s.updated = t.updated

\* The row has not gone back behind the snapshot.
NotBefore(s, t) ==
    \/ t.content > s.content
    \/ t.content = s.content /\ t.updated >= s.updated

\* What the read has seen of the graph, if nothing was written since it began.
SeenAsFirst == graph = reader.first /\ reader.answer = reader.first

DescribedBy(documents) == \A p \in Paths : reader.first[p].rev = documents[p].rev

\* The first pass, from the revision row to the last query ...
FirstPass ==
    reader.pc \in {"repair", "list", "check", "decide", "query"} /\ ~reader.again =>
        /\ SameStamps(reader.snapshot, reader.before)
        /\ NotBefore(reader.before, row)
        /\ SameStamps(reader.before, row) =>
              /\ SeenAsFirst
              /\ reader.pc = "check" =>
                    \A p \in Paths \ reader.unchecked :
                        reader.first[p].rev = reader.listed[p].rev
              /\ reader.pc = "decide" /\ SnapshotIsCurrent(reader.snapshot) =>
                    DescribedBy(reader.listed)
              /\ reader.pc = "query" /\ ~reader.stale => DescribedBy(reader.described)

\* ... and the second one, which only compares.
SecondPass ==
    /\ reader.pc = "query" => ~reader.again
    /\ reader.pc \in {"repair", "list", "check", "decide", "served"} /\ reader.again =>
          (SameStamps(reader.snapshot, reader.before) =>
              /\ reader.answer = reader.first
              /\ ~reader.stale => DescribedBy(reader.described))
    /\ reader.pc = "served" => reader.again /\ SameStamps(reader.snapshot, reader.before)

ReadInv == FirstPass /\ SecondPass

\* Steps of the service leave the reader alone, steps of the reader the service.
LEMMA ReadSplits ==
    ASSUME [ReadNext]_readVars
    PROVE  /\ [Next]_vars
           /\ \/ UNCHANGED reader
              \/ UNCHANGED vars /\ ReadStep
  <1>1. CASE UNCHANGED readVars
    BY <1>1 DEF readVars, vars
  <1>2. CASE ReadStep
    <2>1. UNCHANGED vars
      BY <1>2 DEF ReadStep, BeginRead, RefuseDuringRepair, NoRepairOpen, ListDocuments,
                  AllChecked, Decide, TakeSnapshotAgain, CheckDocument, QueryGraph
    <2> QED BY <1>2, <2>1
  <1>3. CASE ServiceNext /\ UNCHANGED reader
    BY <1>3 DEF Next
  <1> QED BY <1>1, <1>2, <1>3 DEF ReadNext

LEMMA ReaderStarts ==
    ASSUME TypeOK
    PROVE  /\ ReaderIdle \in Reader
           /\ \A stale \in BOOLEAN :
                 [ReaderIdle EXCEPT !.pc = "repair", !.stale = stale] \in Reader
  BY DEF TypeOK, ReaderIdle, Reader

\* The fields each step of a read changes.
LEMMA ReaderMoves ==
    ASSUME ReadTypes, UNCHANGED vars, ReadStep
    PROVE  reader' \in Reader
  <1> USE DEF ReadTypes
  <1>1. CASE \E stale \in BOOLEAN : BeginRead(stale)
    BY <1>1, ReaderStarts DEF BeginRead
  <1>2. CASE RefuseDuringRepair
    BY <1>2 DEF RefuseDuringRepair, Reader
  <1>3. CASE NoRepairOpen
    BY <1>3 DEF NoRepairOpen, Reader
  <1>4. CASE ListDocuments
    <2>1. Indexed \in SUBSET Paths /\ docs \in [Paths -> DocRow]
      BY DEF Indexed, TypeOK
    <2> QED BY <1>4, <2>1 DEF ListDocuments, Reader
  <1>5. CASE AllChecked
    BY <1>5 DEF AllChecked, Reader
  <1>6. CASE Decide
    BY <1>6 DEF Decide, Reader
  <1>7. CASE TakeSnapshotAgain
    BY <1>7 DEF TakeSnapshotAgain, Reader, TypeOK
  <1>8. ASSUME NEW p \in Paths, CheckDocument(p)
        PROVE  reader' \in Reader
    <2>1. reader.snapshot \in Row
      BY DEF Reader
    <2>2. [reader.snapshot EXCEPT !.state = "stale"] \in Row
      BY <2>1 DEF Row
    <2>3. CASE reader' = [reader EXCEPT !.unchecked = @ \ {p}]
      BY <2>3 DEF Reader
    <2>4. CASE reader' = [reader EXCEPT !.pc = "decide", !.snapshot.state = "stale"]
      BY <2>2, <2>4 DEF Reader
    <2> QED BY <1>8, <2>3, <2>4 DEF CheckDocument
  <1>9. ASSUME NEW p \in Paths, QueryGraph(p)
        PROVE  reader' \in Reader
    <2>1. graph[p] \in GraphRow
      BY DEF TypeOK
    <2> QED BY <1>9, <2>1 DEF QueryGraph, Reader
  <1> QED BY <1>1, <1>2, <1>3, <1>4, <1>5, <1>6, <1>7, <1>8, <1>9 DEF ReadStep

LEMMA TypesStay == ASSUME TypeOK, [Next]_vars PROVE TypeOK'
  BY TablesStep, JobStep, DeletionStep DEF TypeOK

\* While the reader waits, a write to the graph tables moves the stamps on.
LEMMA ReadWaits ==
    ASSUME ReadTypes, TypeOK', StampsGrow, [Next]_vars, UNCHANGED reader, ReadInv
    PROVE  ReadInv'
  <1>0. /\ row.content \in Nat /\ row.updated \in Nat
        /\ row'.content \in Nat /\ row'.updated \in Nat
        /\ reader.before.content \in Nat /\ reader.before.updated \in Nat
    BY DEF ReadTypes, TypeOK, Row, Reader
  <1>1. SecondPass'
    BY DEF ReadInv, SecondPass, SameStamps, DescribedBy
  <1>2. \/ row' = row /\ graph' = graph
        \/ row'.content = row.content + 1
        \/ row'.content = row.content /\ row'.updated > row.updated
    BY RowAdvances DEF ReadTypes
  <1>3. CASE row' = row /\ graph' = graph
    <2>1. FirstPass'
      BY <1>3 DEF ReadInv, FirstPass, SameStamps, NotBefore, SeenAsFirst, DescribedBy,
                  SnapshotIsCurrent
    <2> QED BY <1>1, <2>1 DEF ReadInv
  <1>4. CASE \/ row'.content = row.content + 1
             \/ row'.content = row.content /\ row'.updated > row.updated
    <2>1. NotBefore(reader.before, row) =>
              /\ NotBefore(reader.before, row')
              /\ ~SameStamps(reader.before, row')
      <3>1. CASE row'.content = row.content + 1
        BY <1>0, <3>1 DEF NotBefore, SameStamps
      <3>2. CASE row'.content = row.content /\ row'.updated > row.updated
        BY <1>0, <3>2 DEF NotBefore, SameStamps
      <3> QED BY <1>4, <3>1, <3>2
    <2>2. FirstPass'
      BY <2>1 DEF ReadInv, FirstPass, NotBefore, SameStamps
    <2> QED BY <1>1, <2>2 DEF ReadInv
  <1> QED BY <1>2, <1>3, <1>4

\* A step of the reader itself.
LEMMA ReadAdvances ==
    ASSUME ReadTypes, ReadTypes', RowsBelongTogether, UNCHANGED vars, ReadStep, ReadInv,
           reader.pc \notin {"served", "refused"}
    PROVE  ReadInv'
  <1>0. row' = row /\ graph' = graph /\ docs' = docs
    BY DEF vars
  <1>r. /\ reader \in Reader /\ row \in Row
        /\ row.content \in Nat /\ row.updated \in Nat
    BY DEF ReadTypes, TypeOK, Row
  <1>1. ASSUME NEW stale \in BOOLEAN, BeginRead(stale)
        PROVE  ReadInv'
    <2>1. /\ reader'.pc = "repair" /\ ~reader'.again /\ reader'.snapshot = row
          /\ reader'.before = row /\ reader'.answer = graph /\ reader'.first = graph
      BY <1>1 DEF BeginRead, ReaderIdle
    <2>2. FirstPass' /\ SecondPass'
      BY <1>0, <1>r, <2>1 DEF FirstPass, SecondPass, SameStamps, NotBefore, SeenAsFirst
    <2> QED BY <2>2 DEF ReadInv
  <1>2. CASE RefuseDuringRepair
    <2>1. reader'.pc = "refused"
      BY <1>2, <1>r DEF RefuseDuringRepair, Reader
    <2> QED BY <2>1 DEF ReadInv, FirstPass, SecondPass
  <1>3. CASE NoRepairOpen
    <2>1. /\ reader.pc = "repair"
          /\ reader' = [reader EXCEPT !.pc = reader'.pc]
          /\ reader'.pc \in {"list", "decide"}
          /\ reader'.pc = "decide" => ~SnapshotIsCurrent(reader.snapshot)
      BY <1>3, <1>r DEF NoRepairOpen, Reader
    <2> QED
      BY <1>0, <1>r, <2>1
         DEF ReadInv, FirstPass, SecondPass, Reader, SeenAsFirst, DescribedBy
  <1>4. CASE ListDocuments
    <2>1. /\ reader.pc = "list" /\ reader'.pc = "check" /\ reader'.again = reader.again
          /\ reader'.snapshot = reader.snapshot /\ reader'.before = reader.before
          /\ reader'.stale = reader.stale /\ reader'.answer = reader.answer
          /\ reader'.first = reader.first /\ reader'.described = reader.described
          /\ reader'.listed = docs /\ reader'.unchecked = Indexed
      BY <1>4, <1>r DEF ListDocuments, Reader
    <2>2. \A p \in Paths \ Indexed : graph[p].rev = docs[p].rev
      BY DEF Indexed, RowsBelongTogether
    <2> QED
      BY <1>0, <2>1, <2>2 DEF ReadInv, FirstPass, SecondPass, SeenAsFirst, DescribedBy
  <1>5. CASE AllChecked
    <2>1. /\ reader.pc = "check" /\ reader.unchecked = {}
          /\ reader' = [reader EXCEPT !.pc = "decide"] /\ reader'.pc = "decide"
      BY <1>5, <1>r DEF AllChecked, Reader
    <2> QED
      BY <1>0, <1>r, <2>1
         DEF ReadInv, FirstPass, SecondPass, Reader, SeenAsFirst, DescribedBy
  <1>6. ASSUME NEW p \in Paths, CheckDocument(p)
        PROVE  ReadInv'
    <2>1. CASE VersionIsCurrent(p)
      <3>1. /\ reader.pc = "check" /\ graph[p].rev = reader.listed[p].rev
            /\ reader'.pc = "check" /\ reader'.again = reader.again
            /\ reader'.snapshot = reader.snapshot /\ reader'.before = reader.before
            /\ reader'.stale = reader.stale /\ reader'.answer = reader.answer
            /\ reader'.first = reader.first /\ reader'.described = reader.described
            /\ reader'.listed = reader.listed /\ reader'.unchecked = reader.unchecked \ {p}
        BY <1>6, <1>r, <2>1 DEF CheckDocument, VersionIsCurrent, Reader
      <3> QED
        BY <1>0, <3>1 DEF ReadInv, FirstPass, SecondPass, SeenAsFirst, DescribedBy
    <2>2. CASE ~VersionIsCurrent(p)
      <3>1. /\ reader.pc = "check" /\ reader'.pc = "decide" /\ reader'.again = reader.again
            /\ reader'.before = reader.before /\ reader'.stale = reader.stale
            /\ reader'.answer = reader.answer /\ reader'.first = reader.first
            /\ reader'.described = reader.described
            /\ reader'.snapshot = [reader.snapshot EXCEPT !.state = "stale"]
        BY <1>6, <1>r, <2>2 DEF CheckDocument, Reader
      <3>2. reader.snapshot \in Row
        BY <1>r DEF Reader
      <3>3. /\ ~SnapshotIsCurrent(reader'.snapshot)
            /\ SameStamps(reader'.snapshot, reader.snapshot)
        BY <3>1, <3>2 DEF Row, SnapshotIsCurrent, SameStamps
      <3> QED
        BY <1>0, <3>1, <3>3
           DEF ReadInv, FirstPass, SecondPass, SeenAsFirst, DescribedBy, SameStamps
    <2> QED BY <2>1, <2>2
  <1>7. CASE Decide
    <2>1. reader.pc = "decide"
      BY <1>7 DEF Decide
    <2>2. CASE reader' = [reader EXCEPT !.pc = "refused"]
      <3>1. reader'.pc = "refused"
        BY <1>r, <2>2 DEF Reader
      <3> QED BY <3>1 DEF ReadInv, FirstPass, SecondPass
    <2>3. CASE /\ reader.stale \/ SnapshotIsCurrent(reader.snapshot)
               /\ ~reader.again
               /\ reader' = [reader EXCEPT !.pc = "query", !.before = reader.snapshot,
                                !.described = reader.listed, !.unread = Paths]
      <3>1. /\ reader'.pc = "query" /\ ~reader'.again /\ reader'.snapshot = reader.snapshot
            /\ reader'.before = reader.snapshot /\ reader'.stale = reader.stale
            /\ reader'.answer = reader.answer /\ reader'.first = reader.first
            /\ reader'.described = reader.listed
        BY <1>r, <2>3 DEF Reader
      <3> QED
        BY <1>0, <2>1, <2>3, <3>1
           DEF ReadInv, FirstPass, SecondPass, SeenAsFirst, DescribedBy, SameStamps, NotBefore
    <2>4. CASE /\ reader.again /\ SameSnapshot(reader.snapshot, reader.before)
               /\ reader' = [reader EXCEPT !.pc = "served"]
      <3>1. /\ reader'.pc = "served" /\ reader'.again /\ reader'.snapshot = reader.snapshot
            /\ reader'.before = reader.before /\ reader'.stale = reader.stale
            /\ reader'.answer = reader.answer /\ reader'.first = reader.first
            /\ reader'.described = reader.described
        BY <1>r, <2>4 DEF Reader
      <3> QED
        BY <2>1, <2>4, <3>1
           DEF ReadInv, FirstPass, SecondPass, DescribedBy, SameStamps, SameSnapshot
    <2> QED BY <1>7, <2>2, <2>3, <2>4 DEF Decide
  <1>8. ASSUME NEW p \in Paths, QueryGraph(p)
        PROVE  ReadInv'
    <2>1. /\ reader.pc = "query" /\ reader'.pc = "query" /\ reader'.again = reader.again
          /\ reader'.snapshot = reader.snapshot /\ reader'.before = reader.before
          /\ reader'.stale = reader.stale /\ reader'.first = reader.first
          /\ reader'.described = reader.described
          /\ reader'.answer = [reader.answer EXCEPT ![p] = graph[p]]
      BY <1>8, <1>r DEF QueryGraph, Reader
    <2>2. graph = reader.first /\ reader.answer = reader.first => reader'.answer = reader.first
      <3>1. reader.answer \in [Paths -> GraphRow]
        BY <1>r DEF Reader
      <3> QED BY <2>1, <3>1
    <2> QED
      BY <1>0, <2>1, <2>2 DEF ReadInv, FirstPass, SecondPass, SeenAsFirst, DescribedBy
  <1>9. CASE TakeSnapshotAgain
    <2>1. /\ reader.pc = "query" /\ reader'.pc = "repair" /\ reader'.again
          /\ reader'.snapshot = row /\ reader'.before = reader.before
          /\ reader'.stale = reader.stale /\ reader'.first = reader.first
          /\ reader'.described = reader.described /\ reader'.answer = reader.answer
      BY <1>9, <1>r DEF TakeSnapshotAgain, Reader
    <2> QED
      BY <2>1 DEF ReadInv, FirstPass, SecondPass, SeenAsFirst, DescribedBy, SameStamps
  <1> QED
    BY <1>1, <1>2, <1>3, <1>4, <1>5, <1>6, <1>7, <1>8, <1>9 DEF ReadStep

LEMMA ReadStarts == ReadInit => ReadTypes /\ ReadInv
  <1> SUFFICES ASSUME ReadInit PROVE ReadTypes /\ ReadInv
    OBVIOUS
  <1>1. TypeOK
    <2>1. Idle \in Job /\ NoDoc \in DocRow /\ NoGraph \in GraphRow
      BY DEF Idle, Job, Steps, NoDoc, DocRow, NoGraph, GraphRow
    <2> QED BY <2>1 DEF ReadInit, Init, TypeOK, Row, Repair, Idle, Deleting
  <1>2. reader \in Reader /\ reader.pc = "idle"
    BY <1>1, ReaderStarts DEF ReadInit, ReaderIdle
  <1> QED BY <1>1, <1>2 DEF ReadTypes, ReadInv, FirstPass, SecondPass

\* Whatever indexes, repairs, fails or crashes between the queries of a read:
\* what it serves is the graph as it was when the read began, and a
\* current-only answer describes the documents of one moment, also when
\* documents are rewritten in place.
THEOREM ReadsServeOneSnapshot == ReadSpec => []ServedIsOneSnapshot
  <1> DEFINE Inv == /\ ReadTypes /\ ReadInv /\ StampsGrow /\ ViewsHold
                    /\ RowsBelongTogether /\ JobsNameRevisions
  <1>1. ReadInit => Inv
    <2>1. Init => StampsGrow /\ ViewsHold
      BY DEF Init, StampsGrow, ViewsHold, Stamped, ViewHolds, Idle, Comparing, Announcing
    <2>2. Init => RowsBelongTogether /\ JobsNameRevisions
      BY DEF Init, RowsBelongTogether, JobsNameRevisions, NamesRevision, NoDoc, NoGraph, Idle,
             Projecting
    <2> QED BY <2>1, <2>2, ReadStarts DEF ReadInit
  <1>2. Inv /\ [ReadNext]_readVars => Inv'
    <2> SUFFICES ASSUME Inv, [ReadNext]_readVars
                 PROVE  Inv'
      OBVIOUS
    <2>1. [Next]_vars
      BY ReadSplits
    <2>2. TypeOK' /\ StampsGrow' /\ ViewsHold' /\ RowsBelongTogether' /\ JobsNameRevisions'
      BY <2>1, TypesStay, SnapshotsStep, RowsStep, RevisionsStep DEF ReadTypes
    <2>3. CASE UNCHANGED reader
      BY <2>1, <2>2, <2>3, ReadWaits DEF ReadTypes
    <2>4. CASE ReadStep /\ UNCHANGED vars /\ reader' # reader
      <3>1. ReadTypes'
        BY <2>2, <2>4, ReaderMoves DEF ReadTypes
      <3>2. reader.pc \notin {"served", "refused"}
        BY <2>4 DEF ReadNext, readVars
      <3>3. ReadInv'
        BY <2>4, <3>1, <3>2, ReadAdvances
      <3> QED BY <2>2, <3>1, <3>3
    <2> QED BY <2>3, <2>4, ReadSplits
  <1>3. Inv => ServedIsOneSnapshot
    BY DEF ReadInv, SecondPass, ServedIsOneSnapshot, Facts, DescribedBy
  <1> QED BY <1>1, <1>2, <1>3, PTL DEF ReadSpec
=============================================================================
