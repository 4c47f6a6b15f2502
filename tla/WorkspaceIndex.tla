--------------------------- MODULE WorkspaceIndex ---------------------------
(***************************************************************************)
(* From the filesystem to the document rows of one workspace.              *)
(*                                                                         *)
(* One server process: a watcher whose callback queues path signals, a      *)
(* worker that turns batches of them into reconciliations, and calls of    *)
(* the workspace_reindex tool beside it.  Files change at any moment, so    *)
(* what a task has read of a file, a scan or the document table may be      *)
(* stale when it is used.                                                  *)
(*                                                                         *)
(* Data abstraction.  A file's content is a number that no later content    *)
(* of any file repeats; 0 is a missing, binary, oversized or non-UTF-8      *)
(* file.  A document row is the content it was stored from.  A scan of the  *)
(* tree is one step: what is said here is said path by path, and a path is  *)
(* visited at one instant.  The graph repair that ends a batch or a         *)
(* reindex is GraphPublication's; it writes no document row.                *)
(***************************************************************************)
EXTENDS Integers, Sequences, FiniteSets

CONSTANTS
    Paths,          \* workspace-relative file paths, numbered in sort order
    Watcher,        \* the watcher's worker task
    Tools,          \* concurrent callers of reindex_workspace
    QueueCapacity,  \* of the path signal channel
    FaultKinds,     \* which faults may happen
    MaxChanges,     \* bound: changes of the file tree
    MaxFaults       \* bound: faults, server stops included

ASSUME FilesAssumption ==
    /\ Paths \subseteq Nat \ {0}
    /\ IsFiniteSet(Paths)

ASSUME ServerAssumption ==
    /\ Watcher \notin Tools
    /\ QueueCapacity \in Nat \ {0}
    /\ FaultKinds \subseteq {"read", "walk", "storage", "notify", "stop"}
    /\ {MaxChanges, MaxFaults} \subseteq Nat

VARIABLES
    disk,       \* the indexable content of each path, 0 for none
    ignored,    \* paths the ignore files exclude
    index,      \* document rows: the content stored, 0 for no row
    gone,       \* history: rows whose file was missing or excluded since
                \* the row was last stored
    failed,     \* history: paths a failure, which is only logged, left wrong
    server,     \* the watcher's state as graph and workspace status show it
    pending,    \* notifications on their way to the watcher's callback
    queue,      \* the path signal channel
    overflowed, \* a signal did not fit into the channel
    job,        \* what each task is doing and remembers
    changes,    \* changes of the file tree so far
    faults      \* faults so far

files == <<disk, ignored, changes>>
signals == <<server, pending, queue, overflowed>>
rows == <<index, gone, failed>>
vars == <<files, rows, signals, job, faults>>

Tasks == {Watcher} \cup Tools

\* Besides paths of files: a directory, an ignore control file, or a path
\* that was a directory.  Such a signal names no document.
Ambiguous == 0
Signal == Paths \cup {Ambiguous}

Waiting == {"idle", "collect"}
Steps == Waiting \cup {"batch", "scan", "files", "stale", "delete",
                       "read", "compare", "confirm", "store", "remove"}

\* The path lock is taken before a file is read and held to the end.
Holding == {"compare", "confirm", "store", "remove"}

Job == [pc : Steps, batch : SUBSET Signal, rescan : BOOLEAN,
        todo : SUBSET Paths, present : SUBSET Paths,
        path : Paths \cup {0}, seen : Nat, within : {"none", "batch", "files"}]

Idle == [pc |-> "idle", batch |-> {}, rescan |-> FALSE, todo |-> {},
         present |-> {}, path |-> 0, seen |-> 0, within |-> "none"]

\* What the rows ought to be.
Wanted(p) == IF p \in ignored THEN 0 ELSE disk[p]
Discovered == {p \in Paths : Wanted(p) # 0}
Indexed == {p \in Paths : index[p] # 0}

TypeOK ==
    /\ disk \in [Paths -> Nat] /\ ignored \subseteq Paths
    /\ index \in [Paths -> Nat]
    /\ gone \subseteq Paths /\ failed \subseteq Paths
    /\ server \in {"stopped", "starting", "ready", "failed"}
    /\ pending \subseteq Signal
    /\ queue \in Seq(Signal) /\ Len(queue) <= QueueCapacity
    /\ overflowed \in BOOLEAN
    /\ job \in [Tasks -> Job]
    /\ \A t \in Tasks : job[t].within # "none" => job[t].path \in Paths
    /\ changes \in Nat /\ faults \in Nat

Init ==
    /\ disk = [p \in Paths |-> 0] /\ ignored = {}
    /\ index = [p \in Paths |-> 0] /\ gone = {} /\ failed = {}
    /\ server = "stopped"
    /\ pending = {} /\ queue = <<>> /\ overflowed = FALSE
    /\ job = [t \in Tasks |-> Idle]
    /\ changes = 0 /\ faults = 0

\* A failure is made up for when the row is what it ought to be again.
Settling(p, content) == IF content = Wanted(p) THEN failed \ {p} ELSE failed

Fault(kind) == kind \in FaultKinds /\ faults < MaxFaults /\ faults' = faults + 1

-----------------------------------------------------------------------------
(* The file tree, changed by everyone else *)

Change(signal) ==
    /\ changes < MaxChanges
    /\ changes' = changes + 1
    /\ gone' = gone \cup {p \in Paths : disk'[p] = 0 \/ p \in ignored'}
    /\ pending' = IF server \in {"starting", "ready"}
                    THEN pending \cup {signal} ELSE pending
    /\ UNCHANGED <<index, failed, server, queue, overflowed, job, faults>>

WriteFile(p) ==
    /\ disk' = [disk EXCEPT ![p] = changes + 1]
    /\ UNCHANGED ignored
    /\ Change(p)

RemoveFile(p) ==
    /\ disk[p] # 0
    /\ disk' = [disk EXCEPT ![p] = 0]
    /\ UNCHANGED ignored
    /\ Change(p)

\* Renaming a directory out of or into the tree: one signal, none per file.
MoveDirectory(inside, arrives) ==
    /\ disk' = [p \in Paths |-> IF p \notin inside THEN disk[p]
                                ELSE IF arrives THEN changes + 1 ELSE 0]
    /\ UNCHANGED ignored
    /\ Change(Ambiguous)

EditIgnoreFile(excluded) ==
    /\ ignored' = excluded
    /\ UNCHANGED disk
    /\ Change(Ambiguous)

-----------------------------------------------------------------------------
(* Watcher: callback, debounce, batches *)

\* WorkspaceWatcher::start arms the notifications before the first reindex.
StartServer ==
    /\ server = "stopped"
    /\ server' = "starting"
    /\ job' = [job EXCEPT ![Watcher].pc = "scan"]
    /\ UNCHANGED <<files, rows, pending, queue, overflowed, faults>>

\* Shutdown or crash: what is in memory is lost, a batch included.
StopServer ==
    /\ server # "stopped"
    /\ Fault("stop")
    /\ server' = "stopped"
    /\ pending' = {} /\ queue' = <<>> /\ overflowed' = FALSE
    /\ job' = [t \in Tasks |-> Idle]
    /\ UNCHANGED <<files, rows>>

\* mutated: one signal too many
FullAboveCapacity == Len(queue) > QueueCapacity
Full == Len(queue) = QueueCapacity

\* mutated: a signal that does not fit is forgotten
OverflowForgotten == overflowed
Overflow == overflowed \/ Full

\* The callback: try_send, and the flag when the channel is full.  The store
\* of the flag is not separated from the failed try_send: no debounce
\* interval fits between them.
Notify(s) ==
    /\ s \in pending
    /\ pending' = pending \ {s}
    /\ queue' = IF Full THEN queue ELSE Append(queue, s)
    /\ overflowed' = Overflow
    /\ UNCHANGED <<files, rows, server, job, faults>>

\* The system reports an error instead of the event: the callback writes a
\* warning, sets no flag, and nothing stands for the change.
NotifyFails(s) ==
    /\ s \in pending
    /\ Fault("notify")
    /\ pending' = pending \ {s}
    /\ failed' = failed \cup (IF s = Ambiguous THEN Paths ELSE {s})
    /\ UNCHANGED <<files, index, gone, server, queue, overflowed, job>>

Receive ==
    /\ server = "ready" /\ job[Watcher].pc \in Waiting /\ queue # <<>>
    /\ queue' = Tail(queue)
    /\ job' = [job EXCEPT ![Watcher].pc = "collect",
                          ![Watcher].batch = @ \cup {Head(queue)}]
    /\ UNCHANGED <<files, rows, server, pending, overflowed, faults>>

\* The debounce interval passes.  The overflow flag is consumed; the batch is
\* dropped because a rescan covers it.
DebounceEnds ==
    /\ job[Watcher].pc = "collect"
    /\ overflowed' = FALSE
    /\ job' = [job EXCEPT ![Watcher] =
                  IF overflowed THEN [Idle EXCEPT !.pc = "scan"]
                                ELSE [job[Watcher] EXCEPT !.pc = "batch"]]
    /\ UNCHANGED <<files, rows, server, pending, queue, faults>>

\* mutated: an unknown file is reconciled without discovery
NeedsRescanForControl(s) == s = Ambiguous
NeedsRescan(s) == s = Ambiguous \/ index[s] = 0

\* process_batch, signal by signal.  A path without a document may be a
\* deleted directory or a new file that discovery has to accept.
TakeSignal(s) ==
    /\ job[Watcher].pc = "batch" /\ s \in job[Watcher].batch
    /\ LET rest == job[Watcher].batch \ {s}
       IN  job' = [job EXCEPT ![Watcher] =
                     IF NeedsRescan(s)
                       THEN [job[Watcher] EXCEPT !.batch = rest, !.rescan = TRUE]
                       ELSE [job[Watcher] EXCEPT !.batch = rest, !.pc = "read",
                                                 !.path = s, !.within = "batch"]]
    /\ UNCHANGED <<files, rows, signals, faults>>

BatchEnds ==
    /\ job[Watcher].pc = "batch" /\ job[Watcher].batch = {}
    /\ job' = [job EXCEPT ![Watcher] =
                  IF job[Watcher].rescan THEN [Idle EXCEPT !.pc = "scan"] ELSE Idle]
    /\ UNCHANGED <<files, rows, signals, faults>>

-----------------------------------------------------------------------------
(* reindex_workspace *)

\* The workspace_reindex tool: the server answers one request at a time.
RequestReindex(t) ==
    /\ job[t].pc = "idle" /\ server # "stopped"
    /\ job' = [job EXCEPT ![t].pc = "scan"]
    /\ UNCHANGED <<files, rows, signals, faults>>

\* Files a scan could not read: the outcome reports them as failed paths.
Unread(set) ==
    /\ failed' = failed \cup set
    /\ IF set = {} THEN UNCHANGED faults
                   ELSE set \subseteq Discovered /\ Fault("read")

\* The first scan; files it could not read are reported and not reconciled.
Scan(t, unreadable) ==
    /\ job[t].pc = "scan"
    /\ Unread(unreadable)
    /\ job' = [job EXCEPT ![t].pc = "files", ![t].todo = Discovered \ unreadable]
    /\ UNCHANGED <<files, index, gone, signals>>

\* Files and documents are taken in the order of their paths.
First(p, todo) == \A q \in todo : p <= q

NextFile(t) ==
    /\ job[t].pc = "files"
    /\ \E p \in job[t].todo :
          /\ First(p, job[t].todo)
          /\ job' = [job EXCEPT ![t].pc = "read", ![t].todo = @ \ {p},
                                ![t].path = p, ![t].within = "files"]
    /\ UNCHANGED <<files, rows, signals, faults>>

\* mutated: files that could not be read are not retained
RetainedListed(listed, unreadable) == listed \ unreadable
Retained(listed, unreadable) == listed \cup unreadable

\* The scan before deletion: unreadable files are retained, the files of a
\* directory the walk could not enter are simply not seen.
Rescan(t, unreadable, unwalked) ==
    /\ job[t].pc = "files" /\ job[t].todo = {}
    /\ \/ unwalked = {} /\ Unread(unreadable)
       \/ unreadable = {} /\ unwalked # {} /\ Fault("walk") /\ UNCHANGED failed
    /\ job' = [job EXCEPT ![t].pc = "stale",
                   ![t].present = Retained(Discovered \ unwalked, unreadable)]
    /\ UNCHANGED <<files, index, gone, signals>>

\* list_documents, after the scan and outside every path lock.
ListStale(t) ==
    /\ job[t].pc = "stale"
    /\ job' = [job EXCEPT ![t].pc = "delete", ![t].todo = Indexed \ job[t].present]
    /\ UNCHANGED <<files, rows, signals, faults>>

DeleteStale(t) ==
    /\ job[t].pc = "delete"
    /\ \E p \in job[t].todo :
          /\ First(p, job[t].todo)
          /\ index' = [index EXCEPT ![p] = 0]
          /\ failed' = Settling(p, 0)
          /\ job' = [job EXCEPT ![t].todo = @ \ {p}]
    /\ UNCHANGED <<files, gone, signals, faults>>

\* A watcher that was starting is ready.
ReindexEnds(t) ==
    /\ job[t].pc = "delete" /\ job[t].todo = {}
    /\ job' = [job EXCEPT ![t] = Idle]
    /\ server' = IF t = Watcher /\ server = "starting" THEN "ready" ELSE server
    /\ UNCHANGED <<files, rows, pending, queue, overflowed, faults>>

\* A storage or scan error ends the reindex or the batch; it is logged, or,
\* during startup, returned: the watcher is dropped and not started again.
TaskFails(t) ==
    /\ \/ job[t].pc \in {"batch", "scan", "stale", "delete"}
       \/ job[t].pc = "files" /\ job[t].todo = {}
    /\ Fault("storage")
    /\ failed' = Paths
    /\ job' = [job EXCEPT ![t] = Idle]
    /\ IF t = Watcher /\ server = "starting"
         THEN server' = "failed" /\ pending' = {} /\ queue' = <<>> /\ overflowed' = FALSE
         ELSE UNCHANGED signals
    /\ UNCHANGED <<files, index, gone>>

-----------------------------------------------------------------------------
(* reconcile_file_source_only, under the path's lock *)

\* mutated: no path lock
LockedNever(t, p) == FALSE
Locked(t, p) == \E u \in Tasks \ {t} : job[u].pc \in Holding /\ job[u].path = p

Return(t) == job' = [job EXCEPT ![t].pc = job[t].within, ![t].path = 0,
                                ![t].seen = 0, ![t].within = "none"]

ReadFile(t) ==
    /\ job[t].pc = "read" /\ ~Locked(t, job[t].path)
    /\ LET content == disk[job[t].path]
       IN  job' = [job EXCEPT ![t].seen = content,
                              ![t].pc = IF content = 0 THEN "remove" ELSE "compare"]
    /\ UNCHANGED <<files, rows, signals, faults>>

RemoveDocument(t) ==
    /\ job[t].pc = "remove"
    /\ index' = [index EXCEPT ![job[t].path] = 0]
    /\ failed' = Settling(job[t].path, 0)
    /\ Return(t)
    /\ UNCHANGED <<files, gone, signals, faults>>

\* The row has this content already, or the source is analysed and embedded.
Compare(t) ==
    /\ job[t].pc = "compare"
    /\ IF index[job[t].path] = job[t].seen
         THEN Return(t) /\ failed' = Settling(job[t].path, job[t].seen)
         ELSE job' = [job EXCEPT ![t].pc = "confirm"] /\ UNCHANGED failed
    /\ UNCHANGED <<files, index, gone, signals, faults>>

\* The file is read again before the transaction: a change is an error.
Confirm(t) ==
    /\ job[t].pc = "confirm"
    /\ IF disk[job[t].path] = job[t].seen
         THEN job' = [job EXCEPT ![t].pc = "store"]
         ELSE Return(t)
    /\ UNCHANGED <<files, rows, signals, faults>>

StoreDocument(t) ==
    LET p == job[t].path
    IN  /\ job[t].pc = "store"
        /\ index' = [index EXCEPT ![p] = job[t].seen]
        /\ gone' = IF Wanted(p) = 0 THEN gone \cup {p} ELSE gone \ {p}
        /\ failed' = Settling(p, job[t].seen)
        /\ Return(t)
        /\ UNCHANGED <<files, signals, faults>>

\* Reading, analysis, embedding or the transaction fails; the file is
\* skipped with a warning and its row stays as it was.
FileFails(t) ==
    /\ job[t].pc \in Holding \cup {"read"}
    /\ Fault("read")
    /\ failed' = failed \cup {job[t].path}
    /\ Return(t)
    /\ UNCHANGED <<files, index, gone, signals>>

-----------------------------------------------------------------------------
Tree ==
    \/ \E p \in Paths : WriteFile(p) \/ RemoveFile(p)
    \/ \E inside \in SUBSET Paths \ {{}}, arrives \in BOOLEAN :
          MoveDirectory(inside, arrives)
    \/ \E excluded \in SUBSET Paths : EditIgnoreFile(excluded)

Callback == \E s \in Signal : Notify(s)

Unheard == \E s \in Signal : NotifyFails(s)

Worker ==
    \/ Receive \/ DebounceEnds \/ BatchEnds
    \/ \E s \in Signal : TakeSignal(s)

ReindexStep(t) ==
    \/ \E unreadable \in SUBSET Paths : Scan(t, unreadable)
    \/ \E unreadable, unwalked \in SUBSET Paths : Rescan(t, unreadable, unwalked)
    \/ NextFile(t) \/ ListStale(t) \/ DeleteStale(t) \/ ReindexEnds(t)

ReconcileStep(t) ==
    \/ ReadFile(t) \/ RemoveDocument(t) \/ Compare(t)
    \/ Confirm(t) \/ StoreDocument(t)

Next ==
    \/ Tree \/ StartServer \/ StopServer \/ Callback \/ Unheard \/ Worker
    \/ \E t \in Tools : RequestReindex(t)
    \/ \E t \in Tasks : \/ ReindexStep(t) \/ ReconcileStep(t) \/ TaskFails(t)
                        \/ FileFails(t)

Spec == Init /\ [][Next]_vars

\* The runtime schedules the callback thread and the tasks; the process is
\* started again.  Nothing else is assumed to happen.
Scheduling ==
    /\ WF_vars(StartServer) /\ WF_vars(Callback) /\ WF_vars(Worker)
    /\ \A t \in Tasks : WF_vars(ReindexStep(t)) /\ WF_vars(ReconcileStep(t))

FairSpec == Spec /\ Scheduling

-----------------------------------------------------------------------------
(* Properties *)

\* Nothing is left to do: no signal, no batch, no reindex.
Settled ==
    /\ server = "ready" /\ pending = {} /\ queue = <<>> /\ ~overflowed
    /\ \A t \in Tasks : job[t].pc = "idle"

\* Watcher and queue ownership: when the watcher has nothing left to do the
\* rows are the indexable files, whatever order, overflow of signals, directory
\* rename, ignore edit or restart led there.  Only a logged failure leaves a
\* path behind, and only until its row is right again.
SettledIsIndexed == Settled => \A p \in Paths \ failed : index[p] = Wanted(p)

\* Reconciliation rejects stale attempts: while a row exists its content
\* never goes back to an earlier one.
RowsNeverGoBack ==
    [][\A p \in Paths : index[p] # 0 /\ index'[p] # 0 => index'[p] >= index[p]]_vars

\* A row is deleted only when its file was missing or excluded at some time
\* since the row was stored: a file that stays in place stays indexed.
KeepsIndexedFiles ==
    [][\A p \in Paths : index[p] # 0 /\ index'[p] = 0 => p \in gone]_vars

\* Once the file tree is left alone the watcher, started as often as it was
\* stopped, brings the rows to the files and keeps them there.
Converges == <>[](\A p \in Paths \ failed : index[p] = Wanted(p))
=============================================================================
