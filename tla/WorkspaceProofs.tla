---------------------------- MODULE WorkspaceProofs ----------------------------
(***************************************************************************)
(* Theorems about the index of a workspace, its documents, its removal and   *)
(* the resolution of its symbols, for any paths, tools, channel capacities,  *)
(* faults, texts, configurations and analyses.                              *)
(***************************************************************************)
EXTENDS WorkspaceIndex, WorkspaceRemoval, SymbolResolution, DocumentIndexing, Foundations

-----------------------------------------------------------------------------
(* Types *)

Reading == Holding \cup {"read"}

LEMMA IdleIsJob == Idle \in Job /\ Idle.pc = "idle" /\ Idle.within = "none"
BY DEF Idle, Job, Steps, Waiting

\* A task is in the middle of a file exactly when it knows where to return to.
ReadersReturn == \A t \in Tasks : job[t].pc \in Reading <=> job[t].within # "none"

\* A server that is not running runs no task, its watcher least of all.
StoppedIsIdle ==
    /\ server = "stopped" => \A t \in Tasks : job[t] = Idle
    /\ server = "failed" => job[Watcher] = Idle

LEMMA ScanIsJob ==
    /\ [Idle EXCEPT !.pc = "scan"] \in Job
    /\ [Idle EXCEPT !.pc = "scan"].within = "none"
    /\ ~([Idle EXCEPT !.pc = "scan"].pc \in Reading)
BY DEF Idle, Job, Steps, Waiting, Reading, Holding

\* A task's new record is what it does next; every other task keeps its own.
LEMMA OneJob ==
    ASSUME TypeOK, ReadersReturn, NEW t \in Tasks, NEW r \in Job,
           job' = [job EXCEPT ![t] = r],
           r.within # "none" => r.path \in Paths,
           r.pc \in Reading <=> r.within # "none"
    PROVE  /\ job' \in [Tasks -> Job]
           /\ \A u \in Tasks : job'[u].within # "none" => job'[u].path \in Paths
           /\ ReadersReturn'
<1>1. /\ job \in [Tasks -> Job]
      /\ \A u \in Tasks : job[u].within # "none" => job[u].path \in Paths
  BY DEF TypeOK
<1>2. job'[t] = r /\ \A u \in Tasks \ {t} : job'[u] = job[u]
  BY <1>1
<1> QED
  BY <1>1, <1>2 DEF ReadersReturn

\* What a step of the file tree, of the callback, and of a task does to types.
LEMMA TreeTypes ==
    ASSUME TypeOK, ReadersReturn, Tree
    PROVE  TypeOK' /\ ReadersReturn'
<1>1. /\ disk' \in [Paths -> Nat] /\ ignored' \subseteq Paths
  <2>1. changes + 1 \in Nat /\ disk \in [Paths -> Nat] /\ ignored \subseteq Paths
    BY DEF TypeOK
  <2>2. ASSUME NEW p \in Paths, WriteFile(p) \/ RemoveFile(p)
        PROVE  /\ disk' \in [Paths -> Nat] /\ ignored' \subseteq Paths
    BY <2>1, <2>2 DEF WriteFile, RemoveFile
  <2>3. CASE \E inside \in SUBSET Paths \ {{}}, arrives \in BOOLEAN :
                MoveDirectory(inside, arrives)
    BY <2>1, <2>3 DEF MoveDirectory
  <2>4. CASE \E excluded \in SUBSET Paths : EditIgnoreFile(excluded)
    BY <2>1, <2>4 DEF EditIgnoreFile
  <2> QED
    BY <2>2, <2>3, <2>4 DEF Tree
<1>2. PICK s \in Signal : Change(s)
  BY DEF Tree, WriteFile, RemoveFile, MoveDirectory, EditIgnoreFile, Signal
<1> QED
  BY <1>1, <1>2 DEF TypeOK, ReadersReturn, Change

LEMMA SignalTypes ==
    ASSUME TypeOK, ReadersReturn, StoppedIsIdle,
           StartServer \/ StopServer \/ Callback \/ Unheard \/ Worker
    PROVE  TypeOK' /\ ReadersReturn'
<1>1. /\ job \in [Tasks -> Job] /\ Watcher \in Tasks /\ job[Watcher] \in Job
      /\ queue \in Seq(Signal) /\ Len(queue) <= QueueCapacity /\ QueueCapacity \in Nat
      /\ (job[Watcher].pc \in Reading <=> job[Watcher].within # "none")
  BY ServerAssumption DEF Tasks, TypeOK, ReadersReturn
<1>2. Idle \in Job /\ ~(Idle.pc \in Reading) /\ ~(Idle.within # "none")
  BY IdleIsJob DEF Reading, Holding
<1>3. CASE StartServer
  <2>1. [job[Watcher] EXCEPT !.pc = "scan"] = [Idle EXCEPT !.pc = "scan"]
    BY <1>1, <1>3 DEF StartServer, StoppedIsIdle
  <2>2. job' = [job EXCEPT ![Watcher] = [Idle EXCEPT !.pc = "scan"]]
    BY <1>1, <1>3, <2>1 DEF StartServer
  <2> QED
    BY <1>1, <1>3, <2>2, ScanIsJob, OneJob DEF StartServer, TypeOK, files, rows
<1>4. CASE StopServer
  <2>1. faults' \in Nat
    BY <1>4 DEF StopServer, Fault, TypeOK
  <2>2. /\ job' \in [Tasks -> Job] /\ \A t \in Tasks : job'[t].within = "none"
        /\ ReadersReturn'
    BY <1>2, <1>4, IdleIsJob DEF StopServer, ReadersReturn
  <2>3. <<>> \in Seq(Signal) /\ Len(<<>>) <= QueueCapacity
    BY <1>1
  <2> QED
    BY <1>4, <2>1, <2>2, <2>3 DEF StopServer, TypeOK, files, rows
<1>5. CASE Callback
  <2>1. PICK s \in Signal : Notify(s)
    BY <1>5 DEF Callback
  <2>2. queue' \in Seq(Signal) /\ Len(queue') <= QueueCapacity
    BY <2>1, <1>1 DEF Notify, Full
  <2> QED
    BY <2>1, <2>2 DEF Notify, TypeOK, ReadersReturn, files, rows, Overflow, Full
<1>10. CASE Unheard
  <2>1. PICK s \in Signal : NotifyFails(s)
    BY <1>10 DEF Unheard
  <2>2. failed' \subseteq Paths /\ faults' \in Nat
    BY <2>1 DEF NotifyFails, Fault, TypeOK, Signal, Ambiguous
  <2> QED
    BY <2>1, <2>2 DEF NotifyFails, TypeOK, ReadersReturn, files
<1>6. CASE Receive
  <2> DEFINE batch == job[Watcher].batch \cup {Head(queue)}
             r == [job[Watcher] EXCEPT !.pc = "collect", !.batch = batch]
  <2>1. /\ Head(queue) \in Signal /\ Tail(queue) \in Seq(Signal)
        /\ Len(Tail(queue)) <= QueueCapacity
    BY <1>1, <1>6 DEF Receive
  <2>2. batch \in SUBSET Signal
    BY <2>1, <1>1 DEF Job
  <2>3. job' = [job EXCEPT ![Watcher] = r]
    BY <1>1, <1>6 DEF Receive
  <2> HIDE DEF batch
  <2>4. r \in Job /\ ~(r.within # "none") /\ r.pc = "collect"
    BY <1>1, <1>6, <2>2 DEF Receive, Job, Steps, Waiting, Reading, Holding
  <2> HIDE DEF r
  <2>5. ~(r.pc \in Reading)
    BY <2>4 DEF Reading, Holding
  <2> QED
    BY <1>1, <1>6, <2>1, <2>3, <2>4, <2>5, OneJob DEF Receive, TypeOK, files, rows
<1>7. CASE DebounceEnds
  <2> DEFINE r == IF overflowed THEN [Idle EXCEPT !.pc = "scan"]
                                ELSE [job[Watcher] EXCEPT !.pc = "batch"]
  <2>1. r \in Job /\ ~(r.within # "none") /\ ~(r.pc \in Reading)
    BY <1>1, <1>7, ScanIsJob DEF DebounceEnds, Job, Steps, Waiting, Reading, Holding
  <2>2. job' = [job EXCEPT ![Watcher] = r]
    BY <1>7 DEF DebounceEnds
  <2> HIDE DEF r
  <2> QED
    BY <1>1, <1>7, <2>1, <2>2, OneJob DEF DebounceEnds, TypeOK, files, rows
<1>8. CASE BatchEnds
  <2> DEFINE r == IF job[Watcher].rescan THEN [Idle EXCEPT !.pc = "scan"] ELSE Idle
  <2>1. r \in Job /\ ~(r.within # "none") /\ ~(r.pc \in Reading)
    BY <1>2, ScanIsJob
  <2>2. job' = [job EXCEPT ![Watcher] = r]
    BY <1>8 DEF BatchEnds
  <2> HIDE DEF r
  <2> QED
    BY <1>1, <1>8, <2>1, <2>2, OneJob DEF BatchEnds, TypeOK, files, rows, signals
<1>9. ASSUME NEW s \in Signal, TakeSignal(s)
      PROVE  TypeOK' /\ ReadersReturn'
  <2> DEFINE batch == job[Watcher].batch \ {s}
             r == IF NeedsRescan(s)
                    THEN [job[Watcher] EXCEPT !.batch = batch, !.rescan = TRUE]
                    ELSE [job[Watcher] EXCEPT !.batch = batch, !.pc = "read",
                                              !.path = s, !.within = "batch"]
  <2>1. NeedsRescan(s) \/ s \in Paths
    BY DEF NeedsRescan, Signal
  <2>2. batch \in SUBSET Signal
    BY <1>1 DEF Job
  <2>3. /\ r \in Job /\ (r.within # "none" => r.path \in Paths)
        /\ (r.pc \in Reading <=> r.within # "none")
    <3> HIDE DEF batch
    <3>1. job[Watcher].within = "none" /\ job[Watcher].pc = "batch"
      BY <1>1, <1>9 DEF Reading, Holding, TakeSignal
    <3> QED
      BY <1>1, <2>1, <2>2, <3>1 DEF Job, Steps, Reading, Holding
  <2>4. job' = [job EXCEPT ![Watcher] = r]
    BY <1>9 DEF TakeSignal
  <2> HIDE DEF r
  <2> QED
    BY <1>1, <1>9, <2>3, <2>4, OneJob DEF TakeSignal, TypeOK, files, rows, signals
<1> QED
  BY <1>3, <1>4, <1>5, <1>6, <1>7, <1>8, <1>9, <1>10 DEF Worker

LEMMA SettlingType ==
    ASSUME TypeOK, NEW p \in Paths, NEW c
    PROVE  Settling(p, c) \subseteq Paths
BY DEF TypeOK, Settling

LEMMA ReindexTypes ==
    ASSUME TypeOK, ReadersReturn, NEW t \in Tasks,
           ReindexStep(t) \/ TaskFails(t) \/ (t \in Tools /\ RequestReindex(t))
    PROVE  TypeOK' /\ ReadersReturn'
<1>1. /\ job \in [Tasks -> Job] /\ job[t] \in Job
      /\ index \in [Paths -> Nat] /\ failed \subseteq Paths /\ faults \in Nat
      /\ Discovered \subseteq Paths /\ Indexed \subseteq Paths
      /\ (job[t].pc \in Reading <=> job[t].within # "none")
  BY DEF TypeOK, Discovered, Indexed, ReadersReturn
<1>2. ASSUME NEW set \in SUBSET Paths, Unread(set)
      PROVE  failed' \subseteq Paths /\ faults' \in Nat
  BY <1>1, <1>2 DEF Unread, Fault
<1>3. ASSUME NEW unreadable \in SUBSET Paths, Scan(t, unreadable)
      PROVE  TypeOK' /\ ReadersReturn'
  <2> DEFINE r == [job[t] EXCEPT !.pc = "files", !.todo = Discovered \ unreadable]
  <2>1. r \in Job /\ r.within = "none" /\ r.pc = "files"
    BY <1>1, <1>3 DEF Scan, Job, Steps, Reading, Holding
  <2>2. job' = [job EXCEPT ![t] = r]
    BY <1>3 DEF Scan
  <2> HIDE DEF r
  <2>3. r.pc \in Reading <=> r.within # "none"
    BY <2>1 DEF Reading, Holding
  <2> QED
    BY <1>2, <1>3, <2>1, <2>2, <2>3, OneJob DEF Scan, TypeOK, files, signals
<1>4. ASSUME NEW unreadable \in SUBSET Paths, NEW unwalked \in SUBSET Paths,
             Rescan(t, unreadable, unwalked)
      PROVE  TypeOK' /\ ReadersReturn'
  <2> DEFINE r == [job[t] EXCEPT !.pc = "stale",
                      !.present = Retained(Discovered \ unwalked, unreadable)]
  <2>1. r \in Job /\ r.within = "none" /\ r.pc = "stale"
    BY <1>1, <1>4 DEF Rescan, Retained, Job, Steps, Reading, Holding
  <2>2. job' = [job EXCEPT ![t] = r]
    BY <1>4 DEF Rescan
  <2>4. failed' \subseteq Paths /\ faults' \in Nat
    <3>1. CASE Unread(unreadable)
      BY <1>2, <3>1
    <3>2. CASE Fault("walk") /\ UNCHANGED failed
      BY <1>1, <3>2 DEF Fault
    <3> QED
      BY <1>4, <3>1, <3>2 DEF Rescan
  <2> HIDE DEF r
  <2>3. r.pc \in Reading <=> r.within # "none"
    BY <2>1 DEF Reading, Holding
  <2> QED
    BY <1>4, <2>1, <2>2, <2>3, <2>4, OneJob DEF Rescan, TypeOK, files, signals
<1>5. CASE NextFile(t)
  <2>1. PICK p \in job[t].todo :
              job' = [job EXCEPT ![t].pc = "read", ![t].todo = @ \ {p},
                                 ![t].path = p, ![t].within = "files"]
    BY <1>5 DEF NextFile
  <2> DEFINE r == [job[t] EXCEPT !.pc = "read", !.todo = @ \ {p},
                                 !.path = p, !.within = "files"]
  <2>3. job' = [job EXCEPT ![t] = r]
    BY <1>1, <2>1
  <2>4. r \in Job /\ r.within = "files" /\ r.pc = "read" /\ r.path \in Paths
    BY <1>1 DEF Job, Steps
  <2> HIDE DEF r
  <2>5. r.pc \in Reading <=> r.within # "none"
    BY <2>4 DEF Reading, Holding
  <2> QED
    BY <1>5, <2>3, <2>4, <2>5, OneJob DEF NextFile, TypeOK, files, rows, signals
<1>6. CASE ListStale(t)
  <2> DEFINE r == [job[t] EXCEPT !.pc = "delete", !.todo = Indexed \ job[t].present]
  <2>1. r \in Job /\ r.within = "none" /\ r.pc = "delete"
    BY <1>1, <1>6 DEF ListStale, Job, Steps, Reading, Holding
  <2>2. job' = [job EXCEPT ![t] = r]
    BY <1>6 DEF ListStale
  <2> HIDE DEF r
  <2>3. r.pc \in Reading <=> r.within # "none"
    BY <2>1 DEF Reading, Holding
  <2> QED
    BY <1>6, <2>1, <2>2, <2>3, OneJob DEF ListStale, TypeOK, files, rows, signals
<1>7. CASE DeleteStale(t)
  <2>1. PICK p \in job[t].todo :
              /\ index' = [index EXCEPT ![p] = 0]
              /\ failed' = Settling(p, 0)
              /\ job' = [job EXCEPT ![t].todo = @ \ {p}]
    BY <1>7 DEF DeleteStale
  <2> DEFINE r == [job[t] EXCEPT !.todo = @ \ {p}]
  <2>2. job' = [job EXCEPT ![t] = r] /\ p \in Paths
    BY <1>1, <2>1 DEF Job
  <2>3. r \in Job /\ r.within = "none" /\ r.pc = "delete"
    BY <1>1, <1>7 DEF DeleteStale, Job, Steps, Reading, Holding
  <2> HIDE DEF r
  <2>4. r.pc \in Reading <=> r.within # "none"
    BY <2>3 DEF Reading, Holding
  <2>5. index' \in [Paths -> Nat] /\ failed' \subseteq Paths
    BY <1>1, <2>1, <2>2, SettlingType
  <2> QED
    BY <1>7, <2>2, <2>3, <2>4, <2>5, OneJob DEF DeleteStale, TypeOK, files, signals
<1>8. CASE ReindexEnds(t)
  <2>1. Idle.pc \in Reading <=> Idle.within # "none"
    BY IdleIsJob DEF Reading, Holding
  <2>2. job' = [job EXCEPT ![t] = Idle]
    BY <1>8 DEF ReindexEnds
  <2> QED
    BY <1>8, <2>1, <2>2, IdleIsJob, OneJob DEF ReindexEnds, TypeOK, files, rows
<1>9. CASE TaskFails(t)
  <2>1. Idle.pc \in Reading <=> Idle.within # "none"
    BY IdleIsJob DEF Reading, Holding
  <2>2. job' = [job EXCEPT ![t] = Idle] /\ failed' = Paths /\ faults' \in Nat
    BY <1>1, <1>9 DEF TaskFails, Fault
  <2>3. /\ server' \in {"stopped", "starting", "ready", "failed"} /\ pending' \subseteq Signal
        /\ queue' \in Seq(Signal) /\ Len(queue') <= QueueCapacity /\ overflowed' \in BOOLEAN
    <3>1. <<>> \in Seq(Signal) /\ Len(<<>>) <= QueueCapacity
      BY ServerAssumption
    <3>2. CASE server' = "failed" /\ pending' = {} /\ queue' = <<>> /\ overflowed' = FALSE
      BY <3>1, <3>2
    <3>3. CASE UNCHANGED signals
      BY <3>3 DEF TypeOK, signals
    <3> QED
      BY <1>9, <3>2, <3>3 DEF TaskFails
  <2> QED
    BY <1>9, <2>1, <2>2, <2>3, IdleIsJob, OneJob DEF TaskFails, TypeOK, files
<1>10. CASE t \in Tools /\ RequestReindex(t)
  <2> DEFINE r == [job[t] EXCEPT !.pc = "scan"]
  <2>1. r \in Job /\ r.within = "none" /\ r.pc = "scan"
    BY <1>1, <1>10 DEF RequestReindex, Job, Steps, Reading, Holding
  <2>2. job' = [job EXCEPT ![t] = r]
    BY <1>10 DEF RequestReindex
  <2> HIDE DEF r
  <2>3. r.pc \in Reading <=> r.within # "none"
    BY <2>1 DEF Reading, Holding
  <2> QED
    BY <1>10, <2>1, <2>2, <2>3, OneJob DEF RequestReindex, TypeOK, files, rows, signals
<1> QED
  BY <1>3, <1>4, <1>5, <1>6, <1>7, <1>8, <1>9, <1>10 DEF ReindexStep

LEMMA ReconcileTypes ==
    ASSUME TypeOK, ReadersReturn, NEW t \in Tasks, ReconcileStep(t) \/ FileFails(t)
    PROVE  TypeOK' /\ ReadersReturn'
<1>1. /\ job \in [Tasks -> Job] /\ job[t] \in Job /\ job[t].pc \in Reading
      /\ job[t].within \in {"batch", "files"} /\ job[t].path \in Paths /\ job[t].seen \in Nat
      /\ index \in [Paths -> Nat] /\ disk \in [Paths -> Nat]
      /\ gone \subseteq Paths /\ failed \subseteq Paths /\ faults \in Nat
  BY DEF TypeOK, ReadersReturn, Reading, Holding, ReconcileStep, ReadFile, RemoveDocument,
         Compare, Confirm, StoreDocument, FileFails, Job
<1>2. \A c : Settling(job[t].path, c) \subseteq Paths
  BY <1>1 DEF Settling
<1>3. ASSUME NEW step \in {"remove", "compare", "confirm", "store"}, NEW seen \in Nat,
             job' = [job EXCEPT ![t].seen = seen, ![t].pc = step]
      PROVE  /\ job' \in [Tasks -> Job]
             /\ \A u \in Tasks : job'[u].within # "none" => job'[u].path \in Paths
             /\ ReadersReturn'
  <2> DEFINE r == [job[t] EXCEPT !.seen = seen, !.pc = step]
  <2>1. job' = [job EXCEPT ![t] = r]
    BY <1>1, <1>3
  <2>2. r \in Job /\ r.within = job[t].within /\ r.path = job[t].path /\ r.pc = step
    BY <1>1 DEF Job, Steps
  <2> HIDE DEF r
  <2>3. r.pc \in Reading <=> r.within # "none"
    BY <1>1, <2>2 DEF Reading, Holding
  <2> QED
    BY <1>1, <2>1, <2>2, <2>3, OneJob
<1>4. ASSUME Return(t)
      PROVE  /\ job' \in [Tasks -> Job]
             /\ \A u \in Tasks : job'[u].within # "none" => job'[u].path \in Paths
             /\ ReadersReturn'
  <2> DEFINE r == [job[t] EXCEPT !.pc = job[t].within, !.path = 0, !.seen = 0,
                                 !.within = "none"]
  <2>1. job' = [job EXCEPT ![t] = r]
    BY <1>4 DEF Return
  <2>2. r \in Job /\ r.within = "none" /\ r.pc = job[t].within
    BY <1>1 DEF Job, Steps
  <2> HIDE DEF r
  <2>3. r.pc \in Reading <=> r.within # "none"
    BY <1>1, <2>2 DEF Reading, Holding
  <2> QED
    BY <2>1, <2>2, <2>3, OneJob
<1>5. CASE ReadFile(t)
  <2>1. PICK step \in {"remove", "compare"} :
              job' = [job EXCEPT ![t].seen = disk[job[t].path], ![t].pc = step]
    BY <1>5 DEF ReadFile
  <2> QED
    BY <1>1, <1>3, <1>5, <2>1 DEF ReadFile, TypeOK, files, rows, signals
<1>6. CASE RemoveDocument(t)
  <2>1. index' \in [Paths -> Nat] /\ failed' \subseteq Paths
    BY <1>1, <1>2, <1>6 DEF RemoveDocument
  <2> QED
    BY <1>4, <1>6, <2>1 DEF RemoveDocument, TypeOK, files, signals
<1>7. CASE Compare(t)
  <2>1. failed' \subseteq Paths
    BY <1>1, <1>2, <1>7 DEF Compare
  <2>2. /\ job' \in [Tasks -> Job]
        /\ \A u \in Tasks : job'[u].within # "none" => job'[u].path \in Paths
        /\ ReadersReturn'
    <3>1. CASE Return(t)
      BY <1>4, <3>1
    <3>2. CASE job' = [job EXCEPT ![t].pc = "confirm"]
      <4>1. job' = [job EXCEPT ![t].seen = job[t].seen, ![t].pc = "confirm"]
        BY <1>1, <3>2 DEF Job
      <4> QED
        BY <1>1, <1>3, <4>1
    <3> QED
      BY <1>7, <3>1, <3>2 DEF Compare
  <2> QED
    BY <1>7, <2>1, <2>2 DEF Compare, TypeOK, files, signals
<1>8. CASE Confirm(t)
  <2>2. /\ job' \in [Tasks -> Job]
        /\ \A u \in Tasks : job'[u].within # "none" => job'[u].path \in Paths
        /\ ReadersReturn'
    <3>1. CASE Return(t)
      BY <1>4, <3>1
    <3>2. CASE job' = [job EXCEPT ![t].pc = "store"]
      <4>1. job' = [job EXCEPT ![t].seen = job[t].seen, ![t].pc = "store"]
        BY <1>1, <3>2 DEF Job
      <4> QED
        BY <1>1, <1>3, <4>1
    <3> QED
      BY <1>8, <3>1, <3>2 DEF Confirm
  <2> QED
    BY <1>8, <2>2 DEF Confirm, TypeOK, files, rows, signals
<1>9. CASE StoreDocument(t)
  <2>1. index' \in [Paths -> Nat] /\ gone' \subseteq Paths /\ failed' \subseteq Paths
    BY <1>1, <1>2, <1>9 DEF StoreDocument
  <2> QED
    BY <1>4, <1>9, <2>1 DEF StoreDocument, TypeOK, files, signals
<1>10. CASE FileFails(t)
  <2>1. failed' \subseteq Paths /\ faults' \in Nat
    BY <1>1, <1>10 DEF FileFails, Fault
  <2> QED
    BY <1>4, <1>10, <2>1 DEF FileFails, TypeOK, files, signals
<1> QED
  BY <1>5, <1>6, <1>7, <1>8, <1>9, <1>10 DEF ReconcileStep

LEMMA StoppedIsIdleKept ==
    ASSUME TypeOK, StoppedIsIdle, Next
    PROVE  StoppedIsIdle'
<1>1. job \in [Tasks -> Job] /\ Watcher \in Tasks /\ Watcher \notin Tools
  BY ServerAssumption DEF TypeOK, Tasks
<1>2. Idle.pc = "idle"
  BY IdleIsJob
<1>3. CASE StopServer
  BY <1>1, <1>3 DEF StopServer, StoppedIsIdle
<1>4. CASE StartServer
  BY <1>4 DEF StartServer, StoppedIsIdle
<1>5. CASE Tree \/ Callback \/ Unheard
  <2>1. UNCHANGED <<server, job>>
    BY <1>5 DEF Tree, WriteFile, RemoveFile, MoveDirectory, EditIgnoreFile, Change,
                Callback, Notify, Unheard, NotifyFails
  <2> QED
    BY <2>1 DEF StoppedIsIdle
<1>6. CASE Worker
  <2>1. job[Watcher].pc # "idle" \/ server = "ready"
    BY <1>6 DEF Worker, Receive, DebounceEnds, BatchEnds, TakeSignal
  <2>2. server \notin {"stopped", "failed"} /\ UNCHANGED server
    BY <1>1, <1>2, <1>6, <2>1
       DEF StoppedIsIdle, Worker, Receive, DebounceEnds, BatchEnds, TakeSignal, signals
  <2> QED
    BY <2>2 DEF StoppedIsIdle
<1>7. ASSUME NEW t \in Tools, RequestReindex(t)
      PROVE  StoppedIsIdle'
  BY <1>1, <1>7 DEF RequestReindex, signals, StoppedIsIdle
<1>8. ASSUME NEW t \in Tasks,
             ReindexStep(t) \/ ReconcileStep(t) \/ TaskFails(t) \/ FileFails(t)
      PROVE  StoppedIsIdle'
  <2>1. job[t].pc # "idle"
    BY <1>8 DEF ReindexStep, Scan, Rescan, NextFile, ListStale, DeleteStale, ReindexEnds,
                ReconcileStep, ReadFile, RemoveDocument, Compare, Confirm, StoreDocument,
                TaskFails, FileFails, Holding
  <2>2. server # "stopped" /\ (server = "failed" => t # Watcher)
    BY <1>1, <1>2, <2>1 DEF StoppedIsIdle
  <2>3. \A u \in Tasks \ {t} : job'[u] = job[u]
    BY <1>1, <1>8
       DEF ReindexStep, Scan, Rescan, NextFile, ListStale, DeleteStale, ReindexEnds,
           ReconcileStep, ReadFile, RemoveDocument, Compare, Confirm, StoreDocument,
           TaskFails, FileFails, Return
  <2>4. \/ UNCHANGED server
        \/ server' = "ready"
        \/ server' = "failed" /\ t = Watcher /\ job' = [job EXCEPT ![t] = Idle]
    BY <1>8
       DEF ReindexStep, Scan, Rescan, NextFile, ListStale, DeleteStale, ReindexEnds,
           ReconcileStep, ReadFile, RemoveDocument, Compare, Confirm, StoreDocument,
           TaskFails, FileFails, signals
  <2> QED
    BY <1>1, <2>2, <2>3, <2>4 DEF StoppedIsIdle
<1> QED
  BY <1>3, <1>4, <1>5, <1>6, <1>7, <1>8 DEF Next

WorkInv == TypeOK /\ ReadersReturn /\ StoppedIsIdle

LEMMA WorkInvInit == Init => WorkInv
<1> SUFFICES ASSUME Init
             PROVE  WorkInv
  OBVIOUS
<1>1. job = [t \in Tasks |-> Idle]
  BY DEF Init
<1>2. TypeOK
  <2>1. job \in [Tasks -> Job] /\ \A t \in Tasks : job[t].within = "none"
    BY <1>1, IdleIsJob
  <2>2. <<>> \in Seq(Signal) /\ Len(<<>>) <= QueueCapacity
    BY ServerAssumption
  <2> QED
    BY <2>1, <2>2 DEF Init, TypeOK
<1>3. ReadersReturn /\ StoppedIsIdle
  BY <1>1, IdleIsJob DEF Init, ReadersReturn, StoppedIsIdle, Reading, Holding, Tasks
<1> QED
  BY <1>2, <1>3 DEF WorkInv

LEMMA WorkInvStep ==
    ASSUME WorkInv, [Next]_vars
    PROVE  WorkInv'
<1>1. CASE Next
  <2>1. TypeOK /\ ReadersReturn /\ StoppedIsIdle
    BY DEF WorkInv
  <2>2. TypeOK' /\ ReadersReturn'
    BY <1>1, <2>1, TreeTypes, SignalTypes, ReindexTypes, ReconcileTypes DEF Next, Tasks
  <2> QED
    BY <1>1, <2>1, <2>2, StoppedIsIdleKept DEF WorkInv
<1>2. CASE UNCHANGED vars
  BY <1>2 DEF WorkInv, vars, files, rows, signals, TypeOK, ReadersReturn, StoppedIsIdle
<1> QED
  BY <1>1, <1>2

LEMMA WorkInvHolds == Spec => []WorkInv
BY WorkInvInit, WorkInvStep, PTL DEF Spec

\* The state of the watcher, of its channel and of every task keeps its
\* type, for any paths, callers, capacities and faults.
THEOREM WorkspaceTypesHold == Spec => []TypeOK
<1>1. WorkInv => TypeOK
  BY DEF WorkInv
<1> QED
  BY <1>1, WorkInvHolds, PTL

-----------------------------------------------------------------------------
(* Rows never go back *)

\* The steps that hold what was read of the file.
Comparing == {"compare", "confirm", "store"}

\* Contents are numbered as they appear: no row is ahead of its file.
RowsFollowFiles ==
    \A p \in Paths : /\ disk[p] <= changes /\ index[p] <= changes
                     /\ disk[p] # 0 => index[p] <= disk[p]

\* What a task has read lies between the row and the file as they are now.
ReadInBetween ==
    \A t \in Tasks : job[t].pc \in Comparing =>
        LET p == job[t].path
        IN  /\ job[t].seen # 0 /\ index[p] <= job[t].seen /\ job[t].seen <= changes
            /\ disk[p] # 0 => job[t].seen <= disk[p]

\* The path lock: two tasks never hold the same file.
LocksExclude ==
    \A t, u \in Tasks : t # u /\ job[t].pc \in Holding /\ job[u].pc \in Holding
                          => job[t].path # job[u].path

HistoryInv == RowsFollowFiles /\ ReadInBetween /\ LocksExclude

\* Every step but those of the file tree, the read under the lock and the
\* store leaves the files alone, keeps a row or deletes it, and takes no lock.
QuietStep ==
    /\ UNCHANGED <<disk, changes>>
    /\ \A p \in Paths : index'[p] \in {index[p], 0}
    /\ \A t \in Tasks : job'[t].pc \in Holding =>
          /\ job[t].pc \in Holding
          /\ job'[t].pc \in Comparing => job[t].pc \in Comparing
          /\ job'[t].path = job[t].path /\ job'[t].seen = job[t].seen

LEMMA WatcherIsQuiet ==
    ASSUME WorkInv, StartServer \/ StopServer \/ Callback \/ Unheard \/ Worker
    PROVE  QuietStep
<1>1. /\ job \in [Tasks -> Job] /\ Watcher \in Tasks /\ job[Watcher] \in Job
      /\ Idle.pc \notin Holding
  BY IdleIsJob DEF WorkInv, TypeOK, Tasks, Holding
<1>2. UNCHANGED <<disk, changes, index>>
  BY DEF StartServer, StopServer, Callback, Notify, Unheard, NotifyFails, Worker, Receive,
         DebounceEnds, BatchEnds, TakeSignal, files, rows
<1>3. ASSUME NEW r, r.pc \notin Holding, job' = [job EXCEPT ![Watcher] = r]
      PROVE  QuietStep
  BY <1>1, <1>2, <1>3 DEF QuietStep
<1>4. CASE StopServer
  BY <1>1, <1>2, <1>4 DEF StopServer, QuietStep
<1>5. CASE Callback \/ Unheard
  BY <1>2, <1>5 DEF Callback, Notify, Unheard, NotifyFails, QuietStep
<1>6. CASE StartServer
  BY <1>1, <1>3, <1>6, [job[Watcher] EXCEPT !.pc = "scan"].pc \notin Holding DEF StartServer, Job, Holding
<1>7. CASE Receive
  BY <1>1, <1>3, <1>7 DEF Receive, Job, Holding
<1>8. CASE DebounceEnds
  BY <1>1, <1>3, <1>8 DEF DebounceEnds, Job, Holding, Idle
<1>9. CASE BatchEnds
  BY <1>1, <1>3, <1>9 DEF BatchEnds, Holding, Idle
<1>10. ASSUME NEW s \in Signal, TakeSignal(s)
       PROVE  QuietStep
  BY <1>1, <1>3, <1>10 DEF TakeSignal, Job, Holding
<1> QED
  BY <1>4, <1>5, <1>6, <1>7, <1>8, <1>9, <1>10 DEF Worker

LEMMA TaskIsQuiet ==
    ASSUME WorkInv, NEW t \in Tasks,
           \/ ReindexStep(t) \/ TaskFails(t) \/ RequestReindex(t)
           \/ RemoveDocument(t) \/ Compare(t) \/ Confirm(t) \/ FileFails(t)
    PROVE  QuietStep
<1>1. /\ job \in [Tasks -> Job] /\ job[t] \in Job /\ index \in [Paths -> Nat]
      /\ Idle.pc \notin Holding
      /\ (job[t].pc \in Reading => job[t].within \notin Holding)
  BY IdleIsJob DEF WorkInv, TypeOK, Holding, Job, ReadersReturn
<1>2. UNCHANGED <<disk, changes>> /\ \A p \in Paths : index'[p] \in {index[p], 0}
  BY <1>1 DEF ReindexStep, Scan, Rescan, NextFile, ListStale, DeleteStale, ReindexEnds,
              TaskFails, RequestReindex, RemoveDocument, Compare, Confirm, FileFails,
              files, rows
<1>3. ASSUME NEW r, job' = [job EXCEPT ![t] = r],
             \/ r.pc \notin Holding
             \/ /\ job[t].pc \in Comparing /\ r.pc \in Comparing
                /\ r.path = job[t].path /\ r.seen = job[t].seen
      PROVE  QuietStep
  BY <1>1, <1>2, <1>3 DEF QuietStep, Comparing, Holding
<1>4. CASE RequestReindex(t) \/ ListStale(t) \/ ReindexEnds(t) \/ TaskFails(t)
  <2>1. CASE RequestReindex(t)
    BY <1>1, <1>3, <2>1 DEF RequestReindex, Job, Holding
  <2>2. CASE ListStale(t)
    BY <1>1, <1>3, <2>2 DEF ListStale, Job, Holding
  <2> QED
    BY <1>1, <1>3, <1>4, <2>1, <2>2 DEF ReindexEnds, TaskFails
<1>5. ASSUME NEW unreadable \in SUBSET Paths, Scan(t, unreadable)
      PROVE  QuietStep
  BY <1>1, <1>3, <1>5 DEF Scan, Job, Holding
<1>6. ASSUME NEW unreadable \in SUBSET Paths, NEW unwalked \in SUBSET Paths,
             Rescan(t, unreadable, unwalked)
      PROVE  QuietStep
  BY <1>1, <1>3, <1>6 DEF Rescan, Job, Holding
<1>7. CASE NextFile(t)
  <2>1. PICK p \in job[t].todo :
              job' = [job EXCEPT ![t].pc = "read", ![t].todo = @ \ {p},
                                 ![t].path = p, ![t].within = "files"]
    BY <1>7 DEF NextFile
  <2> QED
    BY <1>1, <1>3, <2>1 DEF Job, Holding
<1>8. CASE DeleteStale(t)
  <2>1. PICK p \in job[t].todo : job' = [job EXCEPT ![t].todo = @ \ {p}]
    BY <1>8 DEF DeleteStale
  <2> QED
    BY <1>1, <1>3, <1>8, <2>1 DEF DeleteStale, Job, Holding
<1>9. ASSUME Return(t), job[t].pc \in Reading
      PROVE  QuietStep
  BY <1>1, <1>3, <1>9 DEF Return, Job, Holding
<1>10. CASE RemoveDocument(t) \/ FileFails(t)
  BY <1>9, <1>10 DEF RemoveDocument, FileFails, Reading, Holding
<1>11. CASE Compare(t)
  <2>1. CASE job' = [job EXCEPT ![t].pc = "confirm"]
    BY <1>1, <1>3, <1>11, <2>1 DEF Compare, Job, Comparing
  <2> QED
    BY <1>9, <1>11, <2>1 DEF Compare, Reading, Holding
<1>12. CASE Confirm(t)
  <2>1. CASE job' = [job EXCEPT ![t].pc = "store"]
    BY <1>1, <1>3, <1>12, <2>1 DEF Confirm, Job, Comparing
  <2> QED
    BY <1>9, <1>12, <2>1 DEF Confirm, Reading, Holding
<1> QED
  BY <1>4, <1>5, <1>6, <1>7, <1>8, <1>10, <1>11, <1>12 DEF ReindexStep

LEMMA QuietKeepsHistory ==
    ASSUME WorkInv, HistoryInv, QuietStep
    PROVE  HistoryInv'
<1>1. /\ disk \in [Paths -> Nat] /\ index \in [Paths -> Nat] /\ changes \in Nat
      /\ disk' = disk /\ changes' = changes
      /\ \A p \in Paths : index'[p] <= index[p] /\ index'[p] \in Nat
      /\ \A t \in Tasks : /\ job[t].seen \in Nat
                          /\ job[t].pc \in Comparing => job[t].path \in Paths
  <2>1. /\ disk \in [Paths -> Nat] /\ index \in [Paths -> Nat] /\ changes \in Nat
        /\ \A t \in Tasks : job[t] \in Job
        /\ \A t \in Tasks : job[t].pc \in Comparing => job[t].path \in Paths
    BY DEF WorkInv, TypeOK, ReadersReturn, Reading, Comparing, Holding
  <2> QED
    BY <2>1 DEF QuietStep, Job
<1>2. RowsFollowFiles'
  <2> SUFFICES ASSUME NEW p \in Paths
               PROVE  /\ disk[p] <= changes /\ index'[p] <= changes
                      /\ disk[p] # 0 => index'[p] <= disk[p]
    BY <1>1 DEF RowsFollowFiles
  <2>1. /\ disk[p] <= changes /\ index[p] <= changes
        /\ disk[p] # 0 => index[p] <= disk[p]
    BY DEF HistoryInv, RowsFollowFiles
  <2>2. /\ disk[p] \in Nat /\ index[p] \in Nat /\ index'[p] \in Nat
        /\ index'[p] <= index[p]
    BY <1>1
  <2> QED
    BY <1>1, <2>1, <2>2
<1>3. ReadInBetween'
  <2> SUFFICES ASSUME NEW t \in Tasks, job'[t].pc \in Comparing
               PROVE  LET p == job'[t].path
                      IN  /\ job'[t].seen # 0 /\ index'[p] <= job'[t].seen
                          /\ job'[t].seen <= changes'
                          /\ disk'[p] # 0 => job'[t].seen <= disk'[p]
    BY DEF ReadInBetween
  <2>1. /\ job[t].pc \in Comparing /\ job'[t].path = job[t].path
        /\ job'[t].seen = job[t].seen
    BY DEF QuietStep, Comparing, Holding
  <2> DEFINE p == job[t].path
  <2>2. /\ job[t].seen # 0 /\ index[p] <= job[t].seen /\ job[t].seen <= changes
        /\ disk[p] # 0 => job[t].seen <= disk[p]
    BY <2>1 DEF HistoryInv, ReadInBetween
  <2>3. /\ p \in Paths /\ index[p] \in Nat /\ index'[p] \in Nat /\ job[t].seen \in Nat
        /\ index'[p] <= index[p]
    BY <1>1, <2>1
  <2> QED
    BY <1>1, <2>1, <2>2, <2>3
<1>4. LocksExclude'
  BY DEF QuietStep, HistoryInv, LocksExclude
<1> QED
  BY <1>2, <1>3, <1>4 DEF HistoryInv

LEMMA TreeKeepsHistory ==
    ASSUME WorkInv, HistoryInv, Tree
    PROVE  HistoryInv' /\ UNCHANGED <<index, job>>
<1>1. /\ disk \in [Paths -> Nat] /\ index \in [Paths -> Nat] /\ changes \in Nat
      /\ \A t \in Tasks : job[t].seen \in Nat
      /\ \A t \in Tasks : job[t].pc \in Comparing => job[t].path \in Paths
  BY DEF WorkInv, TypeOK, Job, ReadersReturn, Reading, Comparing, Holding
<1>2. UNCHANGED <<index, job>> /\ changes' = changes + 1
  BY DEF Tree, WriteFile, RemoveFile, MoveDirectory, EditIgnoreFile, Change
<1>3. \A p \in Paths : disk'[p] \in {disk[p], 0, changes'}
  BY <1>1, <1>2 DEF Tree, WriteFile, RemoveFile, MoveDirectory, EditIgnoreFile
<1>4. RowsFollowFiles'
  <2> SUFFICES ASSUME NEW p \in Paths
               PROVE  /\ disk'[p] <= changes' /\ index[p] <= changes'
                      /\ disk'[p] # 0 => index[p] <= disk'[p]
    BY <1>2 DEF RowsFollowFiles
  <2>1. /\ disk[p] <= changes /\ index[p] <= changes
        /\ disk[p] # 0 => index[p] <= disk[p]
    BY DEF HistoryInv, RowsFollowFiles
  <2>2. disk[p] \in Nat /\ index[p] \in Nat /\ disk'[p] \in {disk[p], 0, changes'}
    BY <1>1, <1>3
  <2> QED
    BY <1>1, <1>2, <2>1, <2>2
<1>5. ReadInBetween'
  <2> SUFFICES ASSUME NEW t \in Tasks, job[t].pc \in Comparing
               PROVE  LET p == job[t].path
                      IN  /\ job[t].seen # 0 /\ index[p] <= job[t].seen
                          /\ job[t].seen <= changes'
                          /\ disk'[p] # 0 => job[t].seen <= disk'[p]
    BY <1>2 DEF ReadInBetween
  <2> DEFINE p == job[t].path
  <2>1. /\ job[t].seen # 0 /\ index[p] <= job[t].seen /\ job[t].seen <= changes
        /\ disk[p] # 0 => job[t].seen <= disk[p]
    BY DEF HistoryInv, ReadInBetween
  <2>2. /\ disk[p] \in Nat /\ job[t].seen \in Nat
        /\ disk'[p] \in {disk[p], 0, changes'}
    BY <1>1, <1>3
  <2> QED
    BY <1>1, <1>2, <2>1, <2>2
<1> QED
  BY <1>2, <1>4, <1>5 DEF HistoryInv, LocksExclude

LEMMA ReadKeepsHistory ==
    ASSUME WorkInv, HistoryInv, NEW t \in Tasks, ReadFile(t)
    PROVE  HistoryInv' /\ UNCHANGED index
<1> DEFINE p == job[t].path
           step == IF disk[p] = 0 THEN "remove" ELSE "compare"
           r == [job[t] EXCEPT !.seen = disk[p], !.pc = step]
<1>1. /\ job \in [Tasks -> Job] /\ p \in Paths /\ disk \in [Paths -> Nat]
      /\ index \in [Paths -> Nat] /\ changes \in Nat
      /\ UNCHANGED <<disk, changes, index>>
      /\ job[t].pc = "read"
  BY DEF WorkInv, TypeOK, ReadersReturn, Reading, ReadFile, files, rows
<1>2. job' = [job EXCEPT ![t] = r]
  BY <1>1 DEF ReadFile
<1>3. r.pc = step /\ r.path = p /\ r.seen = disk[p]
  BY <1>1 DEF Job
<1>4. job'[t] = r /\ \A u \in Tasks \ {t} : job'[u] = job[u]
  BY <1>1, <1>2
<1> HIDE DEF r
<1>5. RowsFollowFiles'
  BY <1>1 DEF HistoryInv, RowsFollowFiles
<1>6. ReadInBetween'
  <2>1. step \in Comparing => disk[p] # 0 /\ index[p] <= disk[p] /\ disk[p] <= changes
    <3>1. disk[p] <= changes /\ (disk[p] # 0 => index[p] <= disk[p])
      BY <1>1 DEF HistoryInv, RowsFollowFiles
    <3> QED
      BY <3>1 DEF Comparing
  <2>2. disk[p] <= disk[p]
    BY <1>1
  <2> QED
    BY <1>1, <1>3, <1>4, <2>1, <2>2 DEF HistoryInv, ReadInBetween
<1>7. LocksExclude'
  <2>1. \A u \in Tasks \ {t} : job[u].pc \in Holding => job[u].path # p
    BY DEF ReadFile, Locked
  <2> QED
    BY <1>3, <1>4, <2>1 DEF HistoryInv, LocksExclude
<1> QED
  BY <1>1, <1>5, <1>6, <1>7 DEF HistoryInv

LEMMA StoreKeepsHistory ==
    ASSUME WorkInv, HistoryInv, NEW t \in Tasks, StoreDocument(t)
    PROVE  HistoryInv' /\ \A p \in Paths : index[p] <= index'[p]
<1> DEFINE p == job[t].path
           r == [job[t] EXCEPT !.pc = job[t].within, !.path = 0, !.seen = 0,
                               !.within = "none"]
<1>1. /\ job \in [Tasks -> Job] /\ p \in Paths /\ job[t].seen \in Nat
      /\ disk \in [Paths -> Nat] /\ index \in [Paths -> Nat] /\ changes \in Nat
      /\ UNCHANGED <<disk, changes>> /\ index' = [index EXCEPT ![p] = job[t].seen]
      /\ job[t].pc = "store" /\ job[t].within \notin Holding
  BY DEF WorkInv, TypeOK, ReadersReturn, Reading, Holding, StoreDocument, files, Job
<1>2. /\ job[t].seen # 0 /\ index[p] <= job[t].seen /\ job[t].seen <= changes
      /\ disk[p] # 0 => job[t].seen <= disk[p]
  BY <1>1 DEF HistoryInv, ReadInBetween, Comparing
<1>3. job'[t] = r /\ \A u \in Tasks \ {t} : job'[u] = job[u]
  BY <1>1 DEF StoreDocument, Return
<1>4. r.pc \notin Holding
  BY <1>1 DEF Job
<1> HIDE DEF r
<1>5. \A q \in Paths : index'[q] = IF q = p THEN job[t].seen ELSE index[q]
  BY <1>1
<1>6. RowsFollowFiles'
  BY <1>1, <1>2, <1>5 DEF HistoryInv, RowsFollowFiles
<1>7. ReadInBetween'
  <2> SUFFICES ASSUME NEW u \in Tasks \ {t}, job[u].pc \in Comparing
               PROVE  LET q == job[u].path
                      IN  /\ job[u].seen # 0 /\ index'[q] <= job[u].seen
                          /\ job[u].seen <= changes
                          /\ disk[q] # 0 => job[u].seen <= disk[q]
    BY <1>1, <1>3, <1>4 DEF ReadInBetween, Comparing, Holding
  <2>1. job[u].path # p /\ job[u].path \in Paths
    BY <1>1 DEF HistoryInv, LocksExclude, Comparing, Holding, WorkInv, TypeOK, ReadersReturn,
                Reading
  <2> QED
    BY <1>5, <2>1 DEF HistoryInv, ReadInBetween
<1>8. LocksExclude'
  BY <1>3, <1>4 DEF HistoryInv, LocksExclude
<1> QED
  BY <1>1, <1>2, <1>5, <1>6, <1>7, <1>8 DEF HistoryInv

LEMMA HistoryStep ==
    ASSUME WorkInv, HistoryInv, [Next]_vars
    PROVE  /\ HistoryInv'
           /\ \A p \in Paths : index[p] # 0 /\ index'[p] # 0 => index'[p] >= index[p]
<1>1. index \in [Paths -> Nat]
  BY DEF WorkInv, TypeOK
<1>2. CASE Tree
  BY <1>1, <1>2, TreeKeepsHistory
<1>3. CASE QuietStep
  <2>1. \A p \in Paths : index[p] # 0 /\ index'[p] # 0 => index'[p] = index[p]
    BY <1>3 DEF QuietStep
  <2> QED
    BY <1>1, <1>3, <2>1, QuietKeepsHistory
<1>4. ASSUME NEW t \in Tasks, ReadFile(t) \/ StoreDocument(t)
      PROVE  /\ HistoryInv'
             /\ \A p \in Paths : index[p] # 0 /\ index'[p] # 0 => index'[p] >= index[p]
  <2>1. HistoryInv' /\ \A p \in Paths : index[p] <= index'[p]
    BY <1>1, <1>4, ReadKeepsHistory, StoreKeepsHistory
  <2>2. index' \in [Paths -> Nat]
    BY WorkInvStep DEF WorkInv, TypeOK
  <2> QED
    BY <1>1, <2>1, <2>2
<1>5. CASE UNCHANGED vars
  <2>1. QuietStep
    BY <1>5 DEF QuietStep, vars, files, rows
  <2> QED
    BY <1>3, <2>1
<1> QED
  BY <1>2, <1>3, <1>4, <1>5, WatcherIsQuiet, TaskIsQuiet DEF Next, ReconcileStep, Tasks

LEMMA HistoryInvHolds == Spec => []HistoryInv
<1>1. Init => HistoryInv
  BY IdleIsJob DEF Init, HistoryInv, RowsFollowFiles, ReadInBetween, LocksExclude,
                   Comparing, Holding
<1>2. WorkInv /\ HistoryInv /\ [Next]_vars => HistoryInv'
  BY HistoryStep
<1> QED
  BY <1>1, <1>2, WorkInvHolds, PTL DEF Spec

\* Reconciliation rejects stale attempts, whatever other tasks, tool calls,
\* faults and changes of the files come between its reads and its store:
\* a row that exists is never replaced by an earlier content of its file.
THEOREM StoredContentsGrow == Spec => RowsNeverGoBack
<1>1. WorkInv /\ HistoryInv /\ [Next]_vars
        => [\A p \in Paths : index[p] # 0 /\ index'[p] # 0 => index'[p] >= index[p]]_vars
  BY HistoryStep
<1> QED
  BY <1>1, WorkInvHolds, HistoryInvHolds, PTL DEF Spec, RowsNeverGoBack

-----------------------------------------------------------------------------
(* What is deleted was gone *)

\* Every row that is not wanted, and every row that is about to be deleted,
\* was stored before its file went away or was excluded.
GoneInv ==
    LET w == job[Watcher]
        Gone(p) == index[p] # 0 => p \in gone
    IN  /\ \A p \in Paths : Wanted(p) = 0 => Gone(p)
        /\ w.pc = "remove" => Gone(w.path)
        /\ w.pc = "stale" => \A p \in Paths \ w.present : Gone(p)
        /\ w.pc = "delete" => \A p \in w.todo : Gone(p)

\* A step that deletes at most a row, and remembers of the watcher's own
\* observations no more than the files, or its record, say.
PassesOn ==
    LET w == job[Watcher]
        n == job'[Watcher]
    IN  /\ UNCHANGED <<disk, ignored, gone>>
        /\ \A p \in Paths :
              \/ index'[p] = index[p]
              \/ /\ index'[p] = 0
                 /\ (w.pc = "remove" /\ p = w.path) \/ (w.pc = "delete" /\ p \in w.todo)
        /\ n.pc = "remove" =>
              Wanted(n.path) = 0 \/ (w.pc = "remove" /\ n.path = w.path)
        /\ n.pc = "stale" =>
              Discovered \subseteq n.present \/ (w.pc = "stale" /\ n.present = w.present)
        /\ n.pc = "delete" =>
              \/ w.pc = "delete" /\ n.todo \subseteq w.todo
              \/ w.pc = "stale" /\ n.todo \subseteq Paths \ w.present

\* The watcher's own steps, one by one, when it is the only task.
LEMMA WatcherPassesOn ==
    ASSUME Tools = {}, "walk" \notin FaultKinds, WorkInv, Next, ~Tree,
           ~StoreDocument(Watcher)
    PROVE  PassesOn
<1> DEFINE w == job[Watcher]
<1>1. /\ job \in [Tasks -> Job] /\ Tasks = {Watcher} /\ w \in Job
      /\ index \in [Paths -> Nat] /\ Indexed \subseteq Paths
      /\ (w.pc \in Reading => w.within \in {"batch", "files"} /\ w.path \in Paths)
      /\ Idle.pc = "idle"
  BY IdleIsJob DEF WorkInv, TypeOK, Tasks, ReadersReturn, Indexed, Job
<1>2. /\ UNCHANGED <<disk, ignored, gone>>
      /\ \A p \in Paths :
            \/ index'[p] = index[p]
            \/ /\ index'[p] = 0
               /\ (w.pc = "remove" /\ p = w.path) \/ (w.pc = "delete" /\ p \in w.todo)
  <2>1. CASE StartServer \/ StopServer \/ Callback \/ Unheard \/ Worker
    BY <2>1 DEF StartServer, StopServer, Callback, Notify, Unheard, NotifyFails, Worker,
                Receive, DebounceEnds, BatchEnds, TakeSignal, files, rows
  <2>2. CASE ReindexStep(Watcher) \/ TaskFails(Watcher) \/ FileFails(Watcher)
    BY <1>1, <2>2 DEF ReindexStep, Scan, Rescan, NextFile, ListStale, DeleteStale,
                      ReindexEnds, TaskFails, FileFails, files, rows
  <2>3. CASE ReconcileStep(Watcher)
    BY <1>1, <2>3 DEF ReconcileStep, ReadFile, Compare, Confirm, RemoveDocument, files, rows
  <2> QED
    BY <1>1, <2>1, <2>2, <2>3 DEF Next
<1>3. ASSUME job'[Watcher].pc \notin {"remove", "stale", "delete"} \/ job' = job
      PROVE  PassesOn
  BY <1>2, <1>3 DEF PassesOn
<1>4. ASSUME NEW r, job' = [job EXCEPT ![Watcher] = r], r.pc \notin {"remove", "stale", "delete"}
      PROVE  PassesOn
  BY <1>1, <1>3, <1>4
<1>5. CASE StartServer \/ StopServer \/ Callback \/ Unheard \/ Worker
  <2>1. CASE Callback \/ Unheard
    BY <1>3, <2>1 DEF Callback, Notify, Unheard, NotifyFails
  <2>2. CASE StopServer
    BY <1>1, <1>3, <2>2 DEF StopServer
  <2>3. CASE StartServer
    BY <1>1, <1>4, <2>3 DEF StartServer, Job
  <2>4. CASE Receive
    BY <1>1, <1>4, <2>4 DEF Receive, Job
  <2>5. CASE DebounceEnds
    BY <1>1, <1>4, <2>5 DEF DebounceEnds, Job, Idle
  <2>6. CASE BatchEnds
    BY <1>1, <1>4, <2>6 DEF BatchEnds, Idle
  <2>7. ASSUME NEW s \in Signal, TakeSignal(s)
        PROVE  PassesOn
    BY <1>1, <1>4, <2>7 DEF TakeSignal, Job
  <2> QED
    BY <1>5, <2>1, <2>2, <2>3, <2>4, <2>5, <2>6, <2>7 DEF Worker
<1>6. CASE ReindexStep(Watcher) \/ TaskFails(Watcher)
  <2>1. ASSUME NEW unreadable \in SUBSET Paths, Scan(Watcher, unreadable)
        PROVE  PassesOn
    BY <1>1, <1>4, <2>1 DEF Scan, Job
  <2>2. ASSUME NEW unreadable \in SUBSET Paths, NEW unwalked \in SUBSET Paths,
               Rescan(Watcher, unreadable, unwalked)
        PROVE  PassesOn
    <3>1. unwalked = {}
      BY <2>2 DEF Rescan, Fault
    <3>2. /\ job'[Watcher].pc = "stale"
          /\ job'[Watcher].present = Discovered \cup unreadable
      BY <1>1, <2>2, <3>1 DEF Rescan, Retained, Job
    <3> QED
      BY <1>2, <3>2 DEF PassesOn
  <2>3. CASE NextFile(Watcher)
    <3>1. PICK p \in w.todo :
                job' = [job EXCEPT ![Watcher].pc = "read", ![Watcher].todo = @ \ {p},
                                   ![Watcher].path = p, ![Watcher].within = "files"]
      BY <2>3 DEF NextFile
    <3> QED
      BY <1>1, <1>4, <3>1 DEF Job
  <2>4. CASE ListStale(Watcher)
    <3>1. /\ job'[Watcher].pc = "delete" /\ w.pc = "stale"
          /\ job'[Watcher].todo = Indexed \ w.present
      BY <1>1, <2>4 DEF ListStale, Job
    <3> QED
      BY <1>1, <1>2, <3>1 DEF PassesOn
  <2>5. CASE DeleteStale(Watcher)
    <3>1. PICK p \in w.todo : job' = [job EXCEPT ![Watcher].todo = @ \ {p}]
      BY <2>5 DEF DeleteStale
    <3>2. /\ job'[Watcher].pc = w.pc /\ w.pc = "delete"
          /\ job'[Watcher].todo = w.todo \ {p}
      BY <1>1, <2>5, <3>1 DEF DeleteStale, Job
    <3> QED
      BY <1>2, <3>2 DEF PassesOn
  <2>6. CASE ReindexEnds(Watcher) \/ TaskFails(Watcher)
    BY <1>1, <1>4, <2>6 DEF ReindexEnds, TaskFails
  <2> QED
    BY <1>6, <2>1, <2>2, <2>3, <2>4, <2>5, <2>6 DEF ReindexStep
<1>7. CASE ReconcileStep(Watcher) \/ FileFails(Watcher)
  <2>1. ASSUME Return(Watcher), w.pc \in Reading
        PROVE  PassesOn
    BY <1>1, <1>4, <2>1 DEF Return, Job
  <2>2. CASE ReadFile(Watcher)
    <3>1. /\ job'[Watcher].path = w.path
          /\ job'[Watcher].pc = "remove" => disk[w.path] = 0
          /\ job'[Watcher].pc \in {"remove", "compare"}
      BY <1>1, <2>2 DEF ReadFile, Job
    <3> QED
      BY <1>2, <3>1 DEF PassesOn, Wanted
  <2>3. CASE RemoveDocument(Watcher) \/ FileFails(Watcher)
    BY <2>1, <2>3 DEF RemoveDocument, FileFails, Reading, Holding
  <2>4. CASE Compare(Watcher)
    <3>1. CASE job' = [job EXCEPT ![Watcher].pc = "confirm"]
      BY <1>1, <1>4, <3>1 DEF Job
    <3> QED
      BY <2>1, <2>4, <3>1 DEF Compare, Reading, Holding
  <2>5. CASE Confirm(Watcher)
    <3>1. CASE job' = [job EXCEPT ![Watcher].pc = "store"]
      BY <1>1, <1>4, <3>1 DEF Job
    <3> QED
      BY <2>1, <2>5, <3>1 DEF Confirm, Reading, Holding
  <2> QED
    BY <1>7, <2>2, <2>3, <2>4, <2>5 DEF ReconcileStep
<1> QED
  BY <1>1, <1>5, <1>6, <1>7 DEF Next

\* Nothing the watcher does makes a row that is not gone disappear.
LEMMA WatcherKeepsGone ==
    ASSUME WorkInv, WorkInv', HistoryInv, GoneInv,
           Tree \/ PassesOn \/ StoreDocument(Watcher)
    PROVE  GoneInv' /\ \A p \in Paths : index[p] # 0 /\ index'[p] = 0 => p \in gone
<1> DEFINE w == job[Watcher]
           n == job'[Watcher]
<1>1. /\ \A p \in Paths : Wanted(p) = 0 => (index[p] # 0 => p \in gone)
      /\ w.pc = "remove" => (index[w.path] # 0 => w.path \in gone)
      /\ w.pc = "stale" => \A p \in Paths \ w.present : index[p] # 0 => p \in gone
      /\ w.pc = "delete" => \A p \in w.todo : index[p] # 0 => p \in gone
  BY DEF GoneInv
<1>2. /\ job \in [Tasks -> Job] /\ Watcher \in Tasks /\ n \in Job
      /\ (w.pc \in Reading => w.within \in {"batch", "files"} /\ w.path \in Paths)
      /\ (n.pc = "remove" => n.path \in Paths)
      /\ index \in [Paths -> Nat]
  BY DEF WorkInv, TypeOK, Tasks, ReadersReturn, Reading, Holding, Job
<1>3. CASE PassesOn
  <2>1. /\ gone' = gone /\ \A p \in Paths : Wanted(p)' = Wanted(p)
        /\ \A p \in Paths : index'[p] # 0 => index[p] # 0
    BY <1>3 DEF PassesOn, Wanted
  <2>2. n.pc = "remove" => (index'[n.path] # 0 => n.path \in gone)
    BY <1>1, <1>2, <1>3, <2>1 DEF PassesOn
  <2>3. n.pc = "stale" => \A p \in Paths \ n.present : index'[p] # 0 => p \in gone
    BY <1>1, <1>3, <2>1 DEF PassesOn, Discovered
  <2>4. n.pc = "delete" => \A p \in n.todo : index'[p] # 0 => p \in gone
    BY <1>1, <1>2, <1>3, <2>1 DEF PassesOn, Job
  <2>5. \A p \in Paths : index[p] # 0 /\ index'[p] = 0 => p \in gone
    BY <1>1, <1>3 DEF PassesOn
  <2> QED
    BY <1>1, <2>1, <2>2, <2>3, <2>4, <2>5 DEF GoneInv
<1>4. CASE Tree
  <2>1. UNCHANGED <<index, job>> /\ gone' = gone \cup {p \in Paths : disk'[p] = 0 \/ p \in ignored'}
    BY <1>4 DEF Tree, WriteFile, RemoveFile, MoveDirectory, EditIgnoreFile, Change
  <2>2. \A p \in Paths : Wanted(p)' = 0 => p \in gone'
    BY <2>1 DEF Wanted
  <2> QED
    BY <1>1, <2>1, <2>2 DEF GoneInv
<1>5. CASE StoreDocument(Watcher)
  <2> DEFINE p == w.path
  <2>1. /\ w.pc = "store" /\ p \in Paths /\ UNCHANGED <<disk, ignored>>
        /\ index' = [index EXCEPT ![p] = w.seen]
        /\ gone' = IF Wanted(p) = 0 THEN gone \cup {p} ELSE gone \ {p}
    BY <1>2, <1>5 DEF StoreDocument, files, Reading, Holding
  <2>2. n.pc \in {"batch", "files"}
    BY <1>2, <1>5 DEF StoreDocument, Return, Reading, Holding, Job
  <2>3. \A q \in Paths : Wanted(q)' = 0 => (index'[q] # 0 => q \in gone')
    BY <1>1, <1>2, <2>1 DEF Wanted
  <2>4. \A q \in Paths : index[q] # 0 /\ index'[q] = 0 => q \in gone
    BY <1>2, <2>1 DEF HistoryInv, ReadInBetween, Comparing
  <2> QED
    BY <2>2, <2>3, <2>4 DEF GoneInv
<1> QED
  BY <1>3, <1>4, <1>5

LEMMA GoneStep ==
    ASSUME Tools = {}, "walk" \notin FaultKinds, WorkInv, HistoryInv, GoneInv, [Next]_vars
    PROVE  GoneInv' /\ \A p \in Paths : index[p] # 0 /\ index'[p] = 0 => p \in gone
<1>1. WorkInv'
  BY WorkInvStep
<1>2. CASE Next
  BY <1>1, <1>2, WatcherPassesOn, WatcherKeepsGone
<1>3. CASE UNCHANGED vars
  BY <1>3 DEF GoneInv, vars, files, rows, Wanted
<1> QED
  BY <1>2, <1>3

\* A file that stays in place stays indexed: when the watcher is the only one
\* that reconciles and every directory can be walked, a row is deleted only if
\* its file was missing or excluded since it was stored, whatever was read
\* before, and whatever signals, faults and restarts come between.
THEOREM DeletedWereGone ==
    ASSUME Tools = {}, "walk" \notin FaultKinds
    PROVE  Spec => KeepsIndexedFiles
<1>1. Init => GoneInv
  BY IdleIsJob DEF Init, GoneInv, Tasks
<1>2. WorkInv /\ HistoryInv /\ GoneInv /\ [Next]_vars => GoneInv'
  BY GoneStep
<1>3. Spec => []GoneInv
  BY <1>1, <1>2, WorkInvHolds, HistoryInvHolds, PTL DEF Spec
<1>4. WorkInv /\ HistoryInv /\ GoneInv /\ [Next]_vars
        => [\A p \in Paths : index[p] # 0 /\ index'[p] = 0 => p \in gone]_vars
  BY GoneStep
<1> QED
  BY <1>3, <1>4, WorkInvHolds, HistoryInvHolds, PTL DEF Spec, KeepsIndexedFiles

-----------------------------------------------------------------------------
(* Nothing wrong is left without someone who knows *)

\* A signal for the path has not been acted on.
Signalled(p) ==
    p \in pending \/ p \in job[Watcher].batch \/ \E i \in 1 .. Len(queue) : queue[i] = p

\* The watcher will scan the whole tree again.
RescanDue ==
    Signalled(Ambiguous) \/ overflowed \/ job[Watcher].rescan \/ job[Watcher].pc = "scan"

\* The watcher is about to bring the row to the file as it is now.
Reconciled(p) ==
    LET w == job[Watcher]
    IN  /\ w.path = p
        /\ \/ w.pc = "read"
           \/ w.pc \in Comparing /\ w.seen = disk[p]
           \/ w.pc = "remove" /\ disk[p] = 0

\* A reindex will still come to the path.
Listed(p) ==
    LET w == job[Watcher]
    IN  \/ /\ w.pc = "files" \/ w.within = "files"
           /\ (p \notin ignored /\ p \in w.todo) \/ Wanted(p) = 0
        \/ w.pc = "stale" /\ Wanted(p) = 0 /\ p \notin w.present
        \/ w.pc = "delete" /\ Wanted(p) = 0 /\ p \in w.todo

Covered(p) ==
    \/ RescanDue
    \/ p \notin ignored /\ (Signalled(p) \/ Reconciled(p))
    \/ Listed(p)

Known(p) == RescanDue \/ Signalled(p)
Excused(p) == p \in failed \/ Known(p)

\* While a server runs: every row that is wrong is covered, and whatever the
\* watcher remembers that is no longer so, it has been told of, or the message
\* was lost.
CoveredInv ==
    LET w == job[Watcher]
    IN  /\ \A p \in Paths \ failed : index[p] # Wanted(p) => Covered(p)
        /\ w.pc \in Comparing /\ w.seen # disk[w.path] => Excused(w.path)
        /\ w.pc = "remove" /\ disk[w.path] # 0 => Excused(w.path)
        /\ w.pc = "stale" => \A p \in Paths \ w.present : Wanted(p) # 0 => Excused(p)
        /\ w.pc = "delete" => \A p \in w.todo : Wanted(p) # 0 => Excused(p)

\* What is left of a batch is there only while a batch is worked off, and a
\* file is reconciled in a batch only if it has a row.
BatchInv ==
    LET w == job[Watcher]
    IN  /\ w.pc \notin {"collect", "batch"} /\ w.within # "batch"
              => w.batch = {} /\ ~w.rescan
        /\ w.within = "batch" => index[w.path] # 0

Alive == server \in {"starting", "ready"}

SettlingInv == BatchInv /\ (Alive => CoveredInv)

\* What the watcher's record and the rows are, for the steps below.
LEMMA WatcherFacts ==
    ASSUME WorkInv
    PROVE  LET w == job[Watcher]
           IN  /\ Watcher \in Tasks /\ job \in [Tasks -> Job] /\ w \in Job
               /\ w.batch \subseteq Signal /\ w.rescan \in BOOLEAN
               /\ w.todo \subseteq Paths /\ w.present \subseteq Paths
               /\ w.pc \in Reading => w.within \in {"batch", "files"} /\ w.path \in Paths
               /\ w.pc \notin Reading => w.within = "none"
               /\ index \in [Paths -> Nat] /\ disk \in [Paths -> Nat]
               /\ ignored \subseteq Paths /\ failed \subseteq Paths
               /\ Ambiguous \notin Paths
BY FilesAssumption DEF WorkInv, TypeOK, Tasks, ReadersReturn, Job, Ambiguous

\* No signal is lost: it stays, or the rescan it calls for is due.
NothingForgotten ==
    /\ RescanDue => RescanDue'
    /\ \A s \in Signal : Signalled(s) => Signalled(s)' \/ RescanDue'

LEMMA KnownStays ==
    ASSUME NothingForgotten, NEW p \in Paths, Known(p)
    PROVE  Known(p)'
BY DEF NothingForgotten, Known, Signal

LEMMA SameSignals ==
    ASSUME UNCHANGED <<pending, queue, overflowed>>,
           job'[Watcher].batch = job[Watcher].batch,
           job'[Watcher].rescan = job[Watcher].rescan,
           job[Watcher].pc # "scan"
    PROVE  NothingForgotten
BY DEF NothingForgotten, RescanDue, Signalled

\* Between files: only the watcher's next signal, batch or reindex changes.
LEMMA IdleStepCovers ==
    ASSUME WorkInv, WorkInv', CoveredInv, NothingForgotten,
           UNCHANGED <<disk, ignored, index, failed>>,
           job[Watcher].pc \in {"idle", "collect", "batch"}
             \/ (job[Watcher].pc = "delete" /\ job[Watcher].todo = {}),
           job'[Watcher].pc \in {"idle", "collect", "batch", "scan"}
    PROVE  CoveredInv'
<1> DEFINE w == job[Watcher]
           n == job'[Watcher]
<1>1. ASSUME NEW p \in Paths \ failed, index[p] # Wanted(p)
      PROVE  Covered(p)'
  <2>1. Covered(p) /\ w.within = "none"
    BY <1>1, WatcherFacts DEF CoveredInv, Reading, Holding
  <2>2. ~Reconciled(p) /\ ~Listed(p)
    BY <2>1 DEF Reconciled, Listed, Comparing
  <2>3. RescanDue' \/ (p \notin ignored' /\ Signalled(p)')
    BY <2>1, <2>2 DEF Covered, NothingForgotten, Signal
  <2> QED
    BY <2>3 DEF Covered
<1>2. \A p \in Paths : Wanted(p)' = Wanted(p)
  BY DEF Wanted
<1> QED
  BY <1>1, <1>2 DEF CoveredInv, Comparing

\* A file is done with: its row is right, or what made it wrong is known.
LEMMA ReturnCovers ==
    ASSUME WorkInv, BatchInv, CoveredInv, Return(Watcher), job[Watcher].pc \in Reading,
           UNCHANGED <<disk, ignored, pending, queue, overflowed>>,
           \A p \in Paths \ {job[Watcher].path} :
                index'[p] = index[p] /\ (p \notin failed' => p \notin failed),
           LET p == job[Watcher].path
           IN  p \notin failed' /\ index'[p] # Wanted(p) =>
                 \/ p \notin ignored /\ Known(p)
                 \/ p \in ignored /\ p \notin failed
    PROVE  CoveredInv'
<1> DEFINE w == job[Watcher]
           n == job'[Watcher]
<1>p. PICK p \in Paths : p = w.path
  BY WatcherFacts
<1>1. /\ w.within \in {"batch", "files"} /\ w \in Job
      /\ n.pc = w.within /\ n.within = "none" /\ n.batch = w.batch /\ n.rescan = w.rescan
      /\ n.todo = w.todo
  BY WatcherFacts DEF Return, Job
<1>2. NothingForgotten
  BY <1>1, SameSignals DEF Reading, Holding
<1>3. \A q \in Paths : Wanted(q)' = Wanted(q)
  BY DEF Wanted
<1>4. ASSUME NEW q \in Paths, Listed(q)
      PROVE  w.within = "files" /\ Listed(q)'
  BY <1>1, <1>3, <1>4 DEF Listed, Reading, Holding
<1>5. ASSUME NEW q \in Paths \ {p}, Covered(q)
      PROVE  Covered(q)'
  <2>1. ~Reconciled(q)
    BY <1>p DEF Reconciled
  <2> QED
    BY <1>2, <1>4, <1>5, <2>1 DEF Covered, NothingForgotten, Signal
<1>6. ASSUME p \notin failed', index'[p] # Wanted(p)
      PROVE  Covered(p)'
  <2>1. CASE p \notin ignored /\ Known(p)
    <3>1. Known(p)'
      BY <1>1, <1>2, <2>1, KnownStays
    <3> QED
      BY <2>1, <3>1 DEF Known, Covered
  <2>2. CASE p \in ignored /\ p \notin failed /\ w.within = "files"
    BY <1>1, <1>3, <2>2 DEF Covered, Listed, Wanted
  <2>3. CASE p \in ignored /\ p \notin failed /\ w.within = "batch"
    <3>1. index[p] # Wanted(p)
      BY <1>p, <2>3 DEF BatchInv, Wanted
    <3>2. Covered(p)
      BY <1>1, <2>3, <3>1 DEF CoveredInv
    <3>3. RescanDue
      BY <1>1, <1>4, <2>3, <3>2 DEF Covered
    <3> QED
      BY <1>2, <3>3 DEF NothingForgotten, Covered
  <2> QED
    BY <1>p, <1>1, <1>6, <2>1, <2>2, <2>3
<1>7. \A q \in Paths \ failed' : index'[q] # Wanted(q)' => Covered(q)'
  BY <1>p, <1>1, <1>3, <1>5, <1>6 DEF CoveredInv
<1> QED
  BY <1>1, <1>7 DEF CoveredInv, Comparing

\* Reading and comparing: the watcher still is on its way to the row.
LEMMA ReadingCovers ==
    ASSUME WorkInv, CoveredInv, NEW step, NEW seen,
           job' = [job EXCEPT ![Watcher].seen = seen, ![Watcher].pc = step],
           job[Watcher].pc \in Reading, step \in {"remove", "compare", "confirm", "store"},
           UNCHANGED <<disk, ignored, index, failed, pending, queue, overflowed>>,
           LET w == job[Watcher]
           IN  \/ /\ w.pc = "read" /\ seen = disk[w.path]
                  /\ step = "remove" <=> seen = 0
               \/ w.pc \in Comparing /\ step \in Comparing /\ seen = w.seen
    PROVE  CoveredInv'
<1> DEFINE w == job[Watcher]
           n == job'[Watcher]
<1>1. /\ n.pc = step /\ n.seen = seen /\ n.path = w.path /\ n.within = w.within
      /\ n.todo = w.todo /\ n.batch = w.batch /\ n.rescan = w.rescan
      /\ w.path \in Paths
  BY WatcherFacts DEF Job
<1>2. NothingForgotten
  BY <1>1, SameSignals DEF Reading, Holding
<1>3. \A p \in Paths : Wanted(p)' = Wanted(p)
  BY DEF Wanted
<1>4. ASSUME NEW p \in Paths \ failed, index[p] # Wanted(p)
      PROVE  Covered(p)'
  <2>1. Covered(p)
    BY <1>4 DEF CoveredInv
  <2>2. Listed(p) => Listed(p)'
    BY <1>1, <1>3 DEF Listed, Reading, Holding
  <2>3. Reconciled(p) => Reconciled(p)'
    BY <1>1 DEF Reconciled, Comparing
  <2> QED
    BY <1>2, <2>1, <2>2, <2>3 DEF Covered, NothingForgotten, Signal
<1>5. n.pc \in Comparing /\ n.seen # disk[n.path] => Excused(w.path)'
  <2> SUFFICES ASSUME n.pc \in Comparing, n.seen # disk[n.path]
               PROVE  Excused(w.path)'
    OBVIOUS
  <2>p. PICK p \in Paths : p = w.path
    BY <1>1
  <2>1. Excused(p)
    BY <1>1, <2>p DEF CoveredInv, Comparing
  <2>2. Excused(p)'
    BY <1>2, <2>1, KnownStays DEF Excused
  <2> QED
    BY <1>1, <2>p, <2>2
<1>6. n.pc = "remove" => disk[n.path] = 0
  BY <1>1 DEF Comparing
<1> QED
  BY <1>1, <1>3, <1>4, <1>5, <1>6 DEF CoveredInv

LEMMA ReconcileCovers ==
    ASSUME WorkInv, HistoryInv, BatchInv, CoveredInv,
           ReconcileStep(Watcher) \/ FileFails(Watcher)
    PROVE  CoveredInv'
<1> DEFINE w == job[Watcher]
<1>1. /\ w.pc \in Reading /\ w.path \in Paths /\ w.seen \in Nat /\ w \in Job
      /\ job \in [Tasks -> Job] /\ Watcher \in Tasks
      /\ index \in [Paths -> Nat] /\ disk \in [Paths -> Nat]
      /\ UNCHANGED <<disk, ignored, pending, queue, overflowed>>
  BY WatcherFacts DEF ReconcileStep, ReadFile, RemoveDocument, Compare, Confirm, StoreDocument,
                      FileFails, Reading, Holding, Job, files, signals
<1>2. /\ \A c : \A p \in Paths : p # w.path => (p \notin Settling(w.path, c) => p \notin failed)
      /\ \A c : c # Wanted(w.path) => Settling(w.path, c) = failed
  BY DEF Settling
<1>3. w.pc \in Comparing /\ w.seen # disk[w.path] => Excused(w.path)
  BY DEF CoveredInv
<1>4. w.path \notin ignored => Wanted(w.path) = disk[w.path]
  BY DEF Wanted
<1>5. CASE ReadFile(Watcher)
  <2>1. PICK step \in {"remove", "compare"} :
              /\ job' = [job EXCEPT ![Watcher].seen = disk[w.path], ![Watcher].pc = step]
              /\ step = "remove" <=> disk[w.path] = 0
    BY <1>5 DEF ReadFile
  <2> QED
    BY <1>1, <1>5, <2>1, ReadingCovers DEF ReadFile, rows
<1>6. CASE RemoveDocument(Watcher)
  <2>1. /\ w.pc = "remove" /\ Return(Watcher) /\ index' = [index EXCEPT ![w.path] = 0]
        /\ failed' = Settling(w.path, 0)
    BY <1>6 DEF RemoveDocument
  <2>2. Wanted(w.path) # 0 => w.path \notin ignored /\ Excused(w.path)
    BY <2>1 DEF Wanted, CoveredInv
  <2>3. \A p \in Paths \ {w.path} :
              index'[p] = index[p] /\ (p \notin failed' => p \notin failed)
    BY <1>1, <1>2, <2>1
  <2>4. /\ index'[w.path] = 0
        /\ 0 # Wanted(w.path) => failed' = failed
    BY <1>1, <1>2, <2>1
  <2> QED
    BY <1>1, <2>1, <2>2, <2>3, <2>4, ReturnCovers DEF Excused
<1>7. CASE Compare(Watcher)
  <2>1. CASE index[w.path] = w.seen
    <3>1. /\ w.pc = "compare" /\ Return(Watcher) /\ UNCHANGED index
          /\ failed' = Settling(w.path, w.seen)
      BY <1>7, <2>1 DEF Compare
    <3>2. w.seen # Wanted(w.path) /\ w.path \notin ignored => Excused(w.path)
      BY <1>3, <1>4, <3>1 DEF Comparing
    <3>3. \A p \in Paths \ {w.path} :
              index'[p] = index[p] /\ (p \notin failed' => p \notin failed)
      BY <1>1, <1>2, <3>1
    <3>4. /\ index'[w.path] = w.seen
          /\ w.seen # Wanted(w.path) => failed' = failed
      BY <1>1, <1>2, <2>1, <3>1
    <3> QED
      BY <1>1, <3>1, <3>2, <3>3, <3>4, ReturnCovers DEF Excused
  <2>2. CASE index[w.path] # w.seen
    <3>1. /\ w.pc = "compare" /\ UNCHANGED <<index, failed>>
          /\ job' = [job EXCEPT ![Watcher].seen = w.seen, ![Watcher].pc = "confirm"]
      BY <1>1, <1>7, <2>2 DEF Compare, Job
    <3> QED
      BY <1>1, <3>1, ReadingCovers DEF Comparing
  <2> QED
    BY <2>1, <2>2
<1>8. CASE Confirm(Watcher)
  <2>1. CASE disk[w.path] = w.seen
    <3>1. /\ w.pc = "confirm" /\ UNCHANGED <<index, failed>>
          /\ job' = [job EXCEPT ![Watcher].seen = w.seen, ![Watcher].pc = "store"]
      BY <1>1, <1>8, <2>1 DEF Confirm, Job, rows
    <3> QED
      BY <1>1, <3>1, ReadingCovers DEF Comparing
  <2>2. CASE disk[w.path] # w.seen
    <3>1. w.pc = "confirm" /\ Return(Watcher) /\ UNCHANGED <<index, failed>>
      BY <1>8, <2>2 DEF Confirm, rows
    <3>2. Excused(w.path)
      BY <1>3, <2>2, <3>1 DEF Comparing
    <3> QED
      BY <1>1, <3>1, <3>2, ReturnCovers DEF Excused
  <2> QED
    BY <2>1, <2>2
<1>9. CASE StoreDocument(Watcher)
  <2>1. /\ w.pc = "store" /\ Return(Watcher) /\ index' = [index EXCEPT ![w.path] = w.seen]
        /\ failed' = Settling(w.path, w.seen)
    BY <1>9 DEF StoreDocument
  <2>2. w.seen # Wanted(w.path) /\ w.path \notin ignored => Excused(w.path)
    BY <1>3, <1>4, <2>1 DEF Comparing
  <2>3. \A p \in Paths \ {w.path} :
              index'[p] = index[p] /\ (p \notin failed' => p \notin failed)
    BY <1>1, <1>2, <2>1
  <2>4. /\ index'[w.path] = w.seen
        /\ w.seen # Wanted(w.path) => failed' = failed
    BY <1>1, <1>2, <2>1
  <2> QED
    BY <1>1, <2>1, <2>2, <2>3, <2>4, ReturnCovers DEF Excused
<1>10. CASE FileFails(Watcher)
  <2>1. Return(Watcher) /\ UNCHANGED index /\ failed' = failed \cup {w.path}
    BY <1>10 DEF FileFails
  <2> QED
    BY <1>1, <2>1, ReturnCovers
<1> QED
  BY <1>5, <1>6, <1>7, <1>8, <1>9, <1>10 DEF ReconcileStep

\* A reindex finds what is wrong when it begins, comes to it, and is told of
\* what changes behind it.
LEMMA ReindexCovers ==
    ASSUME "walk" \notin FaultKinds, WorkInv, WorkInv', BatchInv, CoveredInv,
           ReindexStep(Watcher)
    PROVE  CoveredInv'
<1> DEFINE w == job[Watcher]
           n == job'[Watcher]
<1>1. /\ w \in Job /\ w.todo \subseteq Paths /\ w.pc \notin Reading /\ w.within = "none"
      /\ job \in [Tasks -> Job] /\ Watcher \in Tasks
      /\ index \in [Paths -> Nat]
      /\ UNCHANGED <<disk, ignored, pending, queue, overflowed>>
      /\ Idle.pc = "idle"
  BY WatcherFacts, IdleIsJob DEF ReindexStep, Scan, Rescan, NextFile, ListStale, DeleteStale, ReindexEnds,
                      Reading, Holding, files, signals
<1>2. /\ \A p \in Paths : Wanted(p)' = Wanted(p) /\ ~Reconciled(p)
      /\ \A p \in Paths : Wanted(p) # 0 => p \notin ignored
  BY <1>1 DEF Wanted, Reconciled, Comparing, Reading, Holding
<1>3. ASSUME NEW unreadable \in SUBSET Paths, Scan(Watcher, unreadable)
      PROVE  CoveredInv'
  <2>1. /\ n.pc = "files" /\ n.todo = Discovered \ unreadable
        /\ UNCHANGED index /\ failed' = failed \cup unreadable
    BY <1>1, <1>3 DEF Scan, Unread, Job
  <2>2. ASSUME NEW p \in Paths \ failed'
        PROVE  Listed(p)'
    BY <1>1, <1>2, <2>1 DEF Listed, Discovered
  <2> QED
    BY <2>1, <2>2 DEF CoveredInv, Covered, Comparing
<1>4. CASE NextFile(Watcher)
  <2>1. PICK p \in w.todo :
              job' = [job EXCEPT ![Watcher].pc = "read", ![Watcher].todo = @ \ {p},
                                 ![Watcher].path = p, ![Watcher].within = "files"]
    BY <1>4 DEF NextFile
  <2>2. /\ w.pc = "files" /\ n.pc = "read" /\ n.todo = w.todo \ {p} /\ n.path = p
        /\ n.within = "files" /\ n.batch = w.batch /\ n.rescan = w.rescan
        /\ UNCHANGED <<index, failed>>
    BY <1>1, <1>4, <2>1 DEF NextFile, Job, rows
  <2>3. NothingForgotten
    BY <1>1, <2>2, SameSignals
  <2>4. ASSUME NEW q \in Paths, Covered(q)
        PROVE  Covered(q)'
    <3>1. CASE Listed(q) /\ Wanted(q) = 0
      BY <1>2, <2>2, <3>1 DEF Covered, Listed
    <3>2. CASE Listed(q) /\ q = p /\ Wanted(q) # 0
      BY <1>1, <1>2, <2>2, <3>2 DEF Covered, Reconciled
    <3>3. CASE Listed(q) /\ q # p /\ Wanted(q) # 0
      <4>1. q \notin ignored' /\ q \in n.todo
        BY <1>1, <1>2, <2>2, <3>3 DEF Listed
      <4> QED
        BY <2>2, <4>1 DEF Covered, Listed
    <3>4. CASE ~Listed(q)
      BY <1>1, <1>2, <2>3, <2>4, <3>4 DEF Covered, NothingForgotten, Signal
    <3> QED
      BY <3>1, <3>2, <3>3, <3>4
  <2> QED
    BY <1>2, <2>2, <2>4 DEF CoveredInv, Comparing
<1>5. ASSUME NEW unreadable \in SUBSET Paths, NEW unwalked \in SUBSET Paths,
             Rescan(Watcher, unreadable, unwalked)
      PROVE  CoveredInv'
  <2>1. unwalked = {} /\ unreadable \subseteq Discovered /\ failed \subseteq failed'
    BY <1>5 DEF Rescan, Fault, Unread
  <2>2. /\ w.pc = "files" /\ w.todo = {} /\ n.pc = "stale" /\ n.present = Discovered
        /\ n.batch = w.batch /\ n.rescan = w.rescan /\ UNCHANGED index
    BY <1>1, <1>5, <2>1 DEF Rescan, Retained, Job
  <2>3. NothingForgotten
    BY <1>1, <2>2, SameSignals
  <2>4. ASSUME NEW q \in Paths, Covered(q)
        PROVE  Covered(q)'
    <3>1. CASE Listed(q)
      BY <1>1, <1>2, <2>2, <3>1 DEF Covered, Listed, Discovered
    <3>2. CASE ~Listed(q)
      BY <1>1, <1>2, <2>3, <2>4, <3>2 DEF Covered, NothingForgotten, Signal
    <3> QED
      BY <3>1, <3>2
  <2> QED
    BY <1>2, <2>1, <2>2, <2>4 DEF CoveredInv, Comparing, Discovered
<1>6. CASE ListStale(Watcher)
  <2>1. /\ w.pc = "stale" /\ n.pc = "delete" /\ n.todo = Indexed \ w.present
        /\ n.batch = w.batch /\ n.rescan = w.rescan /\ UNCHANGED <<index, failed>>
    BY <1>1, <1>6 DEF ListStale, Job, rows
  <2>2. NothingForgotten
    BY <1>1, <2>1, SameSignals
  <2>3. ASSUME NEW q \in Paths, Covered(q), index[q] # Wanted(q)
        PROVE  Covered(q)'
    <3>1. CASE Listed(q)
      BY <1>1, <1>2, <2>1, <2>3, <3>1 DEF Covered, Listed, Indexed
    <3>2. CASE ~Listed(q)
      BY <1>1, <1>2, <2>2, <2>3, <3>2 DEF Covered, NothingForgotten, Signal
    <3> QED
      BY <3>1, <3>2
  <2>4. ASSUME NEW q \in n.todo, Wanted(q) # 0
        PROVE  Excused(q)'
    <3>1. q \in Paths /\ Excused(q)
      BY <2>1, <2>4 DEF CoveredInv, Indexed
    <3> QED
      BY <2>1, <2>2, <3>1, KnownStays DEF Excused
  <2>5. n.todo \subseteq Paths
    BY <2>1 DEF Indexed
  <2> QED
    BY <1>2, <2>1, <2>3, <2>4, <2>5 DEF CoveredInv, Comparing
<1>7. CASE DeleteStale(Watcher)
  <2>1. PICK p \in w.todo :
              /\ index' = [index EXCEPT ![p] = 0] /\ failed' = Settling(p, 0)
              /\ job' = [job EXCEPT ![Watcher].todo = @ \ {p}]
    BY <1>7 DEF DeleteStale
  <2>2. /\ w.pc = "delete" /\ n.pc = "delete" /\ n.todo = w.todo \ {p}
        /\ n.batch = w.batch /\ n.rescan = w.rescan
    BY <1>1, <1>7, <2>1 DEF DeleteStale, Job
  <2>3. NothingForgotten
    BY <1>1, <2>2, SameSignals
  <2>4. ASSUME NEW q \in w.todo, Wanted(q) # 0
        PROVE  Excused(q)'
    <3>1. Excused(q) /\ q \in Paths
      BY <1>1, <2>2, <2>4 DEF CoveredInv
    <3>2. q \in failed => q \in failed'
      BY <2>1, <2>4 DEF Settling
    <3> QED
      BY <2>3, <3>1, <3>2, KnownStays DEF Excused
  <2>5. ASSUME NEW q \in Paths \ {p}, Covered(q)
        PROVE  Covered(q)'
    <3>1. Listed(q) => Listed(q)'
      BY <1>1, <1>2, <2>2 DEF Listed
    <3> QED
      BY <1>1, <1>2, <2>3, <2>5, <3>1 DEF Covered, NothingForgotten, Signal
  <2>6. Wanted(p) # 0 => p \in failed' \/ Covered(p)'
    BY <1>1, <1>2, <2>4 DEF Covered, Known, Excused
  <2>7. \A q \in Paths \ {p} : index'[q] = index[q] /\ (q \notin failed' => q \notin failed)
    BY <1>1, <2>1 DEF Settling
  <2>8. index'[p] = 0 /\ p \in Paths
    BY <1>1, <2>1
  <2>9. \A q \in Paths \ failed' : index'[q] # Wanted(q) => Covered(q)'
    BY <2>5, <2>6, <2>7, <2>8 DEF CoveredInv
  <2> QED
    BY <1>1, <1>2, <2>2, <2>4, <2>9 DEF CoveredInv, Comparing
<1>8. CASE ReindexEnds(Watcher)
  <2>1. /\ w.pc = "delete" /\ w.todo = {} /\ n = Idle /\ UNCHANGED <<index, failed>>
    BY <1>1, <1>8 DEF ReindexEnds, rows
  <2>2. NothingForgotten
    <3>1. w.batch = {} /\ ~w.rescan
      BY <1>1, <2>1 DEF BatchInv
    <3> QED
      BY <1>1, <2>1, <3>1 DEF NothingForgotten, RescanDue, Signalled
  <2> QED
    BY <1>1, <2>1, <2>2, IdleStepCovers
<1> QED
  BY <1>3, <1>4, <1>5, <1>6, <1>7, <1>8 DEF ReindexStep

\* The watcher's worker turns signals into a batch, a batch into
\* reconciliations and a rescan, and forgets none.
LEMMA WorkerCovers ==
    ASSUME WorkInv, WorkInv', CoveredInv, Worker
    PROVE  CoveredInv'
<1> DEFINE w == job[Watcher]
           n == job'[Watcher]
<1>1. /\ w \in Job /\ job \in [Tasks -> Job] /\ Watcher \in Tasks
      /\ queue \in Seq(Signal) /\ Ambiguous \notin Paths
      /\ (w.pc \notin Reading => w.within = "none")
  BY WatcherFacts DEF WorkInv, TypeOK
<1>2. CASE Receive
  <2>1. /\ queue # <<>> /\ queue' = Tail(queue) /\ w.pc \in {"idle", "collect"}
        /\ n.pc = "collect" /\ n.batch = w.batch \cup {Head(queue)} /\ n.rescan = w.rescan
        /\ UNCHANGED <<disk, ignored, index, failed, pending, overflowed>>
    BY <1>1, <1>2 DEF Receive, Waiting, Job, files, rows
  <2>2. ASSUME NEW s \in Signal, Signalled(s)
        PROVE  Signalled(s)'
    <3>1. CASE \E i \in 1 .. Len(queue) : queue[i] = s
      <4>1. PICK i \in 1 .. Len(queue) : queue[i] = s
        BY <3>1
      <4>2. CASE i = 1
        BY <1>1, <2>1, <4>1, <4>2 DEF Signalled
      <4>3. CASE i # 1
        <5>1. i - 1 \in 1 .. Len(queue') /\ queue'[i - 1] = s
          BY <1>1, <2>1, <4>1, <4>3
        <5> QED
          BY <5>1 DEF Signalled
      <4> QED
        BY <4>2, <4>3
    <3> QED
      BY <2>1, <2>2, <3>1 DEF Signalled
  <2>3. NothingForgotten
    <3>1. Signalled(Ambiguous) => Signalled(Ambiguous)'
      BY <2>2 DEF Signal
    <3> QED
      BY <2>1, <2>2, <3>1 DEF NothingForgotten, RescanDue, Ambiguous
  <2> QED
    BY <2>1, <2>3, IdleStepCovers
<1>3. CASE DebounceEnds
  <2>1. /\ w.pc = "collect" /\ UNCHANGED <<disk, ignored, index, failed, pending, queue>>
        /\ overflowed => n.pc = "scan"
        /\ ~overflowed => n = [w EXCEPT !.pc = "batch"]
    BY <1>1, <1>3 DEF DebounceEnds, files, rows, Idle
  <2>2. NothingForgotten /\ n.pc \in {"batch", "scan"}
    <3>1. CASE overflowed
      BY <2>1, <3>1 DEF NothingForgotten, RescanDue
    <3>2. CASE ~overflowed
      <4>1. n.pc = "batch" /\ n.batch = w.batch /\ n.rescan = w.rescan
        BY <1>1, <2>1, <3>2 DEF Job
      <4>2. \A s : Signalled(s) => Signalled(s)'
        BY <2>1, <4>1 DEF Signalled
      <4> QED
        BY <2>1, <3>2, <4>1, <4>2 DEF NothingForgotten, RescanDue
    <3> QED
      BY <3>1, <3>2
  <2> QED
    BY <2>1, <2>2, IdleStepCovers
<1>4. CASE BatchEnds
  <2>1. /\ w.pc = "batch" /\ w.batch = {}
        /\ UNCHANGED <<disk, ignored, index, failed, pending, queue, overflowed>>
        /\ w.rescan => n.pc = "scan"
        /\ n.pc \in {"idle", "scan"}
    BY <1>1, <1>4 DEF BatchEnds, files, rows, signals, Idle
  <2>2. NothingForgotten
    BY <2>1 DEF NothingForgotten, RescanDue, Signalled
  <2> QED
    BY <2>1, <2>2, IdleStepCovers
<1>5. ASSUME NEW s \in Signal, TakeSignal(s)
      PROVE  CoveredInv'
  <2>1. /\ w.pc = "batch" /\ w.within = "none" /\ n.batch = w.batch \ {s}
        /\ UNCHANGED <<disk, ignored, index, failed, pending, queue, overflowed>>
    BY <1>1, <1>5 DEF TakeSignal, Job, files, rows, signals, Reading, Holding
  <2>2. CASE NeedsRescan(s)
    <3>1. n.pc = "batch" /\ n.rescan = TRUE
      BY <1>1, <1>5, <2>1, <2>2 DEF TakeSignal, Job
    <3> QED
      BY <3>1 DEF CoveredInv, Covered, RescanDue, Comparing
  <2>3. CASE ~NeedsRescan(s)
    <3>1. n.pc = "read" /\ n.path = s /\ n.rescan = w.rescan /\ s # Ambiguous
      BY <1>1, <1>5, <2>1, <2>3 DEF TakeSignal, Job, NeedsRescan
    <3>2. RescanDue => RescanDue'
      BY <2>1, <3>1 DEF RescanDue, Signalled
    <3>3. \A p \in Paths \ {s} : Signalled(p) => Signalled(p)'
      BY <2>1 DEF Signalled
    <3>4. ASSUME NEW p \in Paths, Covered(p)
          PROVE  Covered(p)'
      <4>1. ~Reconciled(p) /\ ~Listed(p)
        BY <2>1 DEF Reconciled, Listed, Comparing
      <4>2. p = s => Reconciled(p)'
        BY <3>1 DEF Reconciled
      <4> QED
        BY <2>1, <3>2, <3>3, <3>4, <4>1, <4>2 DEF Covered
    <3>5. \A p \in Paths : Wanted(p)' = Wanted(p)
      BY <2>1 DEF Wanted
    <3> QED
      BY <2>1, <3>1, <3>4, <3>5 DEF CoveredInv, Comparing
  <2> QED
    BY <2>2, <2>3
<1> QED
  BY <1>2, <1>3, <1>4, <1>5 DEF Worker

\* The callback passes a signal on, or says that one did not fit.
LEMMA CallbackCovers ==
    ASSUME WorkInv, CoveredInv, Callback
    PROVE  CoveredInv'
<1>1. PICK s \in Signal : Notify(s)
  BY DEF Callback
<1>2. /\ queue \in Seq(Signal) /\ QueueCapacity \in Nat
      /\ UNCHANGED <<disk, ignored, index, failed, job>> /\ pending' = pending \ {s}
      /\ overflowed => overflowed'
      /\ ~overflowed' => queue' = Append(queue, s)
      /\ queue' = queue \/ queue' = Append(queue, s)
  BY <1>1, ServerAssumption DEF WorkInv, TypeOK, Notify, Overflow, files, rows
<1>3. ASSUME NEW r \in Signal, Signalled(r)
      PROVE  Signalled(r)' \/ overflowed'
  <2>1. CASE \E i \in 1 .. Len(queue) : queue[i] = r
    <3>1. PICK i \in 1 .. Len(queue) : queue[i] = r
      BY <2>1
    <3>2. i \in 1 .. Len(queue') /\ queue'[i] = r
      BY <1>2, <3>1
    <3> QED
      BY <3>2 DEF Signalled
  <2>2. CASE r = s /\ ~overflowed'
    <3>1. Len(queue') \in 1 .. Len(queue') /\ queue'[Len(queue')] = r
      BY <1>2, <2>2
    <3> QED
      BY <3>1 DEF Signalled
  <2> QED
    BY <1>2, <1>3, <2>1, <2>2 DEF Signalled
<1>4. NothingForgotten
  <2>1. Signalled(Ambiguous) => Signalled(Ambiguous)' \/ overflowed'
    BY <1>3 DEF Signal
  <2> QED
    BY <1>2, <1>3, <2>1 DEF NothingForgotten, RescanDue, Ambiguous
<1>5. /\ \A p \in Paths : Wanted(p)' = Wanted(p)
      /\ \A p \in Paths : Reconciled(p) => Reconciled(p)'
      /\ \A p \in Paths : Listed(p) => Listed(p)'
  BY <1>2 DEF Wanted, Reconciled, Listed
<1>6. \A p \in Paths : Covered(p) => Covered(p)'
  BY <1>2, <1>4, <1>5 DEF Covered, NothingForgotten, Signal
<1>7. \A p \in Paths : Known(p) => Known(p)'
  BY <1>4, KnownStays
<1>8. /\ job[Watcher].pc \in Reading => job[Watcher].path \in Paths
      /\ job[Watcher].todo \subseteq Paths
  BY WatcherFacts
<1> QED
  BY <1>2, <1>5, <1>6, <1>7, <1>8 DEF CoveredInv, Excused, Comparing, Reading, Holding

\* A notification that never arrives leaves the path it was about behind.
LEMMA UnheardCovers ==
    ASSUME WorkInv, CoveredInv, Unheard
    PROVE  CoveredInv'
<1>1. PICK s \in Signal : NotifyFails(s)
  BY DEF Unheard
<1>2. /\ UNCHANGED <<disk, ignored, index, queue, overflowed, job>>
      /\ pending' = pending \ {s} /\ failed \subseteq failed'
      /\ IF s = Ambiguous THEN Paths \subseteq failed' ELSE s \in failed'
  BY <1>1 DEF NotifyFails, files
<1>3. \A r \in Signal \ {s} : Signalled(r) => Signalled(r)'
  BY <1>2 DEF Signalled
<1>4. /\ \A p \in Paths : Wanted(p)' = Wanted(p)
      /\ \A p \in Paths : Reconciled(p) => Reconciled(p)'
      /\ \A p \in Paths : Listed(p) => Listed(p)'
  BY <1>2 DEF Wanted, Reconciled, Listed
<1>5. s # Ambiguous => (RescanDue => RescanDue')
  BY <1>2, <1>3 DEF RescanDue, Signal
<1>6. ASSUME NEW p \in Paths \ failed'
      PROVE  /\ RescanDue => RescanDue'
             /\ Signalled(p) => Signalled(p)'
  <2>1. s # Ambiguous /\ s # p /\ p \in Signal
    BY <1>2, <1>6 DEF Signal
  <2> QED
    BY <1>3, <1>5, <2>1
<1>7. /\ \A p \in Paths \ failed' : Covered(p) => Covered(p)'
      /\ \A p \in Paths : Excused(p) => Excused(p)'
  BY <1>2, <1>4, <1>6 DEF Covered, Excused, Known
<1>8. /\ job[Watcher].pc \in Reading => job[Watcher].path \in Paths
      /\ job[Watcher].todo \subseteq Paths
  BY WatcherFacts
<1> QED
  BY <1>2, <1>4, <1>7, <1>8 DEF CoveredInv, Comparing, Reading, Holding

\* A change of the tree tells the watcher, by the path or by a signal that
\* names none.
LEMMA TreeCovers ==
    ASSUME WorkInv, Alive, CoveredInv, Tree
    PROVE  CoveredInv'
<1> DEFINE w == job[Watcher]
<1>1. /\ disk \in [Paths -> Nat] /\ Ambiguous \notin Paths /\ w.todo \subseteq Paths
      /\ (w.pc \in Reading => w.path \in Paths)
      /\ UNCHANGED <<index, failed, job, queue, overflowed>>
  BY WatcherFacts DEF Tree, WriteFile, RemoveFile, MoveDirectory, EditIgnoreFile, Change
<1>2. PICK s \in Signal : Change(s) /\ (s # Ambiguous => \E p \in Paths :
                             s = p /\ (WriteFile(p) \/ RemoveFile(p)))
  BY <1>1 DEF Tree, WriteFile, RemoveFile, MoveDirectory, EditIgnoreFile, Signal
<1>3. Signalled(s)' /\ \A r \in Signal : Signalled(r) => Signalled(r)'
  BY <1>1, <1>2 DEF Change, Alive, Signalled
<1>4. NothingForgotten
  <2>1. Signalled(Ambiguous) => Signalled(Ambiguous)'
    BY <1>3 DEF Signal
  <2> QED
    BY <1>1, <1>3, <2>1 DEF NothingForgotten, RescanDue
<1>5. CASE s = Ambiguous
  <2>1. RescanDue'
    BY <1>3, <1>5 DEF RescanDue
  <2>2. (\A p \in Paths : Covered(p)') /\ \A p : Known(p)'
    BY <2>1 DEF Covered, Known
  <2> QED
    BY <2>1, <2>2 DEF CoveredInv, Excused
<1>6. CASE s # Ambiguous
  <2>1. PICK p \in Paths : s = p /\ (WriteFile(p) \/ RemoveFile(p))
    BY <1>2, <1>6
  <2>2. /\ ignored' = ignored /\ \A q \in Paths \ {p} : disk'[q] = disk[q]
    BY <1>1, <2>1 DEF WriteFile, RemoveFile
  <2>3. /\ \A q \in Paths \ {p} : Wanted(q)' = Wanted(q)
        /\ p \in ignored => Wanted(p)' = Wanted(p) /\ Wanted(p) = 0
    BY <2>2 DEF Wanted
  <2>4. ASSUME NEW q \in Paths \ {p}, Covered(q)
        PROVE  Covered(q)'
    <3>1. /\ Listed(q) => Listed(q)'
          /\ Reconciled(q) => Reconciled(q)'
      BY <1>1, <2>2, <2>3 DEF Listed, Reconciled
    <3> QED
      BY <1>4, <2>2, <2>4, <3>1 DEF Covered, NothingForgotten, Signal
  <2>5. ASSUME p \in Paths \ failed, index[p] # Wanted(p)'
        PROVE  Covered(p)'
    <3>1. CASE p \notin ignored
      BY <1>3, <2>1, <2>2, <3>1 DEF Covered
    <3>2. CASE p \in ignored
      <4>1. Covered(p)
        BY <2>3, <2>5, <3>2 DEF CoveredInv
      <4>2. Listed(p) => Listed(p)'
        BY <1>1, <2>2, <2>3, <3>2 DEF Listed
      <4> QED
        BY <1>4, <3>2, <4>1, <4>2 DEF Covered, NothingForgotten
    <3> QED
      BY <3>1, <3>2
  <2>6. Excused(p)' /\ \A q \in Paths : Excused(q) => Excused(q)'
    BY <1>1, <1>3, <1>4, <2>1, KnownStays DEF Excused, Known
  <2>7. \A q \in Paths \ failed' : index'[q] # Wanted(q)' => Covered(q)'
    <3> SUFFICES ASSUME NEW q \in Paths \ failed, index[q] # Wanted(q)'
                 PROVE  Covered(q)'
      BY <1>1
    <3>1. CASE q = p
      BY <2>5, <3>1
    <3>2. CASE q # p
      BY <2>3, <2>4, <3>2 DEF CoveredInv
    <3> QED
      BY <3>1, <3>2
  <2>8. /\ w.pc \in Comparing /\ w.seen # disk'[w.path] => Excused(w.path)'
        /\ w.pc = "remove" /\ disk'[w.path] # 0 => Excused(w.path)'
    <3> SUFFICES ASSUME w.pc \in Reading,
                        \/ w.pc \in Comparing /\ w.seen # disk'[w.path]
                        \/ w.pc = "remove" /\ disk'[w.path] # 0
                 PROVE  Excused(w.path)'
      BY DEF Reading, Holding, Comparing
    <3>1. PICK q \in Paths : q = w.path
      BY <1>1
    <3>2. q = p \/ Excused(q)
      BY <2>2, <3>1 DEF CoveredInv
    <3> QED
      BY <1>1, <2>6, <3>1, <3>2
  <2>9. /\ w.pc = "stale" => \A q \in Paths \ w.present : Wanted(q)' # 0 => Excused(q)'
        /\ w.pc = "delete" => \A q \in w.todo : Wanted(q)' # 0 => Excused(q)'
    BY <1>1, <2>3, <2>6 DEF CoveredInv
  <2> QED
    BY <1>1, <2>7, <2>8, <2>9 DEF CoveredInv
<1> QED
  BY <1>5, <1>6

LEMMA BatchStep ==
    ASSUME WorkInv, WorkInv', BatchInv, Tools = {}, [Next]_vars
    PROVE  BatchInv'
<1> DEFINE w == job[Watcher]
           n == job'[Watcher]
<1>1. /\ w \in Job /\ job \in [Tasks -> Job] /\ Watcher \in Tasks /\ Tasks = {Watcher}
      /\ index \in [Paths -> Nat] /\ Ambiguous \notin Paths
      /\ (w.pc \in Reading => w.within \in {"batch", "files"} /\ w.path \in Paths)
      /\ (w.pc \notin Reading => w.within = "none")
  BY WatcherFacts DEF Tasks
<1>2. /\ w.pc \notin {"collect", "batch"} /\ w.within # "batch" => w.batch = {} /\ ~w.rescan
      /\ w.within = "batch" => index[w.path] # 0
  BY DEF BatchInv
<1>3. ASSUME n \in {Idle, [Idle EXCEPT !.pc = "scan"]}
      PROVE  BatchInv'
  BY <1>3 DEF BatchInv, Idle
<1>4. ASSUME Return(Watcher), w.pc \in Reading
      PROVE  BatchInv'
  BY <1>1, <1>2, <1>4 DEF BatchInv, Return, Job, Reading, Holding
<1>5. CASE Tree \/ Callback \/ Unheard \/ UNCHANGED vars
  <2>1. UNCHANGED <<index, job>>
    BY <1>5 DEF Tree, WriteFile, RemoveFile, MoveDirectory, EditIgnoreFile, Change, Callback,
                Notify, Unheard, NotifyFails, vars, rows
  <2> QED
    BY <2>1 DEF BatchInv
<1>6. CASE StartServer \/ StopServer
  <2>1. CASE StartServer
    BY <1>1, <1>3, <2>1 DEF StartServer, WorkInv, StoppedIsIdle
  <2> QED
    BY <1>1, <1>3, <1>6, <2>1 DEF StopServer
<1>7. CASE Worker
  <2>1. CASE Receive
    BY <1>1, <2>1 DEF Receive, BatchInv, Job, Waiting, Reading, Holding
  <2>2. CASE DebounceEnds
    BY <1>1, <1>3, <2>2 DEF DebounceEnds, BatchInv, Job, Reading, Holding
  <2>3. CASE BatchEnds
    BY <1>1, <1>3, <2>3 DEF BatchEnds
  <2>4. ASSUME NEW s \in Signal, TakeSignal(s)
        PROVE  BatchInv'
    BY <1>1, <2>4 DEF TakeSignal, BatchInv, Job, Reading, Holding, NeedsRescan, rows
  <2> QED
    BY <1>7, <2>1, <2>2, <2>3, <2>4 DEF Worker
<1>8. CASE ReindexStep(Watcher) \/ TaskFails(Watcher)
  <2>1. ASSUME NEW unreadable \in SUBSET Paths, Scan(Watcher, unreadable)
        PROVE  BatchInv'
    BY <1>1, <1>2, <2>1 DEF Scan, BatchInv, Job, Reading, Holding
  <2>2. ASSUME NEW unreadable \in SUBSET Paths, NEW unwalked \in SUBSET Paths,
               Rescan(Watcher, unreadable, unwalked)
        PROVE  BatchInv'
    BY <1>1, <1>2, <2>2 DEF Rescan, BatchInv, Job, Reading, Holding
  <2>3. CASE NextFile(Watcher)
    <3>1. PICK p \in w.todo :
                job' = [job EXCEPT ![Watcher].pc = "read", ![Watcher].todo = @ \ {p},
                                   ![Watcher].path = p, ![Watcher].within = "files"]
      BY <2>3 DEF NextFile
    <3>2. w.pc = "files" /\ UNCHANGED index
      BY <2>3 DEF NextFile, rows
    <3> QED
      BY <1>1, <1>2, <3>1, <3>2 DEF BatchInv, Job, Reading, Holding
  <2>4. CASE ListStale(Watcher)
    BY <1>1, <1>2, <2>4 DEF ListStale, BatchInv, Job, Reading, Holding
  <2>5. CASE DeleteStale(Watcher)
    <3>1. PICK p \in w.todo : job' = [job EXCEPT ![Watcher].todo = @ \ {p}]
      BY <2>5 DEF DeleteStale
    <3>2. w.pc = "delete"
      BY <2>5 DEF DeleteStale
    <3> QED
      BY <1>1, <1>2, <3>1, <3>2 DEF BatchInv, Job, Reading, Holding
  <2>6. CASE ReindexEnds(Watcher) \/ TaskFails(Watcher)
    BY <1>1, <1>3, <2>6 DEF ReindexEnds, TaskFails
  <2> QED
    BY <1>8, <2>1, <2>2, <2>3, <2>4, <2>5, <2>6 DEF ReindexStep
<1>9. CASE ReconcileStep(Watcher) \/ FileFails(Watcher)
  <2>1. CASE ReadFile(Watcher)
    BY <1>1, <1>2, <2>1 DEF ReadFile, BatchInv, Job, rows
  <2>2. CASE RemoveDocument(Watcher) \/ StoreDocument(Watcher) \/ FileFails(Watcher)
    BY <1>4, <2>2 DEF RemoveDocument, StoreDocument, FileFails, Reading, Holding
  <2>3. CASE Compare(Watcher)
    <3>1. CASE job' = [job EXCEPT ![Watcher].pc = "confirm"]
      BY <1>1, <1>2, <2>3, <3>1 DEF Compare, BatchInv, Job, Reading, Holding
    <3> QED
      BY <1>4, <2>3, <3>1 DEF Compare, Reading, Holding
  <2>4. CASE Confirm(Watcher)
    <3>1. CASE job' = [job EXCEPT ![Watcher].pc = "store"]
      BY <1>1, <1>2, <2>4, <3>1 DEF Confirm, BatchInv, Job, Reading, Holding, rows
    <3> QED
      BY <1>4, <2>4, <3>1 DEF Confirm, Reading, Holding
  <2> QED
    BY <1>9, <2>1, <2>2, <2>3, <2>4 DEF ReconcileStep
<1> QED
  BY <1>1, <1>5, <1>6, <1>7, <1>8, <1>9 DEF Next

LEMMA SettlingStep ==
    ASSUME Tools = {}, "walk" \notin FaultKinds, WorkInv, HistoryInv, SettlingInv, [Next]_vars
    PROVE  SettlingInv'
<1>1. WorkInv' /\ BatchInv /\ BatchInv' /\ Tasks = {Watcher} /\ Watcher \in Tasks
  BY WorkInvStep, BatchStep DEF SettlingInv, Tasks
<1> SUFFICES ASSUME Alive'
             PROVE  CoveredInv'
  BY <1>1 DEF SettlingInv
<1>2. job \in [Tasks -> Job]
  BY DEF WorkInv, TypeOK
<1>3. CASE StartServer
  <2>1. job'[Watcher].pc = "scan"
    BY <1>1, <1>2, <1>3 DEF StartServer, Job
  <2> QED
    BY <2>1 DEF CoveredInv, Covered, RescanDue, Comparing
<1>4. CASE StopServer
  BY <1>4 DEF StopServer, Alive
<1>5. CASE TaskFails(Watcher)
  <2>1. failed' = Paths /\ job'[Watcher] = Idle
    BY <1>1, <1>2, <1>5 DEF TaskFails
  <2> QED
    BY <2>1, IdleIsJob DEF CoveredInv, Comparing
<1>6. CASE Next /\ ~StartServer /\ ~StopServer /\ ~TaskFails(Watcher)
  <2>1. \/ Tree \/ Callback \/ Unheard \/ Worker \/ ReindexStep(Watcher)
        \/ ReconcileStep(Watcher) \/ FileFails(Watcher)
    BY <1>1, <1>6 DEF Next
  <2>2. Alive
    <3>1. CASE UNCHANGED server
      BY <3>1 DEF Alive
    <3>2. CASE ReindexEnds(Watcher)
      BY <3>2 DEF Alive, ReindexEnds
    <3> QED
      BY <2>1, <3>1, <3>2
         DEF Tree, WriteFile, RemoveFile, MoveDirectory, EditIgnoreFile, Change, Callback, Notify,
             Unheard, NotifyFails, Worker, Receive, DebounceEnds, BatchEnds, TakeSignal, ReindexStep, Scan, Rescan,
             NextFile, ListStale, DeleteStale, ReconcileStep, ReadFile, RemoveDocument, Compare,
             Confirm, StoreDocument, FileFails, signals
  <2> QED
    BY <1>1, <2>1, <2>2, TreeCovers, CallbackCovers, UnheardCovers, WorkerCovers, ReindexCovers,
       ReconcileCovers DEF SettlingInv
<1>7. CASE UNCHANGED vars
  BY <1>7 DEF SettlingInv, Alive, CoveredInv, Covered, Known, Excused, RescanDue, Signalled, Reconciled,
              Listed, Wanted, vars, files, rows, signals
<1> QED
  BY <1>3, <1>4, <1>5, <1>6, <1>7

\* When nothing is left to do, no signal, batch or reindex, no row is wrong but
\* by a logged failure: a watcher that works alone on a tree whose
\* directories can all be walked ends with the rows its files call for.
THEOREM SettledRowsAreRight ==
    ASSUME Tools = {}, "walk" \notin FaultKinds
    PROVE  Spec => []SettledIsIndexed
<1>1. Init => SettlingInv
  BY IdleIsJob DEF Init, SettlingInv, BatchInv, Alive, Tasks, Idle
<1>2. WorkInv /\ HistoryInv /\ SettlingInv /\ [Next]_vars => SettlingInv'
  BY SettlingStep
<1>3. Spec => []SettlingInv
  BY <1>1, <1>2, WorkInvHolds, HistoryInvHolds, PTL DEF Spec
<1>4. WorkInv /\ SettlingInv => SettledIsIndexed
  <2> SUFFICES ASSUME WorkInv, SettlingInv, Settled, NEW p \in Paths \ failed,
                      index[p] # Wanted(p)
               PROVE  FALSE
    BY DEF SettledIsIndexed
  <2>1. /\ job[Watcher].pc = "idle" /\ job[Watcher].within = "none"
        /\ job[Watcher].batch = {} /\ ~job[Watcher].rescan
    BY WatcherFacts DEF Settled, SettlingInv, BatchInv, Reading, Holding
  <2>2. ~RescanDue /\ ~Signalled(p) /\ ~Reconciled(p) /\ ~Listed(p)
    BY <2>1 DEF Settled, RescanDue, Signalled, Reconciled, Listed, Comparing
  <2> QED
    BY <2>2 DEF Settled, SettlingInv, Alive, CoveredInv, Covered
<1> QED
  BY <1>3, <1>4, WorkInvHolds, PTL

-----------------------------------------------------------------------------
(* Registration and deregistration *)

\* What the tables hold, the rows' identities included.
TableTypes ==
    /\ born \in 0 .. MaxIds /\ current \in {NoOne, born}
    /\ held \in [Ids -> 0 .. MaxRowCount]
    /\ resolved \in [Resolvers -> Ids \cup {NoOne}]
    /\ plans \in Seq(Plan) /\ Len(plans) <= MaxPlans
    /\ \A p \in 1 .. Len(plans) : plans[p].workspace \in 1 .. born
    /\ receipts \subseteq Receipt /\ \A x \in receipts : x.request \in Requests
    /\ now \in 0 .. MaxTime

\* The receipts are the removals: one for every workspace that is no more, and
\* the plan it was confirmed by is spent.
ReceiptsAreRemovals ==
    /\ \A x \in receipts : x.request.workspace # current
    /\ \A w \in 1 .. born : w # current => \E x \in receipts : x.request.workspace = w
    /\ \A x, y \in receipts : x.request.workspace = y.request.workspace => x = y
    /\ \A p \in 1 .. Len(plans) :
          plans[p].consumed <=> \E x \in receipts : x.request.plan = p
    /\ \A x \in receipts :
          LET plan == plans[x.request.plan]
          IN  /\ plan.workspace = x.request.workspace
              /\ plan.count = x.count /\ x.at <= plan.expires

RowsBelong == \A w \in Ids : held[w] > 0 => w = current

TablesInv == TableTypes /\ ReceiptsAreRemovals /\ RowsBelong

Serving == [step : {"down", "up", "listed"}, state : [Ids -> WatcherState],
            handles : SUBSET Ids]
\* The server's watchers: a handle is a watcher that is ready, and one that is
\* stopped belongs to the workspace a request is deregistering, or to none.
WatchersKept ==
    /\ mcp.step \in {"stopped", "decided"} \/ mcp \in Serving
    /\ mcp.step = "down" => mcp.handles = {}
    /\ mcp.state \in [Ids -> WatcherState] /\ mcp.handles \subseteq Ids
    /\ \A w \in Ids : /\ w \in mcp.handles <=> mcp.state[w] = "ready"
                      /\ mcp.state[w] # "none" => w \in 1 .. born
    /\ mcp.step \in {"stopped", "decided"} =>
          mcp.request \in Requests /\ mcp.request.workspace \notin mcp.handles
    /\ mcp.step = "decided" /\ mcp.told = "deregistered" => mcp.request.workspace # current
    /\ \A w \in Ids : mcp.state[w] = "stopped" =>
          w # current \/ (mcp.step \in {"stopped", "decided"} /\ w = mcp.request.workspace)

LEMMA ConfirmKeepsTables ==
    ASSUME TablesInv, NEW r \in Requests, ConfirmPlan(r), UNCHANGED <<resolved, now>>
    PROVE  /\ TablesInv'
           /\ born' = born /\ Len(plans') = Len(plans) /\ current' \in {current, NoOne}
           /\ Told(r) = "deregistered" => r.workspace # current'
<1>1. /\ r.workspace \in 1 .. born /\ r.plan \in 1 .. Len(plans) /\ r.key \in RemovalKeys
      /\ r \in Confirmation /\ r.workspace \in Ids
  BY RemovalBounds DEF TablesInv, TableTypes, Requests, Confirmation, Ids
<1>2. CASE Outcome(r) # "delete"
  <2>1. UNCHANGED tables
    BY <1>2 DEF ConfirmPlan
  <2>2. TablesInv'
    BY <2>1 DEF TablesInv, TableTypes, ReceiptsAreRemovals, RowsBelong, tables, Requests
  <2>3. Told(r) = "deregistered" => \E x \in receipts : x.request = r
    BY <1>2 DEF Told, Outcome, ReceiptOf
  <2> QED
    BY <2>1, <2>2, <2>3 DEF TablesInv, ReceiptsAreRemovals, tables
<1>3. CASE Outcome(r) = "delete"
  <2> DEFINE new == [request |-> r, count |-> held[r.workspace], at |-> now]
  <2>1. /\ plans[r.plan].workspace = r.workspace /\ Valid(r) /\ AsPreviewed(r)
    BY <1>3 DEF Outcome
  <2>2. /\ current' = NoOne /\ born' = born /\ held' = [held EXCEPT ![r.workspace] = 0]
        /\ plans' = [plans EXCEPT ![r.plan].consumed = TRUE]
        /\ receipts' = receipts \cup {new}
    BY <1>3 DEF ConfirmPlan
  <2>3. /\ new \in Receipt /\ new.request = r /\ new.count = plans[r.plan].count
        /\ new.at <= plans[r.plan].expires
    BY <1>1, <2>1 DEF TablesInv, TableTypes, Receipt, AsPreviewed, Valid
  <2>4. /\ Len(plans') = Len(plans) /\ plans' \in Seq(Plan)
        /\ \A p \in 1 .. Len(plans) :
              /\ plans'[p].workspace = plans[p].workspace
              /\ plans'[p].count = plans[p].count
              /\ plans'[p].expires = plans[p].expires
              /\ plans'[p].consumed = (IF p = r.plan THEN TRUE ELSE plans[p].consumed)
    <3> DEFINE i == r.plan
               spent == [plans[i] EXCEPT !.consumed = TRUE]
    <3>1. plans \in Seq(Plan) /\ i \in 1 .. Len(plans)
      BY <1>1 DEF TablesInv, TableTypes
    <3>2. plans[i] \in Plan
      BY <3>1
    <3>3. /\ spent \in Plan /\ spent.workspace = plans[i].workspace
          /\ spent.count = plans[i].count /\ spent.expires = plans[i].expires
          /\ spent.consumed = TRUE
      BY <3>2 DEF Plan
    <3>4. plans' = [plans EXCEPT ![i] = spent]
      BY <2>2
    <3> HIDE DEF spent, i
    <3>5. Len(plans') = Len(plans) /\ plans' \in Seq(Plan)
      BY <3>1, <3>3, <3>4
    <3>6. \A p \in 1 .. Len(plans) : plans'[p] = IF p = i THEN spent ELSE plans[p]
      BY <3>1, <3>4
    <3> QED
      BY <3>3, <3>5, <3>6 DEF i
  <2> HIDE DEF new
  <2>5. TableTypes'
    <3>1. held' \in [Ids -> 0 .. MaxRowCount]
      BY <1>1, <2>2, RemovalBounds DEF TablesInv, TableTypes
    <3>2. Requests' = Requests
      BY <2>2, <2>4 DEF Requests
    <3> QED
      BY <1>1, <2>2, <2>3, <2>4, <3>1, <3>2 DEF TablesInv, TableTypes
  <2>6. r.workspace = current /\ current # NoOne
    BY <1>1, <2>1 DEF AsPreviewed, NoOne
  <2>7. ReceiptsAreRemovals'
    <3>1. \A x \in receipts : x.request.workspace # NoOne /\ x.request.plan \in 1 .. Len(plans)
      BY DEF TablesInv, TableTypes, Requests, NoOne
    <3>2. \A x, y \in receipts' : x.request.workspace = y.request.workspace => x = y
      BY <2>2, <2>3, <2>6 DEF TablesInv, ReceiptsAreRemovals
    <3>3. \A w \in 1 .. born : \E x \in receipts' : x.request.workspace = w
      BY <2>2, <2>3, <2>6 DEF TablesInv, ReceiptsAreRemovals
    <3>4. \A p \in 1 .. Len(plans) :
             plans'[p].consumed <=> \E x \in receipts' : x.request.plan = p
      BY <2>2, <2>3, <2>4 DEF TablesInv, ReceiptsAreRemovals
    <3>5. \A x \in receipts' :
             /\ plans'[x.request.plan].workspace = x.request.workspace
             /\ plans'[x.request.plan].count = x.count
             /\ x.at <= plans'[x.request.plan].expires
      BY <1>1, <2>1, <2>2, <2>3, <2>4, <3>1 DEF TablesInv, ReceiptsAreRemovals
    <3>6. \A x \in receipts' : x.request.workspace # current'
      BY <1>1, <2>2, <2>3, <3>1 DEF NoOne
    <3> QED
      BY <2>2, <2>4, <3>2, <3>3, <3>4, <3>5, <3>6 DEF ReceiptsAreRemovals
  <2>8. RowsBelong'
    BY <1>1, <2>2, <2>6 DEF TablesInv, TableTypes, RowsBelong
  <2>9. Told(r) = "deregistered"
    BY <1>3 DEF Told
  <2> QED
    BY <1>1, <2>2, <2>4, <2>5, <2>7, <2>8, <2>9 DEF TablesInv, NoOne
<1> QED
  BY <1>2, <1>3

LEMMA TablesStep ==
    ASSUME TablesInv, WatchersKept, RemovalNext
    PROVE  /\ TablesInv'
           /\ born' >= born /\ current' \in {current, NoOne, born'}
           /\ current' \in {current, NoOne} \/ born' = born + 1
           /\ Len(plans') >= Len(plans)
<1>1. /\ born \in 0 .. MaxIds /\ current \in {NoOne, born} /\ MaxIds \in Nat
      /\ held \in [Ids -> 0 .. MaxRowCount] /\ MaxRowCount \in Nat
      /\ plans \in Seq(Plan) /\ Len(plans) <= MaxPlans
      /\ \A p \in 1 .. Len(plans) : plans[p].workspace \in 1 .. born
      /\ receipts \subseteq Receipt /\ \A x \in receipts : x.request \in Requests
      /\ now \in 0 .. MaxTime /\ MaxTime \in Nat /\ MaxPlans \in Nat /\ Ttl \in Nat
      /\ ReceiptsAreRemovals /\ RowsBelong /\ NoOne = 0
      /\ resolved \in [Resolvers -> Ids \cup {NoOne}]
  BY RemovalBounds DEF TablesInv, TableTypes, NoOne
<1>2. ASSUME UNCHANGED tables, now' \in 0 .. MaxTime,
             resolved' \in [Resolvers -> Ids \cup {NoOne}]
      PROVE  /\ TablesInv'
             /\ born' >= born /\ current' \in {current, NoOne} /\ Len(plans') >= Len(plans)
  <2>1. TablesInv'
    BY <1>1, <1>2 DEF TablesInv, TableTypes, ReceiptsAreRemovals, RowsBelong, tables, Requests
  <2> QED
    BY <1>1, <1>2, <2>1 DEF tables
<1>3. CASE Register
  <2>1. /\ current = 0 /\ born < MaxIds /\ born' = born + 1 /\ current' = born + 1
        /\ UNCHANGED <<held, resolved, plans, receipts, now>>
    BY <1>1, <1>3 DEF Register
  <2>2. \A x \in receipts : x.request \in Requests' /\ x.request.workspace \in 1 .. born
    BY <1>1, <2>1 DEF Requests
  <2>3. TableTypes'
    BY <1>1, <2>1, <2>2 DEF TableTypes
  <2>4. ReceiptsAreRemovals'
    BY <1>1, <2>1, <2>2 DEF ReceiptsAreRemovals
  <2>5. RowsBelong'
    BY <1>1, <2>1 DEF RowsBelong, Ids
  <2> QED
    BY <1>1, <2>1, <2>3, <2>4, <2>5 DEF TablesInv
<1>4. CASE PreviewRemoval
  <2> DEFINE plan == [workspace |-> current, count |-> held[current],
                      expires |-> now + Ttl, consumed |-> FALSE]
  <2>1. /\ current # 0 /\ Len(plans) < MaxPlans /\ plans' = Append(plans, plan)
        /\ UNCHANGED <<current, born, held, resolved, receipts, now>>
    BY <1>1, <1>4 DEF PreviewRemoval
  <2>2. plan \in Plan /\ plan.consumed = FALSE /\ plan.workspace \in 1 .. born
    <3>1. current \in 1 .. born /\ current \in Ids /\ now + Ttl \in Nat
      BY <1>1, <2>1 DEF Ids
    <3>2. held[current] \in 0 .. MaxRowCount
      BY <1>1, <3>1
    <3> QED
      BY <3>1, <3>2 DEF Plan
  <2> HIDE DEF plan
  <2>3. /\ plans' \in Seq(Plan) /\ Len(plans') = Len(plans) + 1
        /\ plans'[Len(plans) + 1] = plan
        /\ \A p \in 1 .. Len(plans) : plans'[p] = plans[p]
    BY <1>1, <2>1, <2>2
  <2>4. \A x \in receipts : x.request \in Requests' /\ x.request.plan \in 1 .. Len(plans)
    BY <1>1, <2>1, <2>3 DEF Requests
  <2>5. TableTypes'
    BY <1>1, <2>1, <2>2, <2>3, <2>4 DEF TableTypes
  <2>6. ReceiptsAreRemovals'
    <3>1. \A p \in 1 .. Len(plans') :
             plans'[p].consumed <=> \E x \in receipts : x.request.plan = p
      <4> TAKE p \in 1 .. Len(plans')
      <4>1. CASE p = Len(plans) + 1
        BY <1>1, <2>2, <2>3, <2>4, <4>1
      <4>2. CASE p \in 1 .. Len(plans)
        BY <1>1, <2>3, <4>2 DEF ReceiptsAreRemovals
      <4> QED
        BY <1>1, <2>3, <4>1, <4>2
    <3>2. \A x \in receipts : plans'[x.request.plan] = plans[x.request.plan]
      BY <2>3, <2>4
    <3>3. /\ receipts' = receipts /\ current' = current /\ born' = born
          /\ ReceiptsAreRemovals
      BY <1>1, <2>1
    <3> QED
      BY <3>1, <3>2, <3>3 DEF ReceiptsAreRemovals
  <2>7. RowsBelong'
    BY <1>1, <2>1 DEF RowsBelong
  <2> QED
    BY <1>1, <2>1, <2>3, <2>5, <2>6, <2>7 DEF TablesInv
<1>5. ASSUME NEW w \in Ids, NEW c \in 0 .. MaxRowCount, w = current,
             held' = [held EXCEPT ![w] = c], resolved' \in [Resolvers -> Ids \cup {NoOne}],
             UNCHANGED <<current, born, plans, receipts, now>>
      PROVE  /\ TablesInv'
             /\ born' >= born /\ current' \in {current, NoOne} /\ Len(plans') >= Len(plans)
  <2>1. TableTypes' /\ ReceiptsAreRemovals'
    BY <1>1, <1>5 DEF TableTypes, ReceiptsAreRemovals, Requests
  <2>2. RowsBelong'
    BY <1>1, <1>5 DEF RowsBelong
  <2> QED
    BY <1>1, <1>5, <2>1, <2>2 DEF TablesInv
<1>6. CASE ClearRow
  <2>1. current \in Ids /\ held[current] - 1 \in 0 .. MaxRowCount
    BY <1>1, <1>6 DEF ClearRow, Ids
  <2>2. /\ held' = [held EXCEPT ![current] = held[current] - 1]
        /\ UNCHANGED <<current, born, resolved, plans, receipts, now>>
    BY <1>6 DEF ClearRow
  <2> QED
    BY <1>1, <1>5, <2>1, <2>2
<1>7. ASSUME NEW t \in Resolvers, WriteRow(t)
      PROVE  /\ TablesInv'
             /\ born' >= born /\ current' \in {current, NoOne} /\ Len(plans') >= Len(plans)
  <2>1. /\ resolved' = [resolved EXCEPT ![t] = NoOne] /\ resolved[t] \in Ids
        /\ UNCHANGED <<current, born, plans, receipts, now>>
    BY <1>1, <1>7 DEF WriteRow
  <2>2. resolved' \in [Resolvers -> Ids \cup {NoOne}]
    BY <1>1, <2>1
  <2>3. CASE UNCHANGED held
    BY <1>1, <1>2, <2>1, <2>2, <2>3 DEF tables
  <2>4. CASE /\ Referable(resolved[t]) /\ held[resolved[t]] < MaxRowCount
             /\ held' = [held EXCEPT ![resolved[t]] = @ + 1]
    <3>1. resolved[t] = current /\ held[current] + 1 \in 0 .. MaxRowCount
      BY <1>1, <2>1, <2>4 DEF Referable
    <3>2. held' = [held EXCEPT ![current] = held[current] + 1]
      BY <2>4, <3>1
    <3> QED
      BY <1>5, <2>1, <2>2, <3>1, <3>2
  <2> QED
    BY <1>7, <2>3, <2>4 DEF WriteRow
<1>8. ASSUME NEW r \in Requests, ConfirmPlan(r), UNCHANGED <<resolved, now>>
      PROVE  /\ TablesInv'
             /\ born' >= born /\ current' \in {current, NoOne} /\ Len(plans') >= Len(plans)
  <2>1. /\ TablesInv' /\ born' = born /\ Len(plans') = Len(plans)
        /\ current' \in {current, NoOne}
    BY <1>8, ConfirmKeepsTables
  <2> QED
    BY <1>1, <2>1
<1>9. CASE Tick
  BY <1>1, <1>2, <1>9 DEF Tick
<1>10. CASE \/ ListForWatchers \/ StartWatchers \/ Answer \/ Crash
            \/ \E t \in Resolvers : ResolveWatched(t)
            \/ \E r \in Requests : StopWatcher(r)
  BY <1>1, <1>2, <1>10 DEF ListForWatchers, StartWatchers, Answer, Crash, ResolveWatched, StopWatcher, Ids
<1>11. CASE Decide
  BY <1>8, <1>11 DEF Decide, WatchersKept
<1>12. CASE \E r \in Requests : ConfirmByCli(r)
  BY <1>8, <1>12 DEF ConfirmByCli
<1> QED
  BY <1>1, <1>3, <1>4, <1>6, <1>7, <1>9, <1>10, <1>11, <1>12 DEF RemovalNext

LEMMA WatchersStep ==
    ASSUME TablesInv, WatchersKept, RemovalNext
    PROVE  WatchersKept'
<1>1. /\ born \in 0 .. MaxIds /\ current \in {NoOne, born} /\ MaxIds \in Nat
      /\ NoOne = 0 /\ Ids = 1 .. MaxIds
      /\ mcp.state \in [Ids -> WatcherState] /\ mcp.handles \subseteq Ids
      /\ \A w \in Ids : w \in mcp.handles <=> mcp.state[w] = "ready"
      /\ \A w \in Ids : mcp.state[w] # "none" => w \in 1 .. born
      /\ mcp.step \in {"stopped", "decided"} =>
            mcp.request \in Requests /\ mcp.request.workspace \notin mcp.handles
      /\ mcp.step \in {"stopped", "decided"} \/ mcp \in Serving
      /\ mcp.step = "down" => mcp.handles = {}
      /\ \A w \in Ids : mcp.state[w] = "stopped" =>
            w # current \/ (mcp.step \in {"stopped", "decided"} /\ w = mcp.request.workspace)
      /\ mcp.step = "decided" /\ mcp.told = "deregistered" => mcp.request.workspace # current
  BY RemovalBounds DEF TablesInv, TableTypes, WatchersKept, NoOne, Ids
<1>2. /\ TablesInv'
      /\ born' >= born /\ born' \in 0 .. MaxIds
      /\ current' \in {current, NoOne} \/ (current' = born' /\ born' = born + 1)
      /\ Len(plans') >= Len(plans) /\ Len(plans) \in Nat /\ Len(plans') \in Nat
  <2>1. /\ TablesInv'
        /\ born' >= born /\ current' \in {current, NoOne, born'}
        /\ current' \in {current, NoOne} \/ born' = born + 1
        /\ Len(plans') >= Len(plans)
    BY TablesStep
  <2>2. plans \in Seq(Plan) /\ plans' \in Seq(Plan) /\ born' \in 0 .. MaxIds
    BY <2>1 DEF TablesInv, TableTypes
  <2> QED
    BY <2>1, <2>2
<1>3. \A w \in 1 .. born : w # current => w # current'
  BY <1>1, <1>2
<1>4. /\ \A r \in Requests : r.workspace \in 1 .. born /\ r.workspace \in Ids
      /\ Requests \subseteq Requests'
  BY <1>1, <1>2 DEF Requests
<1>5. CASE UNCHANGED mcp
  <2>1. mcp.step \in {"stopped", "decided"} => mcp.request \in Requests'
    BY <1>1, <1>4
  <2>2. \A w \in Ids : mcp.state[w] # "none" => w \in 1 .. born'
    BY <1>1, <1>2
  <2>3. \A w \in Ids : mcp.state[w] = "stopped" =>
            w # current' \/ (mcp.step \in {"stopped", "decided"} /\ w = mcp.request.workspace)
    BY <1>1, <1>3, mcp.state \in [Ids -> WatcherState]
  <2>4. mcp.step = "decided" /\ mcp.told = "deregistered" => mcp.request.workspace # current'
    BY <1>1, <1>3, <1>4
  <2> QED
    BY <1>1, <1>5, <2>1, <2>2, <2>3, <2>4 DEF WatchersKept
<1>6. ASSUME UNCHANGED tables, NEW srv \in Serving, NEW w \in Ids, mcp' \in Started(w, srv),
             w \in 1 .. born, w \notin srv.handles,
             \A v \in Ids : v \in srv.handles <=> srv.state[v] = "ready",
             \A v \in Ids : srv.state[v] # "none" => v \in 1 .. born,
             \A v \in Ids \ {w} : srv.state[v] = "stopped" => v # current
      PROVE  WatchersKept'
  <2>1. CASE mcp' = [srv EXCEPT !.step = "up", !.state[w] = "ready", !.handles = @ \cup {w}]
    <3>1. /\ mcp'.step = "up" /\ mcp'.handles = srv.handles \cup {w}
          /\ mcp'.state = [srv.state EXCEPT ![w] = "ready"] /\ mcp' \in Serving
      BY <2>1 DEF Serving, WatcherState
    <3> QED
      BY <1>1, <1>6, <3>1 DEF WatchersKept, Serving, tables
  <2>2. CASE mcp' = [srv EXCEPT !.step = "up", !.state[w] = "failed"]
    <3>1. /\ mcp'.step = "up" /\ mcp'.handles = srv.handles
          /\ mcp'.state = [srv.state EXCEPT ![w] = "failed"] /\ mcp' \in Serving
      BY <2>2 DEF Serving, WatcherState
    <3> QED
      BY <1>1, <1>6, <3>1 DEF WatchersKept, Serving, tables
  <2> QED
    BY <1>6, <2>1, <2>2 DEF Started
<1>7. CASE ListForWatchers
  <2>1. /\ mcp \in Serving /\ mcp.step = "down" /\ mcp.handles = {}
        /\ UNCHANGED <<current, born>>
        /\ mcp' = [mcp EXCEPT !.step = "listed",
                      !.state = [w \in Ids |-> IF w = current THEN "starting" ELSE "none"]]
    BY <1>1, <1>7 DEF ListForWatchers, tables
  <2>2. /\ mcp'.step = "listed" /\ mcp'.handles = {} /\ mcp' \in Serving
        /\ mcp'.state = [w \in Ids |-> IF w = current THEN "starting" ELSE "none"]
    BY <2>1 DEF Serving, WatcherState
  <2>3. \A w \in Ids : /\ mcp'.state[w] \in {"starting", "none"}
                       /\ mcp'.state[w] # "none" => w = current
    BY <2>2
  <2>4. \A w \in Ids : w = current => w \in 1 .. born
    BY <1>1
  <2>5. mcp'.state \in [Ids -> WatcherState]
    BY <2>2 DEF WatcherState
  <2> QED
    BY <2>1, <2>2, <2>3, <2>4, <2>5 DEF WatchersKept
<1>8. CASE StartWatchers
  <2>1. mcp \in Serving /\ mcp.step = "listed" /\ UNCHANGED tables
    BY <1>1, <1>8 DEF StartWatchers
  <2>2. CASE mcp' = [mcp EXCEPT !.step = "up"]
    <3>1. /\ mcp'.step = "up" /\ mcp'.state = mcp.state /\ mcp'.handles = mcp.handles
          /\ mcp' \in Serving
      BY <2>1, <2>2 DEF Serving
    <3> QED
      BY <1>1, <2>1, <3>1 DEF WatchersKept, tables
  <2>3. ASSUME NEW w \in Ids, mcp.state[w] = "starting", mcp' \in Started(w, mcp)
        PROVE  WatchersKept'
    BY <1>1, <1>6, <2>1, <2>3
  <2> QED
    BY <1>8, <2>2, <2>3 DEF StartWatchers
<1>9. ASSUME NEW r \in Requests, StopWatcher(r)
      PROVE  WatchersKept'
  <2> DEFINE w == r.workspace
             state == [mcp.state EXCEPT ![w] = IF w \in mcp.handles THEN "stopped" ELSE @]
  <2>1. /\ mcp.step = "up" /\ UNCHANGED tables
        /\ mcp'.step = "stopped" /\ mcp'.request = r /\ mcp'.handles = mcp.handles \ {w}
        /\ mcp'.state = state
    BY <1>9 DEF StopWatcher
  <2>2. /\ w \in Ids /\ w \in 1 .. born /\ r \in Requests'
        /\ state \in [Ids -> WatcherState]
    BY <1>1, <1>4 DEF WatcherState
  <2>3. \A v \in Ids : state[v] = IF v = w /\ w \in mcp.handles THEN "stopped" ELSE mcp.state[v]
    BY <1>1, <2>2
  <2> HIDE DEF state
  <2> QED
    BY <1>1, <2>1, <2>2, <2>3 DEF WatchersKept, tables
<1>10. CASE Decide
  <2> DEFINE r == mcp.request
  <2>1. /\ mcp.step = "stopped" /\ ConfirmPlan(r) /\ UNCHANGED <<resolved, now>>
        /\ mcp'.step = "decided" /\ mcp'.request = r /\ mcp'.told = Told(r)
        /\ mcp'.state = mcp.state /\ mcp'.handles = mcp.handles
    BY <1>10 DEF Decide
  <2>2. r \in Requests /\ r \in Requests' /\ r.workspace \notin mcp.handles
    BY <1>1, <1>4, <2>1
  <2>3. /\ born' = born /\ current' \in {current, NoOne}
        /\ Told(r) = "deregistered" => r.workspace # current'
    BY <2>1, <2>2, ConfirmKeepsTables
  <2>4. \A v \in Ids : mcp.state[v] = "stopped" => v # current' \/ v = r.workspace
    BY <1>1, <2>1, <2>3
  <2> QED
    BY <1>1, <2>1, <2>2, <2>3, <2>4 DEF WatchersKept
<1>11. CASE Answer
  <2> DEFINE w == mcp.request.workspace
             up == [step |-> "up", state |-> mcp.state, handles |-> mcp.handles]
  <2>1. mcp.step = "decided" /\ UNCHANGED tables /\ w \in Ids /\ w \in 1 .. born
    BY <1>1, <1>4, <1>11 DEF Answer
  <2>2. /\ up \in Serving /\ up.state = mcp.state /\ up.handles = mcp.handles /\ up.step = "up"
    BY <1>1 DEF Serving
  <2>3. CASE mcp' \in Started(w, up)
    <3>1. PICK v \in Ids : v = w
      BY <2>1
    <3>2. /\ v \in 1 .. born /\ v \notin up.handles
          /\ \A u \in Ids : u \in up.handles <=> up.state[u] = "ready"
          /\ \A u \in Ids : up.state[u] # "none" => u \in 1 .. born
          /\ \A u \in Ids \ {v} : up.state[u] = "stopped" => u # current
      BY <1>1, <2>1, <2>2, <3>1
    <3> HIDE DEF up
    <3> QED
      BY <1>6, <2>1, <2>2, <2>3, <3>1, <3>2
  <2>4. CASE mcp' = up /\ ~(Restarts(mcp.told) /\ w = current)
    <3>1. w # current
      BY <1>1, <2>1, <2>4 DEF Restarts
    <3> QED
      BY <1>1, <2>1, <2>2, <2>4, <3>1 DEF WatchersKept, tables
  <2> QED
    BY <1>11, <2>3, <2>4 DEF Answer
<1>12. CASE Crash
  <2>1. mcp' = ServerDown /\ UNCHANGED tables
    BY <1>12 DEF Crash
  <2>2. /\ mcp' \in Serving /\ mcp'.step = "down" /\ mcp'.handles = {}
        /\ mcp'.state = [w \in Ids |-> "none"]
    BY <2>1 DEF ServerDown, Serving, WatcherState
  <2> QED
    BY <2>2 DEF WatchersKept, Serving
<1>13. CASE \/ Register \/ PreviewRemoval \/ ClearRow \/ Tick
            \/ \E t \in Resolvers : ResolveWatched(t) \/ WriteRow(t)
            \/ \E r \in Requests : ConfirmByCli(r)
  BY <1>5, <1>13 DEF Register, PreviewRemoval, ClearRow, Tick, ResolveWatched, WriteRow,
                     ConfirmByCli
<1> QED
  BY <1>7, <1>8, <1>9, <1>10, <1>11, <1>12, <1>13 DEF RemovalNext

RemovalInv == TablesInv /\ WatchersKept

LEMMA RemovalInvInit == RemovalInit => RemovalInv
<1> SUFFICES ASSUME RemovalInit
             PROVE  RemovalInv
  OBVIOUS
<1>1. /\ current = 0 /\ born = 0 /\ plans = <<>> /\ receipts = {} /\ now = 0 /\ NoOne = 0
      /\ held = [w \in Ids |-> 0] /\ resolved = [t \in Resolvers |-> 0]
      /\ MaxIds \in Nat /\ MaxRowCount \in Nat /\ MaxTime \in Nat /\ MaxPlans \in Nat
  BY RemovalBounds DEF RemovalInit, NoOne
<1>2. <<>> \in Seq(Plan) /\ Len(<<>>) = 0
  OBVIOUS
<1>3. TablesInv
  BY <1>1, <1>2 DEF TablesInv, TableTypes, ReceiptsAreRemovals, RowsBelong
<1>4. /\ mcp \in Serving /\ mcp.step = "down" /\ mcp.handles = {}
      /\ mcp.state = [w \in Ids |-> "none"]
  BY DEF RemovalInit, ServerDown, Serving, WatcherState
<1> QED
  BY <1>3, <1>4 DEF WatchersKept, RemovalInv, Serving

LEMMA RemovalInvHolds == RemovalSpec => []RemovalInv
<1>1. RemovalInv /\ [RemovalNext]_removalVars => RemovalInv'
  <2>1. CASE RemovalInv /\ RemovalNext
    BY <2>1, TablesStep, WatchersStep DEF RemovalInv
  <2>2. CASE RemovalInv /\ UNCHANGED removalVars
    BY <2>2 DEF RemovalInv, removalVars, TablesInv, TableTypes, ReceiptsAreRemovals, RowsBelong,
                WatchersKept, Requests
  <2> QED
    BY <2>1, <2>2
<1> QED
  BY <1>1, RemovalInvInit, PTL DEF RemovalSpec

\* A workspace disappears only by a plan that was in time and showed its size,
\* once, and receipt, spent plan and disappearance come together, for any
\* number of workspaces, plans, keys and processes.
THEOREM RemovalsArePreviewed == RemovalSpec => []RemovedAsPreviewed
<1>1. RemovalInv => RemovedAsPreviewed
  <2> SUFFICES ASSUME RemovalInv
               PROVE  RemovedAsPreviewed
    OBVIOUS
  <2>1. TableTypes /\ ReceiptsAreRemovals
    BY DEF RemovalInv, TablesInv
  <2>2. Cardinality({}) = 0 /\ \A x : Cardinality({x}) = 1
    BY FS_EmptySet, FS_Singleton
  <2>3. ASSUME NEW w \in 1 .. born
        PROVE  Cardinality({x \in receipts : x.request.workspace = w})
                 = (IF w = current THEN 0 ELSE 1)
    <3>1. CASE w = current
      <4>1. {x \in receipts : x.request.workspace = w} = {}
        BY <2>1, <3>1 DEF ReceiptsAreRemovals
      <4> QED
        BY <2>2, <3>1, <4>1
    <3>2. CASE w # current
      <4>1. PICK y \in receipts : y.request.workspace = w
        BY <2>1, <3>2 DEF ReceiptsAreRemovals
      <4>2. {x \in receipts : x.request.workspace = w} = {y}
        BY <2>1, <4>1 DEF ReceiptsAreRemovals
      <4> QED
        BY <2>2, <3>2, <4>2
    <3> QED
      BY <3>1, <3>2
  <2>4. ASSUME NEW p \in 1 .. Len(plans)
        PROVE  Cardinality({x \in receipts : x.request.plan = p})
                 = (IF plans[p].consumed THEN 1 ELSE 0)
    <3>1. CASE ~plans[p].consumed
      <4>1. {x \in receipts : x.request.plan = p} = {}
        BY <2>1, <3>1 DEF ReceiptsAreRemovals
      <4> QED
        BY <2>2, <3>1, <4>1
    <3>2. CASE plans[p].consumed
      <4>1. PICK y \in receipts : y.request.plan = p
        BY <2>1, <3>2 DEF ReceiptsAreRemovals
      <4>2. {x \in receipts : x.request.plan = p} = {y}
        BY <2>1, <4>1 DEF ReceiptsAreRemovals
      <4> QED
        BY <2>2, <3>2, <4>2
    <3> QED
      BY <3>1, <3>2
  <2> QED
    BY <2>1, <2>3, <2>4 DEF RemovedAsPreviewed, ReceiptsAreRemovals
<1> QED
  BY <1>1, RemovalInvHolds, PTL

\* A request that was carried out is answered with its receipt for ever, and
\* no row is left, or written later, in a workspace that is gone.
THEOREM RemovalsLast == RemovalSpec => []RemovedForEver
<1>1. RemovalInv => RemovedForEver
  <2> SUFFICES ASSUME RemovalInv
               PROVE  RemovedForEver
    OBVIOUS
  <2>1. ASSUME NEW x \in receipts
        PROVE  Told(x.request) = "deregistered"
    <3>1. \E y \in ReceiptOf(x.request) : y.request = x.request
      BY DEF ReceiptOf
    <3>2. Outcome(x.request) = "replay"
      BY <3>1 DEF Outcome
    <3> QED
      BY <3>2 DEF Told
  <2> QED
    BY <2>1 DEF RemovedForEver, RemovalInv, TablesInv, RowsBelong
<1> QED
  BY <1>1, RemovalInvHolds, PTL

\* A deregistration that did not happen, for whatever reason, costs no
\* workspace its watcher.
THEOREM WatchersAreReturned == RemovalSpec => []WatchersReturn
<1>1. RemovalInv => WatchersReturn
  BY DEF RemovalInv, WatchersKept, WatchersReturn
<1> QED
  BY <1>1, RemovalInvHolds, PTL

\* The tables, the plans and the server keep their types.
THEOREM RemovalTypesHold == RemovalSpec => []RemovalTypeOK
<1>1. RemovalInv => RemovalTypeOK
  <2> SUFFICES ASSUME RemovalInv
               PROVE  RemovalTypeOK
    OBVIOUS
  <2>1. mcp.step \in {"down", "up", "listed", "stopped", "decided"}
    BY DEF RemovalInv, WatchersKept, Serving
  <2>2. current \in 0 .. born
    BY RemovalBounds DEF RemovalInv, TablesInv, TableTypes, NoOne
  <2> QED
    BY <2>1, <2>2 DEF RemovalInv, TablesInv, TableTypes, WatchersKept, RemovalTypeOK
<1> QED
  BY <1>1, RemovalInvHolds, PTL

-----------------------------------------------------------------------------
(* The resolution of symbols.                                              *)
(*                                                                         *)
(* Incremental resolution of relationships without aliases is the full     *)
(* resolution.  The inductive invariant adds to PlainFactsResolved that     *)
(* every projected analysis is one its document can yield, and that what   *)
(* is projected is exactly what is asserted.  The step rests on SameNodes: *)
(* a term whose surface is unchanged is a term of the same nodes.          *)

\* What a document can have in the graph.
Yields(d) == Contents[d] \cup {Absent}
Analysed(a) == a = [d \in Docs |-> a[d]] /\ \A d \in Docs : a[d] \in Yields(d)

\* Nodes come from the document's analyses.
LEMMA NodesYielded ==
    ASSUME NEW a, Analysed(a), NEW d \in Docs, NEW n \in a[d].nodes
    PROVE  n \in NodesOf(d) /\ n \in GraphNode
<1>1. CASE a[d] = Absent
  BY <1>1 DEF Absent
<1>2. CASE a[d] \in Contents[d]
  <2>1. Contents[d] \subseteq Analysis
    BY AnalysesGiven
  <2>2. a[d] \in Analysis
    BY <1>2, <2>1
  <2>3. a[d].nodes \subseteq GraphNode
    BY <2>2 DEF Analysis
  <2> QED
    BY <1>2, <2>3 DEF NodesOf
<1> QED
  BY <1>1, <1>2 DEF Analysed, Yields

LEMMA FactsYielded ==
    ASSUME NEW a, Analysed(a), NEW d \in Docs, NEW f \in a[d].facts
    PROVE  f \in FactsOf(d) /\ f \in Fact
<1>1. CASE a[d] = Absent
  BY <1>1 DEF Absent
<1>2. CASE a[d] \in Contents[d]
  <2>1. Contents[d] \subseteq Analysis
    BY AnalysesGiven
  <2>2. a[d] \in Analysis
    BY <1>2, <2>1
  <2>3. a[d].facts \subseteq Fact
    BY <2>2 DEF Analysis
  <2> QED
    BY <1>2, <2>3 DEF FactsOf
<1> QED
  BY <1>1, <1>2 DEF Analysed, Yields

LEMMA Asserting ==
    ASSUME NEW a, NEW x
    PROVE  x \in Asserted(a) <=>
              \E d \in Docs : \E f \in a[d].facts : x = <<d, f>>
BY DEF Asserted

LEMMA Placing ==
    ASSUME NEW a, NEW p
    PROVE  p \in Placed(a) <=>
              \E d \in Docs : \E n \in a[d].nodes : p = [doc |-> d, node |-> n]
BY DEF Placed

-----------------------------------------------------------------------------

\* A node whose term has the same surface before and after is there before and
\* after: the surface names its key and type, the key its names.
LEMMA SameNodes ==
    ASSUME NEW d \in Docs, NEW old, NEW new, NEW term,
           old \subseteq NodesOf(d), old \subseteq GraphNode,
           new \subseteq NodesOf(d), new \subseteq GraphNode,
           ~Changes(old, new, term), NEW n \in old, term \in Terms(n)
    PROVE  n \in new
<1>1. <<n.key, n.module>> \in Surface(old, term)
  BY DEF Surface
<1>2. <<n.key, n.module>> \in Surface(new, term)
  BY <1>1 DEF Changes
<1>3. PICK m \in new : m.key = n.key /\ m.module = n.module
  BY <1>2 DEF Surface
<1>4. m.name = n.name /\ m.qualified = n.qualified
  BY <1>3, KeysTellNames
<1>5. m \in GraphNode /\ n \in GraphNode
  OBVIOUS
<1>6. m = n
  BY <1>3, <1>4, <1>5 DEF GraphNode
<1> QED
  BY <1>6

\* The places of the nodes with a term.
With(a, term) == {p \in Placed(a) : term \in Terms(p.node)}

LEMMA SamePlaces ==
    ASSUME NEW a, NEW b, NEW d \in Docs, NEW term, Analysed(a), Analysed(b),
           \A e \in Docs \ {d} : b[e] = a[e],
           ~Changes(a[d].nodes, b[d].nodes, term)
    PROVE  With(a, term) = With(b, term)
<1>1. /\ a[d].nodes \subseteq NodesOf(d) /\ a[d].nodes \subseteq GraphNode
      /\ b[d].nodes \subseteq NodesOf(d) /\ b[d].nodes \subseteq GraphNode
  BY NodesYielded
<1>2. ~Changes(b[d].nodes, a[d].nodes, term)
  BY DEF Changes
<1>3. ASSUME NEW p \in With(a, term) PROVE p \in With(b, term)
  <2>1. PICK e \in Docs : \E n \in a[e].nodes : p = [doc |-> e, node |-> n]
    BY <1>3, Placing DEF With
  <2>2. PICK n \in a[e].nodes : p = [doc |-> e, node |-> n]
    BY <2>1
  <2>3. term \in Terms(n)
    BY <2>2, <1>3 DEF With
  <2>4. n \in b[e].nodes
    BY <2>3, <1>1, SameNodes
  <2>5. p \in Placed(b)
    BY <2>2, <2>4, Placing
  <2> QED
    BY <2>5, <1>3 DEF With
<1>4. ASSUME NEW p \in With(b, term) PROVE p \in With(a, term)
  <2>1. PICK e \in Docs : \E n \in b[e].nodes : p = [doc |-> e, node |-> n]
    BY <1>4, Placing DEF With
  <2>2. PICK n \in b[e].nodes : p = [doc |-> e, node |-> n]
    BY <2>1
  <2>3. term \in Terms(n)
    BY <2>2, <1>4 DEF With
  <2>4. n \in a[e].nodes
    BY <2>3, <1>1, <1>2, SameNodes
  <2>5. p \in Placed(a)
    BY <2>2, <2>4, Placing
  <2> QED
    BY <2>5, <1>4 DEF With
<1> QED
  BY <1>3, <1>4

LEMMA PlacedNodes ==
    ASSUME NEW a, Analysed(a), NEW p \in Placed(a)
    PROVE  \E d \in Docs : p.doc = d /\ p.node \in NodesOf(d) /\ p.node \in GraphNode
<1>1. PICK d \in Docs : \E n \in a[d].nodes : p = [doc |-> d, node |-> n]
  BY Placing
<1>2. PICK n \in a[d].nodes : p = [doc |-> d, node |-> n]
  BY <1>1
<1> QED
  BY <1>2, NodesYielded

\* What a fact without aliases looks for has its term.
LEMMA LooksAtTerms ==
    ASSUME NEW n, NEW v
    PROVE  /\ n.key = v => <<"local", v>> \in Terms(n)
           /\ n.name = v => <<"symbol", v>> \in Terms(n)
           /\ n.qualified = v => <<"symbol", v>> \in Terms(n)
           /\ n.module /\ n.name = v => <<"module", v>> \in Terms(n)
           /\ n.module /\ n.qualified = v => <<"module", v>> \in Terms(n)
BY DEF Terms

LEMMA SameResolution ==
    ASSUME NEW a, NEW b, NEW d \in Docs, Analysed(a), Analysed(b),
           \A e \in Docs \ {d} : b[e] = a[e],
           NEW e \in Docs, NEW f \in FactsOf(e), f \in Fact, f.aliases = {},
           ~Changes(a[d].nodes, b[d].nodes, <<f.kind, f.target>>)
    PROVE  Resolve(b, e, f) = Resolve(a, e, f)
<1>1. With(a, <<f.kind, f.target>>) = With(b, <<f.kind, f.target>>)
  BY SamePlaces
<1>2. CASE f.kind = "local"
  <2>1. With(a, <<"local", f.target>>) = With(b, <<"local", f.target>>)
    BY <1>1, <1>2
  <2>2. ASSUME NEW c
        PROVE  ByKey(c, f) = {p \in With(c, <<"local", f.target>>) : p.node.key = f.target}
    BY LooksAtTerms DEF ByKey, With
  <2>3. ByKey(a, f) = ByKey(b, f)
    BY <2>1, <2>2
  <2> QED
    BY <1>2, <2>3 DEF Resolve
<1>3. CASE f.kind = "symbol"
  <2> DEFINE at(c) == With(c, <<"symbol", f.target>>)
  <2>0. at(a) = at(b)
    BY <1>1, <1>3
  <2>a. ASSUME NEW c
        PROVE  /\ Named(c, f.target) = {p \in at(c) : p.node.name = f.target}
               /\ Qualified(c, f.target) = {p \in at(c) : p.node.qualified = f.target}
    BY LooksAtTerms DEF With, Named, Qualified
  <2> HIDE DEF at
  <2>1. Named(a, f.target) = Named(b, f.target) /\ Qualified(a, f.target) = Qualified(b, f.target)
    BY <2>0, <2>a
  <2>2. ASSUME NEW c, Analysed(c)
        PROVE  Qualified(c, f.sibling) = {p \in Named(c, f.target) : p.node.qualified = f.sibling}
    <3>1. ASSUME NEW p \in Placed(c), p.node.qualified = f.sibling
          PROVE  p.node.name = f.target
      BY <2>2, <3>1, PlacedNodes, SiblingsEndInTarget
    <3> QED
      BY <3>1 DEF Qualified, Named
  <2>3. Qualified(a, f.sibling) = Qualified(b, f.sibling)
    BY <2>1, <2>2
  <2>4. ByName(a, e, f) = ByName(b, e, f)
    BY <2>1, <2>3 DEF ByName
  <2>6. ResolveSymbol(a, e, f) = ByName(a, e, f) /\ ResolveSymbol(b, e, f) = ByName(b, e, f)
    BY DEF ResolveSymbol
  <2> QED
    BY <1>3, <2>4, <2>6 DEF Resolve
<1>4. CASE f.kind = "module"
  <2> DEFINE at(c) == With(c, <<"module", f.target>>)
  <2>0. at(a) = at(b)
    BY <1>1, <1>4
  <2>a. ASSUME NEW c
        PROVE  /\ Modules(Named(c, f.target)) =
                     {p \in at(c) : p.node.module /\ p.node.name = f.target}
               /\ Modules(Qualified(c, f.target)) =
                     {p \in at(c) : p.node.module /\ p.node.qualified = f.target}
    BY LooksAtTerms DEF With, Named, Qualified, Modules
  <2> HIDE DEF at
  <2>1. /\ Modules(Named(a, f.target)) = Modules(Named(b, f.target))
        /\ Modules(Qualified(a, f.target)) = Modules(Qualified(b, f.target))
    BY <2>0, <2>a
  <2>2. ASSUME NEW c PROVE UNION {Qualified(c, v) : v \in {f.target}} = Qualified(c, f.target)
    OBVIOUS
  <2>3. ResolveModule(a, f) = ResolveModule(b, f)
    BY <2>1, <2>2 DEF ResolveModule
  <2> QED
    BY <1>4, <2>3 DEF Resolve
<1>5. CASE f.kind \in {"external", "unresolved"}
  BY <1>5 DEF Resolve
<1> QED
  BY <1>2, <1>3, <1>4, <1>5 DEF Fact, FactKinds

-----------------------------------------------------------------------------

ResolutionInv ==
    /\ Analysed(analysis)
    /\ projection = [x \in Asserted(analysis) |-> projection[x]]
    /\ PlainFactsResolved

\* What a fact resolves to is among the placed nodes.
LEMMA ResolvedAreKeys ==
    ASSUME NEW a, Analysed(a), NEW d \in Docs, NEW f \in Fact
    PROVE  \A k \in Resolve(a, d, f).nodes : \E p \in Placed(a) : p.node.key = k
<1>1. ASSUME NEW S, S \subseteq Placed(a), NEW E
      PROVE  \A k \in Found(S, E).nodes : \E p \in Placed(a) : p.node.key = k
  BY <1>1 DEF Found
<1>2. ByKey(a, f) \subseteq Placed(a)
  BY DEF ByKey
<1>3. ResolveSymbol(a, d, f) \subseteq Placed(a)
  BY DEF ResolveSymbol, ByName, Qualified, Named
<1>4. ResolveModule(a, f) \subseteq Placed(a)
  BY DEF ResolveModule, Modules, Qualified, Named
<1> QED
  BY <1>1, <1>2, <1>3, <1>4 DEF Resolve

LEMMA OutcomeKept ==
    ASSUME NEW S, NEW E, NEW G, Found(S, E).nodes \cap G = {}
    PROVE  [Found(S, E) EXCEPT !.nodes = @ \ G] = Found(S, E)
<1>1. Found(S, E).nodes \ G = Found(S, E).nodes
  OBVIOUS
<1> QED
  BY <1>1 DEF Found

LEMMA ResolveKept ==
    ASSUME NEW a, NEW d, NEW f, NEW G, Resolve(a, d, f).nodes \cap G = {}
    PROVE  [Resolve(a, d, f) EXCEPT !.nodes = @ \ G] = Resolve(a, d, f)
<1>1. \E S, E : Resolve(a, d, f) = Found(S, E)
  BY DEF Resolve
<1> QED
  BY <1>1, OutcomeKept

LEMMA ApplyKeepsInv ==
    ASSUME ResolutionInv, NEW d \in Docs, NEW content \in Yields(d), Apply(d, content)
    PROVE  ResolutionInv'
<1> DEFINE after == [analysis EXCEPT ![d] = content]
           lost == KeysOf(analysis[d].nodes) \ KeysOf(content.nodes)
<1>1. analysis' = after /\ after[d] = content /\ \A e \in Docs \ {d} : after[e] = analysis[e]
  BY DEF Apply, ResolutionInv, Analysed
<1>2. Analysed(after)
  BY <1>1 DEF ResolutionInv, Analysed
<1>3. projection' = [x \in Asserted(after) |->
          IF Affected(d, content.nodes, x) THEN Resolve(after, x[1], x[2])
          ELSE Kept(d, content.nodes, x)]
  BY DEF Apply
<1>4. ASSUME NEW x \in Asserted(after), x[2].aliases = {}, ~Affected(d, content.nodes, x)
      PROVE  Kept(d, content.nodes, x) = Resolve(after, x[1], x[2])
  <2>1. PICK e \in Docs : \E f \in after[e].facts : x = <<e, f>>
    <3> HIDE DEF after
    <3> QED
      BY <1>4, Asserting
  <2>2. PICK f \in after[e].facts : x = <<e, f>>
    BY <2>1
  <2>3. f \in FactsOf(e) /\ f \in Fact /\ f.aliases = {}
    BY <1>2, <1>4, <2>2, FactsYielded
  <2>4. e # d /\ ~Changes(analysis[d].nodes, content.nodes, <<f.kind, f.target>>)
    BY <1>4, <2>2 DEF Affected
  <2>5. Resolve(after, e, f) = Resolve(analysis, e, f)
    <3>1. ~Changes(analysis[d].nodes, after[d].nodes, <<f.kind, f.target>>)
      BY <1>1, <2>4
    <3>2. Analysed(analysis)
      BY DEF ResolutionInv
    <3> HIDE DEF after
    <3> QED
      BY <1>1, <1>2, <2>3, <3>1, <3>2, SameResolution
  <2>6. projection[x] = Resolve(after, e, f)
    <3>1. x \in Asserted(analysis)
      BY <1>1, <2>2, <2>4, Asserting
    <3> QED
      BY <3>1, <1>4, <2>2, <2>5 DEF ResolutionInv, PlainFactsResolved, AsResolvedNow
  <2>7. projection[x].nodes \cap lost = {}
    <3> SUFFICES ASSUME NEW k \in projection[x].nodes, k \in lost PROVE FALSE
      OBVIOUS
    <3>1. PICK p \in Placed(after) : p.node.key = k
      BY <1>2, <2>3, <2>6, ResolvedAreKeys
    <3>2. PICK g \in Docs : \E n \in after[g].nodes : p = [doc |-> g, node |-> n]
      BY <3>1, Placing
    <3>3. PICK n \in after[g].nodes : n.key = k
      BY <3>1, <3>2
    <3>4. PICK m \in analysis[d].nodes : m.key = k
      BY DEF KeysOf
    <3>5. n \in NodesOf(g) /\ m \in NodesOf(d)
      BY <1>2, NodesYielded DEF ResolutionInv
    <3>6. g = d
      BY <3>3, <3>4, <3>5, KeysTellNames
    <3>7. n \in content.nodes
      BY <1>1, <3>6
    <3> QED
      BY <3>3, <3>7 DEF KeysOf
  <2>8. Kept(d, content.nodes, x) = [projection[x] EXCEPT !.nodes = @ \ lost]
    BY DEF Kept
  <2>9. x[1] = e /\ x[2] = f
    BY <2>2
  <2> HIDE DEF lost, after
  <2>10. [Resolve(after, e, f) EXCEPT !.nodes = @ \ lost] = Resolve(after, e, f)
    BY <2>6, <2>7, ResolveKept
  <2> QED
    BY <2>6, <2>8, <2>9, <2>10
<1>5. ASSUME NEW x \in Asserted(after), x[2].aliases = {}
      PROVE  projection'[x] = Resolve(after, x[1], x[2])
  BY <1>3, <1>4, <1>5
<1> HIDE DEF after, lost
<1>6. PlainFactsResolved'
  BY <1>1, <1>5 DEF PlainFactsResolved, AsResolvedNow
<1>7. (projection = [x \in Asserted(analysis) |-> projection[x]])'
  BY <1>1, <1>3
<1> QED
  BY <1>1, <1>2, <1>6, <1>7 DEF ResolutionInv

LEMMA ResolutionInvInit == ResolutionInit => ResolutionInv
<1> SUFFICES ASSUME ResolutionInit PROVE ResolutionInv
  OBVIOUS
<1>1. Analysed(analysis)
  BY DEF ResolutionInit, Analysed, Yields
<1>2. Asserted(analysis) = {}
  BY DEF ResolutionInit, Asserted, Absent
<1>3. projection = [x \in Asserted(analysis) |-> projection[x]]
  BY DEF ResolutionInit
<1> QED
  BY <1>1, <1>2, <1>3 DEF ResolutionInv, PlainFactsResolved

LEMMA ResolutionInvStep == ResolutionInv /\ [ResolutionNext]_resolutionVars => ResolutionInv'
<1> SUFFICES ASSUME ResolutionInv, [ResolutionNext]_resolutionVars PROVE ResolutionInv'
  OBVIOUS
<1>1. ASSUME NEW d \in Docs, ProjectDocument(d) PROVE ResolutionInv'
  BY <1>1, ApplyKeepsInv DEF ProjectDocument, Yields
<1>2. ASSUME NEW d \in Docs, DeleteDocument(d) PROVE ResolutionInv'
  BY <1>2, ApplyKeepsInv DEF DeleteDocument, Yields
<1>3. CASE UNCHANGED resolutionVars
  BY <1>3 DEF resolutionVars, ResolutionInv, PlainFactsResolved, AsResolvedNow, Analysed
<1> QED
  BY <1>1, <1>2, <1>3 DEF ResolutionNext

\* Whatever documents are added, changed and deleted, and in whatever order:
\* every projected relationship without aliases is the full resolution's.
THEOREM PlainFactsAreResolved == ResolutionSpec => []PlainFactsResolved
<1>1. ResolutionInv => PlainFactsResolved
  BY DEF ResolutionInv
<1> QED
  BY <1>1, ResolutionInvInit, ResolutionInvStep, PTL DEF ResolutionSpec

-----------------------------------------------------------------------------
\* What resolution yields is a projection.
LEMMA FoundTyped ==
    ASSUME NEW a, Analysed(a), NEW S, S \subseteq Placed(a), NEW E, E \subseteq Values
    PROVE  Found(S, E) \in Projected
<1>1. \A p \in S : p.node.key \in Values
  BY PlacedNodes DEF GraphNode
<1>2. {p.node.key : p \in S} \subseteq Values
  BY <1>1
<1>3. StateOf(S, E) \in States
  BY DEF StateOf, States
<1> QED
  BY <1>2, <1>3 DEF Found, Projected

LEMMA ResolveTyped ==
    ASSUME NEW a, Analysed(a), NEW d \in Docs, NEW f \in Fact
    PROVE  Resolve(a, d, f) \in Projected
<1>1. /\ ByKey(a, f) \subseteq Placed(a) /\ ResolveSymbol(a, d, f) \subseteq Placed(a)
      /\ ResolveModule(a, f) \subseteq Placed(a)
  BY DEF ByKey, ResolveSymbol, ByName, ResolveModule, Modules, Qualified, Named
<1>2. f.target \in Values /\ f.external \subseteq Values
  BY DEF Fact
<1>3. /\ {} \subseteq Placed(a) /\ {} \subseteq Values /\ {f.target} \subseteq Values
      /\ \A m : (IF f.aliases # {} \/ m = {} THEN f.external ELSE {}) \subseteq Values
  BY <1>2
<1>4. /\ Found(ByKey(a, f), {}) \in Projected
      /\ Found(ResolveSymbol(a, d, f), {}) \in Projected
      /\ Found({}, {f.target}) \in Projected /\ Found({}, {}) \in Projected
  BY <1>1, <1>3, FoundTyped
<1>5. \A m : m \subseteq Placed(a) =>
         Found(m, IF f.aliases # {} \/ m = {} THEN f.external ELSE {}) \in Projected
  BY <1>3, FoundTyped
<1> QED
  BY <1>1, <1>4, <1>5 DEF Resolve

LEMMA ApplyKeepsTypes ==
    ASSUME ResolutionInv, ResolutionInv', projection \in [Asserted(analysis) -> Projected],
           NEW d \in Docs, NEW content \in Yields(d), Apply(d, content)
    PROVE  projection' \in [Asserted(analysis') -> Projected]
<1> DEFINE after == [analysis EXCEPT ![d] = content]
<1>1. analysis' = after /\ \A e \in Docs \ {d} : after[e] = analysis[e]
  BY DEF Apply, ResolutionInv, Analysed
<1>2. Analysed(after)
  BY <1>1 DEF ResolutionInv, Analysed
<1>3. projection' = [x \in Asserted(after) |->
          IF Affected(d, content.nodes, x) THEN Resolve(after, x[1], x[2])
          ELSE Kept(d, content.nodes, x)]
  BY DEF Apply
<1> HIDE DEF after
<1>4. ASSUME NEW x \in Asserted(after) PROVE Resolve(after, x[1], x[2]) \in Projected
  <2>1. PICK e \in Docs : \E f \in after[e].facts : x = <<e, f>>
    BY <1>4, Asserting
  <2>2. PICK f \in after[e].facts : x = <<e, f>>
    BY <2>1
  <2>3. f \in Fact /\ x[1] = e /\ x[2] = f
    BY <1>2, <2>2, FactsYielded
  <2> QED
    BY <1>2, <2>3, ResolveTyped
<1>5. ASSUME NEW x \in Asserted(after), ~Affected(d, content.nodes, x)
      PROVE  Kept(d, content.nodes, x) \in Projected
  <2>1. PICK e \in Docs : \E f \in after[e].facts : x = <<e, f>>
    BY <1>5, Asserting
  <2>2. PICK f \in after[e].facts : x = <<e, f>>
    BY <2>1
  <2>3. e # d
    BY <1>5, <2>2 DEF Affected
  <2>4. x \in Asserted(analysis)
    BY <1>1, <2>2, <2>3, Asserting
  <2>5. projection[x] \in Projected
    BY <2>4
  <2> QED
    BY <2>5 DEF Kept, Projected
<1> QED
  BY <1>1, <1>3, <1>4, <1>5

\* Analyses and projections keep their types: every asserted relationship has a
\* projection, none has one that is not asserted, and candidates are keys.
THEOREM ResolutionTypesHold == ResolutionSpec => []ResolutionTypeOK
<1> DEFINE Typed == ResolutionInv /\ projection \in [Asserted(analysis) -> Projected]
<1>1. ResolutionInit => Typed
  <2>1. ResolutionInit => projection \in [Asserted(analysis) -> Projected]
    BY DEF ResolutionInit, Unresolved, Projected, States
  <2> QED
    BY <2>1, ResolutionInvInit
<1>2. Typed /\ [ResolutionNext]_resolutionVars => Typed'
  <2> SUFFICES ASSUME Typed, [ResolutionNext]_resolutionVars PROVE Typed'
    OBVIOUS
  <2>1. ASSUME NEW d \in Docs, ProjectDocument(d) PROVE Typed'
    BY <2>1, ApplyKeepsInv, ApplyKeepsTypes DEF ProjectDocument, Yields
  <2>2. ASSUME NEW d \in Docs, DeleteDocument(d) PROVE Typed'
    BY <2>2, ApplyKeepsInv, ApplyKeepsTypes DEF DeleteDocument, Yields
  <2>3. CASE UNCHANGED resolutionVars
    BY <2>3, ResolutionInvStep DEF resolutionVars
  <2> QED
    BY <2>1, <2>2, <2>3 DEF ResolutionNext
<1>3. Typed => ResolutionTypeOK
  <2>1. Absent \in Analysis
    BY DEF Absent, Analysis
  <2>2. Analysed(analysis) => analysis \in [Docs -> Analysis]
    BY <2>1, AnalysesGiven DEF Analysed, Yields
  <2> QED
    BY <2>2 DEF ResolutionInv, ResolutionTypeOK
<1> QED
  BY <1>1, <1>2, <1>3, PTL DEF ResolutionSpec

-----------------------------------------------------------------------------
(* Segments of a chunk *)

\* What a budget leaves besides the prefix
Width(policy) == Budget(policy) - policy.prefix

LEMMA PolicyNumbers ==
    ASSUME NEW policy \in Policy
    PROVE  /\ policy.limit \in Nat /\ policy.reserved \in Nat /\ policy.overlap \in Nat
           /\ policy.prefix \in Nat /\ Budget(policy) \in Int /\ Width(policy) \in Int
BY DEF Policy, Budget, Width

LEMMA Strength ==
    ASSUME NEW n \in Nat
    PROVE  n % 4 \in 0 .. 3
OBVIOUS

\* Among positions there is a strongest boundary, and a last of those.
LEMMA StrongestLast ==
    ASSUME NEW near, NEW bound \in Nat, near \subseteq 1 .. bound, near # {},
           NEW text, \A p \in near : text[p] \in Nat
    PROVE  \E p \in near : \A q \in near :
              text[p] % 4 > text[q] % 4 \/ (text[p] % 4 = text[q] % 4 /\ p >= q)
<1> DEFINE weight == [p \in near |-> text[p] % 4]
           T == {weight[p] : p \in near}
<1>1. \A p \in near : weight[p] \in 0 .. 3
  BY Strength
<1> HIDE DEF weight
<1>2. T \in SUBSET Nat /\ T # {} /\ \A m \in T : m <= 3
  <2>1. \A m \in T : m \in 0 .. 3
    BY <1>1
  <2>2. T # {}
    OBVIOUS
  <2> HIDE DEF T
  <2> QED
    BY <2>1, <2>2
<1>3. PICK m \in T : \A k \in T : k <= m
  BY <1>2, Maximum
<1> DEFINE Q == {p \in near : weight[p] = m}
<1>4. Q \in SUBSET Nat /\ Q # {} /\ \A q \in Q : q <= bound
  <2>1. \A q \in near : q \in Nat /\ q <= bound
    OBVIOUS
  <2>2. PICK p \in near : weight[p] = m
    BY <1>3
  <2>3. p \in Q
    BY <2>2
  <2> QED
    BY <2>1, <2>3
<1>5. PICK p \in Q : \A q \in Q : q <= p
  BY <1>4, Maximum
<1>6. ASSUME NEW q \in near PROVE weight[p] > weight[q] \/ (weight[p] = weight[q] /\ p >= q)
  <2>1. weight[q] <= m /\ weight[q] \in Int /\ m \in Int /\ weight[p] = m
    BY <1>1, <1>3, <1>5
  <2>2. weight[q] = m => q <= p
    BY <1>5
  <2>3. p \in Int /\ q \in Int
    <3>1. p \in near /\ \A x \in near : x \in 1 .. bound
      BY <1>5
    <3>2. p \in 1 .. bound /\ q \in 1 .. bound
      BY <3>1
    <3> QED
      BY <3>2
  <2> QED
    BY <2>1, <2>2, <2>3
<1>7. p \in near
  BY <1>5
<1> QED
  BY <1>6, <1>7 DEF weight

\* A segment is not empty, fits, and ends the text or has at least half the width.
LEMMA EndIs ==
    ASSUME NEW text \in Seq(Nat), NEW policy \in Policy, Width(policy) >= 1, NEW start \in Nat
    PROVE  LET end == EndOf(text, policy, start)
           IN  /\ end \in Nat
               /\ start < Len(text) =>
                     /\ end \in start + 1 .. Len(text) /\ end - start <= Width(policy)
                     /\ end = Len(text) \/ end >= start + Width(policy) \div 2
<1> DEFINE n == Len(text)
           width == Width(policy)
           furthest == Least(n, start + Budget(policy) - policy.prefix)
           near == {p \in start + 1 .. furthest :
                       p >= start + (furthest - start) \div 2 /\ text[p] % 4 > 0}
           chosen == CHOOSE p \in near : \A q \in near :
                        text[p] % 4 > text[q] % 4 \/ (text[p] % 4 = text[q] % 4 /\ p >= q)
           end == EndOf(text, policy, start)
<1>1. n \in Nat /\ width \in Int /\ width >= 1 /\ \A p \in 1 .. n : text[p] \in Nat
  BY PolicyNumbers, LenProperties, ElementOfSeq
<1>2. start + Budget(policy) - policy.prefix = start + width
  BY PolicyNumbers DEF Width
<1>3. end = IF furthest = n \/ near = {} THEN furthest ELSE chosen
  BY DEF EndOf
<1>4. near # {} => chosen \in near
  <2> SUFFICES ASSUME near # {} PROVE chosen \in near
    OBVIOUS
  <2>1. furthest \in Int /\ furthest <= n
    BY <1>1, <1>2 DEF Least
  <2>2. near \subseteq 1 .. n
    <3> HIDE DEF furthest
    <3>1. \A p \in start + 1 .. furthest : p \in 1 .. n
      BY <1>1, <2>1
    <3> QED
      BY <3>1
  <2>3. \A p \in near : text[p] \in Nat
    BY <1>1, <2>2
  <2>4. \E p \in near : \A q \in near :
           text[p] % 4 > text[q] % 4 \/ (text[p] % 4 = text[q] % 4 /\ p >= q)
    <3> HIDE DEF near
    <3> QED
      BY <1>1, <2>2, <2>3, StrongestLast
  <2> QED
    BY <2>4
<1>5. \A p \in near : p \in start + 1 .. furthest /\ p >= start + (furthest - start) \div 2
  OBVIOUS
<1> HIDE DEF near, chosen, end, width, n
<1>6. /\ furthest \in Nat /\ furthest <= n /\ furthest <= start + width
      /\ furthest = n \/ furthest = start + width
      /\ start < n => furthest >= start + 1
  BY <1>1, <1>2 DEF Least
<1> HIDE DEF furthest
<1>7. CASE furthest = n
  BY <1>1, <1>3, <1>6, <1>7 DEF end, n, width
<1>8. CASE furthest # n /\ near = {}
  <2>1. end = start + width /\ end = furthest
    BY <1>3, <1>6, <1>8
  <2>2. start + width >= start + width \div 2
    BY <1>1
  <2> QED
    BY <1>1, <1>6, <2>1, <2>2 DEF end, n, width
<1>9. CASE furthest # n /\ near # {}
  <2>1. /\ end \in start + 1 .. furthest /\ end >= start + (furthest - start) \div 2
        /\ furthest = start + width
    BY <1>3, <1>4, <1>5, <1>6, <1>9
  <2>2. furthest - start = width
    BY <1>1, <2>1
  <2>3. end \in Nat /\ end >= start + 1 /\ end <= n /\ end <= start + width
    BY <1>1, <1>6, <2>1
  <2>4. end >= start + width \div 2
    BY <2>1, <2>2
  <2> QED
    BY <1>1, <2>3, <2>4 DEF end, n, width
<1> QED
  BY <1>7, <1>8, <1>9

\* The next segment begins later, repeats no more than it may, and little of the width.
LEMMA StartIs ==
    ASSUME NEW policy \in Policy, Width(policy) >= 1, NEW start \in Nat, NEW end \in Nat
    PROVE  LET next == StartAfter(policy, start, end)
           IN  /\ next \in Nat
               /\ end > start =>
                     /\ next \in start + 1 .. end /\ end - next <= policy.overlap
                     /\ end - next <= Width(policy) \div 4
<1> DEFINE width == Width(policy)
           quarter == width \div 4
           overlap == Least(policy.overlap, quarter)
           next == StartAfter(policy, start, end)
<1>1. width \in Int /\ width >= 1 /\ policy.overlap \in Nat
  BY PolicyNumbers
<1>2. quarter \in Nat
  BY <1>1
<1>3. next = IF end - overlap > start THEN end - overlap ELSE start + 1
  BY DEF StartAfter, Width
<1> HIDE DEF quarter, next
<1>4. overlap \in Nat /\ overlap <= policy.overlap /\ overlap <= quarter
  BY <1>1, <1>2 DEF Least
<1> HIDE DEF overlap
<1>5. next \in Nat
  BY <1>3, <1>4
<1>6. end > start => next \in start + 1 .. end /\ end - next <= overlap
  BY <1>3, <1>4
<1>7. end > start => end - next <= policy.overlap /\ end - next <= quarter
  BY <1>1, <1>2, <1>4, <1>5, <1>6
<1> QED
  BY <1>5, <1>6, <1>7 DEF next, quarter

\* What follows a segment that does not end the text is not empty and ends later.
LEMMA EndsGrow ==
    ASSUME NEW text \in Seq(Nat), NEW policy \in Policy, Width(policy) >= 1,
           NEW start \in Nat, start < Len(text), EndOf(text, policy, start) # Len(text)
    PROVE  LET end == EndOf(text, policy, start)
               next == StartAfter(policy, start, end)
           IN  next \in start + 1 .. Len(text) - 1 /\ EndOf(text, policy, next) > end
<1> DEFINE n == Len(text)
           width == Width(policy)
           end == EndOf(text, policy, start)
           next == StartAfter(policy, start, end)
           later == EndOf(text, policy, next)
<1>1. n \in Nat /\ width \in Int /\ width >= 1
  BY PolicyNumbers, LenProperties
<1>2. end \in start + 1 .. n /\ end # n /\ end \in Nat
  BY EndIs
<1> HIDE DEF end
<1>3. next \in Nat /\ next \in start + 1 .. end /\ end - next <= width \div 4
  BY <1>1, <1>2, StartIs
<1> HIDE DEF next
<1>4. next < n
  BY <1>1, <1>2, <1>3
<1>5. /\ later \in Nat /\ later \in next + 1 .. n
      /\ later = n \/ later >= next + width \div 2
  BY <1>3, <1>4, EndIs
<1> HIDE DEF later, width, n
<1>6. later > end
  <2>1. CASE later = n
    BY <1>1, <1>2, <2>1
  <2>2. CASE later >= next + width \div 2
    <3>1. CASE width = 1
      BY <1>2, <1>3, <1>5, <3>1
    <3>2. CASE width >= 2
      <4>1. width \div 2 > width \div 4
        BY <1>1, <3>2
      <4> QED
        BY <1>1, <1>2, <1>3, <1>5, <2>2, <4>1
    <3> QED
      BY <1>1, <3>1, <3>2
  <2> QED
    BY <1>5, <2>1, <2>2
<1> QED
  BY <1>1, <1>2, <1>3, <1>4, <1>6 DEF end, next, later, n

\* Where the segments begin, one after another
Beginnings(text, policy, d, base) ==
    CHOOSE b : b = [n \in 0 .. d |->
        IF n = 0 THEN base ELSE StartAfter(policy, b[n - 1], EndOf(text, policy, b[n - 1]))]

GoesOn(text, policy, V) == \A v \in V : StartAfter(policy, v, EndOf(text, policy, v)) \in V
Begun(text, policy, d, V, base) ==
    LET b == Beginnings(text, policy, d, base)
    IN  /\ \A n \in 0 .. d : b[n] \in V
        /\ b[0] = base
        /\ \A n \in 1 .. d :
              b[n] = StartAfter(policy, b[n - 1], EndOf(text, policy, b[n - 1]))

LEMMA BeginningsAre ==
    ASSUME NEW text, NEW policy, NEW d \in Nat, NEW V, NEW base \in V, GoesOn(text, policy, V)
    PROVE  Begun(text, policy, d, V, base)
<1> DEFINE next(v) == StartAfter(policy, v, EndOf(text, policy, v))
           step == [k \in 1 .. d |-> [v \in V |-> next(v)]]
           Recursive(b) == b = [n \in 0 .. d |-> IF n = 0 THEN base ELSE next(b[n - 1])]
<1>1. step \in [1 .. d -> [V -> V]]
  BY DEF GoesOn
<1> HIDE DEF step
<1>2. PICK f \in [0 .. d -> V] : f[0] = base /\ \A k \in 1 .. d : f[k] = step[k][f[k - 1]]
  BY <1>1, Recursion
<1>3. \E b : Recursive(b)
  <2>1. ASSUME NEW k \in 1 .. d PROVE f[k] = next(f[k - 1])
    <3>1. k - 1 \in 0 .. d
      OBVIOUS
    <3>2. f[k - 1] \in V
      BY <3>1
    <3> QED
      BY <1>2, <3>2 DEF step
  <2> HIDE DEF next
  <2>2. \A k \in 0 .. d : k = 0 \/ k \in 1 .. d
    OBVIOUS
  <2>3. \A k \in 0 .. d : f[k] = IF k = 0 THEN base ELSE next(f[k - 1])
    BY <1>2, <2>1, <2>2
  <2>4. f = [k \in 0 .. d |-> f[k]]
    OBVIOUS
  <2>5. Recursive(f)
    BY <2>3, <2>4
  <2> QED
    BY <2>5
<1> DEFINE b == Beginnings(text, policy, d, base)
<1>4. Recursive(b)
  <2>1. b = CHOOSE c : Recursive(c)
    BY DEF Beginnings
  <2> HIDE DEF Recursive, b
  <2> QED
    BY <1>3, <2>1
<1>5. \A v \in V : next(v) \in V
  BY DEF GoesOn
<1> HIDE DEF b, next
<1>6. \A n \in 0 .. d : b[n] = IF n = 0 THEN base ELSE next(b[n - 1])
  BY <1>4
<1> HIDE DEF Recursive
<1>7. \A n \in 1 .. d : n \in 0 .. d /\ n # 0
  OBVIOUS
<1>8. b[0] = base /\ \A n \in 1 .. d : b[n] = next(b[n - 1])
  <2>1. 0 \in 0 .. d
    OBVIOUS
  <2> QED
    BY <1>6, <1>7, <2>1
<1> DEFINE Typed == {n \in 0 .. d : b[n] \in V}
<1>9. 0 \in Typed
  BY <1>8
<1>10. \A n \in 0 .. d : n < d /\ n \in Typed => n + 1 \in Typed
  <2> TAKE n \in 0 .. d
  <2> HAVE n < d /\ n \in Typed
  <2>1. n + 1 \in 1 .. d /\ n + 1 \in 0 .. d /\ (n + 1) - 1 = n
    OBVIOUS
  <2>2. b[n + 1] = next(b[n]) /\ b[n] \in V
    BY <1>8, <2>1
  <2> QED
    BY <1>5, <2>1, <2>2
<1> HIDE DEF Typed
<1>11. \A n \in 0 .. d : n \in Typed
  BY <1>9, <1>10, InductionUpTo
<1>12. \A n \in 0 .. d : b[n] \in V
  BY <1>11 DEF Typed
<1> QED
  BY <1>8, <1>12 DEF next, b, Begun

LEMMA TheBeginnings ==
    ASSUME NEW text \in Seq(Nat), NEW policy \in Policy, Width(policy) >= 1, NEW d \in Nat
    PROVE  LET b == Beginnings(text, policy, d, 0)
           IN  /\ \A n \in 0 .. d : b[n] \in Nat
               /\ b[0] = 0
               /\ \A n \in 1 .. d :
                     b[n] = StartAfter(policy, b[n - 1], EndOf(text, policy, b[n - 1]))
<1> DEFINE V == Nat
           base == 0
<1>1. base \in V /\ GoesOn(text, policy, V)
  BY EndIs, StartIs DEF GoesOn
<1> HIDE DEF V, base
<1>2. Begun(text, policy, d, V, base)
  BY <1>1, BeginningsAre
<1> QED
  BY <1>2 DEF Begun, V, base

\* The first segment that ends the text, and those before it
LEMMA LastIs ==
    ASSUME NEW text \in Seq(Nat), NEW policy \in Policy, Width(policy) >= 1, Len(text) >= 1
    PROVE  LET b == Beginnings(text, policy, Len(text), 0)
           IN  \E last \in 0 .. Len(text) :
                  /\ EndOf(text, policy, b[last]) = Len(text)
                  /\ \A m \in 0 .. last - 1 : EndOf(text, policy, b[m]) # Len(text)
<1> DEFINE d == Len(text)
           b == Beginnings(text, policy, d, 0)
           ends(n) == EndOf(text, policy, b[n]) = d
           F == {n \in 0 .. d : ends(n)}
<1>1. d \in Nat /\ d >= 1
  BY LenProperties
<1> HIDE DEF d
<1>3. /\ \A n \in 0 .. d : b[n] \in Nat
      /\ b[0] = 0
      /\ \A n \in 1 .. d : b[n] = StartAfter(policy, b[n - 1], EndOf(text, policy, b[n - 1]))
  BY <1>1, TheBeginnings
<1> HIDE DEF b
<1>4. F # {}
  <2> SUFFICES ASSUME F = {} PROVE FALSE
    OBVIOUS
  <2> DEFINE Later == {n \in 0 .. d : b[n] \in n .. d - 1}
  <2>1. \A n \in 0 .. d : ~ends(n)
    OBVIOUS
  <2>2. 0 \in Later
    BY <1>1, <1>3
  <2>3. \A n \in 0 .. d : n < d /\ n \in Later => n + 1 \in Later
    <3> TAKE n \in 0 .. d
    <3> HAVE n < d /\ n \in Later
    <3>1. n + 1 \in 1 .. d /\ n + 1 \in 0 .. d /\ (n + 1) - 1 = n /\ n \in Nat
      BY <1>1
    <3> DEFINE start == b[n]
    <3>2. start \in Nat /\ start < Len(text) /\ EndOf(text, policy, start) # Len(text)
          /\ start >= n
      BY <1>1, <1>3, <2>1, <3>1 DEF d
    <3>3. b[n + 1] = StartAfter(policy, start, EndOf(text, policy, start))
      BY <1>3, <3>1
    <3> HIDE DEF start
    <3>4. b[n + 1] \in start + 1 .. Len(text) - 1
      BY <3>2, <3>3, EndsGrow
    <3>5. b[n + 1] \in n + 1 .. d - 1
      BY <1>1, <3>1, <3>2, <3>4 DEF d
    <3> QED
      BY <3>1, <3>5
  <2> HIDE DEF Later
  <2>4. \A n \in 0 .. d : n \in Later
    BY <1>1, <2>2, <2>3, InductionUpTo
  <2>5. d \in 0 .. d /\ ~(b[d] \in d .. d - 1)
    BY <1>1
  <2> QED
    BY <2>4, <2>5 DEF Later
<1>5. F \in SUBSET Nat
  OBVIOUS
<1> HIDE DEF F
<1>6. PICK last \in F : \A m \in F : last <= m
  BY <1>4, <1>5, Minimum
<1>7. last \in 0 .. d /\ ends(last)
  BY <1>6 DEF F
<1>8. ASSUME NEW m \in 0 .. last - 1 PROVE ~ends(m)
  <2>1. m \in 0 .. d /\ ~(last <= m)
    BY <1>1, <1>7
  <2>2. m \notin F
    BY <1>6, <2>1
  <2> QED
    BY <2>1, <2>2 DEF F
<1> QED
  BY <1>7, <1>8 DEF d, b

\* The segments of a text: the first begins with it, each further one after the
\* end of its predecessor or before, the last one ends it.
Tiled(text, policy, ranges, n) ==
    /\ n \in Nat \ {0} /\ ranges = [i \in 1 .. n |-> ranges[i]]
    /\ \A i \in 1 .. n :
          /\ ranges[i].start \in Nat /\ ranges[i].start < Len(text)
          /\ ranges[i].end = EndOf(text, policy, ranges[i].start)
          /\ ranges[i] = [start |-> ranges[i].start, end |-> ranges[i].end]
    /\ ranges[1].start = 0 /\ ranges[n].end = Len(text)
    /\ \A i \in 1 .. n - 1 :
          /\ ranges[i].end # Len(text)
          /\ ranges[i + 1].start = StartAfter(policy, ranges[i].start, ranges[i].end)

LEMMA RangesAre ==
    ASSUME NEW text \in Seq(Nat), NEW policy \in Policy, Width(policy) >= 1, Len(text) >= 1
    PROVE  \E n \in Nat : Tiled(text, policy, Ranges(text, policy), n)
<1> DEFINE d == Len(text)
           b == Beginnings(text, policy, Len(text), 0)
           first(n) == /\ EndOf(text, policy, b[n]) = Len(text)
                       /\ \A m \in 0 .. n - 1 : EndOf(text, policy, b[m]) # Len(text)
           last == CHOOSE n \in 0 .. Len(text) : first(n)
           ranges == Ranges(text, policy)
<1>1. ranges = [i \in 1 .. last + 1 |->
                   [start |-> b[i - 1], end |-> EndOf(text, policy, b[i - 1])]]
  BY DEF Ranges, RangesFrom, Beginnings
<1>2. \E n \in 0 .. Len(text) : first(n)
  BY LastIs
<1>3. last \in 0 .. Len(text) /\ first(last)
  <2> HIDE DEF first
  <2> QED
    BY <1>2
<1> HIDE DEF last
<1>4. d \in Nat /\ d >= 1 /\ last \in Nat /\ last <= d
  BY <1>3, LenProperties
<1>5. /\ \A n \in 0 .. d : b[n] \in Nat
      /\ b[0] = 0
      /\ \A n \in 1 .. d : b[n] = StartAfter(policy, b[n - 1], EndOf(text, policy, b[n - 1]))
  BY <1>4, TheBeginnings
<1> HIDE DEF b
<1> DEFINE Within == {n \in 0 .. last : b[n] < d}
<1>6. 0 \in Within
  BY <1>4, <1>5
<1>7. \A n \in 0 .. last : n < last /\ n \in Within => n + 1 \in Within
  <2> TAKE n \in 0 .. last
  <2> HAVE n < last /\ n \in Within
  <2>1. n + 1 \in 1 .. d /\ n + 1 \in 0 .. last /\ (n + 1) - 1 = n /\ n \in 0 .. d
        /\ n \in 0 .. last - 1
    BY <1>4
  <2> DEFINE start == b[n]
  <2>2. start \in Nat /\ start < Len(text) /\ EndOf(text, policy, start) # Len(text)
    BY <1>3, <1>5, <2>1
  <2>3. b[n + 1] = StartAfter(policy, start, EndOf(text, policy, start))
    BY <1>5, <2>1
  <2> HIDE DEF start
  <2>4. b[n + 1] \in start + 1 .. Len(text) - 1
    BY <2>2, <2>3, EndsGrow
  <2>5. b[n + 1] < d
    BY <1>4, <2>2, <2>4
  <2> QED
    BY <2>1, <2>5
<1> HIDE DEF Within
<1>8. \A n \in 0 .. last : n \in Within
  BY <1>4, <1>6, <1>7, InductionUpTo
<1>9. \A n \in 0 .. last : b[n] \in Nat /\ b[n] < d
  BY <1>4, <1>5, <1>8 DEF Within
<1> HIDE DEF ranges, d
<1>10. ranges = [i \in 1 .. last + 1 |-> ranges[i]]
  BY <1>1
<1>11. \A i \in 1 .. last + 1 :
          ranges[i].start = b[i - 1] /\ ranges[i].end = EndOf(text, policy, b[i - 1])
  BY <1>1
<1>12. \A i \in 1 .. last + 1 : i - 1 \in 0 .. last
  BY <1>4
<1>13. \A i \in 1 .. last + 1 :
          /\ ranges[i].start \in Nat /\ ranges[i].start < d
          /\ ranges[i].end = EndOf(text, policy, ranges[i].start)
          /\ ranges[i] = [start |-> ranges[i].start, end |-> ranges[i].end]
  BY <1>1, <1>9, <1>11, <1>12
<1>14. ranges[1].start = 0 /\ ranges[last + 1].end = d
  <2>1. 1 \in 1 .. last + 1 /\ last + 1 \in 1 .. last + 1 /\ 1 - 1 = 0 /\ (last + 1) - 1 = last
    BY <1>4
  <2> QED
    BY <1>3, <1>5, <1>11, <2>1 DEF d
<1>15. ASSUME NEW i \in 1 .. (last + 1) - 1
       PROVE  /\ ranges[i].end # d
              /\ ranges[i + 1].start = StartAfter(policy, ranges[i].start, ranges[i].end)
  <2>1. /\ i \in 1 .. last + 1 /\ i + 1 \in 1 .. last + 1 /\ (i + 1) - 1 = i
        /\ i - 1 \in 0 .. last - 1 /\ i \in 1 .. d
    BY <1>4
  <2>2. ranges[i].end # d
    BY <1>3, <1>11, <2>1 DEF d
  <2>3. ranges[i + 1].start = b[i]
    BY <1>11, <2>1
  <2>4. b[i] = StartAfter(policy, b[i - 1], EndOf(text, policy, b[i - 1]))
    BY <1>5, <2>1
  <2> QED
    BY <1>11, <2>1, <2>2, <2>3, <2>4
<1>16. last + 1 \in Nat \ {0}
  BY <1>4
<1>17. Tiled(text, policy, ranges, last + 1)
  <2> HIDE DEF first
  <2> QED
    BY <1>10, <1>13, <1>14, <1>15, <1>16 DEF Tiled, d
<1> QED
  BY <1>16, <1>17 DEF ranges

\* The segments of a text cover it, each within the budget and with no more
\* overlap than the policy allows.
LEMMA RangesCover ==
    ASSUME NEW text \in Seq(Nat), NEW policy \in Policy, Width(policy) >= 1, Len(text) >= 1
    PROVE  /\ Covers(text, policy)
           /\ Ranges(text, policy) \in Seq([start : Nat, end : Nat])
           /\ \A i \in DOMAIN Ranges(text, policy) : Ranges(text, policy)[i].end <= Len(text)
<1> DEFINE d == Len(text)
           r == Ranges(text, policy)
<1>1. PICK n \in Nat : Tiled(text, policy, r, n)
  BY RangesAre
<1>2. d \in Nat /\ Width(policy) \in Int /\ policy.prefix \in Nat /\ policy.overlap \in Nat
      /\ Budget(policy) = Width(policy) + policy.prefix
  BY LenProperties, PolicyNumbers DEF Width
<1> HIDE DEF r
<1>3. /\ n \in Nat \ {0} /\ r = [i \in 1 .. n |-> r[i]] /\ DOMAIN r = 1 .. n
      /\ r[1].start = 0 /\ r[n].end = d
  BY <1>1 DEF Tiled
<1>4. ASSUME NEW i \in 1 .. n
      PROVE  /\ r[i].start \in Nat /\ r[i].end \in Nat /\ r[i].start < r[i].end
             /\ r[i].end <= d /\ r[i].end - r[i].start <= Width(policy)
  <2> DEFINE start == r[i].start
  <2>1. start \in Nat /\ start < Len(text) /\ r[i].end = EndOf(text, policy, start)
    BY <1>1 DEF Tiled
  <2> HIDE DEF start
  <2>2. r[i].end \in Nat /\ r[i].end \in start + 1 .. Len(text)
        /\ r[i].end - start <= Width(policy)
    BY <2>1, EndIs
  <2> QED
    BY <1>2, <2>1, <2>2 DEF start
<1>5. ASSUME NEW i \in 1 .. n - 1
      PROVE  /\ r[i + 1].start <= r[i].end /\ r[i].end - r[i + 1].start <= policy.overlap
             /\ r[i + 1].start > r[i].start /\ r[i + 1].end > r[i].end
  <2> DEFINE start == r[i].start
             end == r[i].end
             next == r[i + 1].start
  <2>1. i \in 1 .. n /\ i + 1 \in 1 .. n
    BY <1>3
  <2>2. /\ end # Len(text) /\ end = EndOf(text, policy, start)
        /\ next = StartAfter(policy, start, end)
        /\ r[i + 1].end = EndOf(text, policy, next)
    BY <1>1, <2>1 DEF Tiled
  <2>3. start \in Nat /\ end \in Nat /\ end > start /\ start < Len(text)
    BY <1>2, <1>4, <2>1
  <2> HIDE DEF start, end, next
  <2>4. next \in start + 1 .. end /\ end - next <= policy.overlap /\ next \in Nat
    BY <2>2, <2>3, StartIs
  <2>5. EndOf(text, policy, next) > end
    BY <2>2, <2>3, EndsGrow
  <2> QED
    BY <2>2, <2>3, <2>4, <2>5 DEF start, end, next
<1>6. r \in Seq([start : Nat, end : Nat]) /\ Len(r) = n
  <2>1. ASSUME NEW i \in 1 .. n PROVE r[i] \in [start : Nat, end : Nat]
    <3> DEFINE start == r[i].start
               end == r[i].end
    <3>1. r[i] = [start |-> start, end |-> end]
      BY <1>1 DEF Tiled
    <3>2. start \in Nat /\ end \in Nat
      BY <1>4
    <3> HIDE DEF start, end
    <3> QED
      BY <3>1, <3>2
  <2>2. r \in [1 .. n -> [start : Nat, end : Nat]]
    BY <1>3, <2>1
  <2>3. r \in Seq([start : Nat, end : Nat])
    BY <1>3, <2>2, SeqDef
  <2> QED
    BY <1>3, <2>3, LenProperties
<1>7. ASSUME NEW i \in 1 .. n, i > 1
      PROVE  /\ r[i].start <= r[i - 1].end /\ r[i - 1].end - r[i].start <= policy.overlap
             /\ r[i].start > r[i - 1].start /\ r[i].end > r[i - 1].end
  <2>1. i - 1 \in 1 .. n - 1 /\ (i - 1) + 1 = i
    BY <1>3, <1>7
  <2> QED
    BY <1>5, <2>1
<1>8. ASSUME NEW i \in 1 .. n
      PROVE r[i].end - r[i].start + policy.prefix \in 1 .. Budget(policy)
  <2> DEFINE start == r[i].start
             end == r[i].end
             width == Width(policy)
             prefix == policy.prefix
  <2>1. start \in Nat /\ end \in Nat /\ start < end /\ end - start <= width
        /\ width \in Int /\ prefix \in Nat
    BY <1>2, <1>4
  <2> HIDE DEF start, end, width, prefix
  <2>2. end - start + prefix \in 1 .. width + prefix
    BY <2>1
  <2> QED
    BY <1>2, <2>2 DEF start, end, width, prefix
<1>9. Covers(text, policy)
  BY <1>3, <1>6, <1>7, <1>8 DEF Covers, Cover, Last, r
<1> QED
  BY <1>3, <1>4, <1>6, <1>9 DEF r

-----------------------------------------------------------------------------
(* Segments of a version *)

Piece == [key : Nat \X Nat, text : Seq(Nat)]

\* Keys tell the segments apart.
KeyedBy(pieces) == \A s, t \in pieces : s.key = t.key => s = t

LEMMA SegmentsOfAre ==
    ASSUME NEW chunk \in Chunk, NEW policy \in Policy,
           Oversized(chunk.text, policy) => Width(policy) >= 1
    PROVE  LET s == SegmentsOf(chunk, policy)
           IN  /\ s \in Seq(Piece)
               /\ \A p \in ToSet(s) : p.key[1] = chunk.key
               /\ KeyedBy(ToSet(s))
<1> DEFINE text == chunk.text
           s == SegmentsOf(chunk, policy)
           ranges == Ranges(text, policy)
<1>1. text \in Seq(Nat) /\ chunk.key \in Nat
  BY DEF Chunk
<1>2. CASE ~Oversized(text, policy)
  <2> DEFINE p == [key |-> <<chunk.key, 0>>, text |-> text]
  <2>1. s = <<p>>
    BY <1>2 DEF SegmentsOf
  <2>2. p \in Piece /\ p.key[1] = chunk.key
    BY <1>1 DEF Piece
  <2> HIDE DEF p, s
  <2>3. s \in Seq(Piece) /\ ToSet(s) = {p}
    BY <2>1, <2>2 DEF ToSet
  <2>4. KeyedBy(ToSet(s))
    BY <2>3 DEF KeyedBy
  <2> QED
    BY <2>2, <2>3, <2>4 DEF s
<1>3. CASE Oversized(text, policy)
  <2> DEFINE piece(i) == [key |-> <<chunk.key, i>>,
                          text |-> SubSeq(text, ranges[i].start + 1, ranges[i].end)]
             n == Len(ranges)
  <2>1. Width(policy) >= 1 /\ Len(text) >= 1
    <3>1. Width(policy) >= 1
      BY <1>3
    <3>2. Len(text) + policy.prefix > Budget(policy)
      BY <1>3 DEF Oversized
    <3>3. /\ Len(text) \in Nat /\ Budget(policy) \in Int /\ policy.prefix \in Nat
          /\ Width(policy) = Budget(policy) - policy.prefix
      BY <1>1, LenProperties, PolicyNumbers DEF Width
    <3> QED
      BY <3>1, <3>2, <3>3
  <2>2. ranges \in Seq([start : Nat, end : Nat])
        /\ \A i \in DOMAIN ranges : ranges[i].end <= Len(text)
    BY <1>1, <2>1, RangesCover
  <2>3. s = [i \in DOMAIN ranges |-> piece(i)]
    BY <1>3 DEF SegmentsOf, Cut
  <2> HIDE DEF ranges, s
  <2>4. n \in Nat /\ DOMAIN ranges = 1 .. n
    BY <2>2, LenProperties
  <2> HIDE DEF n
  <2>5. ASSUME NEW i \in 1 .. n PROVE piece(i) \in Piece
    <3> DEFINE from == ranges[i].start
               to == ranges[i].end
    <3>1. from \in Nat /\ to \in Nat /\ to <= Len(text)
      <4>1. i \in 1 .. Len(ranges) /\ i \in DOMAIN ranges
        BY <2>4 DEF n
      <4>2. ranges[i] \in [start : Nat, end : Nat]
        BY <2>2, <4>1, ElementOfSeq
      <4> QED
        BY <2>2, <4>1, <4>2
    <3> HIDE DEF from, to
    <3>2. SubSeq(text, from + 1, to) \in Seq(Nat)
      BY <1>1, <3>1, SubSeqProperties
    <3>3. SubSeq(text, ranges[i].start + 1, ranges[i].end) \in Seq(Nat)
      BY <3>2 DEF from, to
    <3>4. <<chunk.key, i>> \in Nat \X Nat
      BY <1>1, <2>4
    <3> QED
      BY <3>3, <3>4 DEF Piece
  <2>6. s \in [1 .. n -> Piece]
    BY <2>3, <2>4, <2>5
  <2>7. s \in Seq(Piece)
    BY <2>4, <2>6, SeqDef
  <2>8. DOMAIN s = 1 .. n /\ \A i \in 1 .. n : s[i].key = <<chunk.key, i>>
    BY <2>3, <2>4
  <2>9. \A p \in ToSet(s) : p.key[1] = chunk.key
    BY <2>8 DEF ToSet
  <2>10. KeyedBy(ToSet(s))
    <3> SUFFICES ASSUME NEW i \in 1 .. n, NEW j \in 1 .. n, s[i].key = s[j].key
                 PROVE  s[i] = s[j]
      BY <2>8 DEF KeyedBy, ToSet
    <3>1. <<chunk.key, i>> = <<chunk.key, j>>
      BY <2>8
    <3>2. i = j
      BY <3>1
    <3> QED
      BY <3>2
  <2> QED
    BY <2>7, <2>9, <2>10 DEF s
<1> QED
  BY <1>2, <1>3

\* Sequences put one behind another
Joined(chunks, policy, d, base) ==
    CHOOSE f : f = [n \in 0 .. d |->
        IF n = 0 THEN base ELSE f[n - 1] \o SegmentsOf(chunks[n], policy)]
Joins(chunks, policy, d, V) ==
    \A n \in 1 .. d : \A v \in V : v \o SegmentsOf(chunks[n], policy) \in V

LEMMA JoinedStays ==
    ASSUME NEW chunks, NEW policy, NEW d \in Nat, NEW V, NEW base \in V,
           Joins(chunks, policy, d, V)
    PROVE  Joined(chunks, policy, d, base)[d] \in V
<1> DEFINE next(n, v) == v \o SegmentsOf(chunks[n], policy)
           step == [n \in 1 .. d |-> [v \in V |-> next(n, v)]]
           Recursive(f) == f = [n \in 0 .. d |-> IF n = 0 THEN base ELSE next(n, f[n - 1])]
<1>1. step \in [1 .. d -> [V -> V]]
  BY DEF Joins
<1> HIDE DEF step
<1>2. PICK f \in [0 .. d -> V] : f[0] = base /\ \A k \in 1 .. d : f[k] = step[k][f[k - 1]]
  BY <1>1, Recursion
<1>3. \E g : Recursive(g)
  <2>1. ASSUME NEW k \in 1 .. d PROVE f[k] = next(k, f[k - 1])
    <3>1. k - 1 \in 0 .. d
      OBVIOUS
    <3>2. f[k - 1] \in V
      BY <3>1
    <3> QED
      BY <1>2, <3>2 DEF step
  <2> HIDE DEF next
  <2>2. \A k \in 0 .. d : k = 0 \/ k \in 1 .. d
    OBVIOUS
  <2>3. \A k \in 0 .. d : f[k] = IF k = 0 THEN base ELSE next(k, f[k - 1])
    BY <1>2, <2>1, <2>2
  <2>4. f = [k \in 0 .. d |-> f[k]]
    OBVIOUS
  <2>5. Recursive(f)
    BY <2>3, <2>4
  <2> QED
    BY <2>5
<1> DEFINE g == Joined(chunks, policy, d, base)
<1>4. Recursive(g)
  <2>1. g = CHOOSE h : Recursive(h)
    BY DEF Joined
  <2> HIDE DEF Recursive, g
  <2> QED
    BY <1>3, <2>1
<1>5. \A n \in 1 .. d : \A v \in V : next(n, v) \in V
  BY DEF Joins
<1> HIDE DEF g, next
<1>6. \A n \in 0 .. d : g[n] = IF n = 0 THEN base ELSE next(n, g[n - 1])
  BY <1>4
<1> HIDE DEF Recursive
<1> DEFINE Typed == {n \in 0 .. d : g[n] \in V}
<1>7. 0 \in Typed
  <2>1. 0 \in 0 .. d
    OBVIOUS
  <2> QED
    BY <1>6, <2>1
<1>8. \A n \in 0 .. d : n < d /\ n \in Typed => n + 1 \in Typed
  <2> TAKE n \in 0 .. d
  <2> HAVE n < d /\ n \in Typed
  <2>1. n + 1 \in 1 .. d /\ n + 1 \in 0 .. d /\ n + 1 # 0 /\ (n + 1) - 1 = n
    OBVIOUS
  <2>2. g[n + 1] = next(n + 1, g[n]) /\ g[n] \in V
    BY <1>6, <2>1
  <2> QED
    BY <1>5, <2>1, <2>2
<1> HIDE DEF Typed
<1>9. \A n \in 0 .. d : n \in Typed
  BY <1>7, <1>8, InductionUpTo
<1>10. d \in 0 .. d
  OBVIOUS
<1> QED
  BY <1>9, <1>10 DEF Typed, g

\* A policy by which every chunk of a version can be split
Splits(analyzer, version, policy) ==
    /\ analyzer \in Analyzers /\ version \in Versions /\ policy \in Policy
    /\ \A c \in ToSet(Analyses[analyzer][version]) :
          Oversized(c.text, policy) => Width(policy) >= 1

\* The chunks of a version
LEMMA ChunksAre ==
    ASSUME NEW analyzer \in Analyzers, NEW version \in Versions
    PROVE  LET chunks == Analyses[analyzer][version]
           IN  /\ chunks \in Seq(Chunk) /\ Len(chunks) \in Nat
               /\ \A n \in 1 .. Len(chunks) : chunks[n] \in Chunk /\ chunks[n] \in ToSet(chunks)
               /\ \A c \in ToSet(chunks) : c \in Chunk
               /\ \A c, d \in ToSet(chunks) : c.key = d.key => c = d
<1> DEFINE chunks == Analyses[analyzer][version]
<1>1. chunks \in Seq(Chunk) /\ \A c, d \in ToSet(chunks) : c.key = d.key => c = d
  BY IndexingBounds
<1> HIDE DEF chunks
<1>2. Len(chunks) \in Nat /\ DOMAIN chunks = 1 .. Len(chunks)
  BY <1>1, LenProperties
<1>3. \A n \in 1 .. Len(chunks) : chunks[n] \in Chunk
  BY <1>1, ElementOfSeq
<1>4. /\ \A n \in 1 .. Len(chunks) : chunks[n] \in ToSet(chunks)
      /\ \A c \in ToSet(chunks) : c \in Chunk
  BY <1>2, <1>3 DEF ToSet
<1> QED
  BY <1>1, <1>2, <1>3, <1>4 DEF chunks

\* The segments of a version are told apart by their keys, and an oversized
\* chunk is covered by its own.
LEMMA SegmentsAre ==
    ASSUME NEW analyzer, NEW version, NEW policy, Splits(analyzer, version, policy)
    PROVE  LET s == Segments(analyzer, version, policy)
           IN  /\ s \in Seq(Piece) /\ KeyedBy(ToSet(s))
               /\ \A c \in ToSet(Analyses[analyzer][version]) :
                     Oversized(c.text, policy) => Covers(c.text, policy)
<1> DEFINE chunks == Analyses[analyzer][version]
           d == Len(chunks)
           From == {p \in Piece : \E c \in ToSet(chunks) : p \in ToSet(SegmentsOf(c, policy))}
           V == Seq(From)
           base == <<>>
           s == Segments(analyzer, version, policy)
<1>1. /\ analyzer \in Analyzers /\ version \in Versions /\ policy \in Policy
      /\ \A c \in ToSet(chunks) : Oversized(c.text, policy) => Width(policy) >= 1
  BY DEF Splits
<1>2. /\ d \in Nat
      /\ \A n \in 1 .. d : chunks[n] \in ToSet(chunks)
      /\ \A c \in ToSet(chunks) : c \in Chunk
      /\ \A b, c \in ToSet(chunks) : b.key = c.key => b = c
  BY <1>1, ChunksAre
<1> HIDE DEF chunks
<1>3. ASSUME NEW c \in ToSet(chunks)
      PROVE  /\ SegmentsOf(c, policy) \in Seq(Piece)
             /\ \A p \in ToSet(SegmentsOf(c, policy)) : p.key[1] = c.key
             /\ KeyedBy(ToSet(SegmentsOf(c, policy)))
  BY <1>1, <1>2, SegmentsOfAre
<1>4. base \in V
  BY EmptySeq
<1>5. Joins(chunks, policy, d, V)
  <2>1. ASSUME NEW n \in 1 .. d PROVE SegmentsOf(chunks[n], policy) \in V
    <3> DEFINE c == chunks[n]
               t == SegmentsOf(c, policy)
    <3>1. c \in ToSet(chunks) /\ t \in Seq(Piece)
      BY <1>2, <1>3
    <3> HIDE DEF c
    <3>2. ASSUME NEW i \in 1 .. Len(t) PROVE t[i] \in From
      <4>1. t[i] \in Piece
        BY <3>1, ElementOfSeq
      <4>2. t[i] \in ToSet(t)
        BY <3>1, LenProperties DEF ToSet
      <4> HIDE DEF t
      <4>3. \E b \in ToSet(chunks) : t[i] \in ToSet(SegmentsOf(b, policy))
        BY <3>1, <4>2 DEF t
      <4> QED
        BY <4>1, <4>3
    <3> HIDE DEF t, From
    <3>3. t \in Seq(From)
      <4>1. DOMAIN t = 1 .. Len(t) /\ Len(t) \in Nat /\ t = [i \in 1 .. Len(t) |-> t[i]]
        BY <3>1, LenProperties, SeqDef
      <4>2. t \in [1 .. Len(t) -> From]
        BY <3>2, <4>1
      <4> QED
        BY <4>1, <4>2, SeqDef
    <3> QED
      BY <3>3 DEF t, c
  <2> HIDE DEF From
  <2>2. ASSUME NEW n \in 1 .. d, NEW v \in V PROVE v \o SegmentsOf(chunks[n], policy) \in V
    BY <2>1, ConcatProperties
  <2> QED
    BY <2>2 DEF Joins
<1>6. s = Joined(chunks, policy, d, base)[d]
  BY DEF Segments, Joined, chunks
<1> HIDE DEF V, base, d, s
<1>7. s \in V
  BY <1>2, <1>4, <1>5, <1>6, JoinedStays
<1> HIDE DEF From
<1>8. s \in Seq(From) /\ ToSet(s) \subseteq From
  <2>1. s \in Seq(From)
    BY <1>7 DEF V
  <2> QED
    BY <2>1, LenProperties, ElementOfSeq DEF ToSet
<1>9. s \in Seq(Piece)
  <2>1. From \subseteq Piece
    BY DEF From
  <2> QED
    BY <1>8, <2>1, SeqDef
<1>10. KeyedBy(ToSet(s))
  <2> SUFFICES ASSUME NEW p \in ToSet(s), NEW q \in ToSet(s), p.key = q.key PROVE p = q
    BY DEF KeyedBy
  <2>1. PICK b \in ToSet(chunks) : p \in ToSet(SegmentsOf(b, policy))
    BY <1>8 DEF From
  <2>2. PICK c \in ToSet(chunks) : q \in ToSet(SegmentsOf(c, policy))
    BY <1>8 DEF From
  <2>3. p.key[1] = b.key /\ q.key[1] = c.key
    BY <1>3, <2>1, <2>2
  <2>4. b = c
    BY <1>2, <2>3
  <2> QED
    BY <1>3, <2>1, <2>2, <2>4 DEF KeyedBy
<1>11. ASSUME NEW c \in ToSet(chunks), Oversized(c.text, policy) PROVE Covers(c.text, policy)
  <2> DEFINE text == c.text
  <2>1. text \in Seq(Nat)
    BY <1>2 DEF Chunk
  <2>2. Width(policy) >= 1 /\ Len(text) + policy.prefix > Budget(policy)
    BY <1>1, <1>11 DEF Oversized
  <2>3. /\ Len(text) \in Nat /\ Budget(policy) \in Int /\ policy.prefix \in Nat
        /\ Width(policy) = Budget(policy) - policy.prefix
    BY <1>1, <2>1, LenProperties, PolicyNumbers DEF Width
  <2> HIDE DEF text
  <2>4. Len(text) >= 1
    BY <2>2, <2>3
  <2>5. Covers(text, policy)
    BY <1>1, <2>1, <2>2, <2>4, RangesCover
  <2> QED
    BY <2>5 DEF text
<1> QED
  BY <1>9, <1>10, <1>11 DEF s, chunks

-----------------------------------------------------------------------------
(* What is to be embedded *)

\* Members of a sequence at chosen places, in their order
LEMMA SelectedAre ==
    ASSUME NEW W, NEW s \in Seq(W), NEW places \in SUBSET (1 .. Len(s))
    PROVE  LET order == InOrder([i \in places |-> {j \in places : j < i}])
               c == [k \in DOMAIN order |-> s[order[k]]]
           IN  c \in Seq(W) /\ ToSet(c) = {s[i] : i \in places}
<1> DEFINE ahead == [i \in places |-> {j \in places : j < i}]
           order == InOrder(ahead)
           n == Cardinality(DOMAIN ahead)
           c == [k \in DOMAIN order |-> s[order[k]]]
<1>1. Len(s) \in Nat /\ \A i \in 1 .. Len(s) : s[i] \in W
  BY LenProperties, ElementOfSeq
<1>2. \A i \in places : i \in Nat /\ i \in 1 .. Len(s)
  BY <1>1
<1>3. DOMAIN ahead = places /\ IsFiniteSet(DOMAIN ahead)
  <2>1. IsFiniteSet(1 .. Len(s))
    BY <1>1, FS_Interval
  <2> QED
    BY <2>1, FS_Subset
<1>4. \A i \in places : ahead[i] = {j \in places : j < i}
  OBVIOUS
<1> HIDE DEF ahead
<1>5. StrictOrder(ahead)
  <2>1. \A x \in DOMAIN ahead : ahead[x] \subseteq DOMAIN ahead /\ x \notin ahead[x]
    BY <1>2, <1>3, <1>4
  <2>2. ASSUME NEW x \in DOMAIN ahead, NEW y \in DOMAIN ahead
        PROVE  /\ x = y \/ x \in ahead[y] \/ y \in ahead[x]
               /\ x \in ahead[y] => ahead[x] \subseteq ahead[y]
    <3>1. x \in places /\ y \in places /\ x \in Nat /\ y \in Nat
      BY <1>2, <1>3
    <3>2. x = y \/ x < y \/ y < x
      BY <3>1
    <3>3. x = y \/ x \in ahead[y] \/ y \in ahead[x]
      BY <1>4, <3>1, <3>2
    <3>4. ASSUME x \in ahead[y], NEW z \in ahead[x] PROVE z \in ahead[y]
      <4>1. z \in places /\ z \in Nat /\ z < x /\ x < y
        BY <1>2, <1>4, <3>1, <3>4
      <4>2. z < y
        BY <3>1, <4>1
      <4> QED
        BY <1>4, <3>1, <4>1, <4>2
    <3> QED
      BY <3>3, <3>4
  <2> QED
    BY <2>1, <2>2 DEF StrictOrder
<1>6. /\ n \in Nat /\ order \in [1 .. n -> DOMAIN ahead]
      /\ \A x \in DOMAIN ahead : \E i \in 1 .. n : order[i] = x
  BY <1>3, <1>5, Arranged
<1> HIDE DEF order, n
<1>7. DOMAIN order = 1 .. n /\ \A k \in 1 .. n : order[k] \in places
  BY <1>3, <1>6
<1>8. c \in [1 .. n -> W]
  BY <1>1, <1>2, <1>7
<1>9. c \in Seq(W)
  BY <1>6, <1>8, SeqDef
<1>10. ToSet(c) = {s[i] : i \in places}
  <2>1. DOMAIN c = 1 .. n /\ \A k \in 1 .. n : c[k] = s[order[k]]
    BY <1>7
  <2> HIDE DEF c
  <2>2. \A i \in places : \E k \in 1 .. n : c[k] = s[i]
    BY <1>3, <1>6, <2>1
  <2>3. \A k \in 1 .. n : \E i \in places : c[k] = s[i]
    BY <1>7, <2>1
  <2>4. ToSet(c) = {c[k] : k \in 1 .. n}
    BY <2>1 DEF ToSet
  <2> DEFINE A == {c[k] : k \in 1 .. n}
             B == {s[i] : i \in places}
  <2>5. A \subseteq B
    BY <2>3
  <2>6. B \subseteq A
    BY <2>2
  <2> QED
    BY <2>4, <2>5, <2>6
<1> QED
  BY <1>9, <1>10 DEF c, order, ahead

\* Exactly what is not kept is embedded.
LEMMA ChangedAre ==
    ASSUME Splits(config.analyzer, indexing.version, Policied)
    PROVE  /\ Changed \in Seq(Piece) /\ Len(Changed) \in Nat
           /\ DOMAIN Changed = 1 .. Len(Changed)
           /\ ToSet(Changed) = {s \in ToSet(All) : ~Keeps(s, Policied)}
<1> DEFINE s == All
           places == {i \in DOMAIN s : ~Keeps(s[i], Policied)}
           order == InOrder([i \in places |-> {j \in places : j < i}])
           c == [k \in DOMAIN order |-> s[order[k]]]
<1>1. Changed = c
  BY DEF Changed, NotKept, At
<1>2. s \in Seq(Piece)
  BY SegmentsAre DEF All
<1> HIDE DEF s
<1>3. DOMAIN s = 1 .. Len(s)
  BY <1>2, LenProperties
<1>4. places \in SUBSET (1 .. Len(s))
  BY <1>3
<1>5. ToSet(s) = {s[i] : i \in DOMAIN s}
  BY DEF ToSet
<1>6. {s[i] : i \in places} = {t \in ToSet(s) : ~Keeps(t, Policied)}
  BY <1>5
<1> HIDE DEF places
<1>7. c \in Seq(Piece) /\ ToSet(c) = {s[i] : i \in places}
  BY <1>2, <1>4, SelectedAre
<1> HIDE DEF c
<1>8. Len(c) \in Nat /\ DOMAIN c = 1 .. Len(c)
  BY <1>7, LenProperties
<1> QED
  BY <1>1, <1>6, <1>7, <1>8 DEF s

\* The places that are in a list of batches
Batched(batches) == UNION {ToSet(batches[k]) : k \in DOMAIN batches}

LEMMA BatchedIs ==
    ASSUME NEW batches, NEW i
    PROVE  i \in Batched(batches) <=> \E k \in DOMAIN batches : i \in ToSet(batches[k])
BY DEF Batched

LEMMA PlannedIs ==
    ASSUME NEW segments, NEW batches \in Seq(Seq(Nat)), NEW i \in Nat
    PROVE  LET planned == Planned(segments, batches, i)
           IN  planned \in Seq(Seq(Nat)) /\ Batched(planned) = Batched(batches) \cup {i}
<1> DEFINE planned == Planned(segments, batches, i)
           n == Len(batches)
           added == Append(batches, <<i>>)
           grown == [batches EXCEPT ![Len(batches)] = Append(@, i)]
<1>1. planned = added \/ (batches # <<>> /\ planned = grown)
  BY DEF Planned
<1> HIDE DEF planned
<1>2. n \in Nat /\ DOMAIN batches = 1 .. n /\ \A k \in 1 .. n : batches[k] \in Seq(Nat)
  BY LenProperties, ElementOfSeq
<1>3. CASE planned = added
  <2>1. <<i>> \in Seq(Nat) /\ ToSet(<<i>>) = {i}
    BY DEF ToSet
  <2>2. /\ added \in Seq(Seq(Nat)) /\ Len(added) = n + 1
        /\ \A k \in 1 .. n : added[k] = batches[k]
        /\ added[n + 1] = <<i>>
    BY <2>1, AppendProperties
  <2> HIDE DEF added
  <2>3. DOMAIN added = (1 .. n) \cup {n + 1}
    <3>1. DOMAIN added = 1 .. Len(added)
      BY <2>2, LenProperties
    <3> HIDE DEF n
    <3>2. 1 .. n + 1 = (1 .. n) \cup {n + 1}
      BY <1>2
    <3> QED
      BY <2>2, <3>1, <3>2
  <2>4. Batched(added) = Batched(batches) \cup {i}
    <3>1. ASSUME NEW j PROVE j \in Batched(added) <=> j \in Batched(batches) \cup {i}
      <4>1. j \in Batched(added)
              <=> (\E k \in 1 .. n : j \in ToSet(added[k])) \/ j \in ToSet(added[n + 1])
        BY <2>3, BatchedIs
      <4>2. j \in Batched(batches) <=> \E k \in 1 .. n : j \in ToSet(batches[k])
        BY <1>2, BatchedIs
      <4> QED
        BY <2>1, <2>2, <4>1, <4>2
    <3> QED
      BY <3>1
  <2> QED
    BY <1>3, <2>2, <2>4 DEF planned
<1>4. CASE batches # <<>> /\ planned = grown
  <2>1. n \in 1 .. n
    <3>1. n # 0
      BY <1>4, EmptySeq
    <3> QED
      BY <1>2, <3>1
  <2> DEFINE last == Append(batches[n], i)
  <2>2. last \in Seq(Nat) /\ ToSet(last) = ToSet(batches[n]) \cup {i}
    <3> DEFINE b == batches[n]
    <3>1. b \in Seq(Nat)
      BY <1>2, <2>1
    <3> HIDE DEF b
    <3>2. /\ Append(b, i) \in Seq(Nat) /\ Len(Append(b, i)) = Len(b) + 1 /\ Len(b) \in Nat
          /\ \A k \in 1 .. Len(b) : Append(b, i)[k] = b[k]
          /\ Append(b, i)[Len(b) + 1] = i
      BY <3>1, AppendProperties, LenProperties
    <3>3. DOMAIN Append(b, i) = (1 .. Len(b)) \cup {Len(b) + 1} /\ DOMAIN b = 1 .. Len(b)
      BY <3>1, <3>2, LenProperties
    <3>4. ToSet(Append(b, i)) = ToSet(b) \cup {i}
      BY <3>2, <3>3 DEF ToSet
    <3> QED
      BY <3>2, <3>4 DEF b
  <2>3. /\ DOMAIN grown = 1 .. n /\ grown[n] = last
        /\ \A k \in 1 .. n : k # n => grown[k] = batches[k]
    BY <1>2, <2>1
  <2>4. grown \in [1 .. n -> Seq(Nat)]
    <3> HIDE DEF last
    <3> QED
      BY <1>2, <2>2, <2>3
  <2> HIDE DEF grown, last, n
  <2>5. grown \in Seq(Seq(Nat))
    BY <1>2, <2>4, SeqDef
  <2>6. Batched(grown) = Batched(batches) \cup {i}
    <3>1. ASSUME NEW j PROVE j \in Batched(grown) <=> j \in Batched(batches) \cup {i}
      <4>1. j \in Batched(grown) <=> \E k \in 1 .. n : j \in ToSet(grown[k])
        BY <2>3, BatchedIs
      <4>2. j \in Batched(batches) <=> \E k \in 1 .. n : j \in ToSet(batches[k])
        BY <1>2, BatchedIs
      <4> QED
        BY <2>1, <2>2, <2>3, <4>1, <4>2
    <3> QED
      BY <3>1
  <2> QED
    BY <1>4, <2>5, <2>6 DEF planned
<1> QED
  BY <1>1, <1>3, <1>4 DEF planned

\* The batches, planned one place after another
Plans(segments, d, base) ==
    CHOOSE f : f = [n \in 0 .. d |->
        IF n = 0 THEN base ELSE Planned(segments, f[n - 1], n)]
PlansOn(segments, d, V) == \A n \in 1 .. d : \A v \in V : Planned(segments, v, n) \in V
PlannedAll(segments, d, V, base) ==
    LET f == Plans(segments, d, base)
    IN  /\ \A n \in 0 .. d : f[n] \in V
        /\ f[0] = base
        /\ \A n \in 1 .. d : f[n] = Planned(segments, f[n - 1], n)

LEMMA PlansAre ==
    ASSUME NEW segments, NEW d \in Nat, NEW V, NEW base \in V, PlansOn(segments, d, V)
    PROVE  PlannedAll(segments, d, V, base)
<1> DEFINE next(n, v) == Planned(segments, v, n)
           step == [n \in 1 .. d |-> [v \in V |-> next(n, v)]]
           Recursive(f) == f = [n \in 0 .. d |-> IF n = 0 THEN base ELSE next(n, f[n - 1])]
<1>1. step \in [1 .. d -> [V -> V]]
  BY DEF PlansOn
<1> HIDE DEF step
<1>2. PICK f \in [0 .. d -> V] : f[0] = base /\ \A k \in 1 .. d : f[k] = step[k][f[k - 1]]
  BY <1>1, Recursion
<1>3. \E g : Recursive(g)
  <2>1. ASSUME NEW k \in 1 .. d PROVE f[k] = next(k, f[k - 1])
    <3>1. k - 1 \in 0 .. d
      OBVIOUS
    <3>2. f[k - 1] \in V
      BY <3>1
    <3> QED
      BY <1>2, <3>2 DEF step
  <2> HIDE DEF next
  <2>2. \A k \in 0 .. d : k = 0 \/ k \in 1 .. d
    OBVIOUS
  <2>3. \A k \in 0 .. d : f[k] = IF k = 0 THEN base ELSE next(k, f[k - 1])
    BY <1>2, <2>1, <2>2
  <2>4. f = [k \in 0 .. d |-> f[k]]
    OBVIOUS
  <2>5. Recursive(f)
    BY <2>3, <2>4
  <2> QED
    BY <2>5
<1> DEFINE g == Plans(segments, d, base)
<1>4. Recursive(g)
  <2>1. g = CHOOSE h : Recursive(h)
    BY DEF Plans
  <2> HIDE DEF Recursive, g
  <2> QED
    BY <1>3, <2>1
<1>5. \A n \in 1 .. d : \A v \in V : next(n, v) \in V
  BY DEF PlansOn
<1> HIDE DEF g, next
<1>6. \A n \in 0 .. d : g[n] = IF n = 0 THEN base ELSE next(n, g[n - 1])
  BY <1>4
<1> HIDE DEF Recursive
<1>7. g[0] = base /\ \A n \in 1 .. d : g[n] = next(n, g[n - 1])
  <2>1. 0 \in 0 .. d /\ \A n \in 1 .. d : n \in 0 .. d /\ n # 0
    OBVIOUS
  <2> QED
    BY <1>6, <2>1
<1> DEFINE Typed == {n \in 0 .. d : g[n] \in V}
<1>8. 0 \in Typed
  BY <1>7
<1>9. \A n \in 0 .. d : n < d /\ n \in Typed => n + 1 \in Typed
  <2> TAKE n \in 0 .. d
  <2> HAVE n < d /\ n \in Typed
  <2>1. n + 1 \in 1 .. d /\ n + 1 \in 0 .. d /\ (n + 1) - 1 = n
    OBVIOUS
  <2>2. g[n + 1] = next(n + 1, g[n]) /\ g[n] \in V
    BY <1>7, <2>1
  <2> QED
    BY <1>5, <2>1, <2>2
<1> HIDE DEF Typed
<1>10. \A n \in 0 .. d : n \in Typed
  BY <1>8, <1>9, InductionUpTo
<1>11. \A n \in 0 .. d : g[n] \in V
  BY <1>10 DEF Typed
<1> QED
  BY <1>7, <1>11 DEF PlannedAll, next, g

\* Every segment is in a batch.
LEMMA BatchesAre ==
    ASSUME NEW segments, Len(segments) \in Nat
    PROVE  /\ Batches(segments) \in Seq(Seq(Nat))
           /\ Batched(Batches(segments)) = 1 .. Len(segments)
<1> DEFINE d == Len(segments)
           V == Seq(Seq(Nat))
           base == <<>>
           f == Plans(segments, d, base)
           all == Batches(segments)
<1>1. base \in V /\ Batched(base) = {}
  BY EmptySeq DEF Batched
<1>2. PlansOn(segments, d, V)
  <2> SUFFICES ASSUME NEW n \in 1 .. d, NEW v \in V PROVE Planned(segments, v, n) \in V
    BY DEF PlansOn
  <2>1. n \in Nat
    OBVIOUS
  <2> QED
    BY <2>1, PlannedIs
<1>3. all = f[d]
  BY DEF Batches, Plans
<1>4. d \in Nat
  OBVIOUS
<1> HIDE DEF V, base, d, all
<1>5. PlannedAll(segments, d, V, base)
  BY <1>1, <1>2, <1>4, PlansAre
<1>6. /\ \A n \in 0 .. d : f[n] \in V
      /\ f[0] = base
      /\ \A n \in 1 .. d : f[n] = Planned(segments, f[n - 1], n)
  BY <1>5 DEF PlannedAll
<1> HIDE DEF f
<1> DEFINE Met == {n \in 0 .. d : Batched(f[n]) = 1 .. n}
<1>7. 0 \in Met
  BY <1>1, <1>4, <1>6
<1>8. \A n \in 0 .. d : n < d /\ n \in Met => n + 1 \in Met
  <2> TAKE n \in 0 .. d
  <2> HAVE n < d /\ n \in Met
  <2>1. n + 1 \in 1 .. d /\ n + 1 \in 0 .. d /\ (n + 1) - 1 = n /\ n \in Nat /\ n + 1 \in Nat
    BY <1>4
  <2>2. f[n] \in Seq(Seq(Nat)) /\ f[n + 1] = Planned(segments, f[n], n + 1)
    BY <1>6, <2>1 DEF V
  <2>3. Batched(f[n + 1]) = Batched(f[n]) \cup {n + 1}
    BY <2>1, <2>2, PlannedIs
  <2>4. (1 .. n) \cup {n + 1} = 1 .. n + 1
    BY <2>1
  <2> QED
    BY <2>1, <2>3, <2>4
<1> HIDE DEF Met
<1>9. \A n \in 0 .. d : n \in Met
  BY <1>4, <1>7, <1>8, InductionUpTo
<1>10. d \in 0 .. d
  BY <1>4
<1>11. all \in V /\ Batched(all) = 1 .. d
  BY <1>3, <1>6, <1>9, <1>10 DEF Met
<1> QED
  BY <1>11 DEF all, V, d

\* What is in the batches that wait
Batch == [indices : Seq(Nat), depth : Nat]
Queued(waiting) == UNION {ToSet(waiting[k].indices) : k \in DOMAIN waiting}

LEMMA QueuedIs ==
    ASSUME NEW waiting, NEW i
    PROVE  i \in Queued(waiting) <=> \E k \in DOMAIN waiting : i \in ToSet(waiting[k].indices)
BY DEF Queued

LEMMA QueueOf ==
    ASSUME NEW batches \in Seq(Seq(Nat))
    PROVE  LET waiting == [i \in DOMAIN batches |-> [indices |-> batches[i], depth |-> 0]]
           IN  waiting \in Seq(Batch) /\ Queued(waiting) = Batched(batches)
<1> DEFINE n == Len(batches)
           waiting == [i \in DOMAIN batches |-> [indices |-> batches[i], depth |-> 0]]
<1>1. n \in Nat /\ DOMAIN batches = 1 .. n /\ \A k \in 1 .. n : batches[k] \in Seq(Nat)
  BY LenProperties, ElementOfSeq
<1> HIDE DEF n
<1>2. waiting \in [1 .. n -> Batch]
  BY <1>1 DEF Batch
<1>3. waiting \in Seq(Batch)
  BY <1>1, <1>2, SeqDef
<1>4. DOMAIN waiting = 1 .. n /\ \A k \in 1 .. n : waiting[k].indices = batches[k]
  BY <1>1
<1> HIDE DEF waiting
<1>5. ASSUME NEW i PROVE i \in Queued(waiting) <=> i \in Batched(batches)
  BY <1>1, <1>4, QueuedIs, BatchedIs
<1>6. Queued(waiting) = Batched(batches)
  BY <1>5
<1> QED
  BY <1>3, <1>6 DEF waiting

LEMMA QueueHeadTail ==
    ASSUME NEW waiting \in Seq(Batch), waiting # <<>>
    PROVE  /\ Head(waiting) \in Batch /\ Tail(waiting) \in Seq(Batch)
           /\ Queued(waiting) = ToSet(Head(waiting).indices) \cup Queued(Tail(waiting))
<1> DEFINE n == Len(waiting)
           t == Tail(waiting)
<1>1. /\ n \in Nat /\ n # 0 /\ DOMAIN waiting = 1 .. n
      /\ t \in Seq(Batch) /\ Len(t) = n - 1 /\ Head(waiting) = waiting[1]
      /\ Head(waiting) \in Batch
      /\ \A i \in 1 .. n - 1 : t[i] = waiting[i + 1]
  BY HeadTailProperties, LenProperties, EmptySeq
<1>2. DOMAIN t = 1 .. n - 1
  BY <1>1, LenProperties
<1> HIDE DEF n, t
<1>3. ASSUME NEW i
      PROVE  i \in Queued(waiting) <=> i \in ToSet(waiting[1].indices) \/ i \in Queued(t)
  <2>1. ASSUME NEW k \in 1 .. n, i \in ToSet(waiting[k].indices), k # 1 PROVE i \in Queued(t)
    <3>1. k - 1 \in 1 .. n - 1 /\ (k - 1) + 1 = k
      BY <1>1, <2>1
    <3>2. t[k - 1] = waiting[k]
      BY <1>1, <3>1
    <3> QED
      BY <1>2, <2>1, <3>1, <3>2, QueuedIs
  <2>2. ASSUME NEW k \in 1 .. n - 1, i \in ToSet(t[k].indices) PROVE i \in Queued(waiting)
    <3>1. k + 1 \in 1 .. n /\ t[k] = waiting[k + 1]
      BY <1>1
    <3> QED
      BY <1>1, <2>2, <3>1, QueuedIs
  <2>3. 1 \in 1 .. n
    BY <1>1
  <2> QED
    BY <1>1, <1>2, <2>1, <2>2, <2>3, QueuedIs
<1>4. Queued(waiting) = ToSet(waiting[1].indices) \cup Queued(t)
  BY <1>3
<1> QED
  BY <1>1, <1>4 DEF t

\* A batch in two
LEMMA HalvesAre ==
    ASSUME NEW s \in Seq(Nat), NEW h \in 0 .. Len(s)
    PROVE  /\ SubSeq(s, 1, h) \in Seq(Nat) /\ SubSeq(s, h + 1, Len(s)) \in Seq(Nat)
           /\ ToSet(SubSeq(s, 1, h)) \cup ToSet(SubSeq(s, h + 1, Len(s))) = ToSet(s)
<1> DEFINE n == Len(s)
           a == SubSeq(s, 1, h)
           b == SubSeq(s, h + 1, n)
<1>1. n \in Nat /\ h \in Nat /\ h <= n /\ DOMAIN s = 1 .. n
  BY LenProperties
<1>2. a \in Seq(Nat) /\ Len(a) = h /\ \A i \in 1 .. h : a[i] = s[i]
  BY <1>1, SubSeqProperties
<1>3. b \in Seq(Nat) /\ Len(b) = n - h /\ \A i \in 1 .. n - h : b[i] = s[i + h]
  <2> DEFINE m == h + 1
  <2>1. m \in Int /\ n \in Int /\ \A i \in m .. n : s[i] \in Nat
    BY <1>1, ElementOfSeq
  <2> HIDE DEF n, m
  <2>2. /\ SubSeq(s, m, n) \in Seq(Nat)
        /\ Len(SubSeq(s, m, n)) = IF m <= n THEN n - m + 1 ELSE 0
        /\ \A i \in 1 .. n - m + 1 : SubSeq(s, m, n)[i] = s[m + i - 1]
    BY <2>1, SubSeqProperties
  <2>3. n - m + 1 = n - h /\ (IF m <= n THEN n - m + 1 ELSE 0) = n - h
    BY <1>1 DEF m
  <2>4. \A i \in 1 .. n - h : m + i - 1 = i + h
    BY <1>1 DEF m
  <2> QED
    BY <2>2, <2>3, <2>4 DEF m
<1>4. DOMAIN a = 1 .. h /\ DOMAIN b = 1 .. n - h
  BY <1>2, <1>3, LenProperties
<1> HIDE DEF n, a, b
<1>5. ASSUME NEW x PROVE x \in ToSet(a) \cup ToSet(b) <=> x \in ToSet(s)
  <2>1. ASSUME NEW k \in 1 .. n, x = s[k] PROVE x \in ToSet(a) \cup ToSet(b)
    <3>1. CASE k <= h
      <4>1. k \in 1 .. h
        BY <1>1, <3>1
      <4> QED
        BY <1>2, <1>4, <2>1, <4>1 DEF ToSet
    <3>2. CASE ~(k <= h)
      <4>1. k - h \in 1 .. n - h /\ (k - h) + h = k
        BY <1>1, <3>2
      <4>2. b[k - h] = x
        BY <1>3, <2>1, <4>1
      <4> QED
        BY <1>4, <4>1, <4>2 DEF ToSet
    <3> QED
      BY <3>1, <3>2
  <2>2. ASSUME NEW k \in 1 .. h, x = a[k] PROVE x \in ToSet(s)
    <3>1. k \in 1 .. n
      BY <1>1
    <3> QED
      BY <1>1, <1>2, <2>2, <3>1 DEF ToSet
  <2>3. ASSUME NEW k \in 1 .. n - h, x = b[k] PROVE x \in ToSet(s)
    <3>1. k + h \in 1 .. n
      BY <1>1
    <3> QED
      BY <1>1, <1>3, <2>3, <3>1 DEF ToSet
  <2> QED
    BY <1>1, <1>4, <2>1, <2>2, <2>3 DEF ToSet
<1> QED
  BY <1>2, <1>3, <1>5 DEF n, a, b

LEMMA QueueFront ==
    ASSUME NEW a \in Batch, NEW b \in Batch, NEW t \in Seq(Batch)
    PROVE  LET waiting == <<a, b>> \o t
           IN  /\ waiting \in Seq(Batch)
               /\ Queued(waiting) = (ToSet(a.indices) \cup ToSet(b.indices)) \cup Queued(t)
<1> DEFINE f == <<a, b>>
           n == Len(t)
           waiting == f \o t
<1>1. f \in Seq(Batch) /\ Len(f) = 2 /\ f[1] = a /\ f[2] = b
  OBVIOUS
<1> HIDE DEF f
<1>2. /\ waiting \in Seq(Batch) /\ Len(waiting) = 2 + n /\ n \in Nat
      /\ \A i \in 1 .. 2 + n : waiting[i] = IF i <= 2 THEN f[i] ELSE t[i - 2]
  <2>1. /\ waiting \in Seq(Batch) /\ Len(waiting) = Len(f) + Len(t)
        /\ \A i \in 1 .. Len(f) + Len(t) :
              waiting[i] = IF i <= Len(f) THEN f[i] ELSE t[i - Len(f)]
    BY <1>1, ConcatProperties
  <2>2. n \in Nat
    BY LenProperties
  <2> QED
    BY <1>1, <2>1, <2>2
<1>3. DOMAIN waiting = 1 .. 2 + n /\ DOMAIN t = 1 .. n
  BY <1>2, LenProperties
<1> HIDE DEF waiting, n
<1>4. waiting[1] = a /\ waiting[2] = b /\ 1 \in 1 .. 2 + n /\ 2 \in 1 .. 2 + n
  BY <1>1, <1>2
<1>5. \A k \in 1 .. n : k + 2 \in 1 .. 2 + n /\ waiting[k + 2] = t[k]
  BY <1>2
<1>6. \A k \in 1 .. 2 + n : k = 1 \/ k = 2 \/ (k - 2 \in 1 .. n /\ waiting[k] = t[k - 2])
  BY <1>2
<1>7. ASSUME NEW i
      PROVE  i \in Queued(waiting)
               <=> i \in (ToSet(a.indices) \cup ToSet(b.indices)) \cup Queued(t)
  <2>1. ASSUME NEW k \in 1 .. 2 + n, i \in ToSet(waiting[k].indices)
        PROVE  i \in (ToSet(a.indices) \cup ToSet(b.indices)) \cup Queued(t)
    <3>1. CASE k - 2 \in 1 .. n /\ waiting[k] = t[k - 2]
      BY <1>3, <2>1, <3>1, QueuedIs
    <3> QED
      BY <1>4, <1>6, <2>1, <3>1
  <2>2. ASSUME NEW k \in 1 .. n, i \in ToSet(t[k].indices) PROVE i \in Queued(waiting)
    BY <1>3, <1>5, <2>2, QueuedIs
  <2> QED
    BY <1>3, <1>4, <2>1, <2>2, QueuedIs
<1> QED
  BY <1>2, <1>7 DEF waiting, f

-----------------------------------------------------------------------------
(* Documents and runs *)

\* A stored document has the segments of one version under one policy, each row
\* has the vector of its own text, and the vectors are of one space.
Faithful(d) ==
    LET segments == Segments(d.analyzer, d.version, d.policy)
    IN  /\ Splits(d.analyzer, d.version, d.policy)
        /\ DOMAIN d.rows = {s.key : s \in ToSet(segments)}
        /\ \A s \in ToSet(segments) : d.rows[s.key].text = s.text
        /\ \A k \in DOMAIN d.rows : d.rows[k].vector.text = d.rows[k].text
        /\ \A k, l \in DOMAIN d.rows : d.rows[k].vector.space = d.rows[l].vector.space

\* What is to be embedded is queued or has a vector, and each vector is of the
\* segment in its place.
Embedding(changed, waiting, vectors, space) ==
    /\ waiting \in Seq(Batch)
    /\ Queued(waiting) \cup DOMAIN vectors = DOMAIN changed
    /\ \A i \in DOMAIN vectors : vectors[i].text = changed[i].text /\ vectors[i].space = space

Shaped ==
    indexing = [step |-> indexing.step, version |-> indexing.version,
                limit |-> indexing.limit, attempts |-> indexing.attempts,
                queue |-> indexing.queue, vectors |-> indexing.vectors]
Versioned ==
    indexing.step \in {"segment", "embed", "store", "unchanged", "updated"} =>
        indexing.version \in Versions
InFlight ==
    /\ indexing.step = "segment" => indexing.vectors = <<>>
    /\ indexing.step \in {"embed", "store"} =>
          /\ Splits(config.analyzer, indexing.version, Policied)
          /\ Embedding(Changed, indexing.queue, indexing.vectors, config.space)
          /\ indexing.step = "store" => indexing.queue = <<>>
DocumentHolds == Exists => Faithful(document)
EndsWell ==
    /\ indexing.step \in {"unchanged", "updated"} =>
          /\ document.version = indexing.version
          /\ \A k \in DOMAIN document.rows : document.rows[k].vector.space = config.space
    /\ indexing.step = "unchanged" =>
          \A k, l \in DOMAIN document.rows :
             document.rows[k].vector.dimension = document.rows[l].vector.dimension
IndexInv == IndexTypeOK /\ Shaped /\ Versioned /\ InFlight /\ DocumentHolds /\ EndsWell

\* What is stored is what was read.
LEMMA FaithfulIsAsRead == IndexInv => IndexedAsRead
<1> SUFFICES ASSUME IndexInv PROVE IndexedAsRead
  OBVIOUS
<1>1. ASSUME Exists
      PROVE  LET kept == document.rows
                 segments == Segments(document.analyzer, document.version, document.policy)
             IN  /\ DOMAIN kept = {s.key : s \in ToSet(segments)}
                 /\ \A s \in ToSet(segments) : kept[s.key].text = s.text
                 /\ \A c \in ToSet(Analyses[document.analyzer][document.version]) :
                       Oversized(c.text, document.policy) => Covers(c.text, document.policy)
                 /\ \A k, l \in DOMAIN kept : /\ kept[k].vector.text = kept[k].text
                                              /\ kept[k].vector.space = kept[l].vector.space
  <2>1. Faithful(document)
    BY <1>1 DEF IndexInv, DocumentHolds
  <2>2. Splits(document.analyzer, document.version, document.policy)
    BY <2>1 DEF Faithful
  <2>3. \A c \in ToSet(Analyses[document.analyzer][document.version]) :
           Oversized(c.text, document.policy) => Covers(c.text, document.policy)
    BY <2>2, SegmentsAre
  <2> QED
    BY <2>1, <2>3 DEF Faithful
<1>2. EndsWell
  BY DEF IndexInv
<1> QED
  BY <1>1, <1>2 DEF IndexedAsRead, EndsWell

LEMMA IndexNumbers ==
    ASSUME IndexTypeOK
    PROVE  /\ config \in Config /\ config.analyzer \in Analyzers /\ config.prefix \in Nat
           /\ config.reserved \in Nat /\ config.overlap \in Nat
           /\ config.input \in Nat /\ config.batch \in Nat
           /\ InitialLimit \in Nat
           /\ \A limit \in Nat : PolicyOf(limit) \in Policy
           /\ MaxTurns \in Nat /\ MaxAttempts \in Nat
<1>1. config \in Config /\ MaxTurns \in Nat /\ MaxAttempts \in Nat
  BY IndexingBounds DEF IndexTypeOK
<1>2. /\ config.analyzer \in Analyzers /\ config.prefix \in Nat
      /\ config.reserved \in Nat /\ config.overlap \in Nat
      /\ config.input \in Nat /\ config.batch \in Nat
  BY <1>1 DEF Config
<1>3. InitialLimit \in Nat
  BY <1>2 DEF InitialLimit, Least
<1>4. \A limit \in Nat : PolicyOf(limit) \in Policy
  BY <1>2 DEF PolicyOf, Policy
<1> QED
  BY <1>1, <1>2, <1>3, <1>4

\* What is to be embedded depends on the configuration, the document, and the
\* version and the limit of the run.
LEMMA ChangedStays ==
    ASSUME config' = config, document' = document,
           indexing'.version = indexing.version, indexing'.limit = indexing.limit
    PROVE  Changed' = Changed /\ All' = All /\ Policied' = Policied
<1>1. Policied' = Policied
  BY DEF Policied, PolicyOf
<1>2. All' = All
  BY <1>1 DEF All
<1>3. \A s, p : Keeps(s, p)' = Keeps(s, p)
  BY DEF Keeps, TreeCompatible, EmbeddingsCompatible, Exists
<1>4. Changed' = Changed
  BY <1>1, <1>2, <1>3 DEF Changed, NotKept
<1> QED
  BY <1>1, <1>2, <1>4

-----------------------------------------------------------------------------
(* Steps of a run *)

\* A run that gives up changes nothing but its step.
LEMMA GivesUp ==
    ASSUME IndexInv, indexing' = [indexing EXCEPT !.step = "failed"],
           UNCHANGED <<file, config, served, document, turns>>
    PROVE  IndexInv'
<1> DEFINE c == indexing'
<1>1. /\ c = [step |-> "failed", version |-> indexing.version, limit |-> indexing.limit,
              attempts |-> indexing.attempts, queue |-> indexing.queue,
              vectors |-> indexing.vectors]
  BY DEF IndexInv, Shaped
<1>2. /\ c.step = "failed" /\ c.version = indexing.version /\ c.limit = indexing.limit
      /\ c.attempts = indexing.attempts /\ c.queue = indexing.queue
      /\ c.vectors = indexing.vectors
  BY <1>1
<1>3. Shaped'
  BY <1>1, <1>2 DEF Shaped
<1> HIDE DEF c
<1>4. IndexTypeOK'
  BY <1>2 DEF c, IndexInv, IndexTypeOK, IndexSteps, Exists
<1>5. Versioned' /\ InFlight' /\ EndsWell'
  BY <1>2 DEF c, Versioned, InFlight, EndsWell
<1>6. DocumentHolds'
  BY DEF IndexInv, DocumentHolds, Exists
<1> QED
  BY <1>3, <1>4, <1>5, <1>6 DEF IndexInv

\* A run that tries smaller segments has no vectors yet.
LEMMA TriesSmaller ==
    ASSUME IndexInv, indexing.version \in Versions, NEW measured \in Nat,
           indexing' = Reduced(measured), UNCHANGED <<file, config, served, document, turns>>
    PROVE  IndexInv'
<1> DEFINE usable == IF indexing.limit = 0 THEN measured ELSE indexing.limit - config.reserved
           next == Least(Least(usable - 1, measured - 1), usable \div 2)
           c == indexing'
<1>1. CASE indexing.attempts = MaxAttempts \/ next <= 0
  <2>1. indexing' = [indexing EXCEPT !.step = "failed"]
    BY <1>1 DEF Reduced
  <2> QED
    BY <2>1, GivesUp
<1>2. CASE ~(indexing.attempts = MaxAttempts \/ next <= 0)
  <2>1. c = [indexing EXCEPT !.step = "segment", !.attempts = @ + 1,
                !.limit = config.reserved + next, !.queue = <<>>, !.vectors = <<>>]
    BY <1>2 DEF Reduced
  <2>2. IndexTypeOK /\ indexing.limit \in Nat /\ config.reserved \in Nat
        /\ indexing.attempts \in 0 .. MaxAttempts /\ MaxAttempts \in Nat
    BY IndexNumbers DEF IndexInv, IndexTypeOK
  <2>3. usable \in Int
    BY <2>2
  <2> HIDE DEF usable
  <2>4. next \in Int
    BY <2>3 DEF Least
  <2> HIDE DEF next
  <2>5. config.reserved + next \in Nat /\ indexing.attempts + 1 \in 0 .. MaxAttempts
    BY <1>2, <2>2, <2>4
  <2>6. c = [step |-> "segment", version |-> indexing.version,
             limit |-> config.reserved + next, attempts |-> indexing.attempts + 1,
             queue |-> <<>>, vectors |-> <<>>]
    BY <2>1 DEF IndexInv, Shaped
  <2>7. /\ c.step = "segment" /\ c.version = indexing.version
        /\ c.limit = config.reserved + next /\ c.attempts = indexing.attempts + 1
        /\ c.queue = <<>> /\ c.vectors = <<>>
    BY <2>6
  <2>8. Shaped'
    BY <2>6, <2>7 DEF Shaped
  <2> HIDE DEF c
  <2>9. IndexTypeOK'
    BY <2>2, <2>5, <2>7 DEF c, IndexTypeOK, IndexSteps, Exists
  <2>10. Versioned' /\ InFlight' /\ EndsWell'
    BY <2>7 DEF c, Versioned, InFlight, EndsWell
  <2>11. DocumentHolds'
    BY DEF IndexInv, DocumentHolds, Exists
  <2> QED
    BY <2>8, <2>9, <2>10, <2>11 DEF IndexInv
<1> QED
  BY <1>1, <1>2

LEMMA BeginStep == ASSUME IndexInv, NEW behind \in BOOLEAN, Begin(behind) PROVE IndexInv'
<1> DEFINE policy == PolicyOf(InitialLimit)
           same == TreeCompatible(policy) /\ EmbeddingsCompatible /\ document.version = file
           begun == [NotIndexing EXCEPT !.version = file, !.limit = InitialLimit]
           c == indexing'
<1>1. /\ UNCHANGED <<file, config, served, turns>>
      /\ document' = IF file = NoVersion THEN NoDocument ELSE document
      /\ c = IF file = NoVersion THEN [NotIndexing EXCEPT !.step = "removed"]
             ELSE IF same /\ ~behind THEN [begun EXCEPT !.step = "unchanged"]
             ELSE [begun EXCEPT !.step = "segment"]
  BY DEF Begin
<1>2. IndexTypeOK /\ InitialLimit \in Nat /\ MaxAttempts \in Nat
      /\ file \in Versions \cup {NoVersion}
  BY IndexNumbers DEF IndexInv, IndexTypeOK
<1>3. CASE file = NoVersion
  <2>1. c = [NotIndexing EXCEPT !.step = "removed"] /\ document' = NoDocument
    BY <1>1, <1>3
  <2>2. c = [step |-> "removed", version |-> NoVersion, limit |-> 0, attempts |-> 0,
             queue |-> <<>>, vectors |-> <<>>]
    BY <2>1 DEF NotIndexing
  <2>3. /\ c.step = "removed" /\ c.version = NoVersion /\ c.limit = 0 /\ c.attempts = 0
        /\ c.queue = <<>> /\ c.vectors = <<>>
    BY <2>2
  <2>4. Shaped'
    BY <2>2, <2>3 DEF Shaped
  <2> HIDE DEF c
  <2>5. ~Exists'
    BY <2>1 DEF Exists, NoDocument
  <2>6. IndexTypeOK'
    BY <1>1, <1>2, <2>3, <2>5 DEF c, IndexTypeOK, IndexSteps
  <2>7. Versioned' /\ InFlight' /\ EndsWell' /\ DocumentHolds'
    BY <2>3, <2>5 DEF c, Versioned, InFlight, EndsWell, DocumentHolds
  <2> QED
    BY <2>4, <2>6, <2>7 DEF IndexInv
<1>4. CASE file # NoVersion
  <2>1. /\ document' = document
        /\ \/ c = [begun EXCEPT !.step = "unchanged"] /\ same
           \/ c = [begun EXCEPT !.step = "segment"]
    BY <1>1, <1>4
  <2>2. PICK step \in {"unchanged", "segment"} :
           /\ c = [step |-> step, version |-> file, limit |-> InitialLimit, attempts |-> 0,
                   queue |-> <<>>, vectors |-> <<>>]
           /\ step = "unchanged" => same
    BY <2>1 DEF NotIndexing
  <2>3. /\ c.step = step /\ c.version = file /\ c.limit = InitialLimit /\ c.attempts = 0
        /\ c.queue = <<>> /\ c.vectors = <<>>
    BY <2>2
  <2>4. Shaped'
    BY <2>2, <2>3 DEF Shaped
  <2> HIDE DEF c
  <2>5. IndexTypeOK'
    BY <1>1, <1>2, <2>1, <2>3 DEF c, IndexTypeOK, IndexSteps, Exists
  <2>6. Versioned' /\ InFlight'
    BY <1>2, <1>4, <2>3 DEF c, Versioned, InFlight
  <2>7. DocumentHolds'
    BY <2>1 DEF IndexInv, DocumentHolds, Exists
  <2>8. EndsWell'
    <3>1. CASE step = "segment"
      BY <2>3, <3>1 DEF c, EndsWell
    <3>2. CASE step = "unchanged"
      <4>1. EmbeddingsCompatible /\ document.version = file
        BY <2>2, <3>2
      <4>2. /\ \A k \in DOMAIN document.rows : document.rows[k].vector.space = config.space
            /\ \A k, l \in DOMAIN document.rows :
                  document.rows[k].vector.dimension = document.rows[l].vector.dimension
        BY <4>1 DEF EmbeddingsCompatible
      <4> QED
        BY <1>1, <2>1, <2>3, <4>1, <4>2 DEF c, EndsWell
    <3> QED
      BY <3>1, <3>2
  <2> QED
    BY <2>4, <2>5, <2>6, <2>7, <2>8 DEF IndexInv
<1> QED
  BY <1>3, <1>4

\* A version that is segmented can be split.
LEMMA SegmentSplits ==
    ASSUME IndexTypeOK, indexing.version \in Versions,
           ~CannotSegment(indexing.version, Policied)
    PROVE  Splits(config.analyzer, indexing.version, Policied)
<1> DEFINE chunks == Analyses[config.analyzer][indexing.version]
           policy == Policied
<1>1. config.analyzer \in Analyzers /\ policy \in Policy
  BY IndexNumbers DEF Policied, IndexTypeOK
<1>2. \/ policy.limit = 0
      \/ /\ ~(Budget(policy) <= 0)
         /\ \/ ~(Budget(policy) <= policy.prefix)
            \/ ~\E i \in DOMAIN chunks : Oversized(chunks[i].text, policy)
  BY DEF CannotSegment
<1> HIDE DEF policy, chunks
<1>3. Budget(policy) \in Int /\ policy.prefix \in Nat
      /\ Width(policy) = Budget(policy) - policy.prefix
  BY <1>1, PolicyNumbers DEF Width
<1>4. ASSUME NEW t \in ToSet(chunks), Oversized(t.text, policy) PROVE Width(policy) >= 1
  <2>1. policy.limit # 0
    BY <1>4 DEF Oversized
  <2>2. \E i \in DOMAIN chunks : Oversized(chunks[i].text, policy)
    BY <1>4 DEF ToSet
  <2>3. ~(Budget(policy) <= policy.prefix)
    BY <1>2, <2>1, <2>2
  <2> QED
    BY <1>3, <2>3
<1> QED
  BY <1>1, <1>4 DEF Splits, chunks, policy

LEMMA TokensAre ==
    ASSUME IndexTypeOK, Splits(config.analyzer, indexing.version, Policied),
           NEW i \in DOMAIN Changed
    PROVE  Tokens(Changed[i]) \in Nat
<1>1. Changed[i] \in Piece
  <2>1. Changed \in Seq(Piece) /\ i \in 1 .. Len(Changed)
    BY ChangedAre
  <2> QED
    BY <2>1, ElementOfSeq
<1>2. Len(Changed[i].text) \in Nat
  BY <1>1, LenProperties DEF Piece
<1>3. config.prefix \in Nat
  BY IndexNumbers
<1> QED
  BY <1>2, <1>3 DEF Tokens

\* A run goes on with another queue and other vectors.
LEMMA GoesOnEmbedding ==
    ASSUME IndexInv, indexing.version \in Versions,
           Splits(config.analyzer, indexing.version, Policied),
           NEW step \in {"embed", "store"}, NEW waiting, NEW vectors,
           indexing' = [step |-> step, version |-> indexing.version, limit |-> indexing.limit,
                        attempts |-> indexing.attempts, queue |-> waiting,
                        vectors |-> vectors],
           UNCHANGED <<file, config, served, document, turns>>,
           Embedding(Changed, waiting, vectors, config.space),
           step = "store" => waiting = <<>>
    PROVE  IndexInv'
<1> DEFINE c == indexing'
<1>1. /\ c.step = step /\ c.version = indexing.version /\ c.limit = indexing.limit
      /\ c.attempts = indexing.attempts /\ c.queue = waiting /\ c.vectors = vectors
  OBVIOUS
<1>2. Shaped'
  BY <1>1 DEF Shaped
<1> HIDE DEF c
<1>3. Changed' = Changed /\ Policied' = Policied
  BY <1>1, ChangedStays DEF c
<1>4. IndexTypeOK'
  BY <1>1 DEF c, IndexInv, IndexTypeOK, IndexSteps, Exists
<1>5. Versioned' /\ EndsWell'
  BY <1>1 DEF c, Versioned, EndsWell
<1>6. InFlight'
  BY <1>1, <1>3 DEF c, InFlight
<1>7. DocumentHolds'
  BY DEF IndexInv, DocumentHolds, Exists
<1> QED
  BY <1>2, <1>4, <1>5, <1>6, <1>7 DEF IndexInv

LEMMA SegmentStep == ASSUME IndexInv, Segment PROVE IndexInv'
<1> DEFINE segments == Changed
           large == {i \in DOMAIN segments : TooLargeToPlan(segments[i])}
           batches == Batches(segments)
           i == CHOOSE i \in large : \A j \in large : i <= j
           waiting == [k \in DOMAIN batches |-> [indices |-> batches[k], depth |-> 0]]
<1>1. /\ indexing.step = "segment" /\ UNCHANGED <<file, config, served, document, turns>>
      /\ indexing' =
           IF CannotSegment(indexing.version, Policied)
             THEN [indexing EXCEPT !.step = "failed"]
           ELSE IF large # {} THEN Reduced(Tokens(segments[i]))
           ELSE [indexing EXCEPT !.step = "embed", !.queue = waiting]
  BY DEF Segment, SegmentedAs, Queueing
<1>2. IndexTypeOK /\ Shaped /\ indexing.version \in Versions
  BY <1>1 DEF IndexInv, Versioned
<1>3. CASE CannotSegment(indexing.version, Policied)
  BY <1>1, <1>3, GivesUp
<1>4. CASE ~CannotSegment(indexing.version, Policied)
  <2>1. Splits(config.analyzer, indexing.version, Policied)
    BY <1>2, <1>4, SegmentSplits
  <2>2. Len(segments) \in Nat /\ DOMAIN segments = 1 .. Len(segments)
    BY <2>1, ChangedAre
  <2>3. CASE large # {}
    <3>1. large \in SUBSET Nat /\ large \subseteq DOMAIN segments
      BY <2>2
    <3> HIDE DEF large
    <3>2. i \in large
      BY <2>3, <3>1, Minimum
    <3>3. Tokens(segments[i]) \in Nat
      BY <1>2, <2>1, <3>1, <3>2, TokensAre
    <3>4. indexing' = Reduced(Tokens(segments[i]))
      BY <1>1, <1>4, <2>3
    <3> QED
      BY <1>1, <1>2, <3>3, <3>4, TriesSmaller
  <2>4. CASE large = {}
    <3>1. indexing' = [indexing EXCEPT !.step = "embed", !.queue = waiting]
      BY <1>1, <1>4, <2>4
    <3> HIDE DEF large, segments
    <3>2. batches \in Seq(Seq(Nat)) /\ Batched(batches) = DOMAIN segments
      BY <2>2, BatchesAre
    <3> HIDE DEF batches
    <3>3. waiting \in Seq(Batch) /\ Queued(waiting) = DOMAIN segments
      BY <3>2, QueueOf
    <3> HIDE DEF waiting
    <3>4. indexing.vectors = <<>>
      BY <1>1 DEF IndexInv, InFlight
    <3>5. Embedding(segments, waiting, <<>>, config.space)
      BY <3>3 DEF Embedding
    <3>6. indexing' = [step |-> "embed", version |-> indexing.version,
                       limit |-> indexing.limit, attempts |-> indexing.attempts,
                       queue |-> waiting, vectors |-> <<>>]
      BY <1>2, <3>1, <3>4 DEF Shaped
    <3> DEFINE step == "embed"
               vectors == <<>>
    <3>7. step \in {"embed", "store"} /\ step # "store"
      OBVIOUS
    <3> HIDE DEF step, vectors
    <3> QED
      BY <1>1, <1>2, <2>1, <3>5, <3>6, <3>7, GoesOnEmbedding DEF segments, step, vectors
  <2> QED
    BY <2>3, <2>4
<1> QED
  BY <1>3, <1>4

LEMMA EmbedStep == ASSUME IndexInv, Embed PROVE IndexInv'
<1> DEFINE segments == Changed
           batch == Head(indexing.queue)
           size == Len(batch.indices)
           half(from, to) ==
               [indices |-> SubSeq(batch.indices, from, to), depth |-> batch.depth + 1]
           answered == [i \in DOMAIN indexing.vectors \cup ToSet(batch.indices) |->
                           IF i \in ToSet(batch.indices) THEN Vector(segments[i].text)
                           ELSE indexing.vectors[i]]
           halves == <<half(1, size \div 2), half(size \div 2 + 1, size)>>
                        \o Tail(indexing.queue)
           space == config.space
<1>1. /\ indexing.step = "embed" /\ indexing.queue # <<>>
      /\ UNCHANGED <<file, config, served, document, turns>>
      /\ \/ indexing' = [indexing EXCEPT !.queue = Tail(@), !.vectors = answered]
         \/ indexing' = [indexing EXCEPT !.step = "failed"]
         \/ size = 1 /\ indexing' = Reduced(Tokens(segments[batch.indices[1]]))
         \/ indexing' = [indexing EXCEPT !.queue = halves]
  BY DEF Embed, EmbeddedAs
<1>2. /\ IndexTypeOK /\ Shaped /\ indexing.version \in Versions
      /\ Splits(config.analyzer, indexing.version, Policied)
      /\ Embedding(segments, indexing.queue, indexing.vectors, space)
  BY <1>1 DEF IndexInv, Versioned, InFlight
<1> HIDE DEF segments, space
<1>3. /\ indexing.queue \in Seq(Batch)
      /\ Queued(indexing.queue) \cup DOMAIN indexing.vectors = DOMAIN segments
      /\ \A i \in DOMAIN indexing.vectors :
            indexing.vectors[i].text = segments[i].text /\ indexing.vectors[i].space = space
  BY <1>2 DEF Embedding
<1>4. /\ batch \in Batch /\ Tail(indexing.queue) \in Seq(Batch)
      /\ Queued(indexing.queue) = ToSet(batch.indices) \cup Queued(Tail(indexing.queue))
  BY <1>1, <1>3, QueueHeadTail
<1> HIDE DEF batch
<1>5. /\ batch.indices \in Seq(Nat) /\ batch.depth \in Nat /\ size \in Nat
      /\ ToSet(batch.indices) \subseteq DOMAIN segments
  <2>1. batch.indices \in Seq(Nat) /\ batch.depth \in Nat
    BY <1>4 DEF Batch
  <2> QED
    BY <1>3, <1>4, <2>1, LenProperties
<1> DEFINE step == "embed"
<1>6. step \in {"embed", "store"} /\ step # "store"
  OBVIOUS
<1>7. CASE indexing' = [indexing EXCEPT !.queue = Tail(@), !.vectors = answered]
  <2> DEFINE waiting == Tail(indexing.queue)
  <2>1. indexing' = [step |-> step, version |-> indexing.version,
                     limit |-> indexing.limit, attempts |-> indexing.attempts,
                     queue |-> waiting, vectors |-> answered]
    BY <1>1, <1>2, <1>7 DEF Shaped
  <2>2. DOMAIN answered = DOMAIN indexing.vectors \cup ToSet(batch.indices)
    OBVIOUS
  <2>3. ASSUME NEW i \in DOMAIN answered
        PROVE  answered[i].text = segments[i].text /\ answered[i].space = space
    <3>1. CASE i \in ToSet(batch.indices)
      BY <3>1 DEF Vector, space
    <3>2. CASE i \notin ToSet(batch.indices)
      <4>1. i \in DOMAIN indexing.vectors /\ answered[i] = indexing.vectors[i]
        BY <2>2, <3>2
      <4> QED
        BY <1>3, <4>1
    <3> QED
      BY <3>1, <3>2
  <2> HIDE DEF answered, waiting
  <2>4. Queued(waiting) \cup DOMAIN answered = DOMAIN segments
    BY <1>3, <1>4, <2>2 DEF waiting
  <2>5. Embedding(segments, waiting, answered, space)
    BY <1>4, <2>3, <2>4 DEF Embedding, waiting
  <2> HIDE DEF step
  <2> QED
    BY <1>1, <1>2, <1>6, <2>1, <2>5, GoesOnEmbedding DEF segments, space
<1>8. CASE indexing' = [indexing EXCEPT !.step = "failed"]
  BY <1>1, <1>8, GivesUp
<1>9. CASE size = 1 /\ indexing' = Reduced(Tokens(segments[batch.indices[1]]))
  <2>1. batch.indices[1] \in DOMAIN segments
    <3>1. 1 \in DOMAIN batch.indices
      BY <1>5, <1>9, LenProperties
    <3> QED
      BY <1>5, <3>1 DEF ToSet
  <2>2. Tokens(segments[batch.indices[1]]) \in Nat
    BY <1>2, <2>1, TokensAre DEF segments
  <2> QED
    BY <1>1, <1>2, <1>9, <2>2, TriesSmaller
<1>10. CASE indexing' = [indexing EXCEPT !.queue = halves]
  <2> DEFINE vectors == indexing.vectors
             h == size \div 2
             a == half(1, h)
             b == half(h + 1, size)
  <2>1. indexing' = [step |-> step, version |-> indexing.version,
                     limit |-> indexing.limit, attempts |-> indexing.attempts,
                     queue |-> halves, vectors |-> vectors]
    BY <1>1, <1>2, <1>10 DEF Shaped
  <2>2. h \in 0 .. size
    <3>1. size \in Nat
      BY <1>5
    <3> HIDE DEF size
    <3> QED
      BY <3>1
  <2>3. /\ a.indices \in Seq(Nat) /\ b.indices \in Seq(Nat)
        /\ ToSet(a.indices) \cup ToSet(b.indices) = ToSet(batch.indices)
    <3> HIDE DEF h
    <3> QED
      BY <1>5, <2>2, HalvesAre
  <2>4. a \in Batch /\ b \in Batch
    <3>1. batch.depth + 1 \in Nat
      BY <1>5
    <3> QED
      BY <2>3, <3>1 DEF Batch
  <2>5. halves = <<a, b>> \o Tail(indexing.queue)
    OBVIOUS
  <2> HIDE DEF a, b, halves
  <2>6. /\ halves \in Seq(Batch)
        /\ Queued(halves)
             = (ToSet(a.indices) \cup ToSet(b.indices)) \cup Queued(Tail(indexing.queue))
    <3> DEFINE t == Tail(indexing.queue)
               q == <<a, b>> \o t
    <3>1. t \in Seq(Batch)
      BY <1>4
    <3> HIDE DEF t
    <3>2. q \in Seq(Batch)
          /\ Queued(q) = (ToSet(a.indices) \cup ToSet(b.indices)) \cup Queued(t)
      BY <2>4, <3>1, QueueFront
    <3> QED
      BY <2>5, <3>2 DEF t
  <2>7. Queued(halves) \cup DOMAIN vectors = DOMAIN segments
    BY <1>3, <1>4, <2>3, <2>6
  <2>8. Embedding(segments, halves, vectors, space)
    BY <1>3, <2>6, <2>7 DEF Embedding
  <2> HIDE DEF step, vectors
  <2> QED
    BY <1>1, <1>2, <1>6, <2>1, <2>8, GoesOnEmbedding DEF segments, space
<1> QED
  BY <1>1, <1>7, <1>8, <1>9, <1>10

LEMMA ValidateStep == ASSUME IndexInv, Validate PROVE IndexInv'
<1>1. /\ indexing.step = "embed" /\ indexing.queue = <<>>
      /\ UNCHANGED <<file, config, served, document, turns>>
      /\ \/ indexing' = [indexing EXCEPT !.step = "store"]
         \/ indexing' = [indexing EXCEPT !.step = "failed"]
  BY DEF Validate
<1>2. /\ IndexTypeOK /\ Shaped /\ indexing.version \in Versions
      /\ Splits(config.analyzer, indexing.version, Policied)
      /\ Embedding(Changed, indexing.queue, indexing.vectors, config.space)
  BY <1>1 DEF IndexInv, Versioned, InFlight
<1>3. CASE indexing' = [indexing EXCEPT !.step = "store"]
  <2> DEFINE step == "store"
             waiting == indexing.queue
             vectors == indexing.vectors
  <2>1. indexing' = [step |-> step, version |-> indexing.version,
                     limit |-> indexing.limit, attempts |-> indexing.attempts,
                     queue |-> waiting, vectors |-> vectors]
    BY <1>2, <1>3 DEF Shaped
  <2>2. step \in {"embed", "store"} /\ waiting = <<>>
    BY <1>1
  <2>3. Embedding(Changed, waiting, vectors, config.space)
    BY <1>2
  <2> HIDE DEF step, waiting, vectors
  <2> QED
    BY <1>1, <1>2, <2>1, <2>2, <2>3, GoesOnEmbedding
<1>4. CASE indexing' = [indexing EXCEPT !.step = "failed"]
  BY <1>1, <1>4, GivesUp
<1> QED
  BY <1>1, <1>3, <1>4

\* What is stored is kept or has been embedded.
LEMMA StoreStep == ASSUME IndexInv, Store PROVE IndexInv'
<1> DEFINE segments == All
           changed == Changed
           policy == Policied
           places(key) == {i \in DOMAIN changed : changed[i].key = key}
           row(key) == IF places(key) = {} THEN document.rows[key]
                       ELSE LET i == CHOOSE i \in places(key) : TRUE
                            IN  [text |-> changed[i].text, vector |-> indexing.vectors[i]]
           keys == {s.key : s \in ToSet(segments)}
           stored == [version |-> file, analyzer |-> config.analyzer,
                      policy |-> policy, rows |-> [k \in keys |-> row(k)]]
           space == config.space
<1>1. /\ indexing.step = "store" /\ UNCHANGED <<file, config, served, turns>>
      /\ \/ indexing' = [indexing EXCEPT !.step = "failed"] /\ UNCHANGED document
         \/ /\ file = indexing.version
            /\ indexing' = [indexing EXCEPT !.step = "updated"] /\ document' = stored
  BY DEF Store, Rows, Row
<1>2. /\ IndexTypeOK /\ Shaped /\ indexing.version \in Versions
      /\ Splits(config.analyzer, indexing.version, policy)
      /\ Embedding(changed, indexing.queue, indexing.vectors, space)
      /\ indexing.queue = <<>> /\ DocumentHolds
  BY <1>1 DEF IndexInv, Versioned, InFlight
<1>3. CASE indexing' = [indexing EXCEPT !.step = "failed"] /\ UNCHANGED document
  BY <1>1, <1>3, GivesUp
<1>4. CASE /\ file = indexing.version
           /\ indexing' = [indexing EXCEPT !.step = "updated"] /\ document' = stored
  <2>1. /\ segments = Segments(config.analyzer, file, policy)
        /\ segments \in Seq(Piece) /\ KeyedBy(ToSet(segments))
    BY <1>2, <1>4, SegmentsAre DEF All
  <2>2. ToSet(changed) = {s \in ToSet(segments) : ~Keeps(s, policy)}
    BY <1>2, ChangedAre
  <2>3. /\ DOMAIN indexing.vectors = DOMAIN changed
        /\ \A i \in DOMAIN changed :
              indexing.vectors[i].text = changed[i].text /\ indexing.vectors[i].space = space
    <3>1. Queued(<<>>) = {}
      BY DEF Queued
    <3> QED
      BY <1>2, <3>1 DEF Embedding
  <2> HIDE DEF segments, changed, policy
  <2>4. ASSUME NEW s \in ToSet(segments)
        PROVE  /\ row(s.key).text = s.text /\ row(s.key).vector.text = s.text
               /\ row(s.key).vector.space = space
    <3>1. CASE places(s.key) # {}
      <4> DEFINE i == CHOOSE i \in places(s.key) : TRUE
      <4>1. i \in places(s.key)
        BY <3>1
      <4>2. row(s.key) = [text |-> changed[i].text, vector |-> indexing.vectors[i]]
        BY <3>1
      <4> HIDE DEF i
      <4>3. i \in DOMAIN changed /\ changed[i].key = s.key
        BY <4>1
      <4>4. changed[i] \in ToSet(segments)
        BY <2>2, <4>3 DEF ToSet
      <4>5. changed[i] = s
        BY <2>1, <4>3, <4>4 DEF KeyedBy
      <4>6. indexing.vectors[i].text = s.text /\ indexing.vectors[i].space = space
        BY <2>3, <4>3, <4>5
      <4> QED
        BY <4>2, <4>5, <4>6
    <3>2. CASE places(s.key) = {}
      <4>1. s \notin ToSet(changed)
        BY <3>2 DEF ToSet
      <4>2. Keeps(s, policy)
        BY <2>2, <4>1
      <4>3. /\ Exists /\ EmbeddingsCompatible /\ s.key \in DOMAIN document.rows
            /\ document.rows[s.key].text = s.text
        BY <4>2 DEF Keeps, TreeCompatible
      <4>4. document.rows[s.key].vector.text = s.text
        BY <1>2, <4>3 DEF DocumentHolds, Faithful
      <4>5. document.rows[s.key].vector.space = space
        BY <4>3 DEF EmbeddingsCompatible
      <4>6. row(s.key) = document.rows[s.key]
        BY <3>2
      <4> QED
        BY <4>3, <4>4, <4>5, <4>6
    <3> QED
      BY <3>1, <3>2
  <2> HIDE DEF row
  <2> DEFINE d == stored
  <2>5. /\ d.version = file /\ d.analyzer = config.analyzer /\ d.policy = policy
        /\ DOMAIN d.rows = keys /\ \A k \in keys : d.rows[k] = row(k)
    OBVIOUS
  <2> HIDE DEF stored
  <2>6. \A k \in keys : d.rows[k].vector.text = d.rows[k].text
                        /\ d.rows[k].vector.space = space
    BY <2>4, <2>5
  <2>7. Faithful(d)
    <3>1. Splits(d.analyzer, d.version, d.policy)
      BY <1>2, <1>4, <2>5
    <3>2. segments = Segments(d.analyzer, d.version, d.policy)
      BY <2>1, <2>5
    <3>3. \A s \in ToSet(segments) : d.rows[s.key].text = s.text
      BY <2>4, <2>5
    <3> QED
      BY <2>5, <2>6, <3>1, <3>2, <3>3 DEF Faithful
  <2> DEFINE c == indexing'
  <2>8. c = [step |-> "updated", version |-> indexing.version, limit |-> indexing.limit,
             attempts |-> indexing.attempts, queue |-> indexing.queue,
             vectors |-> indexing.vectors]
    BY <1>2, <1>4 DEF Shaped
  <2>9. /\ c.step = "updated" /\ c.version = indexing.version /\ c.limit = indexing.limit
        /\ c.attempts = indexing.attempts /\ c.queue = indexing.queue
        /\ c.vectors = indexing.vectors
    BY <2>8
  <2>10. Shaped'
    BY <2>8, <2>9 DEF Shaped
  <2> HIDE DEF c
  <2>11. document' = d /\ file \in Versions /\ policy \in Policy
    BY <1>2, <1>4 DEF Splits
  <2> HIDE DEF d
  <2>12. IndexTypeOK'
    BY <1>1, <1>2, <2>5, <2>9, <2>11 DEF c, IndexTypeOK, IndexSteps, Exists
  <2>13. Versioned' /\ InFlight'
    BY <1>2, <2>9 DEF c, Versioned, InFlight
  <2>14. DocumentHolds'
    BY <2>7, <2>11 DEF DocumentHolds, Exists
  <2>15. EndsWell'
    BY <1>1, <1>4, <2>5, <2>6, <2>9, <2>11 DEF c, EndsWell, space
  <2> QED
    BY <2>10, <2>12, <2>13, <2>14, <2>15 DEF IndexInv
<1> QED
  BY <1>1, <1>3, <1>4

\* The file and the provider: nothing of a run depends on them once it has begun.
LEMMA MeanwhileStep ==
    ASSUME IndexInv, UNCHANGED <<config, document, indexing>>,
           file' \in Versions \cup {NoVersion}, served' \in Servings, turns' \in 0 .. MaxTurns
    PROVE  IndexInv'
<1>1. Changed' = Changed /\ Policied' = Policied
  BY ChangedStays
<1>2. IndexTypeOK' /\ Shaped' /\ Versioned'
  BY DEF IndexInv, IndexTypeOK, Shaped, Versioned, Exists
<1>3. InFlight'
  BY <1>1 DEF IndexInv, InFlight
<1>4. DocumentHolds' /\ EndsWell'
  BY DEF IndexInv, DocumentHolds, EndsWell, Exists
<1> QED
  BY <1>2, <1>3, <1>4 DEF IndexInv

LEMMA NotIndexingIs ==
    ASSUME indexing = NotIndexing, MaxAttempts \in Nat
    PROVE  /\ Shaped /\ Versioned /\ InFlight /\ EndsWell /\ indexing.step \in IndexSteps
           /\ indexing.limit \in Nat /\ indexing.attempts \in 0 .. MaxAttempts
<1>1. /\ indexing.step = "idle" /\ indexing.limit = 0 /\ indexing.attempts = 0
  BY DEF NotIndexing
<1>2. Shaped
  BY DEF Shaped, NotIndexing
<1> QED
  BY <1>1, <1>2 DEF Versioned, InFlight, EndsWell, IndexSteps

LEMMA RestartStep ==
    ASSUME IndexInv, NEW c \in Configs, Restart(c), turns' \in 0 .. MaxTurns
    PROVE  IndexInv'
<1>1. /\ config' = c /\ indexing' = NotIndexing /\ UNCHANGED <<file, served, document>>
  BY DEF Restart
<1>2. IndexTypeOK /\ MaxAttempts \in Nat
  BY IndexNumbers DEF IndexInv
<1>3. /\ indexing'.step = "idle" /\ indexing'.limit = 0 /\ indexing'.attempts = 0
  BY <1>1 DEF NotIndexing
<1>4. Shaped'
  BY <1>1 DEF Shaped, NotIndexing
<1>5. Versioned' /\ InFlight' /\ EndsWell'
  BY <1>3 DEF Versioned, InFlight, EndsWell
<1>6. IndexTypeOK'
  BY <1>1, <1>2, <1>3 DEF IndexTypeOK, IndexSteps, Exists
<1>7. DocumentHolds'
  BY <1>1 DEF IndexInv, DocumentHolds, Exists
<1> QED
  BY <1>4, <1>5, <1>6, <1>7 DEF IndexInv

LEMMA IndexStep == IndexInv /\ [IndexNext]_indexVars => IndexInv'
<1> SUFFICES ASSUME IndexInv, [IndexNext]_indexVars PROVE IndexInv'
  OBVIOUS
<1>1. IndexTypeOK /\ turns \in 0 .. MaxTurns /\ MaxTurns \in Nat
      /\ file \in Versions \cup {NoVersion} /\ served \in Servings
  BY IndexNumbers DEF IndexInv, IndexTypeOK
<1>2. ASSUME NEW behind \in BOOLEAN, Begin(behind) PROVE IndexInv'
  BY <1>2, BeginStep
<1>3. CASE Segment
  BY <1>3, SegmentStep
<1>4. CASE Embed
  BY <1>4, EmbedStep
<1>5. CASE ProviderFails
  BY <1>5, GivesUp DEF ProviderFails
<1>6. CASE Validate
  BY <1>6, ValidateStep
<1>7. CASE Store
  BY <1>7, StoreStep
<1>8. CASE turns < MaxTurns /\ turns' = turns + 1
           /\ \/ \E version \in Versions \cup {NoVersion} : Edit(version)
              \/ \E serving \in Servings : ServeAs(serving)
              \/ \E c \in Configs : Restart(c)
  <2>1. turns' \in 0 .. MaxTurns
    BY <1>1, <1>8
  <2>2. ASSUME NEW version \in Versions \cup {NoVersion}, Edit(version) PROVE IndexInv'
    BY <1>1, <2>1, <2>2, MeanwhileStep DEF Edit
  <2>3. ASSUME NEW serving \in Servings, ServeAs(serving) PROVE IndexInv'
    BY <1>1, <2>1, <2>3, MeanwhileStep DEF ServeAs
  <2>4. ASSUME NEW c \in Configs, Restart(c) PROVE IndexInv'
    BY <2>1, <2>4, RestartStep
  <2> QED
    BY <1>8, <2>2, <2>3, <2>4
<1>9. CASE UNCHANGED indexVars
  BY <1>1, <1>9, MeanwhileStep DEF indexVars
<1> QED
  BY <1>2, <1>3, <1>4, <1>5, <1>6, <1>7, <1>8, <1>9 DEF IndexNext

LEMMA IndexBegins == IndexInit => IndexInv
<1> SUFFICES ASSUME IndexInit PROVE IndexInv
  OBVIOUS
<1>1. /\ file \in Versions /\ config \in Configs /\ served \in Servings
      /\ document = NoDocument /\ indexing = NotIndexing /\ turns = 0
      /\ MaxAttempts \in Nat /\ MaxTurns \in Nat
  BY IndexingBounds DEF IndexInit
<1>2. ~Exists
  BY <1>1 DEF Exists, NoDocument
<1>3. /\ Shaped /\ Versioned /\ InFlight /\ EndsWell /\ indexing.step \in IndexSteps
      /\ indexing.limit \in Nat /\ indexing.attempts \in 0 .. MaxAttempts
  BY <1>1, NotIndexingIs
<1>4. IndexTypeOK /\ DocumentHolds
  BY <1>1, <1>2, <1>3 DEF IndexTypeOK, DocumentHolds
<1> QED
  BY <1>3, <1>4 DEF IndexInv

\* A run, its document and the limits of its segments keep their types: it never tries
\* more often than MAX_ADAPTIVE_SEGMENTATION_ATTEMPTS, and no limit becomes negative.
THEOREM IndexTypesHold == IndexSpec => []IndexTypeOK
<1>1. IndexInv => IndexTypeOK
  BY DEF IndexInv
<1> QED
  BY <1>1, IndexBegins, IndexStep, PTL DEF IndexSpec

\* What reconcile_file stores is what was read: the segments of one version under one
\* policy, every oversized chunk covered within the budget, every row with the vector of
\* its own text, all of one space, however often a batch is refused, halved and tried
\* again in smaller segments, and whatever is edited or configured meanwhile.
THEOREM DocumentsAreIndexedAsRead == IndexSpec => []IndexedAsRead
<1>1. IndexInv => IndexedAsRead
  BY FaithfulIsAsRead
<1> QED
  BY <1>1, IndexBegins, IndexStep, PTL DEF IndexSpec
=============================================================================
