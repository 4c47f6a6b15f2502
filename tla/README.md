# CortexWeave in TLA+

CortexWeave is a local-first context substrate for coding agents: it indexes the
files of registered workspaces, keeps a structural graph of them, and stores
sessions, tasks, memory, episodes and experiences in one SQLite file that several
processes open (MCP servers over stdio and CLI commands). This directory holds
its specifications. Paths below are relative to the repository root.

1. Inventory 2. Modules and the code 3. Runs 4. Bounds 5. Fairness 6. Proofs
7. Findings 8. Not modelled 9. Plan

## 1. Inventory

What every component keeps, does and must get right. The machine-readable list,
with the hazards and their lines, is `PROJECT.json`.

| component | state | operations | hard parts | correct means |
|---|---|---|---|---|
| Graph publication and repair (`graph/indexer.rs`, `indexing/reconciler.rs` 647-1060, the graph half of `storage/repositories.rs`) | revision row, repair row, documents, graph tables, what each task read | index, delete, project, plan, acquire, project one document, record progress, complete, fail | several processes, each transaction a separate step, compare-and-swap on stamps, leases, crashes | a published graph is the stored documents; repairs fence writers; a repair asked for makes the graph current |
| Structural reads (`service/structural.rs`) | none; one read is many queries | snapshot, bounded walk, snapshot again | writers between the queries; limits met in the middle | an answer is one snapshot or an error; what is near is found |
| Symbol resolution (`graph/resolver.rs`, `graph/indexer.rs`) | what is projected | project or remove a document, resolve again what it may concern | ambiguity, moved names, aliases, external roots | incremental is full resolution |
| Watcher (`indexing/watcher.rs`, its lifecycle in `adapters/mcp.rs`) | signal channel, overflow flag, worker state | arm, callback, receive, debounce, batch, rescan, stop | lost signals, changes during scans, directory renames, restarts | idle means indexed |
| Reconciliation and reindex (`indexing/reconciler.rs`) | document rows, path locks of one process | reconcile a file, reindex a workspace, delete stale rows | files change between read and store, two scans, no lock around deletion | rows never go back; files that stay are kept |
| Segmentation and embedding (`indexing/segmenter.rs`, `batcher.rs`, `embedding/`) | chunk rows with vectors | segment, batch, embed, halve, make segments smaller, store | capacity errors, partial reuse, changed configuration or provider | every row has the vector of its text, all in one space |
| Discovery (`workspace/discovery.rs`) | none | scan | files and directories that cannot be read | unreadable is not absent |
| Sessions, tasks (`service/cortex.rs` 1448-1559) | rows with terminal states | start, update, end, record events | check and write are separate statements | terminal is final; no task on an ended session |
| Native delivery (`storage/native_delivery.rs`, `native_terminal.rs`) | two receipt tables | six keyed operations | lost answers, repeated and reused keys, several processes | an effect has one receipt; a repetition gets it |
| Episodes (`storage/repositories.rs` 1642-1800) | rows with versions, members, requests | start, add events, close, abandon | optimistic versions, repeated requests, deferred transactions | an episode is what its requests made of it |
| Experiences (`service/consolidation.rs`, `experience_assessment.rs`, `storage/repositories.rs`) | experiences, assessments | preview, accept, review, propose disputes, search | previews older than inserts, order of events, order of ingress | one experience per episode, of the whole episode; verdicts stay |
| Evidence (`service/evidence.rs`, `failure.rs`) | none | decode, normalize | many contracts, contradictory reports | only what a contract proves is claimed |
| Test evidence (`storage/test_evidence.rs`) | import receipts | import | same run or key with other content, lost answers | a run is evidence once |
| Memory (`service/memory.rs`, `cortex.rs` 1605-1740) | memories, trust reviews, supersessions | record, review, supersede, resume | trust is read outside the inserting transaction | what is hidden was replaced by something trusted |
| Working set (`service/context.rs`) | entries with scores, pins | activate, inspect, prune, pin, unpin | reads older than deletions, compare-and-swap | pins protect; no increment is lost |
| Context packets (`service/context.rs`) | none; a packet is many reads | collect, merge, fit, add experiences | limits and shares, required items, a reserved experience | what is required comes first and the budgets hold (not what D074 promises of it: finding 6) |
| Resume and recall (`service/context.rs`, `storage/repositories.rs` 1833-2000) | checkpoints | save a checkpoint, resume, recall | a dozen reads among writers; two orders | the work named belongs together |
| Hybrid search (`retrieval/service.rs`) | none | semantic, lexical and structural reads, fusion | edits and publications between reads | best first, structure not crowded out |
| Registration, deregistration (`storage/workspace_deregistration.rs`, `adapters/mcp.rs`) | workspaces, plans, receipts | register, preview, confirm, replay | plan expires, snapshot differs, answer lost, watcher stopped in vain | removed once, as previewed; a repetition gets the receipt |
| Analyzers, storage opening, configuration, CLI, instrumentation, runner integrations | none, or read once | | | see section 8 |

How they interact: the watcher and `workspace_reindex` call the reconciler, which
segments, embeds and writes documents and then asks for one graph repair; the repair
projects each document through the graph indexer; structural reads and searches look at
the tables while all this goes on. Sessions, tasks, episodes and events are written by
tool calls and by native delivery; experiences are built from ended episodes; context
packets read everything. The only shared state is the SQLite file (WAL, one writer at a
time) and, within a process, the path locks, the channel and the overflow flag.

## 2. Modules and the code

| module | models |
|---|---|
| `GraphPublication` | publication of one workspace's graph by several tasks |
| `GraphContract` | what the graph promises its readers, in four actions |
| `GraphRefinement` | the mapping under which the first implements the second |
| `GraphReads` | one structural read beside `GraphPublication`'s writers |
| `StructuralTraversal` | the bounded walk inside such a read |
| `SymbolResolution` | what relationships resolve to, and which are resolved again |
| `WorkspaceIndex` | files, watcher, reindex and document rows |
| `DocumentIndexing` | one document through segments, batches, retries and rows |
| `WorkspaceRemoval` | registration, deregistration and the watchers around it |
| `NativeDelivery` | sessions, tasks, episode starts, events and delivery receipts |
| `EpisodeLedger` | episodes, their members and requests, and accepted experiences |
| `EvidenceReports`, `ExperienceRecord`, `ExperienceExtraction` | what events say, what the store demands of an experience, what an episode yields |
| `ExperienceReview` | assessments, lifecycles, proposed disputes, search |
| `MemoryReview` | trust and replacement of memories |
| `TestImport` | imports of captured test runs |
| `WorkingSet` | activations, decay, pins and pruning |
| `PacketAssembly` | a packet under its budget, with experiences |
| `ResumeContext`, `TemporalRetrieval` | taking work up again, and looking back |
| `HybridSearch` | one search among edits and publications |
| `MCServices`, `MCWorkspaces`, `MCConvergence` | sums of modules that meet only in the database |
| `MCPackets` | the candidates and experiences packets are checked with |
| other `MC...` | symmetry, reference graphs and values for TLC |
| `Ordering` | a finite set in an order, as `sort_by` leaves it |
| `Foundations` | lemmas: induction, functions defined by recursion, sets in order |
| `GraphPublicationProofs` | theorems about the graph, its contract and its reads |
| `RetrievalProofs` | theorems about walks, searches and context packets |
| `WorkspaceProofs` | theorems about the index, its documents, removal and symbol resolution |
| `NativeDeliveryProofs` | theorems about deliveries |
| `ServicesProofs` | theorems about the working set, test imports, memories, reviews of experiences and episodes |
| `ExtractionProofs` | theorems about what an episode yields |
| `ResumeProofs` | theorems about resuming and recalling |

A SQL transaction is one action when it takes the writer slot at once (BEGIN
IMMEDIATE, or a write as its first statement). A deferred transaction that reads first
is two actions, and SQLite refuses its write when another connection has committed in
between (`EpisodeLedger`, `ExperienceReview`, `MemoryReview`). Reads outside
transactions are actions of their own.

**GraphPublication.** `row` is the row of `workspace_graph_revisions`, `repair` that
of `workspace_graph_repairs`, `docs` and `graph` the documents and all graph tables
by the document that owns the rows. One SQL transaction is one action; `job[w]` is
what a task remembers between two of them, so a compare-and-swap meets whatever
others did in between. `WriteDocument` is `apply_document_reconciliation` with the
triggers that bump the content revision; `ListExpectations`, `ReadSnapshot`,
`PrepareBatch`, `MarkUpdating`, `ApplyProjection` and `ClearUpdate` are the steps of
`reconcile_document_inner`; `PlanRepair` to `FailRepair` those of `repair_graph`;
`BeginDelete` to `ApplyDeletion` those of `delete_document`. `Crash`, `PrepareFails`,
`ApplyFails`, `SourceChangedDuringRepair` and `LeaseExpires` happen between any two
of them. Abstractions: a document is its id and the revision it was written at; its
facts point at the fixed set `Refs[p]`, as if every path defined one symbol and kept
its text; one analyzer version; a lease runs or has ended, whatever the clock says;
stamps take the smallest value `next_update_time` allows, which is the case that is
hardest on comparisons. `InPlaceRefresh` (`Refreshing`) switches on the rewriting of an
unchanged document under its old revision (`reconciler.rs` 519), which follows a change
of the embedding configuration and is counted with the faults.

`ServiceNext` is what the service does (documents first, then one repair); `Next`
adds the incremental operations of the indexer that the decision log (D067) leaves
to other callers and that the tests use.

**GraphReads** composes one read with `ServiceNext`: each query of the snapshot and
of the traversal is an action. `first` and `described` are an observer's notes.

**WorkspaceIndex.** `disk` and `ignored` change at any moment; each change reaches the
callback through `pending`, the callback `try_send`s into `queue` or sets
`overflowed`. `Receive`, `TakeSignal`, `DebounceEnds`, `BatchEnds` are `run_worker`
and `process_batch`; `Scan` to `ReindexEnds` are `reindex_workspace` with its two
scans; `ReadFile` to `RemoveDocument` are `reconcile_file_source_only` under the path
lock. Content is a number that grows with every change, so "older" means something;
0 stands for everything `reconcile_file` treats as absent. A scan is one step: every
property speaks of one path at a time and a scan visits a path at one instant. The
flag store after a full channel follows the failed `try_send` in the same step: the
worker looks at the flag only when it receives, and the model's receive may come
before the notification as well. `gone` and `failed` are history variables for the
properties; no guard reads them. `FaultKinds` chooses among unreadable files,
unreadable directories, storage errors, notifications and stops of the server.
`Notify` is the callback's handling of an event. When the system reports an error
instead (`watcher.rs` 97), the callback only logs it: that is `NotifyFails`, after which
nothing stands for the change. The tasks are those of one process.

**NativeDelivery.** A client is a harness process that repeats a request until it is
answered; the transaction of `deliver_native` (BEGIN IMMEDIATE) is one step that
commits row and receipt, and the answer may get lost. A key may be used again with
other content, by the same or another client. Callers without keys run
`start_task`, `start_episode`, `update_task` and `end_session` as a check and a later
write. Rows are numbered in creation order. Owner metadata and time stamps never
change once written; they can only cause refusals and are left out, as are size
limits. A transaction that fails changes nothing and is a stuttering step, followed
by a repetition.

**SymbolResolution.** `ProjectDocument` and `DeleteDocument` replace a document's nodes
and facts and resolve its own facts and those that `affected_relationships` selects;
`Resolve` is the resolver with its scopes, ambiguity, aliases and external roots. Reading
and writing are one step, since `GraphPublication` shows that a batch with older reads is
refused. Names are values and an analysis is a constant: how a key is spelled is given.

**DocumentIndexing.** `indexing` is what one `reconcile_file_inner` remembers: the version
it read, the limit it segments under, the queue of batches and the vectors so far. A
refused batch goes back as two halves up to `MaxDepth`; a refused item starts over with
smaller segments up to `MaxAttempts`; what the provider answers is checked for number and
length. Before `Store` the file is read again. Chunks have different keys:
`disambiguate_duplicate_keys` sees to it, and the table's UNIQUE constraint. A character is a token whose value
says which boundary follows it, and a vector is the text it was made from.

**WorkspaceRemoval.** A plan's snapshot is the number of rows; the counts and states the
code stores besides are further numbers of the same kind. `Resolvers` are callers that
resolved the workspace earlier and write later. `mcp` holds the server's watchers and the
steps of its deregistration tool.

**EpisodeLedger.** `Begin` and `Write` are the two halves of `mutate_episode`; `Busy` is a
stale snapshot. `AskAcceptance`, `Preview`, `Identify` and `Insert` are the reads of
`ConsolidationService::accept` and `insert_experience_checked`. A proposal is named by what
it hashes; builds of the program with other contracts or code see other proposals.

**ExperienceExtraction** scans one episode event by event (`consolidation.rs` 340-560).
`EvidenceReports` has one operator for each contract's decoder and normalizer, over events
reduced to the fields these decide by; `ExperienceRecord!Admitted` is
`validate_experience_record`: the limits on attempts, evidence (`WithinLimits`) and
observations (`BoundedVerdict`), and what has nothing to do with size (`Consistent`). A
proposal has no snapshots and gives no reasons, so the limits on those are left out.

**ExperienceReview, MemoryReview, TestImport** keep the rows of the tables as sets or
sequences in the order of ingress. Requests that are refused before anything is read are
left out.

**WorkingSet.** Each read, swap and deletion is a statement. `merged`, `guarded` and
`crowded` are history variables; `merged` is recomputed from the activations alone.
**PacketAssembly** grows the bounded pool source by source, then fills the packet and
searches experiences up to three times, as `get_context` does.

**ResumeContext, TemporalRetrieval.** Every write takes the next hour, so that no rows are
equally old. `resume` remembers what each read of `resume_context` chose. A task may begin
on a session that has ended: `start_task` looks the session up in an earlier statement
(`NativeDelivery` has both).

**HybridSearch** treats a structural read as its two snapshot reads with the answer of one
graph, which is what `GraphReads` shows, and `StructuralTraversal` walks a graph that does
not change for the same reason.

## 3. Runs

| run | question and answer |
|---|---|
| `graph_publication` | Two tasks that index, delete, project and repair, with a fault between any two steps: publication, soundness of edges, fencing and the contract hold. |
| `convergence` | What a server brings about in the end, as a sum of two sides. The watcher alone, through overflow, renames, ignore edits, lost notifications, faults and restarts: idle means indexed, files that stay are kept, and it gets there. Repairs of two tasks that overlap as they like: one that is asked for publishes the graph unless a source changes or something fails after it was asked for (`GraphConverges`). |
| `graph_fact_lost` | Counterexample: an interrupted repair hides the loss of an edge (finding 1). |
| `graph_reads` | A read that is answered saw one published graph, although every query saw other tables, and although documents may be rewritten in place (`ServedIsOneSnapshot`). |
| `workspace_tools` | What a server does for a workspace beside its graph, seven sides in one sum: the watcher with a `workspace_reindex` (rows never go back), removal (`RemovedAsPreviewed`, `RemovedForEver`, `WatchersReturn`), `ResumedWorkIsWhole`, `RecallKeepsTheFreshest`, `SearchShowsStructure`, `FindsWhatIsNear`, `IndexedAsRead`. |
| `workspace_reindex_race` | Counterexample: a reindex deletes a row newer than its scan (finding 2). |
| `workspace_unwalked` | Counterexample: an unreadable directory loses the rows below it (finding 3). |
| `native_delivery` | Two harness processes and a caller without keys: receipts are exclusive, closure follows the completion it names, terminal states are final, a committed request is never refused. |
| `native_task_race` | Counterexample: a task begins on an ended session (finding 4). |
| `services` | Eight services in one sum: episodes replay their requests and yield one experience, previews say what the evidence says, verdicts stay, disputes are recurrences, trust follows reviews, what is hidden was replaced by something trusted, packets keep their budgets and the required come first, pins protect and no increment is lost, relationships are resolved as if from scratch, test runs are evidence once. |
| `import_alias` | Counterexample: an import stays unresolved after its target appears (finding 5). |
| `required_displaced` | Counterexample: a reserved experience cuts a required source (finding 6). |

`MCServices`, `MCWorkspaces` and `MCConvergence` are sums, not products: one variable names the module
whose actions a behavior consists of, and the others keep their initial values. The
modules share no table that one writes and another reads without it being a constant or a
variable of the reader, so their interleavings would add states and no behavior. Every
property of a module is therefore checked on all behaviors of that module.

Every property of a passing run has a mutant in `PROJECT.json`: a plausible bug in
one definition (kept beside it and marked "mutated") under which the run fails.

## 4. Bounds

Bounds stand in guards and are CONSTANTS named `Max...`.

- Graph: two tasks are enough for each race between an owner and an intruder, the
  intruder being any other number of tasks one after the other; two documents that
  refer to each other give an edge in both directions and a fact whose target comes
  later; three in a chain are needed to lose a fact unnoticed. Two content
  revisions, two repair generations and one fault allow a write during a repair, a
  second repair after a lost lease, and a crash at any step. `MaxAttempts` is 2
  where the code has 3: one retry and giving up. `graph_reads` has one fault or
  rewriting in place beside one repair generation. `convergence` has two revisions, one
  fault and three generations: one that fails, one that another task may interrupt, and
  the one asked for. No behaviour reaches its bound on stamps; `GraphConverges` excepts
  those that reach the bound on generations, since a bound that stops an enabled action
  says nothing of the code.
- Workspace: two paths under one directory, a channel of one place (the overflow is
  what matters; capacity is a parameter of the code as well), two changes and two
  faults for the watcher. Two changes allow to create and remove or replace a path, or a
  rename into a scan; two faults a stop and the loss of what was to make up for it. The
  theorems have the safety half for any number. `workspace_tools` has one path, two changes, one fault and one
  concurrent tool: what its property is about, two tasks with two readings of one
  file, is said of each path alone, and theorem `StoredContentsGrow` has it for any number.
- Removal: two registrations of the root (so that a stale request may meet the second),
  two plans, two keys, one row, and two ticks of the clock: a plan is good for the tick
  it was made in.
- Documents: two versions of two chunks, one of which is split in two to four segments;
  three configurations and three servings of the provider; four edits, servings or
  restarts. Two halvings and two smaller limits are each enough to fail at the end.
- Searches: three chunks of two files, one edit. Walks: four nodes, seven edges with a
  cycle, a loop and a second way, every subset of them, and limits that are met and not.
- Resume and recall: two sessions, two tasks, one memory, one event, and four writes: one
  before the first read and others between reads.
- Native: two rows of each kind, two keys, two details, two processes, four requests and
  one unkeyed call. Clients, keys and details are symmetric: no property tells them apart.
- Services: two callers each; two episodes, events, keys, contracts and two versions (one
  mutation is in time and the other late); two lessons and failures; three memories, the
  fewest a circle of replacements can be hidden in; twelve candidates of all kinds, some
  found twice, for packets of four; two sources and a limit of one pin; twelve kinds of
  events in all sequences of up to five for the extraction (a failure, two attempts with a
  result each), with limits of one attempt, four events and two observations, so that
  previews of every kind are just small enough and just too large; two runs, keys and contents for imports.

Deadlock is not checked: every model stops when its bounds are used up, and the
programs may rest.

## 5. Fairness

Only scheduling is assumed, in `convergence`:

- Of the graph's tasks (`Scheduling` of `GraphPublication`): a task that runs is scheduled
  (weak fairness of its steps; tokio). Nothing is assumed of callers. Nobody has to ask for
  a repair, nothing in the code repeats one that failed, and calls of watcher batches,
  reindexes and server starts overlap as they like. `GraphConverges` therefore speaks of a
  repair that was asked for while the rows call for one (`RepairAsked`), and says nothing of
  what follows a later change or fault: that takes another call. Nor does it speak of a
  call that finds a repair at work that began before a change or a fault; the call
  reports that repair and does nothing, and the repair may fail.
- Of the workspace (`Scheduling` of `WorkspaceIndex`): the callback thread, the worker and
  the steps of a reconciliation that has begun are scheduled; a stopped server is started
  again. Nothing is assumed of files, faults or tool calls.

## 6. Proofs

All by TLAPS, for any number of tasks, documents, clients, callers, keys and rows, any
references and any bounds. Assumptions are the named ASSUMEs of the modules: paths are
finitely many positive numbers, bounds are naturals, "none" is no identity, and, in
`SymbolResolution`, what analyzers guarantee of names (a key tells the name, a qualified
name ends in it); nodes, edges and chunks of a walk or a search are finitely many; what a
decoder finds is not the mark for finding nothing; the chunks of a version have different
keys. A theorem that needs more says so in its
ASSUME. Each component has a theorem that its state keeps its types; those are not repeated
below.

The library's induction theorems take a predicate, which the provers cannot instantiate.
`Foundations` derives induction in a form they can use, from the well-founded order of the
natural numbers: the hypothesis is a set, that of the numbers for which the claim is true
(`SetInduction`, `InductionUpTo`). On it rest `Recursion` (a function defined by recursion
is one) and `Arranged` (n elements in an order have the places 1 to n), and with these what
a walk, a fusion or a scan computes from data of any size is proved and not only checked.

Graph:

- `TypeCorrect`: TypeOK is inductive. Each action's effect on the job records and the
  tables is a lemma of `GraphPublicationProofs`, used again below.
- The safety argument needs more than TypeOK. The inductive invariant is
  TypeOK, `RowsBelongTogether` (no row, no graph), `JobsNameRevisions` (who writes or
  projects has a revision), `StampsGrow` (within one content revision the row's stamp
  never falls, and whatever a task remembers of it is not newer) and `ViewsHold` (if a
  task's compare-and-swap can still succeed, the projected set it saw is the
  present one). The last is why the optimistic protocol works: every write to the
  graph tables moves the stamp, so an unmoved stamp means unmoved tables.
  `SnapshotsStayFresh` proves it.
- From it: `PublishedGraphMatches` (what is published is what is stored),
  `ProjectionStaysSound` (no dangling edge, nothing unresolved that could be
  resolved), `ProjectionsStored`. `RepairFences` needs types only.
- `PublicationImplementsContract`: every step maps to a step of `GraphContract` or a
  stutter; `DatedStep` adds that no document is newer than the content revision, which
  the contract's growing revisions need.

- `ReadsServeOneSnapshot`: what a structural read serves is the graph as it was when the
  read began. `ReadInv` says what each query has seen as long as the stamps it noted are
  still those of the row (`SeenAsFirst`); with `StampsGrow` equal stamps at the end mean
  that they were equal all along, and `RowAdvances` that no step writes the graph and
  leaves them.

`PublishedGraphMatches` and the refinement assume `~InPlaceRefresh`;
`ReadsServeOneSnapshot` does not, and `graph_reads` runs with it on: reads check each
document's version for that reason.

Workspace index and removal:

- `StoredContentsGrow` (rows never go back). The invariant is `HistoryInv`: a row is not
  ahead of its file, what a task has read lies between the row and the file of now, and
  two tasks never hold one path. The middle part is why a store can only advance a row,
  and it is inductive because of the lock.
- `DeletedWereGone` and `SettledRowsAreRight` are about a watcher that works alone
  (`Tools = {}`) on a tree whose directories can be walked (no "walk" among the faults).
  Both conditions are needed: findings 2 and 3 are counterexamples without them. The
  first rests on `GoneInv`: whatever the watcher is about to delete, it saw missing after
  the row was stored. The second on `CoveredInv`: a row that is wrong, and every
  observation of the watcher that is no longer true, is covered by a signal in the
  callback, the channel or the batch, by the overflow flag, by a rescan that is due, or by
  the reconciliation under way. Each step passes a signal on before it forgets it
  (`NothingForgotten`), so with nothing left to do no row can be wrong. `CoveredInv` was
  checked by TLC under the constants of the watcher's run before. "Right" excepts the
  paths that a logged failure touched, a lost notification (`UnheardCovers`) among them.
- `RemovalsArePreviewed` and `RemovalsLast` follow from `TablesInv`: receipts, spent plans
  and removed workspaces correspond one to one, and rows belong to the workspace of now.
  `WatchersAreReturned` needs `WatchersKept`: a handle is a watcher that is ready, and one
  that is stopped belongs to the workspace a request is deregistering.

Documents:

- `DocumentsAreIndexedAsRead`: `RangesCover` says of one text that its segments cover it
  within the budget: a segment that does not end the text has at least half the width and
  the next one repeats at most a quarter of it (`EndIs`, `StartIs`), so ends grow
  (`EndsGrow`) and some segment ends the text (`LastIs`). It needs a width of at least 1, which
  is what `CannotSegment` leaves (`SegmentSplits`). Keys tell the segments of a version apart
  (`SegmentsAre`), and exactly those not kept are embedded (`ChangedAre`). The inductive
  invariant (`IndexInv`) says of a run that each place is in a batch that waits or has a
  vector of its own text in the configured space (`Embedding`: planning puts every place in a
  batch, halves put it in one of two), and of the document that it is `Faithful`. What a
  store does not embed was kept, and `Keeps` asked for the same tree and the same space. TLC
  checked `IndexInv` under the constants of `workspace_tools` before.
- `IndexTypesHold`: the same invariant.

Native delivery:

- `NativeTypes`: TypeOK with `RequestsNameRows` (what a request or a call refers to
  exists; rows are never deleted while the workspace is registered).
- `TerminalStaysFinal` follows from what each step may do to the tables
  (`SessionsStep`, `TasksStep`): the conditions are in the statements that write.
- `ReceiptsStayExclusive` and `ClosureWasEarned` need `ReceiptsDescribe`: a completion
  receipt's row is the task's row of now, because completed tasks are final. Hence a
  second completion finds no active task, a second closure no open session, and
  `EndSession` may trust the receipt it is shown.
- `RepetitionsAreAnswered`: a recorded request is never refused, because the receipt
  under its key is unique.

Symbol resolution:

- `PlainFactsAreResolved`: the inductive invariant adds to the property that every
  projected analysis is one its document can yield and that exactly the asserted facts are
  resolved. The step rests on one lemma: a term whose surface a change did not touch is a
  term of the same nodes as before, so a fact that is kept would be resolved to the same.
  Imports with aliases are excluded, and finding 5 shows why.
- `ResolutionTypesHold`: the same invariant with the type of a projection; what is kept of
  an old one was asserted before, so it had one.

Episodes and experiences:

- `OneExperience`: a caller's reads, identity and insert are transactions of their own. The
  invariant says that what a caller has prepared, and what is accepted, is still the
  proposal of its episode (`Settled`). It is inductive because no step changes an episode
  that has ended (`EndedKept`): the status is in the statement that updates, however old
  the snapshot is. Uniqueness then follows from the check inside the inserting transaction.
- `RequestsMakeTheEpisodes`: what is in an episode is what its requests brought, each once
  and in their order. The invariant counts: every version was asked for by exactly one
  committed request, a request's events stand at the places its predecessors left, and no
  event has two places (`RequestsMade`). For the answers it says that a refused request is
  `Doomed`: the version it expects is past, its episode has ended or is full, or an event
  of it belongs to another, and each of these is for ever.

Working set:

- `PinsProtect`: a deletion is decided from rows and pins read earlier. The invariant
  (`CallKnows`) says that a decided deletion names no guarded row: a row that is guarded
  when the pins are read stays (`PinnedStay`: at most the other pins come before it, and
  there are fewer than the limit), and a row that becomes guarded later has a newer
  identity than any row the caller has seen. `IncrementsKept` needs no strengthening.
- `SetTypesHold`: a decayed score is a function defined by recursion, so it stays below the
  limit by induction (`Halvings`). The invariant (`SetTypes`) adds to the types that the
  row or the pin a call is about to write has its own (`CallTyped`), and that the entries
  are what the history of their updates says (`merged = entry`).

Test runs:

- `RunsImportOnce`: receipts identify a request by run and by key, describe the events, and
  every event of a run has one; while the workspace is registered, what was told is a
  receipt.
- `ImportTypesHold`: the same invariant, and that events never outnumber their places.

Memories and reviews:

- `ReviewsAreTheHistory`: a verdict that is prepared was decided on the trust of now, or the
  commit is refused, since a commit in between makes the snapshot stale.
- `HiddenMemoriesLeadOn` and `ReplacementsHaveAnEnd`: replacements are a relation in which
  every element reaches an end, and the pair that is inserted closes no circle because the
  recursive query ran in the snapshot that the insert commits on. `Chain` and `Successors`
  are least closed sets; `Reach` and `Heirs` are the same for a relation that is named, with
  lemmas that they are closed, least and monotone.
- `NegativeVerdictsStay`: reviews are only added and the lifecycle is the most severe of them.
  `ProposedDisputesAreRecurrences`: what came in before what does not change any more.

Resume and recall:

- `AnswersBelongTogether`: about a dozen reads, among writers. `MovesOn` says of every write
  what it cannot do: the begin of a session, the session of a task and a checkpoint do not
  change, and what changes carries an hour later than the request. The result of each read
  is stated so that it stands while writers move on (`SessionStands`, `TaskStands`,
  `CheckpointStands`, `EvidenceStands`, `NotesStand`, `EventsStand`), and each read needs
  only those before it. `TaskUnsaved` is what the read of a task's checkpoint leaves behind
  when there is none, and `TaskSearched` the same of the first read of active tasks.
- `TheFreshestAreKept`: the order of the query and that of the service are one up to the
  clock (`OutranksIsFirst`), the query's order is transitive, and among finitely many rows
  what has the limit's number of rows before it is not before one that has fewer. That rows
  are finitely many is an invariant (`FewRows`): each write adds one.

Walks and searches:

- `WalksFindWhatIsNear`: `WalkInv` says of a walk under way that each path found is a path of
  stored edges to distinct new nodes (`PathsHold`, `EndsHold`), that no count exceeds its
  limit (`CountsHold`), that the queue is in levels (`InLevels`: one level and the next, the
  shorter first), and that, as long as no limit was met, every path known is a shortest one
  and what is next to a path that was expanded has been found (`NothingMissed`). At the end
  nothing is left to expand, so the rest follows by induction over the distance. Of a walk
  that met a limit the theorem says little: an impact analysis that met the limit of nodes
  is marked truncated. A traversal that met it need not be (section 7).
- `SearchesShowStructure`: snapshots follow each other (`SnapshotsInOrder`), what is still to
  be expanded and every piece of evidence were seen in one of them (`LeftIsSeen`,
  `EvidenceIsSeen`), and the answer consists of the first ones in the order of the scores,
  with the best structural result in the last place if none was among them
  (`RankedInOrder`, `FirstAnswers`, `KeptAnswers`).

Context packets:

- `RequiredFillBudgets`: the passes over the candidates are one function defined by
  recursion, so what a pass keeps is an induction over its order. `Packs` says what each keeps:
  the items cost no more than the budget, have distinct identities and come from the bounded
  pool, and every required source met so far is `Settled`: it is in the packet, can never be, or
  the budget is spent on sources required at least as much. Since required sources come first
  and in their order, whoever spent it was. `RequiredRetained` is the same for the bounded pool:
  a required source leaves it only if too many are required before it, also when the last of
  the pool makes room for structure. `Chosen` says of the experiences that they fit the room
  and share no event with the items or each other, and `PacketInv` that what a refill leaves
  of the budget is what the reserved experiences do not use. Hence the exception in the
  theorem: required sources fill the budget except for the tokens experiences may reserve.
  That they fill all of it, as D074 says, is false (finding 6).

Previews:

- `PreviewsAreTheEvidence`: the scan is a fold over the events of an episode, the property
  speaks of their places. `ScanInv` says of a scan under way that what it remembers is what
  the places say so far: the first failure, the attempts as a partition of the actions and
  results after it in their order (`Hold`), what is pending, and that a refused scan has an
  event without a place. At the end the last attempt's results are the final run
  (`FinalRunIs`, `TerminalsAre`), attempts are counted by their first results
  (`LeadsCount`), and the record that is made of them meets what the store demands apart
  from size (`RelationsAdmitted`, `OutcomesAdmitted`, `StrengthAdmitted`). Its size is the
  number of attempts, of events with a place and of final results, so the store admits it
  exactly if these are within its limits (`FitsTheStore`): not every preview is admitted.

Only model-checked:

- Liveness (`GraphConverges`, `Converges`): temporal proofs under fairness are beyond the
  prover.
- `TypesOK` and `SidesTypeOK` put the components' types together; what they are made of is
  proved of each component.
- What the folds of the library compute (token sums in `DocumentIndexing`, for instance):
  they take an operator, about which nothing can be cited. No theorem depends on it.

## 7. Findings

Each is a run that ends with a counterexample; `PROJECT.json` quotes the sentence
that promises otherwise.

1. `apply_graph_reconciliation` recounts the manifests of all documents, so a manifest
   agrees with a loss as soon as anything is projected; if that repair is
   interrupted, the next one finds all complete and publishes.
2. `reindex_workspace` deletes rows its last scan did not see, without the path locks
   and without another look at the file.
3. A directory the walk cannot open is only logged; the files below it are neither
   seen nor remembered as failed, and lose their rows.
4. `start_task` without a key checks the session in one statement and inserts in
   another. `deliver_native` does it in one transaction.
5. `affected_relationships` compares the target an import was written with, never its
   aliases: a file that appears later at an aliased path does not resolve the import.
6. When an experience found no room, the packet is built again within the budget less its
   cost, the required sources included: one that was whole before is cut or missing, though
   D074 says that required evidence is never displaced.

What else the code does otherwise than a document says, or than a reader would expect, met
while modelling. The modules follow the code; no run is spent on these:

- D058 (`docs/decisions.md` 842-844, `docs/configuration.md` 90-92) lets a hybrid search
  answer without structure when the graph is not available. After the seeds were found the
  errors of the traversal are passed on (`retrieval/service.rs` 388-411), so an edit between
  the two makes the search fail.
- D057 (`docs/decisions.md` 820-821) has a truncated walk say so. `service/structural.rs`
  486 looks only at what is queued: the node that met the limit is not, and what its own
  edges lead to is left out unsaid.
- A recovery scan that fails is not repeated although the overflow flag is cleared
  (`indexing/watcher.rs` 166), and an error the system reports instead of an event sets no
  flag at all (97). What was lost stays lost until the path changes again or somebody
  reindexes; the properties except it.
- D077 (`docs/decisions.md` 1249-1252) promises a conflict; a stale snapshot or a busy
  writer is a storage error.
- D081 (`docs/decisions.md` 1366-1368): an acceptance that follows an attempt which is not
  the last does not make the proposal one that must be reviewed. `PreviewIsTheEvidence`
  says what the code does: a proposal with an acceptance among its final results is reviewed.
- D022 (`docs/decisions.md` 205-214): a row that was activated or pinned after `prune_session`
  had read it may still be deleted (`service/context.rs` 1495-1545). Two callers may pin
  beyond `max_items` (`service/context.rs` 226-243), after which pins displace pins.
- `context.experience.candidate_limit` (`config.rs` 511) is never read, though
  `docs/configuration.md` 143-144 explains it.
- `resume_events` (`storage/repositories.rs` 1811-1833) returns the oldest 128 events of a
  session; `docs/resume-context-design.md` 99-101 speaks of recent ones. A memory that is
  replaced between two reads of a resume becomes a candidate marked as replaced.
- An answer of a hybrid search may carry seed evidence of one snapshot and paths of
  another; each is labelled with its own.
- An episode with more than 32 attempts, 256 events with a place or 16 final results yields
  a preview that the store refuses (`storage/repositories.rs` 5443-5451, 5657). The limits
  are in the model, and `PreviewIsTheEvidence` says when an admission fails for size.
- A document that was stored under a reduced limit is analysed and sent again by every
  reconciliation; one whose provider changes the length of its vectors without a declared
  dimension may hold two lengths until the next one.

## 8. Not modelled

- Language analyzers: walks over the syntax trees of external grammars. The modules take
  an analysis as a constant.
- Scores: FTS5 ranks and cosine similarities are given as orders or small numbers.
- The HTTP client of the embedding provider, the CLI, configuration parsing, path
  identity, instrumentation, evaluation, harness types and runner scripts: no interacting
  state, or state that is read once.
- SQLite itself: a transaction is an atomic action; cascades and triggers that matter
  are part of the action. Migrations and health checks are left out.
- `acknowledge_graph_revision`, which no runtime path calls, and documents of several
  analyzer versions at once.
- Two processes that reconcile one path at the same time (the path locks are not shared
  between processes).
- Rendering, wording and token counting of packets, and listings.

## 9. Plan

Done: the graph, its reads, walks and resolution; the workspace index, the indexing of a
document, removal; native delivery; episodes, experiences, evidence, memory, working set,
packets, resumes, recall, search. Next, in this order:

1. A second process in `WorkspaceIndex`, whose reconciliations share no path lock.
2. A run of its own for the truncation mark of traversals (D057).
3. `GraphReads` with two readers of different workspaces; experience search with its
   ranking.
