------------------------------ MODULE TestImport ------------------------------
(***************************************************************************)
(* The import of captured test runs: one event and one receipt per run, in *)
(* one BEGIN IMMEDIATE transaction, which is one step.  Answers get lost,  *)
(* requests are repeated under the same or another key, with the same or   *)
(* other content, and the workspace may be deregistered.                   *)
(*                                                                         *)
(* Data abstraction.  A bundle is the run it names and its content; the    *)
(* producer and its version are part of the run.  Of session and task only *)
(* counts whether they belong together and to the workspace.               *)
(***************************************************************************)
EXTENDS Naturals, FiniteSets

CONSTANTS
    Runs,        \* producer, version and run id
    ImportKeys,  \* request keys
    Bundles,     \* what a report says
    Owners,      \* a session and a task
    Matching,    \* the owners that belong together and to the workspace
    MaxRunEvents \* bound: events of the workspace

ASSUME MatchingAreOwners == Matching \subseteq Owners /\ MaxRunEvents \in Nat

VARIABLES
    registered,  \* whether the workspace still exists
    runEvents,   \* its events, by their order of ingress
    imports,     \* test_evidence_import_receipts
    told         \* what the requesters were told: their request, and the event

importVars == <<registered, runEvents, imports, told>>

Request == [run : Runs, key : ImportKeys, content : Bundles, owner : Owners]
Place == 1 .. MaxRunEvents

\* An event of a test run has its run, any other none.
NoRun == "note"
RunEvent == [run : Runs \cup {NoRun}, content : Bundles]

ImportTypeOK ==
    /\ registered \in BOOLEAN
    /\ DOMAIN runEvents \subseteq Place
    /\ \A i \in DOMAIN runEvents : runEvents[i] \in RunEvent
    /\ imports \subseteq [request : Request, event : DOMAIN runEvents]
    /\ told \subseteq [request : Request, event : Place]

ImportInit ==
    registered = TRUE /\ runEvents = <<>> /\ imports = {} /\ told = {}

-----------------------------------------------------------------------------
\* The commit is answered, or the answer is lost and the request repeated later.
Tells(q, i) == told' \in {told, told \cup {[request |-> q, event |-> i]}}

Ingress(run, content) ==
    /\ Cardinality(DOMAIN runEvents) < MaxRunEvents
    /\ runEvents' = [i \in 1 .. Cardinality(DOMAIN runEvents) + 1 |->
          IF i \in DOMAIN runEvents THEN runEvents[i] ELSE [run |-> run, content |-> content]]

Foreseen(q) == {x \in imports : x.request.run = q.run}

\* mutated: the key alone identifies the request
KeyAgrees(x, q) == x.request.key = q.key
Agrees(x, q) == x.request = q

Reimport(q) ==
    \E x \in Foreseen(q) :
        /\ Agrees(x, q)
        /\ Tells(q, x.event)
        /\ UNCHANGED <<registered, runEvents, imports>>

Import(q) ==
    /\ registered /\ Foreseen(q) = {}
    /\ ~\E x \in imports : x.request.key = q.key
    /\ q.owner \in Matching
    /\ Ingress(q.run, q.content)
    /\ imports' = imports \cup {[request |-> q, event |-> Cardinality(DOMAIN runEvents) + 1]}
    /\ Tells(q, Cardinality(DOMAIN runEvents) + 1)
    /\ UNCHANGED registered

\* insert_event, native_deliver: anything else than a normalized test run.
Note(content) ==
    /\ registered
    /\ Ingress(NoRun, content)
    /\ UNCHANGED <<registered, imports, told>>

\* Every row of the workspace goes.
WorkspaceGoes ==
    /\ registered
    /\ registered' = FALSE /\ runEvents' = <<>> /\ imports' = {}
    /\ UNCHANGED told

ImportNext ==
    \/ \E q \in Request : Reimport(q) \/ Import(q)
    \/ \E content \in Bundles : Note(content)
    \/ WorkspaceGoes

ImportSpec == ImportInit /\ [][ImportNext]_importVars

-----------------------------------------------------------------------------
\* A captured run is evidence once.  However often it is imported, under
\* whatever key, and whoever lost an answer: all that were told of an event of
\* the run, or under the key, sent the very same request and were told the same
\* event; and that event, as long as the workspace exists, is the one event of
\* the run and says what the request said.
RunsAreEvidenceOnce ==
    /\ \A t, u \in told :
          (t.request.run = u.request.run \/ t.request.key = u.request.key) => t = u
    /\ registered =>
          /\ \A t \in told :
                runEvents[t.event] = [run |-> t.request.run, content |-> t.request.content]
          /\ \A i, j \in DOMAIN runEvents :
                runEvents[i].run = runEvents[j].run /\ runEvents[i].run # NoRun => i = j
=============================================================================
