--------------------------- MODULE NativeDelivery ---------------------------
(***************************************************************************)
(* Sessions, tasks and the receipts of native delivery in one workspace.   *)
(*                                                                         *)
(* A harness keeps each request with its key and repeats it until it has   *)
(* an answer; answers get lost, requests are repeated by several harness   *)
(* processes, keys are reused by mistake.  deliver_native runs in one       *)
(* BEGIN IMMEDIATE transaction, so a delivery is one step.  Beside it run  *)
(* the operations without keys, which read, decide and then write.          *)
(*                                                                         *)
(* Data abstraction.  Rows are numbered in the order of their creation.     *)
(* Details are opaque, owner metadata and time stamps never change once     *)
(* written and are left out: a request that contradicts them is refused and *)
(* changes nothing.  So does a transaction that fails; a repetition follows. *)
(***************************************************************************)
EXTENDS Integers, Sequences, FiniteSets

CONSTANTS
    Clients,      \* harness processes, which deliver with request keys
    Callers,      \* callers of the operations without keys
    Keys,         \* request keys
    Details,      \* task details
    Events,       \* event identities
    MaxRows,      \* bound: sessions, tasks, episodes and events, each
    MaxRequests,  \* bound: requests that clients make up
    MaxCalls      \* bound: operations without a key

ASSUME BoundsAssumption == {MaxRows, MaxRequests, MaxCalls} \subseteq Nat
ASSUME NamesAssumption == 0 \notin Keys \cup Details \cup Events

VARIABLES
    sessions,  \* session rows
    tasks,     \* task rows
    episodes,  \* episode rows, as far as their creation goes
    events,    \* events in the order of their ingress
    receipts,  \* both receipt tables
    client,    \* the request of each client and what became of it
    caller,    \* the call of each caller and what it has read
    requests,  \* requests made up so far
    calls      \* operations without a key so far

rows == <<sessions, tasks, episodes, events>>
bounds == <<requests, calls>>
vars == <<rows, receipts, client, caller, bounds>>

None == 0
SessionIds == 1 .. Len(sessions)
TaskIds == 1 .. Len(tasks)

Unfinished == {"pending", "active"}
Statuses == Unfinished \cup {"completed", "cancelled"}

Session == [ended : BOOLEAN]
Open == [ended |-> FALSE]
Ended == [ended |-> TRUE]
Task == [session : 0 .. MaxRows, status : Statuses, details : Details]
Episode == [session : 1 .. MaxRows, task : 0 .. MaxRows]
Event == [id : Events, session : 0 .. MaxRows, task : 0 .. MaxRows]

Operations == {"start_session", "start_task", "start_episode", "record_event",
               "complete_task", "end_session"}

Request == [op : Operations, key : Keys, session : 0 .. MaxRows, task : 0 .. MaxRows,
            before : Details \cup {None}, details : Details \cup {None},
            completion : Keys \cup {None}, event : Events \cup {None}]

\* The record is the row as it was at the commit.
Receipt == [request : Request, id : 1 .. MaxRows,
            row : Session \cup Task \cup Episode \cup Event]

Asked(op, key, session, task) ==
    [op |-> op, key |-> key, session |-> session, task |-> task, before |-> None,
     details |-> None, completion |-> None, event |-> None]

AskedCompletion(key, session, task, before, details) ==
    [op |-> "complete_task", key |-> key, session |-> session, task |-> task,
     before |-> before, details |-> details, completion |-> None, event |-> None]

AskedClosure(key, session, task, completion, details) ==
    [op |-> "end_session", key |-> key, session |-> session, task |-> task,
     before |-> None, details |-> details, completion |-> completion, event |-> None]

\* "receipt" and "refused" are answers the client has received.
NoRequest == [request |-> Asked("none", None, 0, 0), outcome |-> "none"]
Client == {NoRequest} \cup [request : Request, outcome : {"sent", "receipt", "refused"}]

Calling(op, session, task, status, details) ==
    [op |-> op, session |-> session, task |-> task, status |-> status, details |-> details]
Idle == Calling("none", 0, 0, "active", None)
Call == [op : {"none", "start_task", "update_task", "end_session", "start_episode"},
         session : 0 .. MaxRows, task : 0 .. MaxRows, status : Statuses,
         details : Details \cup {None}]

TypeOK ==
    /\ sessions \in Seq(Session) /\ Len(sessions) <= MaxRows
    /\ tasks \in Seq(Task) /\ Len(tasks) <= MaxRows
    /\ episodes \in Seq(Episode) /\ Len(episodes) <= MaxRows
    /\ events \in Seq(Event) /\ Len(events) <= MaxRows
    /\ \A t \in TaskIds : tasks[t].session <= Len(sessions)
    /\ receipts \subseteq Receipt
    /\ client \in [Clients -> Client]
    /\ caller \in [Callers -> Call]
    /\ requests \in Nat /\ calls \in Nat

Init ==
    /\ sessions = <<>> /\ tasks = <<>> /\ episodes = <<>> /\ events = <<>>
    /\ receipts = {}
    /\ client = [c \in Clients |-> NoRequest]
    /\ caller = [l \in Callers |-> Idle]
    /\ requests = 0 /\ calls = 0

NewId(table) == Len(table) + 1

Free(table) == Len(table) < MaxRows

-----------------------------------------------------------------------------
(* Requests *)

\* What a harness may ask for under a key: it names rows that exist.
Asking(k) ==
    {Asked("start_session", k, 0, 0)}
    \cup {[Asked("start_task", k, s, 0) EXCEPT !.details = d] :
             s \in SessionIds \cup {None}, d \in Details}
    \cup {Asked("start_episode", k, s, t) : s \in SessionIds, t \in TaskIds \cup {None}}
    \cup {[Asked("record_event", k, s, t) EXCEPT !.event = e] :
             s \in SessionIds \cup {None}, t \in TaskIds \cup {None}, e \in Events}
    \cup {AskedCompletion(k, s, t, b, d) :
             s \in SessionIds, t \in TaskIds, b \in Details, d \in Details}
    \cup {AskedClosure(k, s, t, q, d) :
             s \in SessionIds, t \in TaskIds, q \in Keys, d \in Details}

\* A client without an open request makes up the next one, or repeats one
\* that it or another process has kept.
Submit(c) ==
    /\ client[c].outcome # "sent" /\ requests < MaxRequests
    /\ requests' = requests + 1
    /\ \E k \in Keys : \E r \in Asking(k) :
          client' = [client EXCEPT ![c] = [request |-> r, outcome |-> "sent"]]
    /\ UNCHANGED <<rows, receipts, caller, calls>>

-----------------------------------------------------------------------------
(* deliver_native: one transaction *)

\* The receipt under the request's operation and key, at most one.
Stored(r) == {x \in receipts : x.request.op = r.op /\ x.request.key = r.key}

\* mutated: the receipt of an ended session is not found
RecordedWhileOpen(r) ==
    {x \in Stored(r) : r.session # 0 => sessions[r.session] = Open}

Recorded(r) == Stored(r)

\* validate_owner
Owned(r, openSession) ==
    r.session # 0 =>
        /\ openSession => sessions[r.session] = Open
        /\ r.task # 0 => tasks[r.task].session = r.session

\* mutated: a task that was completed can be completed again
CompletableAgain(r) ==
    Owned(r, TRUE) /\ tasks[r.task].details = r.before
Completable(r) ==
    /\ Owned(r, TRUE)
    /\ tasks[r.task].status = "active" /\ tasks[r.task].details = r.before

\* mutated: any completed task will do
EarnedByStatus(r) ==
    Owned(r, TRUE) /\ tasks[r.task].status = "completed" /\ tasks[r.task].details = r.details

\* The completion receipt the request names is for this very task, which is
\* as it was then.
Earned(r) ==
    /\ Owned(r, TRUE)
    /\ \E x \in receipts :
          /\ x.request.op = "complete_task" /\ x.request.key = r.completion
          /\ x.id = r.task /\ x.row = tasks[r.task]
    /\ tasks[r.task].session = r.session
    /\ tasks[r.task].status = "completed" /\ tasks[r.task].details = r.details

Admissible(r) ==
    \/ r.op = "start_session"
    \/ r.op \in {"start_task", "start_episode"} /\ Owned(r, TRUE)
    \/ /\ r.op = "record_event" /\ Owned(r, FALSE)
       /\ \A i \in 1 .. Len(events) : events[i].id # r.event
    \/ r.op = "complete_task" /\ Completable(r)
    \/ r.op = "end_session" /\ Earned(r)

Serves(c, op) ==
    /\ client[c].outcome = "sent" /\ client[c].request.op = op
    /\ Recorded(client[c].request) = {} /\ Admissible(client[c].request)

\* Mutation and receipt commit together, one receipt for an operation and a
\* key.  The answer arrives or gets lost, and the request is repeated.
Commit(c, id, row) ==
    /\ Stored(client[c].request) = {}
    /\ receipts' = receipts \cup {[request |-> client[c].request, id |-> id, row |-> row]}
    /\ \/ client' = [client EXCEPT ![c].outcome = "receipt"]
       \/ UNCHANGED client
    /\ UNCHANGED <<caller, bounds>>

StartSession(c) ==
    /\ Serves(c, "start_session") /\ Free(sessions)
    /\ sessions' = Append(sessions, Open)
    /\ Commit(c, NewId(sessions), Open)
    /\ UNCHANGED <<tasks, episodes, events>>

StartTask(c) ==
    LET task == [session |-> client[c].request.session, status |-> "active",
                 details |-> client[c].request.details]
    IN  /\ Serves(c, "start_task") /\ Free(tasks)
        /\ tasks' = Append(tasks, task)
        /\ Commit(c, NewId(tasks), task)
        /\ UNCHANGED <<sessions, episodes, events>>

StartEpisode(c) ==
    LET episode == [session |-> client[c].request.session, task |-> client[c].request.task]
    IN  /\ Serves(c, "start_episode") /\ Free(episodes)
        /\ episodes' = Append(episodes, episode)
        /\ Commit(c, NewId(episodes), episode)
        /\ UNCHANGED <<sessions, tasks, events>>

\* Delayed events may refer to ended sessions and finished tasks.
RecordEvent(c) ==
    LET event == [id |-> client[c].request.event, session |-> client[c].request.session,
                  task |-> client[c].request.task]
    IN  /\ Serves(c, "record_event") /\ Free(events)
        /\ events' = Append(events, event)
        /\ Commit(c, NewId(events), event)
        /\ UNCHANGED <<sessions, tasks, episodes>>

CompleteTask(c) ==
    LET r == client[c].request
        task == [tasks[r.task] EXCEPT !.status = "completed", !.details = r.details]
    IN  /\ Serves(c, "complete_task")
        /\ tasks' = [tasks EXCEPT ![r.task] = task]
        /\ Commit(c, r.task, task)
        /\ UNCHANGED <<sessions, episodes, events>>

EndSession(c) ==
    LET s == client[c].request.session
    IN  /\ Serves(c, "end_session")
        /\ sessions' = [sessions EXCEPT ![s] = Ended]
        /\ Commit(c, s, Ended)
        /\ UNCHANGED <<tasks, episodes, events>>

\* The receipt answers a repetition before anything current is looked at.
Replay(c) ==
    /\ client[c].outcome = "sent"
    /\ \E x \in Recorded(client[c].request) : x.request = client[c].request
    /\ client' = [client EXCEPT ![c].outcome = "receipt"]
    /\ UNCHANGED <<rows, receipts, caller, bounds>>

\* Conflict: the key has other content, or the preconditions do not hold.
Refuse(c) ==
    /\ client[c].outcome = "sent"
    /\ \/ \E x \in Recorded(client[c].request) : x.request # client[c].request
       \/ Recorded(client[c].request) = {} /\ ~Admissible(client[c].request)
    /\ client' = [client EXCEPT ![c].outcome = "refused"]
    /\ UNCHANGED <<rows, receipts, caller, bounds>>

Serve(c) ==
    \/ StartSession(c) \/ StartTask(c) \/ StartEpisode(c) \/ RecordEvent(c)
    \/ CompleteTask(c) \/ EndSession(c) \/ Replay(c) \/ Refuse(c)

-----------------------------------------------------------------------------
(* Operations without keys: a check, and later a write *)

Checked(l, call) ==
    /\ caller[l].op = "none" /\ calls < MaxCalls
    /\ calls' = calls + 1
    /\ caller' = [caller EXCEPT ![l] = call]
    /\ UNCHANGED <<rows, receipts, client, requests>>

Written(l) ==
    /\ caller' = [caller EXCEPT ![l] = Idle]
    /\ UNCHANGED <<receipts, client, bounds>>

OpenOrNone(s) == s # 0 => sessions[s] = Open

\* One statement and no check before it.
InsertSession(l) ==
    /\ caller[l].op = "none" /\ calls < MaxCalls /\ Free(sessions)
    /\ calls' = calls + 1
    /\ sessions' = Append(sessions, Open)
    /\ UNCHANGED <<tasks, episodes, events, receipts, client, caller, requests>>

\* What record_event checks never changes; the event may be there already.
InsertEvent(l, e, s, t) ==
    /\ caller[l].op = "none" /\ calls < MaxCalls /\ Free(events)
    /\ s # 0 /\ t # 0 => tasks[t].session = s
    /\ \A i \in 1 .. Len(events) : events[i].id # e
    /\ calls' = calls + 1
    /\ events' = Append(events, [id |-> e, session |-> s, task |-> t])
    /\ UNCHANGED <<sessions, tasks, episodes, receipts, client, caller, requests>>

CheckTask(l, s, d) ==
    /\ OpenOrNone(s)
    /\ Checked(l, Calling("start_task", s, 0, "active", d))

InsertTask(l) ==
    /\ caller[l].op = "start_task" /\ Free(tasks)
    /\ tasks' = Append(tasks, [session |-> caller[l].session, status |-> "active",
                               details |-> caller[l].details])
    /\ Written(l)
    /\ UNCHANGED <<sessions, episodes, events>>

CheckEpisode(l, s, t) ==
    /\ OpenOrNone(s) /\ t # 0 => tasks[t].session = s
    /\ Checked(l, Calling("start_episode", s, t, "active", None))

InsertEpisode(l) ==
    /\ caller[l].op = "start_episode" /\ Free(episodes)
    /\ episodes' = Append(episodes, [session |-> caller[l].session, task |-> caller[l].task])
    /\ Written(l)
    /\ UNCHANGED <<sessions, tasks, events>>

CheckUpdate(l, t, status, d) ==
    /\ tasks[t].status \in Unfinished
    /\ Checked(l, Calling("update_task", 0, t, status, d))

\* mutated: the update relies on what was read
StillUnfinishedAsRead(t) == t \in TaskIds
StillUnfinished(t) == tasks[t].status \in Unfinished

\* The condition is repeated in the statement that writes.
UpdateTask(l) ==
    LET t == caller[l].task
    IN  /\ caller[l].op = "update_task"
        /\ IF StillUnfinished(t)
             THEN tasks' = [tasks EXCEPT ![t].status = caller[l].status,
                                         ![t].details = caller[l].details]
             ELSE UNCHANGED tasks
        /\ Written(l)
        /\ UNCHANGED <<sessions, episodes, events>>

CheckEnd(l, s) ==
    /\ sessions[s] = Open
    /\ Checked(l, Calling("end_session", s, 0, "active", None))

\* An ended session keeps its time: the statement writes open ones only.
WriteEnd(l) ==
    /\ caller[l].op = "end_session"
    /\ sessions' = [sessions EXCEPT ![caller[l].session] = Ended]
    /\ Written(l)
    /\ UNCHANGED <<tasks, episodes, events>>

Unkeyed(l) ==
    \/ InsertSession(l) \/ InsertTask(l) \/ InsertEpisode(l)
    \/ UpdateTask(l) \/ WriteEnd(l)
    \/ \E s \in SessionIds : CheckEnd(l, s)
    \/ \E s \in SessionIds \cup {None}, d \in Details : CheckTask(l, s, d)
    \/ \E s \in SessionIds, t \in TaskIds \cup {None} : CheckEpisode(l, s, t)
    \/ \E t \in TaskIds, status \in Statuses, d \in Details : CheckUpdate(l, t, status, d)
    \/ \E e \in Events, s \in SessionIds \cup {None}, t \in TaskIds \cup {None} :
          InsertEvent(l, e, s, t)

-----------------------------------------------------------------------------
Next ==
    \/ \E c \in Clients : Submit(c) \/ Serve(c)
    \/ \E l \in Callers : Unkeyed(l)

Spec == Init /\ [][Next]_vars
-----------------------------------------------------------------------------
(* Properties *)

(***************************************************************************)
(* What the properties rest on: requests and calls name rows that exist, and *)
(* the receipts of terminal operations describe rows that have not changed.  *)
(***************************************************************************)
Exists(x) == x.session <= Len(sessions) /\ x.task <= Len(tasks)

Named(r) ==
    /\ Exists(r)
    /\ r.op \in {"start_episode", "complete_task", "end_session"} => r.session # 0
    /\ r.op \in {"complete_task", "end_session"} => r.task # 0
    /\ r.op \in {"start_task", "complete_task", "end_session"} => r.details \in Details
    /\ r.op = "record_event" => r.event \in Events

NamedCall(r) ==
    /\ Exists(r)
    /\ r.op \in {"start_episode", "end_session"} => r.session # 0
    /\ r.op = "update_task" => r.task # 0
    /\ r.op \in {"start_task", "update_task"} => r.details \in Details

RequestsNameRows ==
    /\ \A c \in Clients : client[c].outcome = "sent" => Named(client[c].request)
    /\ \A l \in Callers : NamedCall(caller[l])

Describes(x) ==
    /\ x.request.op \in {"start_session", "end_session"} => x.id \in SessionIds
    /\ x.request.op \in {"start_task", "complete_task"} => x.id \in TaskIds
    /\ x.request.op = "start_episode" => x.id <= Len(episodes)
    /\ x.request.op = "record_event" => x.id <= Len(events)
    /\ x.request.op = "complete_task" =>
          /\ x.row = tasks[x.id] /\ x.row.status = "completed"
          /\ x.row.session = x.request.session /\ x.request.session # 0
    /\ x.request.op = "end_session" => sessions[x.id] = Ended

ReceiptsDescribe == \A x \in receipts : Describes(x)

\* A retry with the same content has the effect once: a row is created, a
\* task completed and a session ended under one receipt at most, and no two
\* keys claim the same effect.
ReceiptsAreExclusive ==
    \A x, y \in receipts :
        /\ x.request.op = y.request.op
        /\ x.request.key = y.request.key \/ x.id = y.id
        => x = y

\* A session that was ended by a delivery ended after the exact completion of
\* its task, and the task is still what that completion receipt says.
ClosureFollowsCompletion ==
    \A e \in receipts : e.request.op = "end_session" =>
        /\ sessions[e.id] = Ended
        /\ \E x \in receipts :
              /\ x.request.op = "complete_task" /\ x.request.key = e.request.completion
              /\ x.request.session = e.id
              /\ x.row = tasks[x.id] /\ x.row.details = e.request.details

\* Finished tasks and ended sessions stay as they are, whoever wrote them and
\* whatever a concurrent caller has read.
TerminalIsFinal ==
    [][/\ \A t \in TaskIds : tasks[t].status \notin Unfinished => tasks'[t] = tasks[t]
       /\ \A s \in SessionIds : sessions[s] = Ended => sessions'[s] = Ended]_vars

\* Once a request has been committed its repetitions get the receipt, even
\* if the session has ended and the task has changed since.
CommittedIsNeverRefused ==
    [][\A c \in Clients :
          client[c].outcome = "sent" /\ (\E x \in receipts : x.request = client[c].request)
          => client'[c].outcome # "refused"]_vars

\* Tasks do not begin on ended sessions.
TasksBeginOnOpenSessions ==
    [][\A t \in DOMAIN tasks' \ TaskIds :
          tasks'[t].session # 0 => sessions[tasks'[t].session] = Open]_vars
=============================================================================
