------------------------ MODULE NativeDeliveryProofs ------------------------
(***************************************************************************)
(* Safety of NativeDelivery, for any number of clients, callers, keys and   *)
(* rows.                                                                    *)
(***************************************************************************)
EXTENDS NativeDelivery, TLAPS

-----------------------------------------------------------------------------
(* Tables *)

\* What is appended is the last row, and the rows before it stay.
LEMMA Appended ==
    ASSUME NEW S, NEW table \in Seq(S), NEW row \in S
    PROVE  /\ Append(table, row) \in Seq(S)
           /\ Len(Append(table, row)) = Len(table) + 1
           /\ Len(table) \in Nat
           /\ \A i \in 1 .. Len(table) : Append(table, row)[i] = table[i]
           /\ Append(table, row)[Len(table) + 1] = row
OBVIOUS

\* Writing one row of a table leaves its length and the other rows.
LEMMA Replaced ==
    ASSUME NEW S, NEW table \in Seq(S), NEW row \in S, NEW i \in 1 .. Len(table)
    PROVE  /\ [table EXCEPT ![i] = row] \in Seq(S)
           /\ Len([table EXCEPT ![i] = row]) = Len(table)
           /\ [table EXCEPT ![i] = row][i] = row
           /\ \A j \in 1 .. Len(table) : j # i => [table EXCEPT ![i] = row][j] = table[j]
OBVIOUS

-----------------------------------------------------------------------------
(* What a step does to the tables *)

\* The rows a step may write: all of them typed, new ones at the end, and
\* finished tasks and ended sessions as they were.
SessionsMove ==
    /\ sessions' \in Seq(Session) /\ Len(sessions') <= MaxRows
    /\ Len(sessions) <= Len(sessions')
    /\ \A s \in SessionIds : sessions[s] = Ended => sessions'[s] = Ended

TasksMove ==
    /\ tasks' \in Seq(Task) /\ Len(tasks') <= MaxRows
    /\ Len(tasks) <= Len(tasks')
    /\ \A t \in TaskIds : /\ tasks'[t].session = tasks[t].session
                          /\ tasks[t].status \notin Unfinished => tasks'[t] = tasks[t]
    /\ \A t \in DOMAIN tasks' \ TaskIds : tasks'[t].session <= Len(sessions)

OthersMove ==
    /\ episodes' \in Seq(Episode) /\ Len(episodes') <= MaxRows
    /\ Len(episodes) <= Len(episodes')
    /\ events' \in Seq(Event) /\ Len(events') <= MaxRows
    /\ Len(events) <= Len(events')

\* A typed request that names rows.
LEMMA RequestTyped ==
    ASSUME TypeOK, RequestsNameRows, NEW c \in Clients, client[c].outcome = "sent"
    PROVE  /\ client[c].request \in Request /\ Named(client[c].request)
           /\ client[c].request.session \in Nat /\ client[c].request.task \in Nat
<1>1. client[c] \in Client
  BY DEF TypeOK
<1>2. client[c].request \in Request
  BY <1>1 DEF Client, NoRequest
<1> QED  BY <1>2, BoundsAssumption DEF RequestsNameRows, Request

\* A typed call that names rows.
LEMMA CallTyped ==
    ASSUME TypeOK, RequestsNameRows, NEW l \in Callers
    PROVE  /\ caller[l] \in Call /\ NamedCall(caller[l])
           /\ caller[l].session \in Nat /\ caller[l].task \in Nat
<1>1. caller[l] \in Call
  BY DEF TypeOK
<1> QED  BY <1>1, BoundsAssumption DEF RequestsNameRows, Call

LEMMA Counts ==
    ASSUME TypeOK
    PROVE  /\ Len(sessions) \in Nat /\ Len(tasks) \in Nat
           /\ Len(episodes) \in Nat /\ Len(events) \in Nat
BY DEF TypeOK

LEMMA SessionsStep ==
    ASSUME TypeOK, RequestsNameRows, [Next]_vars
    PROVE  SessionsMove
<1>0. /\ sessions \in Seq(Session) /\ Len(sessions) <= MaxRows /\ Len(sessions) \in Nat
      /\ Open \in Session /\ Ended \in Session /\ MaxRows \in Nat
  BY BoundsAssumption DEF TypeOK, Session, Open, Ended
<1>1. ASSUME UNCHANGED sessions
      PROVE  SessionsMove
  BY <1>0, <1>1 DEF SessionsMove
<1>2. ASSUME sessions' = Append(sessions, Open), Free(sessions)
      PROVE  SessionsMove
  BY <1>0, <1>2, Appended DEF SessionsMove, Free, SessionIds
<1>3. ASSUME NEW s \in SessionIds, sessions' = [sessions EXCEPT ![s] = Ended]
      PROVE  SessionsMove
  BY <1>0, <1>3, Replaced DEF SessionsMove, SessionIds
<1>4. CASE UNCHANGED vars
  BY <1>1, <1>4 DEF vars, rows
<1>5. ASSUME NEW c \in Clients, Submit(c) \/ Serve(c)
      PROVE  SessionsMove
  <2>1. CASE StartSession(c)
    BY <2>1, <1>2 DEF StartSession
  <2>2. CASE EndSession(c)
    <3>1. client[c].outcome = "sent" /\ client[c].request.op = "end_session"
      BY <2>2 DEF EndSession, Serves
    <3>2. client[c].request.session \in SessionIds
      BY <3>1, <1>0, RequestTyped DEF Named, Exists, SessionIds
    <3> QED  BY <2>2, <3>2, <1>3 DEF EndSession
  <2>3. CASE Submit(c) \/ StartTask(c) \/ StartEpisode(c) \/ RecordEvent(c)
             \/ CompleteTask(c) \/ Replay(c) \/ Refuse(c)
    BY <2>3, <1>1 DEF Submit, StartTask, StartEpisode, RecordEvent, CompleteTask,
                      Replay, Refuse, rows
  <2> QED  BY <1>5, <2>1, <2>2, <2>3 DEF Serve
<1>6. ASSUME NEW l \in Callers, Unkeyed(l)
      PROVE  SessionsMove
  <2>1. CASE InsertSession(l)
    BY <2>1, <1>2 DEF InsertSession
  <2>2. CASE WriteEnd(l)
    <3>1. caller[l].session \in SessionIds
      BY <2>2, <1>0, CallTyped DEF WriteEnd, NamedCall, Exists, SessionIds
    <3> QED  BY <2>2, <3>1, <1>3 DEF WriteEnd
  <2>3. ASSUME ~InsertSession(l), ~WriteEnd(l)
        PROVE  UNCHANGED sessions
    BY <1>6, <2>3 DEF Unkeyed, InsertTask, InsertEpisode, UpdateTask, CheckEnd,
         CheckTask, CheckEpisode, CheckUpdate, InsertEvent, Checked, rows
  <2> QED  BY <2>1, <2>2, <2>3, <1>1
<1> QED  BY <1>4, <1>5, <1>6 DEF Next

LEMMA TasksStep ==
    ASSUME TypeOK, RequestsNameRows, [Next]_vars
    PROVE  TasksMove
<1>0. /\ tasks \in Seq(Task) /\ Len(tasks) <= MaxRows /\ Len(tasks) \in Nat
      /\ MaxRows \in Nat /\ DOMAIN tasks = TaskIds /\ Len(sessions) <= MaxRows
      /\ Len(sessions) \in Nat
  BY BoundsAssumption DEF TypeOK, TaskIds
<1>1. ASSUME UNCHANGED tasks
      PROVE  TasksMove
  BY <1>0, <1>1 DEF TasksMove
<1>2. ASSUME NEW s \in Nat, s <= Len(sessions), NEW d \in Details, Free(tasks),
             tasks' = Append(tasks, [session |-> s, status |-> "active", details |-> d])
      PROVE  TasksMove
  <2> DEFINE task == [session |-> s, status |-> "active", details |-> d]
  <2>1. task \in Task
    BY <1>0, <1>2 DEF Task, Statuses, Unfinished
  <2>2. /\ tasks' \in Seq(Task) /\ Len(tasks') = Len(tasks) + 1
        /\ \A t \in TaskIds : tasks'[t] = tasks[t]
        /\ tasks'[Len(tasks) + 1] = task
    BY <2>1, <1>0, <1>2, Appended DEF TaskIds
  <2>3. DOMAIN tasks' \ TaskIds = {Len(tasks) + 1}
    BY <2>2, <1>0 DEF TaskIds
  <2>4. Len(tasks') <= MaxRows /\ Len(tasks) <= Len(tasks')
    BY <2>2, <1>0, <1>2 DEF Free
  <2>5. task.session = s
    OBVIOUS
  <2> QED  BY <2>2, <2>3, <2>4, <2>5, <1>2 DEF TasksMove
<1>3. ASSUME NEW t \in TaskIds, NEW task \in Task, task.session = tasks[t].session,
             tasks[t].status \in Unfinished, tasks' = [tasks EXCEPT ![t] = task]
      PROVE  TasksMove
  <2>1. /\ tasks' \in Seq(Task) /\ Len(tasks') = Len(tasks) /\ tasks'[t] = task
        /\ \A u \in TaskIds : u # t => tasks'[u] = tasks[u]
    BY <1>0, <1>3, Replaced DEF TaskIds
  <2>2. DOMAIN tasks' = TaskIds
    BY <2>1 DEF TaskIds
  <2> QED  BY <2>1, <2>2, <1>0, <1>3 DEF TasksMove
<1>4. CASE UNCHANGED vars
  BY <1>1, <1>4 DEF vars, rows
<1>5. ASSUME NEW c \in Clients, Submit(c) \/ Serve(c)
      PROVE  TasksMove
  <2>1. CASE StartTask(c)
    <3>1. client[c].outcome = "sent" /\ client[c].request.op = "start_task"
      BY <2>1 DEF StartTask, Serves
    <3>2. /\ client[c].request.session \in Nat /\ client[c].request.details \in Details
          /\ client[c].request.session <= Len(sessions)
      BY <3>1, RequestTyped DEF Named, Exists
    <3> QED  BY <2>1, <3>2, <1>2 DEF StartTask
  <2>2. CASE CompleteTask(c)
    <3> DEFINE r == client[c].request
               task == [tasks[r.task] EXCEPT !.status = "completed", !.details = r.details]
    <3>1. client[c].outcome = "sent" /\ r.op = "complete_task" /\ Admissible(r)
      BY <2>2 DEF CompleteTask, Serves
    <3>2. r.task \in TaskIds /\ r.details \in Details
      BY <3>1, <1>0, RequestTyped DEF Named, Exists, TaskIds
    <3>3. tasks[r.task] \in Task
      BY <3>2, <1>0 DEF TaskIds
    <3>4. task \in Task /\ task.session = tasks[r.task].session
      BY <3>2, <3>3 DEF Task, Statuses, Unfinished
    <3>5. tasks[r.task].status \in Unfinished
      BY <3>1 DEF Admissible, Completable, Unfinished
    <3>6. tasks' = [tasks EXCEPT ![r.task] = task]
      BY <2>2 DEF CompleteTask
    <3> HIDE DEF r, task
    <3> QED  BY <3>2, <3>4, <3>5, <3>6, <1>3
  <2>3. CASE Submit(c) \/ StartSession(c) \/ StartEpisode(c) \/ RecordEvent(c)
             \/ EndSession(c) \/ Replay(c) \/ Refuse(c)
    BY <2>3, <1>1 DEF Submit, StartSession, StartEpisode, RecordEvent, EndSession,
                      Replay, Refuse, rows
  <2> QED  BY <1>5, <2>1, <2>2, <2>3 DEF Serve
<1>6. ASSUME NEW l \in Callers, Unkeyed(l)
      PROVE  TasksMove
  <2>0. caller[l] \in Call /\ NamedCall(caller[l]) /\ caller[l].session \in Nat
    BY CallTyped
  <2>1. CASE InsertTask(l)
    BY <2>0, <2>1, <1>2 DEF InsertTask, NamedCall, Exists
  <2>2. CASE UpdateTask(l)
    <3> DEFINE t == caller[l].task
               task == [tasks[t] EXCEPT !.status = caller[l].status,
                                        !.details = caller[l].details]
    <3>1. t \in TaskIds /\ caller[l].details \in Details
      BY <2>2, CallTyped, <1>0 DEF UpdateTask, NamedCall, Exists, TaskIds
    <3>2. tasks[t] \in Task
      BY <3>1, <1>0 DEF TaskIds
    <3>3. caller[l].status \in Statuses
      BY <2>0 DEF Call
    <3>4. task \in Task /\ task.session = tasks[t].session
      BY <3>1, <3>2, <3>3 DEF Task
    <3>5. CASE StillUnfinished(t)
      <4>1. tasks' = [tasks EXCEPT ![t] = task]
        BY <2>2, <3>5, <3>1, <3>2, <1>0 DEF UpdateTask, Task
      <4>2. tasks[t].status \in Unfinished
        BY <3>5 DEF StillUnfinished
      <4> HIDE DEF t, task
      <4> QED  BY <4>1, <4>2, <3>1, <3>4, <1>3
    <3>6. CASE ~StillUnfinished(t)
      BY <2>2, <3>6, <1>1 DEF UpdateTask
    <3> QED  BY <3>5, <3>6
  <2>3. ASSUME ~InsertTask(l), ~UpdateTask(l)
        PROVE  UNCHANGED tasks
    BY <1>6, <2>3 DEF Unkeyed, InsertSession, InsertEpisode, WriteEnd, CheckEnd,
         CheckTask, CheckEpisode, CheckUpdate, InsertEvent, Checked, rows
  <2> QED  BY <2>1, <2>2, <2>3, <1>1
<1> QED  BY <1>4, <1>5, <1>6 DEF Next

LEMMA OthersStep ==
    ASSUME TypeOK, RequestsNameRows, [Next]_vars
    PROVE  OthersMove
<1>0. /\ episodes \in Seq(Episode) /\ Len(episodes) <= MaxRows /\ Len(episodes) \in Nat
      /\ events \in Seq(Event) /\ Len(events) <= MaxRows /\ Len(events) \in Nat
      /\ MaxRows \in Nat
      /\ Len(sessions) \in Nat /\ Len(sessions) <= MaxRows
      /\ Len(tasks) \in Nat /\ Len(tasks) <= MaxRows
  BY BoundsAssumption DEF TypeOK
<1>1. ASSUME UNCHANGED <<episodes, events>>
      PROVE  OthersMove
  BY <1>0, <1>1 DEF OthersMove
<1>2. ASSUME NEW s \in Nat, s # 0, s <= Len(sessions), NEW t \in Nat, t <= Len(tasks),
             Free(episodes), episodes' = Append(episodes, [session |-> s, task |-> t]),
             UNCHANGED events
      PROVE  OthersMove
  <2>1. [session |-> s, task |-> t] \in Episode
    BY <1>0, <1>2 DEF Episode
  <2> QED  BY <2>1, <1>0, <1>2, Appended DEF OthersMove, Free
<1>3. ASSUME NEW e \in Events, NEW s \in Nat, s <= Len(sessions),
             NEW t \in Nat, t <= Len(tasks), Free(events),
             events' = Append(events, [id |-> e, session |-> s, task |-> t]),
             UNCHANGED episodes
      PROVE  OthersMove
  <2>1. [id |-> e, session |-> s, task |-> t] \in Event
    BY <1>0, <1>3 DEF Event
  <2> QED  BY <2>1, <1>0, <1>3, Appended DEF OthersMove, Free
<1>4. CASE UNCHANGED vars
  BY <1>1, <1>4 DEF vars, rows
<1>5. ASSUME NEW c \in Clients, Submit(c) \/ Serve(c)
      PROVE  OthersMove
  <2>1. CASE StartEpisode(c)
    <3>1. client[c].outcome = "sent" /\ client[c].request.op = "start_episode"
      BY <2>1 DEF StartEpisode, Serves
    <3> QED  BY <2>1, <3>1, RequestTyped, <1>2 DEF StartEpisode, Named, Exists
  <2>2. CASE RecordEvent(c)
    <3>1. client[c].outcome = "sent" /\ client[c].request.op = "record_event"
      BY <2>2 DEF RecordEvent, Serves
    <3> QED  BY <2>2, <3>1, RequestTyped, <1>3 DEF RecordEvent, Named, Exists
  <2>3. CASE Submit(c) \/ StartSession(c) \/ StartTask(c) \/ CompleteTask(c)
             \/ EndSession(c) \/ Replay(c) \/ Refuse(c)
    BY <2>3, <1>1 DEF Submit, StartSession, StartTask, CompleteTask, EndSession,
                      Replay, Refuse, rows
  <2> QED  BY <1>5, <2>1, <2>2, <2>3 DEF Serve
<1>6. ASSUME NEW l \in Callers, Unkeyed(l)
      PROVE  OthersMove
  <2>1. CASE InsertEpisode(l)
    BY <2>1, CallTyped, <1>2 DEF InsertEpisode, NamedCall, Exists
  <2>2. ASSUME NEW e \in Events, NEW s \in SessionIds \cup {None},
               NEW t \in TaskIds \cup {None}, InsertEvent(l, e, s, t)
        PROVE  OthersMove
    <3>1. s \in Nat /\ s <= Len(sessions) /\ t \in Nat /\ t <= Len(tasks)
      BY <1>0 DEF SessionIds, TaskIds, None
    <3> QED  BY <2>2, <3>1, <1>3 DEF InsertEvent
  <2>3. ASSUME ~InsertEpisode(l),
               ~\E e \in Events, s \in SessionIds \cup {None}, t \in TaskIds \cup {None} :
                   InsertEvent(l, e, s, t)
        PROVE  UNCHANGED <<episodes, events>>
    BY <1>6, <2>3 DEF Unkeyed, InsertSession, InsertTask, UpdateTask, WriteEnd, CheckEnd,
         CheckTask, CheckEpisode, CheckUpdate, Checked, rows
  <2> QED  BY <2>1, <2>2, <2>3, <1>1
<1> QED  BY <1>4, <1>5, <1>6 DEF Next

-----------------------------------------------------------------------------
(* Requests and calls *)

\* What a harness asks for is typed and names rows.
LEMMA AskingNames ==
    ASSUME TypeOK, NEW k \in Keys, NEW r \in Asking(k)
    PROVE  r \in Request /\ Named(r)
<1>0. /\ Len(sessions) \in Nat /\ Len(tasks) \in Nat /\ MaxRows \in Nat
      /\ Len(sessions) <= MaxRows /\ Len(tasks) <= MaxRows
  BY BoundsAssumption DEF TypeOK
<1>1. CASE r = Asked("start_session", k, 0, 0)
  BY <1>0, <1>1 DEF Asked, Request, Operations, Named, Exists
<1>2. CASE \E s \in SessionIds \cup {None}, d \in Details :
              r = [Asked("start_task", k, s, 0) EXCEPT !.details = d]
  BY <1>0, <1>2 DEF Asked, Request, Operations, Named, Exists, SessionIds, None
<1>3. CASE \E s \in SessionIds, t \in TaskIds \cup {None} :
              r = Asked("start_episode", k, s, t)
  BY <1>0, <1>3 DEF Asked, Request, Operations, Named, Exists, SessionIds, TaskIds, None
<1>4. CASE \E s \in SessionIds \cup {None}, t \in TaskIds \cup {None}, e \in Events :
              r = [Asked("record_event", k, s, t) EXCEPT !.event = e]
  BY <1>0, <1>4 DEF Asked, Request, Operations, Named, Exists, SessionIds, TaskIds, None
<1>5. CASE \E s \in SessionIds, t \in TaskIds, b \in Details, d \in Details :
              r = AskedCompletion(k, s, t, b, d)
  BY <1>0, <1>5 DEF AskedCompletion, Request, Operations, Named, Exists,
                    SessionIds, TaskIds, None
<1>6. CASE \E s \in SessionIds, t \in TaskIds, q \in Keys, d \in Details :
              r = AskedClosure(k, s, t, q, d)
  BY <1>0, <1>6 DEF AskedClosure, Request, Operations, Named, Exists,
                    SessionIds, TaskIds, None
<1>7. r \in Asking(k)
  OBVIOUS
<1>8. \/ r = Asked("start_session", k, 0, 0)
      \/ \E s \in SessionIds \cup {None}, d \in Details :
            r = [Asked("start_task", k, s, 0) EXCEPT !.details = d]
      \/ \E s \in SessionIds, t \in TaskIds \cup {None} :
            r = Asked("start_episode", k, s, t)
      \/ \E s \in SessionIds \cup {None}, t \in TaskIds \cup {None}, e \in Events :
            r = [Asked("record_event", k, s, t) EXCEPT !.event = e]
      \/ \E s \in SessionIds, t \in TaskIds, b \in Details, d \in Details :
            r = AskedCompletion(k, s, t, b, d)
      \/ \E s \in SessionIds, t \in TaskIds, q \in Keys, d \in Details :
            r = AskedClosure(k, s, t, q, d)
  BY <1>7 DEF Asking
<1> QED  BY <1>1, <1>2, <1>3, <1>4, <1>5, <1>6, <1>8

\* What clients hold after a step: what they held, an answer to it, or a new
\* request under a key.
LEMMA ClientMoves ==
    ASSUME TypeOK, RequestsNameRows, [Next]_vars
    PROVE  /\ client' \in [Clients -> Client]
           /\ \A c \in Clients :
                \/ client'[c] = client[c]
                \/ /\ client[c].outcome = "sent" /\ client'[c].outcome # "sent"
                   /\ client'[c].request = client[c].request
                \/ \E k \in Keys : \E r \in Asking(k) :
                      client'[c] = [request |-> r, outcome |-> "sent"]
<1>0. client \in [Clients -> Client]
  BY DEF TypeOK
<1> DEFINE Goal ==
             /\ client' \in [Clients -> Client]
             /\ \A c \in Clients :
                  \/ client'[c] = client[c]
                  \/ /\ client[c].outcome = "sent" /\ client'[c].outcome # "sent"
                     /\ client'[c].request = client[c].request
                  \/ \E k \in Keys : \E r \in Asking(k) :
                        client'[c] = [request |-> r, outcome |-> "sent"]
<1>1. ASSUME UNCHANGED client
      PROVE  Goal
  BY <1>0, <1>1
<1>2. ASSUME NEW c \in Clients, client[c].outcome = "sent",
             NEW o \in {"receipt", "refused"}, client' = [client EXCEPT ![c].outcome = o]
      PROVE  Goal
  <2>1. client[c].request \in Request
    BY <1>2, RequestTyped
  <2>2. client'[c] = [client[c] EXCEPT !.outcome = o]
    BY <1>0, <1>2
  <2>3. client[c] = [request |-> client[c].request, outcome |-> "sent"]
    BY <1>0, <1>2 DEF Client, NoRequest
  <2>4. client'[c] = [request |-> client[c].request, outcome |-> o]
    BY <2>2, <2>3
  <2>5. client'[c] \in Client
    BY <2>1, <2>4 DEF Client
  <2>6. \A d \in Clients : d # c => client'[d] = client[d]
    BY <1>0, <1>2
  <2>7. client' \in [Clients -> Client]
    BY <2>5, <1>0, <1>2
  <2>8. /\ client[c].outcome = "sent" /\ client'[c].outcome # "sent"
        /\ client'[c].request = client[c].request
    BY <1>2, <2>4
  <2> QED  BY <2>6, <2>7, <2>8
<1>3. ASSUME NEW c \in Clients, Submit(c)
      PROVE  Goal
  <2>0. PICK k \in Keys : \E r \in Asking(k) :
           client' = [client EXCEPT ![c] = [request |-> r, outcome |-> "sent"]]
    BY <1>3 DEF Submit
  <2>1. PICK r \in Asking(k) :
           client' = [client EXCEPT ![c] = [request |-> r, outcome |-> "sent"]]
    BY <2>0
  <2>2. r \in Request
    BY AskingNames
  <2>3. [request |-> r, outcome |-> "sent"] \in Client
    BY <2>2 DEF Client
  <2> QED  BY <2>1, <2>3, <1>0
<1>4. ASSUME NEW c \in Clients, Serve(c)
      PROVE  Goal
  <2>1. CASE Replay(c) \/ Refuse(c)
    BY <2>1, <1>2 DEF Replay, Refuse
  <2>2. ASSUME NEW id, NEW row, client[c].outcome = "sent", Commit(c, id, row)
        PROVE  Goal
    BY <2>2, <1>1, <1>2 DEF Commit
  <2>3. CASE StartSession(c) \/ StartTask(c) \/ StartEpisode(c) \/ RecordEvent(c)
             \/ CompleteTask(c) \/ EndSession(c)
    BY <2>2, <2>3 DEF StartSession, StartTask, StartEpisode, RecordEvent, CompleteTask,
                      EndSession, Serves
  <2> QED  BY <1>4, <2>1, <2>3 DEF Serve
<1>5. ASSUME NEW l \in Callers, Unkeyed(l)
      PROVE  UNCHANGED client
  BY <1>5 DEF Unkeyed, InsertSession, InsertTask, InsertEpisode, UpdateTask, WriteEnd,
       CheckEnd, CheckTask, CheckEpisode, CheckUpdate, InsertEvent, Checked, Written
<1>6. CASE UNCHANGED vars
  BY <1>1, <1>6 DEF vars
<1> QED  BY <1>1, <1>3, <1>4, <1>5, <1>6 DEF Next

\* Calls after a step: as before, finished, or checked against rows.
LEMMA CallerMoves ==
    ASSUME TypeOK, RequestsNameRows, [Next]_vars
    PROVE  /\ caller' \in [Callers -> Call]
           /\ \A l \in Callers : caller'[l] = caller[l] \/ NamedCall(caller'[l])
<1>0. /\ caller \in [Callers -> Call] /\ MaxRows \in Nat
      /\ Len(sessions) \in Nat /\ Len(sessions) <= MaxRows
      /\ Len(tasks) \in Nat /\ Len(tasks) <= MaxRows
  BY BoundsAssumption DEF TypeOK
<1> DEFINE Goal == /\ caller' \in [Callers -> Call]
                   /\ \A l \in Callers : caller'[l] = caller[l] \/ NamedCall(caller'[l])
<1>1. ASSUME UNCHANGED caller
      PROVE  Goal
  BY <1>0, <1>1
<1>2. ASSUME NEW l \in Callers, NEW call \in Call, NamedCall(call),
             caller' = [caller EXCEPT ![l] = call]
      PROVE  Goal
  BY <1>0, <1>2
<1>3. Idle \in Call /\ NamedCall(Idle)
  BY <1>0 DEF Idle, Calling, Call, NamedCall, Exists, Statuses, Unfinished
<1>4. CASE UNCHANGED vars
  BY <1>1, <1>4 DEF vars
<1>5. ASSUME NEW c \in Clients, Submit(c) \/ Serve(c)
      PROVE  UNCHANGED caller
  BY <1>5 DEF Serve, Submit, StartSession, StartTask, StartEpisode, RecordEvent,
       CompleteTask, EndSession, Replay, Refuse, Commit
<1>6. ASSUME NEW l \in Callers, Unkeyed(l)
      PROVE  Goal
  <2>1. CASE InsertSession(l) \/ \E e \in Events, s \in SessionIds \cup {None},
                                    t \in TaskIds \cup {None} : InsertEvent(l, e, s, t)
    BY <2>1, <1>1 DEF InsertSession, InsertEvent
  <2>2. CASE InsertTask(l) \/ InsertEpisode(l) \/ UpdateTask(l) \/ WriteEnd(l)
    BY <2>2, <1>2, <1>3 DEF InsertTask, InsertEpisode, UpdateTask, WriteEnd, Written
  <2>3. ASSUME NEW s \in SessionIds, CheckEnd(l, s)
        PROVE  Goal
    <3>1. Calling("end_session", s, 0, "active", None) \in Call /\ NamedCall(Calling("end_session", s, 0, "active", None))
      BY <1>0 DEF Calling, Call, NamedCall, Exists, Statuses, Unfinished, SessionIds
    <3> QED  BY <2>3, <3>1, <1>2 DEF CheckEnd, Checked
  <2>4. ASSUME NEW s \in SessionIds \cup {None}, NEW d \in Details, CheckTask(l, s, d)
        PROVE  Goal
    <3>1. Calling("start_task", s, 0, "active", d) \in Call /\ NamedCall(Calling("start_task", s, 0, "active", d))
      BY <1>0 DEF Calling, Call, NamedCall, Exists, Statuses, Unfinished, SessionIds, None
    <3> QED  BY <2>4, <3>1, <1>2 DEF CheckTask, Checked
  <2>5. ASSUME NEW s \in SessionIds, NEW t \in TaskIds \cup {None}, CheckEpisode(l, s, t)
        PROVE  Goal
    <3>1. Calling("start_episode", s, t, "active", None) \in Call /\ NamedCall(Calling("start_episode", s, t, "active", None))
      BY <1>0 DEF Calling, Call, NamedCall, Exists, Statuses, Unfinished, SessionIds,
                        TaskIds, None
    <3> QED  BY <2>5, <3>1, <1>2 DEF CheckEpisode, Checked
  <2>6. ASSUME NEW t \in TaskIds, NEW status \in Statuses, NEW d \in Details,
               CheckUpdate(l, t, status, d)
        PROVE  Goal
    <3>1. Calling("update_task", 0, t, status, d) \in Call /\ NamedCall(Calling("update_task", 0, t, status, d))
      BY <1>0 DEF Calling, Call, NamedCall, Exists, TaskIds
    <3> QED  BY <2>6, <3>1, <1>2 DEF CheckUpdate, Checked
  <2> QED  BY <1>6, <2>1, <2>2, <2>3, <2>4, <2>5, <2>6 DEF Unkeyed
<1> QED  BY <1>1, <1>4, <1>5, <1>6 DEF Next

\* Rows are never deleted, so what named a row names one after the step.
LEMMA NamesStep ==
    ASSUME TypeOK, RequestsNameRows, [Next]_vars
    PROVE  RequestsNameRows'
<1>0. /\ Len(sessions) \in Nat /\ Len(sessions') \in Nat /\ Len(sessions) <= Len(sessions')
      /\ Len(tasks) \in Nat /\ Len(tasks') \in Nat /\ Len(tasks) <= Len(tasks')
      /\ MaxRows \in Nat
  BY Counts, SessionsStep, TasksStep, BoundsAssumption DEF SessionsMove, TasksMove
<1>1. ASSUME NEW c \in Clients, client'[c].outcome = "sent"
      PROVE  Named(client[c].request)'
  <2>1. PICK r \in Request : r = client'[c].request /\ Named(r)
    <3>1. CASE client'[c] = client[c]
      BY <3>1, <1>1, RequestTyped
    <3>2. CASE \E k \in Keys : \E r \in Asking(k) :
                  client'[c] = [request |-> r, outcome |-> "sent"]
      BY <3>2, AskingNames
    <3> QED  BY <3>1, <3>2, <1>1, ClientMoves
  <2>2. r.session \in Nat /\ r.task \in Nat
    BY <1>0 DEF Request
  <2>3. (r.session <= Len(sessions) => r.session <= Len(sessions'))
        /\ (r.task <= Len(tasks) => r.task <= Len(tasks'))
    BY <2>2, <1>0
  <2> QED  BY <2>1, <2>3 DEF Named, Exists
<1>2. ASSUME NEW l \in Callers
      PROVE  NamedCall(caller[l])'
  <2>1. PICK r \in Call : r = caller'[l] /\ NamedCall(r)
    BY CallerMoves, CallTyped
  <2>2. r.session \in Nat /\ r.task \in Nat
    BY <1>0 DEF Call
  <2>3. (r.session <= Len(sessions) => r.session <= Len(sessions'))
        /\ (r.task <= Len(tasks) => r.task <= Len(tasks'))
    BY <2>2, <1>0
  <2> QED  BY <2>1, <2>3 DEF NamedCall, Exists
<1> QED  BY <1>1, <1>2 DEF RequestsNameRows

-----------------------------------------------------------------------------
(* Receipts *)

\* Whether a step commits x: its operation and key had no receipt, its
\* preconditions held, and the row it describes is there afterwards.
CommittedNow(x) ==
    /\ x \in Receipt /\ Named(x.request)
    /\ Stored(x.request) = {} /\ Admissible(x.request)
    /\ x.request.op = "start_session" =>
          x.id = Len(sessions) + 1 /\ Len(sessions') = x.id
    /\ x.request.op = "start_task" =>
          x.id = Len(tasks) + 1 /\ Len(tasks') = x.id
    /\ x.request.op = "start_episode" =>
          x.id = Len(episodes) + 1 /\ Len(episodes') = x.id
    /\ x.request.op = "record_event" =>
          x.id = Len(events) + 1 /\ Len(events') = x.id
    /\ x.request.op = "complete_task" =>
          /\ x.id = x.request.task /\ x.row = tasks'[x.id]
          /\ x.row.status = "completed" /\ x.row.session = tasks[x.id].session
    /\ x.request.op = "end_session" =>
          x.id = x.request.session /\ sessions'[x.id] = Ended

\* A step commits one receipt at most.
LEMMA ReceiptMoves ==
    ASSUME TypeOK, RequestsNameRows, [Next]_vars
    PROVE  \/ receipts' = receipts
           \/ \E x : CommittedNow(x) /\ receipts' = receipts \cup {x}
<1> DEFINE Goal == \/ receipts' = receipts
                   \/ \E x : CommittedNow(x) /\ receipts' = receipts \cup {x}
<1>0. /\ sessions \in Seq(Session) /\ tasks \in Seq(Task) /\ MaxRows \in Nat
      /\ episodes \in Seq(Episode) /\ events \in Seq(Event)
      /\ Len(sessions) \in Nat /\ Len(tasks) \in Nat
      /\ Len(episodes) \in Nat /\ Len(events) \in Nat
      /\ Len(sessions) <= MaxRows /\ Len(tasks) <= MaxRows
      /\ Open \in Session /\ Ended \in Session
  BY Counts, BoundsAssumption DEF TypeOK, Open, Ended, Session
<1>1. CASE UNCHANGED vars
  BY <1>1 DEF vars
<1>2. ASSUME NEW c \in Clients, Submit(c) \/ Serve(c)
      PROVE  Goal
  <2> DEFINE r == client[c].request
             Record(id, row) == [request |-> r, id |-> id, row |-> row]
  <2>0. ASSUME NEW op, Serves(c, op)
        PROVE  /\ r.op = op /\ r \in Request /\ Named(r) /\ Admissible(r)
               /\ r.session \in Nat /\ r.task \in Nat
    BY <2>0, RequestTyped DEF Serves
  <2>1. ASSUME NEW op, Serves(c, op), NEW id \in 1 .. MaxRows,
               NEW row \in Session \cup Task \cup Episode \cup Event, Commit(c, id, row)
        PROVE  /\ Record(id, row) \in Receipt
               /\ receipts' = receipts \cup {Record(id, row)}
               /\ Record(id, row).request = r /\ Record(id, row).id = id
               /\ Record(id, row).row = row
               /\ Stored(r) = {} /\ Named(r) /\ Admissible(r) /\ r.op = op
    <3>1. /\ Stored(r) = {} /\ r.op = op /\ Named(r) /\ Admissible(r)
          /\ r \in Request
      BY <2>0, <2>1 DEF Commit
    <3>2. receipts' = receipts \cup {Record(id, row)}
      BY <2>1 DEF Commit
    <3>3. Record(id, row) \in Receipt
      BY <3>1 DEF Receipt
    <3> QED  BY <3>1, <3>2, <3>3
  <2>2. CASE StartSession(c)
    <3>1. Len(sessions) + 1 \in 1 .. MaxRows /\ Len(sessions') = Len(sessions) + 1
      BY <2>2, <1>0, Appended DEF StartSession, Free
    <3>2. Serves(c, "start_session") /\ Commit(c, Len(sessions) + 1, Open)
      BY <2>2 DEF StartSession, NewId
    <3> DEFINE x == Record(Len(sessions) + 1, Open)
    <3>m. Open \in Session \cup Task \cup Episode \cup Event
      BY <1>0
    <3>x. /\ x \in Receipt /\ receipts' = receipts \cup {x}
          /\ x.request = r /\ x.id = Len(sessions) + 1 /\ x.row = Open
          /\ Stored(r) = {} /\ Named(r) /\ Admissible(r) /\ r.op = "start_session"
      BY <3>1, <3>2, <3>m, <2>1
    <3> HIDE DEF r, Record, x
    <3>y. CommittedNow(x)
      BY <3>1, <3>x DEF CommittedNow
    <3> QED  BY <3>x, <3>y
  <2>3. CASE StartTask(c)
    <3> DEFINE task == [session |-> r.session, status |-> "active", details |-> r.details]
    <3>1. Serves(c, "start_task") /\ Commit(c, Len(tasks) + 1, task)
          /\ tasks' = Append(tasks, task) /\ Free(tasks)
      BY <2>3 DEF StartTask, NewId
    <3>a. r.session \in Nat /\ r.session <= Len(sessions) /\ r.details \in Details
      BY <3>1, <2>0 DEF Named, Exists
    <3>b. r.session \in 0 .. MaxRows
      BY <3>a, <1>0
    <3>2. task \in Task
      BY <3>a, <3>b DEF Task, Statuses, Unfinished
    <3>3. Len(tasks) + 1 \in 1 .. MaxRows /\ Len(tasks') = Len(tasks) + 1
      BY <3>1, <3>2, <1>0, Appended DEF Free
    <3> DEFINE x == Record(Len(tasks) + 1, task)
    <3>m. task \in Session \cup Task \cup Episode \cup Event
      BY <3>2
    <3>x. /\ x \in Receipt /\ receipts' = receipts \cup {x}
          /\ x.request = r /\ x.id = Len(tasks) + 1 /\ x.row = task
          /\ Stored(r) = {} /\ Named(r) /\ Admissible(r) /\ r.op = "start_task"
      BY <3>1, <3>3, <3>m, <2>1
    <3> HIDE DEF r, Record, task, x
    <3>y. CommittedNow(x)
      BY <3>3, <3>x DEF CommittedNow
    <3> QED  BY <3>x, <3>y
  <2>4. CASE StartEpisode(c)
    <3> DEFINE episode == [session |-> r.session, task |-> r.task]
    <3>1. Serves(c, "start_episode") /\ Commit(c, Len(episodes) + 1, episode)
          /\ episodes' = Append(episodes, episode) /\ Free(episodes)
      BY <2>4 DEF StartEpisode, NewId
    <3>a. /\ r.session \in Nat /\ r.session <= Len(sessions) /\ r.session # 0
          /\ r.task \in Nat /\ r.task <= Len(tasks)
      BY <3>1, <2>0 DEF Named, Exists
    <3>b. r.session \in 1 .. MaxRows /\ r.task \in 0 .. MaxRows
      BY <3>a, <1>0
    <3>2. episode \in Episode
      BY <3>b DEF Episode
    <3>3. Len(episodes) + 1 \in 1 .. MaxRows /\ Len(episodes') = Len(episodes) + 1
      BY <3>1, <3>2, <1>0, Appended DEF Free
    <3> DEFINE x == Record(Len(episodes) + 1, episode)
    <3>m. episode \in Session \cup Task \cup Episode \cup Event
      BY <3>2
    <3>x. /\ x \in Receipt /\ receipts' = receipts \cup {x}
          /\ x.request = r /\ x.id = Len(episodes) + 1 /\ x.row = episode
          /\ Stored(r) = {} /\ Named(r) /\ Admissible(r) /\ r.op = "start_episode"
      BY <3>1, <3>3, <3>m, <2>1
    <3> HIDE DEF r, Record, episode, x
    <3>y. CommittedNow(x)
      BY <3>3, <3>x DEF CommittedNow
    <3> QED  BY <3>x, <3>y
  <2>5. CASE RecordEvent(c)
    <3> DEFINE event == [id |-> r.event, session |-> r.session, task |-> r.task]
    <3>1. Serves(c, "record_event") /\ Commit(c, Len(events) + 1, event)
          /\ events' = Append(events, event) /\ Free(events)
      BY <2>5 DEF RecordEvent, NewId
    <3>2. event \in Event
      BY <3>1, <2>0, <1>0 DEF Event, Named, Exists
    <3>3. Len(events) + 1 \in 1 .. MaxRows /\ Len(events') = Len(events) + 1
      BY <3>1, <3>2, <1>0, Appended DEF Free
    <3> DEFINE x == Record(Len(events) + 1, event)
    <3>m. event \in Session \cup Task \cup Episode \cup Event
      BY <3>2
    <3>x. /\ x \in Receipt /\ receipts' = receipts \cup {x}
          /\ x.request = r /\ x.id = Len(events) + 1 /\ x.row = event
          /\ Stored(r) = {} /\ Named(r) /\ Admissible(r) /\ r.op = "record_event"
      BY <3>1, <3>3, <3>m, <2>1
    <3> HIDE DEF r, Record, event, x
    <3>y. CommittedNow(x)
      BY <3>3, <3>x DEF CommittedNow
    <3> QED  BY <3>x, <3>y
  <2>6. CASE CompleteTask(c)
    <3> DEFINE task == [tasks[r.task] EXCEPT !.status = "completed", !.details = r.details]
    <3>1. Serves(c, "complete_task") /\ Commit(c, r.task, task)
          /\ tasks' = [tasks EXCEPT ![r.task] = task]
      BY <2>6 DEF CompleteTask
    <3>2. r.task \in 1 .. Len(tasks) /\ r.details \in Details
      BY <3>1, <2>0, <1>0 DEF Named, Exists
    <3>3. tasks[r.task] \in Task
      BY <3>2, <1>0
    <3>4. task \in Task /\ task.session = tasks[r.task].session /\ task.status = "completed"
      BY <3>2, <3>3 DEF Task, Statuses, Unfinished
    <3>5. r.task \in 1 .. MaxRows /\ tasks'[r.task] = task
      <4> HIDE DEF r, task
      <4> QED  BY <3>1, <3>2, <1>0, Replaced, <3>4
    <3> HIDE DEF r, Record, task
    <3> QED  BY <3>1, <3>4, <3>5, <2>1 DEF CommittedNow
  <2>7. CASE EndSession(c)
    <3>1. Serves(c, "end_session") /\ Commit(c, r.session, Ended)
          /\ sessions' = [sessions EXCEPT ![r.session] = Ended]
      BY <2>7 DEF EndSession
    <3>a. /\ r.session \in Nat /\ r.session <= Len(sessions) /\ r.session # 0
      BY <3>1, <2>0 DEF Named, Exists
    <3>b. r.session \in 1 .. Len(sessions)
      BY <3>a, <1>0
    <3>2. r.session \in 1 .. MaxRows /\ sessions'[r.session] = Ended
      <4> HIDE DEF r
      <4> QED  BY <3>1, <3>b, <1>0, Replaced
    <3>3. Ended \in Session \cup Task \cup Episode \cup Event
      BY <1>0
    <3> DEFINE x == Record(r.session, Ended)
    <3>4. /\ x \in Receipt /\ receipts' = receipts \cup {x}
          /\ x.request = r /\ x.id = r.session
          /\ Stored(r) = {} /\ Named(r) /\ Admissible(r) /\ r.op = "end_session"
      BY <3>1, <3>2, <3>3, <2>1
    <3> HIDE DEF r, Record, x
    <3>5. CommittedNow(x)
      BY <3>2, <3>4 DEF CommittedNow
    <3> QED  BY <3>4, <3>5
  <2>8. CASE Submit(c) \/ Replay(c) \/ Refuse(c)
    BY <2>8 DEF Submit, Replay, Refuse
  <2> QED  BY <1>2, <2>2, <2>3, <2>4, <2>5, <2>6, <2>7, <2>8 DEF Serve
<1>3. ASSUME NEW l \in Callers, Unkeyed(l)
      PROVE  receipts' = receipts
  <2>1. CASE InsertSession(l) \/ InsertTask(l) \/ InsertEpisode(l)
    BY <2>1 DEF InsertSession, InsertTask, InsertEpisode, Written
  <2>2. CASE \/ \E s \in SessionIds : CheckEnd(l, s)
             \/ \E s \in SessionIds \cup {None}, d \in Details : CheckTask(l, s, d)
             \/ \E s \in SessionIds, t \in TaskIds \cup {None} : CheckEpisode(l, s, t)
    BY <2>2 DEF CheckEnd, CheckTask, CheckEpisode, Checked
  <2>3. CASE UpdateTask(l) \/ WriteEnd(l)
    BY <2>3 DEF UpdateTask, WriteEnd, Written
  <2>4. CASE \E t \in TaskIds, status \in Statuses, d \in Details :
                CheckUpdate(l, t, status, d)
    BY <2>4 DEF CheckUpdate, Checked
  <2>5. CASE \E e \in Events, s \in SessionIds \cup {None},
                t \in TaskIds \cup {None} : InsertEvent(l, e, s, t)
    BY <2>5 DEF InsertEvent
  <2> QED  BY <1>3, <2>1, <2>2, <2>3, <2>4, <2>5 DEF Unkeyed
<1> QED  BY <1>1, <1>2, <1>3 DEF Next

-----------------------------------------------------------------------------
(* Types *)

LEMMA BoundsStep ==
    ASSUME requests \in Nat, calls \in Nat, [Next]_vars
    PROVE  requests' \in Nat /\ calls' \in Nat
<1>1. CASE UNCHANGED vars
  BY <1>1 DEF vars, bounds
<1>2. ASSUME NEW c \in Clients, Submit(c) \/ Serve(c)
      PROVE  requests' \in Nat /\ calls' \in Nat
  <2>1. CASE Submit(c)
    BY <2>1 DEF Submit
  <2>2. CASE StartSession(c) \/ StartTask(c) \/ StartEpisode(c) \/ RecordEvent(c)
    BY <2>2 DEF StartSession, StartTask, StartEpisode, RecordEvent, Commit, bounds
  <2>3. CASE CompleteTask(c) \/ EndSession(c) \/ Replay(c) \/ Refuse(c)
    BY <2>3 DEF CompleteTask, EndSession, Replay, Refuse, Commit, bounds
  <2> QED  BY <1>2, <2>1, <2>2, <2>3 DEF Serve
<1>3. ASSUME NEW l \in Callers, Unkeyed(l)
      PROVE  requests' \in Nat /\ calls' \in Nat
  <2>1. /\ requests' = requests
        /\ calls' = calls \/ calls' = calls + 1
    BY <1>3 DEF Unkeyed, InsertSession, InsertTask, InsertEpisode, UpdateTask, WriteEnd,
         CheckEnd, CheckTask, CheckEpisode, CheckUpdate, InsertEvent, Checked, Written, bounds
  <2> QED  BY <2>1
<1> QED  BY <1>1, <1>2, <1>3 DEF Next

LEMMA TypeStep ==
    ASSUME TypeOK, RequestsNameRows, [Next]_vars
    PROVE  TypeOK'
<1>1. /\ sessions' \in Seq(Session) /\ Len(sessions') <= MaxRows
      /\ tasks' \in Seq(Task) /\ Len(tasks') <= MaxRows
      /\ episodes' \in Seq(Episode) /\ Len(episodes') <= MaxRows
      /\ events' \in Seq(Event) /\ Len(events') <= MaxRows
  BY SessionsStep, TasksStep, OthersStep DEF SessionsMove, TasksMove, OthersMove
<1>2. ASSUME NEW t \in TaskIds'
      PROVE  tasks'[t].session <= Len(sessions')
  <2>1. /\ Len(sessions) \in Nat /\ Len(sessions') \in Nat
        /\ Len(sessions) <= Len(sessions') /\ tasks'[t].session \in Nat
    <3>1. tasks'[t] \in Task
      BY <1>1, <1>2 DEF TaskIds
    <3>2. tasks'[t].session \in Nat
      BY <3>1, BoundsAssumption DEF Task
    <3> QED  BY <3>2, <1>1, Counts, SessionsStep DEF SessionsMove
  <2>2. tasks'[t].session <= Len(sessions)
    <3>1. CASE t \in TaskIds
      BY <3>1, TasksStep DEF TasksMove, TypeOK
    <3>2. CASE t \notin TaskIds
      <4>1. t \in DOMAIN tasks'
        BY <1>1, <1>2 DEF TaskIds
      <4> QED  BY <4>1, <3>2, TasksStep DEF TasksMove
    <3> QED  BY <3>1, <3>2
  <2> QED  BY <2>1, <2>2
<1>3. receipts' \subseteq Receipt
  BY ReceiptMoves DEF TypeOK, CommittedNow
<1>4. client' \in [Clients -> Client] /\ caller' \in [Callers -> Call]
  BY ClientMoves, CallerMoves
<1>5. requests' \in Nat /\ calls' \in Nat
  BY BoundsStep DEF TypeOK
<1> QED  BY <1>1, <1>2, <1>3, <1>4, <1>5 DEF TypeOK

LEMMA InitialState ==
    Init => TypeOK /\ RequestsNameRows /\ ReceiptsDescribe /\ ReceiptsAreExclusive
                   /\ ClosureFollowsCompletion
<1> SUFFICES ASSUME Init
             PROVE  TypeOK /\ RequestsNameRows /\ ReceiptsDescribe /\ ReceiptsAreExclusive
                           /\ ClosureFollowsCompletion
  OBVIOUS
<1>1. /\ \A S : <<>> \in Seq(S)
      /\ Len(<<>>) = 0 /\ MaxRows \in Nat
  BY BoundsAssumption
<1>2. Idle \in Call /\ NoRequest \in Client
  BY <1>1 DEF Idle, Calling, Call, Statuses, Unfinished, Client
<1>3. TypeOK
  BY <1>1, <1>2 DEF Init, TypeOK, TaskIds
<1>4. RequestsNameRows
  BY <1>1 DEF Init, RequestsNameRows, NoRequest, NamedCall, Exists, Idle, Calling
<1> QED  BY <1>3, <1>4 DEF Init, ReceiptsDescribe, ReceiptsAreExclusive,
                           ClosureFollowsCompletion

\* Type correctness, with what requests and calls may name.
THEOREM NativeTypes == Spec => [](TypeOK /\ RequestsNameRows)
<1>1. TypeOK /\ RequestsNameRows /\ [Next]_vars => (TypeOK /\ RequestsNameRows)'
  BY TypeStep, NamesStep
<1> QED  BY InitialState, <1>1, PTL DEF Spec

\* Finished tasks and ended sessions are final, although update_task and
\* end_session decide on rows they read in another statement.
THEOREM TerminalStaysFinal == Spec => TerminalIsFinal
<1>1. TypeOK /\ RequestsNameRows /\ [Next]_vars =>
        [/\ \A t \in TaskIds : tasks[t].status \notin Unfinished => tasks'[t] = tasks[t]
         /\ \A s \in SessionIds : sessions[s] = Ended => sessions'[s] = Ended]_vars
  BY SessionsStep, TasksStep DEF SessionsMove, TasksMove
<1> QED  BY <1>1, NativeTypes, PTL DEF Spec, TerminalIsFinal

-----------------------------------------------------------------------------
(* What receipts say *)

\* The rows a receipt describes are final: it describes them after the step.
LEMMA DescribesStep ==
    ASSUME TypeOK, RequestsNameRows, ReceiptsDescribe, [Next]_vars
    PROVE  ReceiptsDescribe'
<1>0. /\ Len(sessions) \in Nat /\ Len(sessions') \in Nat /\ Len(sessions) <= Len(sessions')
      /\ Len(tasks) \in Nat /\ Len(tasks') \in Nat /\ Len(tasks) <= Len(tasks')
      /\ Len(episodes) \in Nat /\ Len(episodes') \in Nat /\ Len(episodes) <= Len(episodes')
      /\ Len(events) \in Nat /\ Len(events') \in Nat /\ Len(events) <= Len(events')
      /\ MaxRows \in Nat
  BY Counts, SessionsStep, TasksStep, OthersStep, BoundsAssumption
     DEF SessionsMove, TasksMove, OthersMove
<1>1. ASSUME NEW x \in receipts
      PROVE  Describes(x)'
  <2>0. /\ Describes(x) /\ x \in Receipt /\ x.id \in Nat /\ x.id # 0
    BY <1>0 DEF ReceiptsDescribe, TypeOK, Receipt
  <2>1. /\ x.request.op \in {"start_session", "end_session"} => x.id \in SessionIds'
        /\ x.request.op \in {"start_task", "complete_task"} => x.id \in TaskIds'
        /\ x.request.op = "start_episode" => x.id <= Len(episodes')
        /\ x.request.op = "record_event" => x.id <= Len(events')
    <3>1. /\ x.request.op \in {"start_session", "end_session"} => x.id \in SessionIds
          /\ x.request.op \in {"start_task", "complete_task"} => x.id \in TaskIds
          /\ x.request.op = "start_episode" => x.id <= Len(episodes)
          /\ x.request.op = "record_event" => x.id <= Len(events)
      BY <2>0 DEF Describes
    <3>2. /\ SessionIds \subseteq SessionIds' /\ TaskIds \subseteq TaskIds'
          /\ Len(episodes) \in Nat /\ Len(episodes') \in Nat
          /\ Len(events) \in Nat /\ Len(events') \in Nat
      BY <1>0 DEF SessionIds, TaskIds
    <3> QED  BY <3>1, <3>2, <2>0, <1>0
  <2>2. ASSUME x.request.op = "complete_task"
        PROVE  tasks'[x.id] = tasks[x.id]
    BY <2>0, <2>2, TasksStep DEF Describes, TasksMove, Unfinished
  <2>3. ASSUME x.request.op = "end_session"
        PROVE  sessions'[x.id] = Ended
    BY <2>0, <2>3, SessionsStep DEF Describes, SessionsMove
  <2> QED  BY <2>0, <2>1, <2>2, <2>3 DEF Describes
<1>2. ASSUME NEW x, CommittedNow(x)
      PROVE  Describes(x)'
  <2>0. /\ x.id \in Nat /\ x.id # 0 /\ Named(x.request)
        /\ x.request.session \in Nat /\ x.request.task \in Nat
    BY <1>0, <1>2 DEF CommittedNow, Receipt, Request
  <2>1. /\ x.request.op \in {"start_session", "end_session"} => x.id \in SessionIds'
        /\ x.request.op \in {"start_task", "complete_task"} => x.id \in TaskIds'
        /\ x.request.op = "start_episode" => x.id <= Len(episodes')
        /\ x.request.op = "record_event" => x.id <= Len(events')
    <3>1. /\ x.request.op = "start_session" => x.id \in SessionIds'
          /\ x.request.op = "start_task" => x.id \in TaskIds'
          /\ x.request.op = "start_episode" => x.id <= Len(episodes')
          /\ x.request.op = "record_event" => x.id <= Len(events')
      BY <2>0, <1>0, <1>2 DEF CommittedNow, SessionIds, TaskIds
    <3>2. ASSUME x.request.op = "end_session"
          PROVE  x.id \in SessionIds'
      BY <2>0, <1>0, <1>2, <3>2 DEF CommittedNow, SessionIds, Named, Exists
    <3>3. ASSUME x.request.op = "complete_task"
          PROVE  x.id \in TaskIds'
      BY <2>0, <1>0, <1>2, <3>3 DEF CommittedNow, TaskIds, Named, Exists
    <3> QED  BY <3>1, <3>2, <3>3
  <2>2. ASSUME x.request.op = "complete_task"
        PROVE  x.row.session = x.request.session /\ x.request.session # 0
    <3>1. Owned(x.request, TRUE)
      BY <1>2, <2>2 DEF CommittedNow, Admissible, Completable
    <3>2. x.request.session # 0 /\ x.request.task # 0
      BY <2>0, <2>2 DEF Named
    <3>3. tasks[x.request.task].session = x.request.session
      BY <3>1, <3>2 DEF Owned
    <3> QED  BY <1>2, <2>2, <3>2, <3>3 DEF CommittedNow
  <2> QED  BY <2>1, <2>2, <1>2 DEF Describes, CommittedNow
<1> QED  BY <1>1, <1>2, ReceiptMoves DEF ReceiptsDescribe

\* A new receipt shares neither key nor effect with one that is there.
LEMMA ExclusiveStep ==
    ASSUME TypeOK, RequestsNameRows, ReceiptsDescribe, ReceiptsAreExclusive, [Next]_vars
    PROVE  ReceiptsAreExclusive'
<1>1. ASSUME NEW x, CommittedNow(x), NEW y \in receipts, y.request.op = x.request.op
      PROVE  y.request.key # x.request.key /\ y.id # x.id
  <2>0. /\ Describes(y) /\ x \in Receipt /\ y \in Receipt
        /\ Len(sessions) \in Nat /\ Len(tasks) \in Nat
        /\ Len(episodes) \in Nat /\ Len(events) \in Nat
    BY <1>1, Counts DEF ReceiptsDescribe, TypeOK, CommittedNow
  <2>1. y.request.key # x.request.key
    BY <1>1 DEF CommittedNow, Stored
  <2>2. CASE x.request.op \in {"start_session", "start_task", "start_episode", "record_event"}
    BY <1>1, <2>0, <2>1, <2>2 DEF CommittedNow, Describes, SessionIds, TaskIds
  <2>3. CASE x.request.op = "complete_task"
    <3>1. tasks[x.request.task].status = "active" /\ x.id = x.request.task
      BY <1>1, <2>3 DEF CommittedNow, Admissible, Completable
    <3>2. tasks[y.id].status = "completed"
      BY <1>1, <2>0, <2>3 DEF Describes
    <3> QED  BY <2>1, <3>1, <3>2
  <2>4. CASE x.request.op = "end_session"
    <3>1. Owned(x.request, TRUE) /\ x.id = x.request.session /\ x.request.session # 0
      BY <1>1, <2>4 DEF CommittedNow, Admissible, Earned, Named
    <3>2. sessions[x.id] = Open /\ Open # Ended
      BY <3>1 DEF Owned, Open, Ended
    <3>3. sessions[y.id] = Ended
      BY <1>1, <2>0, <2>4 DEF Describes
    <3> QED  BY <2>1, <3>2, <3>3
  <2>5. x.request.op \in Operations
    BY <2>0 DEF Receipt, Request
  <2> QED  BY <2>2, <2>3, <2>4, <2>5 DEF Operations
<1>2. CASE receipts' = receipts
  BY <1>2 DEF ReceiptsAreExclusive
<1>3. CASE \E x : CommittedNow(x) /\ receipts' = receipts \cup {x}
  BY <1>1, <1>3 DEF ReceiptsAreExclusive
<1> QED  BY <1>2, <1>3, ReceiptMoves

\* A completion stays what it was, so a closure that followed it still does.
LEMMA ClosureStep ==
    ASSUME TypeOK, RequestsNameRows, ReceiptsDescribe, ClosureFollowsCompletion, [Next]_vars
    PROVE  ClosureFollowsCompletion'
<1> DEFINE Follows(e) ==
             /\ sessions[e.id] = Ended
             /\ \E x \in receipts :
                   /\ x.request.op = "complete_task"
                   /\ x.request.key = e.request.completion
                   /\ x.request.session = e.id
                   /\ x.row = tasks[x.id] /\ x.row.details = e.request.details
<1>1. receipts \subseteq receipts'
  BY ReceiptMoves
<1>2. ASSUME NEW x \in receipts, x.request.op = "complete_task"
      PROVE  tasks'[x.id] = tasks[x.id]
  BY <1>2, TasksStep DEF ReceiptsDescribe, Describes, TasksMove, Unfinished
<1>3. ASSUME NEW e \in receipts, e.request.op = "end_session"
      PROVE  Follows(e)'
  <2>1. sessions'[e.id] = Ended
    BY <1>3, SessionsStep DEF ReceiptsDescribe, Describes, SessionsMove
  <2>2. Follows(e)
    BY <1>3 DEF ClosureFollowsCompletion
  <2> QED  BY <2>1, <2>2, <1>1, <1>2
<1>4. ASSUME NEW e, CommittedNow(e), e.request.op = "end_session"
      PROVE  Follows(e)'
  <2>1. /\ e.id = e.request.session /\ sessions'[e.id] = Ended /\ Earned(e.request)
    BY <1>4 DEF CommittedNow, Admissible
  <2>2. PICK x \in receipts : /\ x.request.op = "complete_task"
                              /\ x.request.key = e.request.completion
                              /\ x.id = e.request.task /\ x.row = tasks[e.request.task]
    BY <2>1 DEF Earned
  <2>3. x.row.session = x.request.session
    BY <2>2 DEF ReceiptsDescribe, Describes
  <2>4. /\ tasks[e.request.task].session = e.request.session
        /\ tasks[e.request.task].details = e.request.details
    BY <2>1 DEF Earned
  <2>5. x.request.session = e.id /\ x.row.details = e.request.details
    BY <2>1, <2>2, <2>3, <2>4
  <2>6. x.row = tasks'[x.id] /\ x \in receipts'
    BY <2>2, <1>1, <1>2
  <2> QED  BY <2>1, <2>2, <2>5, <2>6
<1>5. \A e \in receipts' : e.request.op = "end_session" => Follows(e)'
  BY <1>3, <1>4, ReceiptMoves
<1> QED  BY <1>5 DEF ClosureFollowsCompletion

\* One receipt for a key and an operation, and one for an effect, for any number
\* of processes that repeat, confuse or reuse their keys.
THEOREM ReceiptsStayExclusive == Spec => [](ReceiptsDescribe /\ ReceiptsAreExclusive)
<1>1. /\ TypeOK /\ RequestsNameRows /\ ReceiptsDescribe /\ ReceiptsAreExclusive
      /\ [Next]_vars
      => (ReceiptsDescribe /\ ReceiptsAreExclusive)'
  BY DescribesStep, ExclusiveStep
<1> QED  BY InitialState, <1>1, NativeTypes, PTL DEF Spec

\* A session that a delivery ended was earned by the exact completion of its
\* task, which no later write changes.
THEOREM ClosureWasEarned == Spec => []ClosureFollowsCompletion
<1>1. /\ TypeOK /\ RequestsNameRows /\ ReceiptsDescribe /\ ClosureFollowsCompletion
      /\ [Next]_vars
      => ClosureFollowsCompletion'
  BY ClosureStep
<1>2. Spec => []ReceiptsDescribe
  BY ReceiptsStayExclusive, PTL
<1> QED  BY InitialState, <1>1, <1>2, NativeTypes, PTL DEF Spec

-----------------------------------------------------------------------------
(* Repetitions *)

\* Only Refuse refuses, and only a request that is not recorded.
LEMMA RefusalStep ==
    ASSUME TypeOK, RequestsNameRows, ReceiptsAreExclusive, [Next]_vars,
           NEW c \in Clients, client[c].outcome = "sent",
           NEW x \in receipts, x.request = client[c].request
    PROVE  client'[c].outcome # "refused"
<1>0. client \in [Clients -> Client] /\ "sent" # "refused"
  BY DEF TypeOK
<1>1. ASSUME NEW d \in Clients, Submit(d)
      PROVE  client'[c] = client[c]
  <2>1. d # c
    BY <1>1 DEF Submit
  <2> QED  BY <1>0, <1>1, <2>1 DEF Submit
<1>2. ~Refuse(c)
  <2>1. Recorded(client[c].request) # {}
    BY DEF Recorded, Stored
  <2>2. ASSUME NEW y \in Recorded(client[c].request)
        PROVE  y = x
    BY <2>2 DEF Recorded, Stored, ReceiptsAreExclusive
  <2> QED  BY <2>1, <2>2 DEF Refuse
<1>3. ASSUME NEW d \in Clients, Serve(d)
      PROVE  client'[c].outcome # "refused"
  <2>1. \/ client' = client
        \/ client' = [client EXCEPT ![d].outcome = "receipt"]
        \/ Refuse(d) /\ client' = [client EXCEPT ![d].outcome = "refused"]
    BY <1>3 DEF Serve, StartSession, StartTask, StartEpisode, RecordEvent, CompleteTask,
         EndSession, Replay, Refuse, Commit
  <2>2. CASE d # c
    BY <2>1, <2>2, <1>0
  <2>3. CASE d = c
    <3>1. client[c] = [request |-> client[c].request, outcome |-> "sent"]
      BY <1>0 DEF Client, NoRequest
    <3> QED  BY <2>1, <2>3, <3>1, <1>0, <1>2
  <2> QED  BY <2>2, <2>3
<1>4. ASSUME NEW l \in Callers, Unkeyed(l)
      PROVE  client' = client
  BY <1>4 DEF Unkeyed, InsertSession, InsertTask, InsertEpisode, UpdateTask, WriteEnd,
       CheckEnd, CheckTask, CheckEpisode, CheckUpdate, InsertEvent, Checked, Written
<1>5. CASE UNCHANGED vars
  BY <1>5, <1>0 DEF vars
<1> QED  BY <1>0, <1>1, <1>3, <1>4, <1>5 DEF Next

\* A repetition of a committed request is never refused, whatever has happened
\* to the session and the task since.
THEOREM RepetitionsAreAnswered == Spec => CommittedIsNeverRefused
<1>1. TypeOK /\ RequestsNameRows /\ ReceiptsAreExclusive /\ [Next]_vars =>
        [\A c \in Clients :
            client[c].outcome = "sent" /\ (\E x \in receipts : x.request = client[c].request)
            => client'[c].outcome # "refused"]_vars
  BY RefusalStep
<1>2. Spec => []ReceiptsAreExclusive
  BY ReceiptsStayExclusive, PTL
<1> QED  BY <1>1, <1>2, NativeTypes, PTL DEF Spec, CommittedIsNeverRefused

=============================================================================
