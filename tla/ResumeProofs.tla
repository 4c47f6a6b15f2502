----------------------------- MODULE ResumeProofs -----------------------------
(***************************************************************************)
(* Theorems about work that is taken up again, for any sessions, tasks,     *)
(* memories and bounds.                                                    *)
(*                                                                         *)
(* A resume_context relies on what it has read staying true enough: what    *)
(* writers change carries a later hour than the request, what identifies a  *)
(* row, the session of a task, a checkpoint, the begin of a session, never  *)
(* changes.  MovesOn states this of every write, and each read's result is   *)
(* stated so that it stands while writers move on.                         *)
(***************************************************************************)
EXTENDS TemporalRetrieval, FiniteSetTheorems, SequenceTheorems, WellFoundedInduction, TLAPS

-----------------------------------------------------------------------------
(* The latest of some rows *)

LEMMA HoursAreNumbers == MaxHour \in Nat /\ MaxResumeEvents \in Nat /\ Hours \subseteq Nat
BY ResumeBounds DEF Hours

LEMMA LargestHour ==
    ASSUME NEW T, T \subseteq Hours, T # {}
    PROVE  \E x \in T : \A y \in T : y <= x
<1> DEFINE Left == {MaxHour - x : x \in T}
           R == OpToRel(<, Nat)
<1>1. Left \subseteq Nat /\ Left # {}
  <2>1. \A x \in 0 .. MaxHour : MaxHour - x \in Nat
    BY HoursAreNumbers
  <2> QED
    BY <2>1 DEF Hours
<1>2. IsWellFoundedOn(R, Nat)
  BY NatLessThanWellFounded
<1>3. \A a, b \in Nat : a < b => <<a, b>> \in R
  BY DEF OpToRel
<1> HIDE DEF R, Left
<1>4. PICK least \in Left : \A y \in Left : ~(<<y, least>> \in R)
  BY <1>1, <1>2, WFMin
<1>5. PICK x \in T : least = MaxHour - x
  BY DEF Left
<1>6. ASSUME NEW y \in T PROVE y <= x
  <2>1. MaxHour - y \in Left
    BY DEF Left
  <2>2. ~(MaxHour - y < least)
    BY <1>1, <1>3, <1>4, <2>1
  <2> QED
    BY <1>5, <2>2, HoursAreNumbers DEF Hours
<1> QED
  BY <1>6

LEMMA LatestIsLatest ==
    ASSUME NEW rows, NEW time, \A r \in rows : time[r] \in Hours
    PROVE  /\ rows = {} => LatestOf(rows, time) = None
           /\ rows # {} => /\ LatestOf(rows, time) \in rows
                           /\ \A o \in rows : time[o] <= time[LatestOf(rows, time)]
<1>1. CASE rows = {}
  BY <1>1 DEF LatestOf
<1>2. CASE rows # {}
  <2> DEFINE T == {time[r] : r \in rows}
  <2>1. T \subseteq Hours /\ T # {}
    BY <1>2
  <2>2. PICK x \in T : \A y \in T : y <= x
    BY <2>1, LargestHour
  <2>3. PICK r \in rows : time[r] = x
    BY <2>2
  <2>4. \A o \in rows : time[o] <= time[r]
    BY <2>2, <2>3
  <2> QED
    BY <1>2, <2>3, <2>4 DEF LatestOf
<1> QED
  BY <1>1, <1>2

LEMMA NewestIsNewest ==
    ASSUME NEW records, \A r \in records : r.at \in Hours
    PROVE  /\ records = {} => Newest(records) = NoRecord
           /\ records # {} => /\ Newest(records) \in records
                              /\ \A o \in records : o.at <= Newest(records).at
<1>1. CASE records = {}
  BY <1>1 DEF Newest
<1>2. CASE records # {}
  <2> DEFINE T == {r.at : r \in records}
  <2>1. T \subseteq Hours /\ T # {}
    BY <1>2
  <2>2. PICK x \in T : \A y \in T : y <= x
    BY <2>1, LargestHour
  <2>3. PICK r \in records : r.at = x
    BY <2>2
  <2>4. \A o \in records : o.at <= r.at
    BY <2>2, <2>3
  <2> QED
    BY <1>2, <2>3, <2>4 DEF Newest
<1> QED
  BY <1>1, <1>2

-----------------------------------------------------------------------------
(* Rows, and how writers move them on *)

RowTypes ==
    /\ sessions \in [Sessions -> SessionRow]
    /\ works \in [Works -> WorkRow]
    /\ notes \in [Notes -> NoteRow]
    /\ saved \subseteq CheckpointRow /\ happened \subseteq EventRow
    /\ hour \in Hours

Saving == [step : {"insert"}, session : Sessions, task : SomeWork, decisions : SUBSET Notes]

\* A session that has begun, and one of its tasks or none.
Scoped(s, t) ==
    /\ Begun(s)
    /\ t # None => works[t].status # "absent" /\ HomeOf(t) = s

RowsBelong ==
    /\ \A s \in Sessions : sessions[s].end # 0 => Begun(s)
    /\ \A t \in Works : HomeOf(t) # None => works[t].status # "absent" /\ Begun(HomeOf(t))
    /\ \A c \in saved : Scoped(c.session, c.task)
    /\ saver = Quiet \/ (saver \in Saving /\ Scoped(saver.session, saver.task))

RowInv == RowTypes /\ RowsBelong

SessionsMove ==
    \A s \in Sessions :
        /\ Begun(s) => sessions'[s].at = sessions[s].at
        /\ ~Begun(s) => sessions'[s] = sessions[s] \/ sessions'[s].at = hour'
        /\ sessions'[s].end # sessions[s].end => Open(s) /\ sessions'[s].end = hour'
WorksMove ==
    \A t \in Works :
        /\ works[t].status # "absent" =>
              works'[t].session = works[t].session /\ works'[t].status # "absent"
        /\ works'[t] = works[t] \/ works'[t].at = hour'
NotesMove == \A n \in Notes : notes'[n] = notes[n] \/ notes'[n].at = hour'
SavedMove == saved \subseteq saved' /\ \A c \in saved' \ saved : c.at = hour'

MovesOn ==
    /\ hour < MaxHour /\ hour' = hour + 1
    /\ SessionsMove /\ WorksMove /\ NotesMove /\ SavedMove

NoMove == UNCHANGED rowVars

LEMMA NobodyIsSomebody ==
    /\ None \notin Sessions /\ None \notin Works /\ None \notin Notes
BY NoneIsNobody

LEMMA HourMoves ==
    ASSUME RowTypes, hour < MaxHour, hour' = hour + 1
    PROVE  hour' \in Hours /\ hour' # 0 /\ hour < hour' /\ hour \in Nat /\ 0 \in Hours
BY HoursAreNumbers DEF RowTypes, Hours

LEMMA ScopedMoves ==
    ASSUME RowInv, SessionsMove, WorksMove, NEW s \in Sessions, NEW t \in SomeWork,
           Scoped(s, t)
    PROVE  Scoped(s, t)'
BY NobodyIsSomebody DEF SessionsMove, WorksMove, Scoped, Begun, HomeOf, SomeWork

\* A session that has begun stays begun, and a task where it belongs.
LEMMA RowsBelongMove ==
    ASSUME RowInv, SessionsMove, WorksMove,
           \A t \in Works : works[t].status = "absent" /\ works'[t] # works[t] =>
               /\ works'[t].status # "absent"
               /\ works'[t].session # None =>
                     works'[t].session \in Sessions /\ Begun(works'[t].session),
           saved' = saved, saver' = saver
    PROVE  RowsBelong'
<1>0. ASSUME NEW s \in Sessions, sessions'[s].end # 0 PROVE sessions'[s].at # 0
  BY <1>0 DEF SessionsMove, Open, Begun, RowInv, RowsBelong
<1>1. ASSUME NEW t \in Works, works'[t].session # None
      PROVE  works'[t].status # "absent" /\ sessions'[works'[t].session].at # 0
  <2>1. CASE works[t].status = "absent" /\ works'[t] # works[t]
    <3> DEFINE s == works'[t].session
    <3>1. s \in Sessions /\ Begun(s) /\ works'[t].status # "absent"
      BY <1>1, <2>1
    <3> QED
      BY <3>1 DEF SessionsMove, Begun
  <2>2. CASE ~(works[t].status = "absent" /\ works'[t] # works[t])
    <3>1. works'[t].session = works[t].session
      BY <2>2 DEF WorksMove
    <3>2. works[t].status # "absent" /\ Begun(works[t].session)
      BY <1>1, <3>1 DEF RowInv, RowsBelong, HomeOf
    <3>3. works[t].session \in Sessions
      BY <1>1, <3>1 DEF RowInv, RowTypes, WorkRow, SomeSession
    <3>4. works'[t].status # "absent"
      BY <3>2 DEF WorksMove
    <3> QED
      BY <3>1, <3>2, <3>3, <3>4 DEF SessionsMove, Begun
  <2> QED
    BY <2>1, <2>2
<1>2. ASSUME NEW c \in saved PROVE Scoped(c.session, c.task)'
  BY ScopedMoves DEF RowInv, RowTypes, RowsBelong, CheckpointRow
<1>3. (saver = Quiet \/ (saver \in Saving /\ Scoped(saver.session, saver.task)))'
  <2>1. CASE saver = Quiet
    BY <2>1
  <2>2. CASE saver \in Saving /\ Scoped(saver.session, saver.task)
    <3>1. saver.session \in Sessions /\ saver.task \in SomeWork
      BY <2>2 DEF Saving
    <3>2. Scoped(saver.session, saver.task)'
      <4> DEFINE s == saver.session
                 t == saver.task
      <4>1. s \in Sessions /\ t \in SomeWork /\ Scoped(s, t)
        BY <2>2, <3>1
      <4>2. s' = s /\ t' = t
        OBVIOUS
      <4> QED
        BY <4>1, <4>2 DEF SessionsMove, WorksMove, Scoped, Begun, HomeOf, SomeWork
    <3> QED
      BY <2>2, <3>2
  <2> QED
    BY <2>1, <2>2 DEF RowInv, RowsBelong
<1> QED
  BY <1>0, <1>1, <1>2, <1>3, NobodyIsSomebody DEF RowsBelong, HomeOf, Begun

LEMMA StartSessionMoves ==
    ASSUME RowInv, NEW s \in Sessions, StartSession(s)
    PROVE  MovesOn /\ RowInv'
<1>1. RowTypes /\ hour < MaxHour /\ hour' = hour + 1
  BY DEF StartSession, Write, RowInv
<1>2. hour' \in Hours /\ hour' # 0
  BY <1>1, HourMoves
<1>3. RowTypes'
  BY <1>1, <1>2 DEF RowTypes, StartSession, SessionRow
<1>4. MovesOn
  BY <1>1, <1>2 DEF MovesOn, SessionsMove, WorksMove, NotesMove, SavedMove, StartSession,
                    RowTypes, SessionRow, Begun
<1>5. RowsBelong'
  BY <1>4, RowsBelongMove DEF StartSession, MovesOn
<1> QED
  BY <1>3, <1>4, <1>5 DEF RowInv

LEMMA EndSessionMoves ==
    ASSUME RowInv, NEW s \in Sessions, EndSession(s)
    PROVE  MovesOn /\ RowInv'
<1>1. RowTypes /\ hour < MaxHour /\ hour' = hour + 1
  BY DEF EndSession, Write, RowInv
<1>2. hour' \in Hours /\ hour' # 0
  BY <1>1, HourMoves
<1>3. RowTypes'
  BY <1>1, <1>2 DEF RowTypes, EndSession, SessionRow
<1>4. MovesOn
  BY <1>1, <1>2 DEF MovesOn, SessionsMove, WorksMove, NotesMove, SavedMove, EndSession,
                    RowTypes, SessionRow, Begun, Open
<1>5. RowsBelong'
  BY <1>4, RowsBelongMove DEF EndSession, MovesOn
<1> QED
  BY <1>3, <1>4, <1>5 DEF RowInv

LEMMA StartTaskMoves ==
    ASSUME RowInv, NEW t \in Works, NEW s \in SomeSession, StartTask(t, s)
    PROVE  MovesOn /\ RowInv'
<1>1. RowTypes /\ hour < MaxHour /\ hour' = hour + 1
  BY DEF StartTask, Write, RowInv
<1>2. hour' \in Hours /\ hour' # 0
  BY <1>1, HourMoves
<1>3. RowTypes'
  BY <1>1, <1>2 DEF RowTypes, StartTask, WorkRow, Incomplete
<1>4. MovesOn
  BY <1>1, <1>2 DEF MovesOn, SessionsMove, WorksMove, NotesMove, SavedMove, StartTask,
                    RowTypes, WorkRow
<1>5. \A u \in Works : works'[u] # works[u] =>
          works'[u] = [at |-> hour', session |-> s, status |-> "active"]
  BY <1>1 DEF RowTypes, StartTask
<1>6. s # None => s \in Sessions /\ Begun(s)
  BY DEF StartTask, SomeSession
<1>7. \A u \in Works : works[u].status = "absent" /\ works'[u] # works[u] =>
               /\ works'[u].status # "absent"
               /\ works'[u].session # None =>
                     works'[u].session \in Sessions /\ Begun(works'[u].session)
  BY <1>5, <1>6
<1>8. RowsBelong'
  BY <1>4, <1>7, RowsBelongMove DEF StartTask, MovesOn
<1> QED
  BY <1>3, <1>4, <1>8 DEF RowInv

LEMMA UpdateTaskMoves ==
    ASSUME RowInv, NEW t \in Works, NEW status \in Incomplete \cup {"done"},
           UpdateTask(t, status)
    PROVE  MovesOn /\ RowInv'
<1>1. RowTypes /\ hour < MaxHour /\ hour' = hour + 1
  BY DEF UpdateTask, Write, RowInv
<1>2. hour' \in Hours /\ hour' # 0
  BY <1>1, HourMoves
<1>3. RowTypes'
  BY <1>1, <1>2 DEF RowTypes, UpdateTask, WorkRow, Incomplete
<1>4. works[t].status # "absent" /\ status # "absent"
  BY DEF UpdateTask, Incomplete
<1>5. MovesOn
  BY <1>1, <1>2, <1>4 DEF MovesOn, SessionsMove, WorksMove, NotesMove, SavedMove, UpdateTask,
                          RowTypes, WorkRow
<1>6. \A u \in Works : works[u].status = "absent" => works'[u] = works[u]
  BY <1>1, <1>4 DEF RowTypes, UpdateTask
<1>7. RowsBelong'
  BY <1>5, <1>6, RowsBelongMove DEF UpdateTask, MovesOn
<1> QED
  BY <1>3, <1>5, <1>7 DEF RowInv

LEMMA RecordEventMoves ==
    ASSUME RowInv, NEW s \in SomeSession, NEW t \in SomeWork, RecordEvent(s, t)
    PROVE  MovesOn /\ RowInv'
<1>1. RowTypes /\ hour < MaxHour /\ hour' = hour + 1
  BY DEF RecordEvent, Write, RowInv
<1>2. hour' \in Hours /\ hour' # 0
  BY <1>1, HourMoves
<1>3. RowTypes'
  BY <1>1, <1>2 DEF RowTypes, RecordEvent, EventRow
<1>4. MovesOn
  BY <1>1, <1>2 DEF MovesOn, SessionsMove, WorksMove, NotesMove, SavedMove, RecordEvent
<1>5. RowsBelong'
  BY <1>4, RowsBelongMove DEF RecordEvent, MovesOn
<1> QED
  BY <1>3, <1>4, <1>5 DEF RowInv

LEMMA RecordMemoryMoves ==
    ASSUME RowInv, NEW n \in Notes, NEW s \in SomeSession, NEW t \in SomeWork,
           RecordMemory(n, s, t)
    PROVE  MovesOn /\ RowInv'
<1>1. RowTypes /\ hour < MaxHour /\ hour' = hour + 1
  BY DEF RecordMemory, Write, RowInv
<1>2. hour' \in Hours /\ hour' # 0
  BY <1>1, HourMoves
<1>3. RowTypes'
  BY <1>1, <1>2 DEF RowTypes, RecordMemory, NoteRow
<1>4. MovesOn
  BY <1>1, <1>2 DEF MovesOn, SessionsMove, WorksMove, NotesMove, SavedMove, RecordMemory,
                    RowTypes, NoteRow
<1>5. RowsBelong'
  BY <1>4, RowsBelongMove DEF RecordMemory, MovesOn
<1> QED
  BY <1>3, <1>4, <1>5 DEF RowInv

LEMMA RetireMoves ==
    ASSUME RowInv, NEW n \in Notes, NEW state \in {"superseded", "withdrawn"},
           Retire(n, state)
    PROVE  MovesOn /\ RowInv'
<1>1. RowTypes /\ hour < MaxHour /\ hour' = hour + 1
  BY DEF Retire, Write, RowInv
<1>2. hour' \in Hours /\ hour' # 0
  BY <1>1, HourMoves
<1>3. RowTypes'
  BY <1>1, <1>2 DEF RowTypes, Retire, NoteRow
<1>4. MovesOn
  BY <1>1, <1>2 DEF MovesOn, SessionsMove, WorksMove, NotesMove, SavedMove, Retire,
                    RowTypes, NoteRow
<1>5. RowsBelong'
  BY <1>4, RowsBelongMove DEF Retire, MovesOn
<1> QED
  BY <1>3, <1>4, <1>5 DEF RowInv

LEMMA WritesMove ==
    ASSUME RowInv, Writes
    PROVE  MovesOn /\ RowInv' /\ UNCHANGED resume
<1>1. UNCHANGED resume
  BY DEF Writes, StartSession, EndSession, StartTask, UpdateTask, RecordEvent, RecordMemory,
         Retire, Write
<1>2. MovesOn /\ RowInv'
  BY StartSessionMoves, EndSessionMoves, StartTaskMoves, UpdateTaskMoves, RecordEventMoves,
     RecordMemoryMoves, RetireMoves DEF Writes
<1> QED
  BY <1>1, <1>2

LEMMA InsertCheckpointMoves ==
    ASSUME RowInv, InsertCheckpoint
    PROVE  MovesOn /\ RowInv' /\ UNCHANGED resume
<1>1. RowTypes /\ hour < MaxHour /\ hour' = hour + 1 /\ UNCHANGED resume
  BY DEF InsertCheckpoint, Write, RowInv
<1>2. hour' \in Hours /\ hour' # 0
  BY <1>1, HourMoves
<1> DEFINE c == [at |-> hour', session |-> saver.session, task |-> saver.task,
                 decisions |-> saver.decisions]
<1>3. saver \in Saving /\ Scoped(saver.session, saver.task)
  BY DEF InsertCheckpoint, RowInv, RowsBelong, Quiet
<1>4. /\ c \in CheckpointRow /\ c.at = hour'
      /\ c.session = saver.session /\ c.task = saver.task
  BY <1>2, <1>3 DEF Saving, CheckpointRow
<1>5. saved' = saved \cup {c}
  BY DEF InsertCheckpoint
<1> HIDE DEF c
<1>6. RowTypes'
  BY <1>1, <1>2, <1>4, <1>5 DEF RowTypes, InsertCheckpoint
<1>7. MovesOn
  BY <1>1, <1>4, <1>5 DEF MovesOn, SessionsMove, WorksMove, NotesMove, SavedMove,
                          InsertCheckpoint
<1>8. UNCHANGED <<sessions, works>> /\ saver' = Quiet
  BY DEF InsertCheckpoint
<1>9. \A d \in saved' : Scoped(d.session, d.task)
  BY <1>3, <1>4, <1>5 DEF RowInv, RowsBelong
<1>10. RowsBelong'
  BY <1>8, <1>9 DEF RowInv, RowsBelong, Scoped, Begun, HomeOf
<1> QED
  BY <1>1, <1>6, <1>7, <1>10 DEF RowInv

LEMMA CheckCheckpointKeeps ==
    ASSUME RowInv, NEW s \in Sessions, NEW t \in SomeWork, NEW decisions \in SUBSET Notes,
           CheckCheckpoint(s, t, decisions)
    PROVE  RowInv' /\ UNCHANGED <<rowVars, resume>>
<1> DEFINE call == [step |-> "insert", session |-> s, task |-> t, decisions |-> decisions]
<1>1. call \in Saving /\ call.session = s /\ call.task = t
  BY DEF Saving
<1>2. Scoped(s, t)
  BY DEF CheckCheckpoint, ScopeHolds, Open, Scoped
<1>3. saver' = call /\ UNCHANGED <<rowVars, resume>>
  BY DEF CheckCheckpoint
<1> HIDE DEF call
<1>4. RowTypes'
  BY <1>3 DEF RowInv, RowTypes, rowVars
<1>5. RowsBelong'
  BY <1>1, <1>2, <1>3 DEF RowInv, RowsBelong, Scoped, Begun, HomeOf, rowVars
<1> QED
  BY <1>3, <1>4, <1>5 DEF RowInv

LEMMA RowInvUnchanged ==
    ASSUME RowInv, UNCHANGED <<rowVars, saver>>
    PROVE  RowInv'
BY DEF RowInv, RowTypes, RowsBelong, Scoped, Begun, HomeOf, rowVars

LEMMA RowInvInit == ResumeInit => RowInv
BY HoursAreNumbers, NobodyIsSomebody DEF ResumeInit, RowInv, RowTypes, RowsBelong, SessionRow, WorkRow, NoteRow,
   SomeSession, SomeWork, Hours, HomeOf

-----------------------------------------------------------------------------
(* What a resume_context has read, stated so that it stands *)

ResumeSteps == {"session", "ended", "task", "checkpoint", "taskless", "evidence", "list",
                "note", "source", "events", "answered"}
PastCheckpoint == {"evidence", "list", "note", "source", "events", "answered"}
PastEvidence == PastCheckpoint \ {"evidence"}
PastTask == PastCheckpoint \cup {"checkpoint", "taskless"}
PastSession == PastTask \cup {"task"}

Resuming ==
    [step : ResumeSteps, asked : [session : SomeSession, task : SomeWork], now : Hours,
     session : SomeSession, task : SomeWork, reads : 0 .. 4,
     checkpoint : CheckpointRow \cup {NoRecord}, evidence : SomeSession, window : SessionRow,
     notes : SUBSET Notes, looked : Notes \cup {None},
     cited : SUBSET [note : Notes, current : BOOLEAN], events : SUBSET EventRow]

\* No session or task of the request stands in for the one to look for.
FreeSession ==
    /\ resume.asked.session = None
    /\ resume.asked.task = None \/ HomeOf(resume.asked.task) = None

AskedStands ==
    /\ resume.asked.session # None => Begun(resume.asked.session)
    /\ resume.asked.task # None => works[resume.asked.task].status # "absent"
    /\ resume.asked.session # None /\ resume.asked.task # None =>
          HomeOf(resume.asked.task) = resume.asked.session

NobodyAtWork ==
    /\ FreeSession
    /\ \A o \in Sessions : Open(o) => ~Earlier(sessions[o].at)

SessionStands ==
    /\ resume.session # None => Begun(resume.session)
    /\ resume.asked.session # None => resume.session = resume.asked.session
    /\ FreeSession =>
          \A o \in Sessions : Open(o) /\ Earlier(sessions[o].at) =>
              /\ resume.session # None
              /\ ~Earlier(sessions[resume.session].end)
              /\ sessions[o].at <= sessions[resume.session].at

\* The first read of the session's active tasks has found none.
TaskSearched ==
    /\ resume.asked.task # None => resume.reads = 0
    /\ resume.reads <= Len(TaskReads)
    /\ resume.reads > 0 /\ resume.session # None =>
          \A o \in Works : works[o].status = "active" /\ HomeOf(o) = resume.session =>
              ~Earlier(works[o].at)

TaskStands ==
    /\ resume.asked.task # None => resume.task = resume.asked.task
    /\ resume.task # None =>
          /\ works[resume.task].status # "absent"
          /\ resume.asked.session # None => HomeOf(resume.task) = resume.asked.session
    /\ resume.asked.task = None =>
          /\ resume.task # None =>
                works[resume.task].status # "done" \/ ~Earlier(works[resume.task].at)
          /\ resume.session # None =>
                \A o \in Works :
                    works[o].status = "active" /\ Earlier(works[o].at)
                       /\ HomeOf(o) = resume.session =>
                    /\ resume.task # None /\ HomeOf(resume.task) = resume.session
                    /\ works[o].at <= works[resume.task].at

TaskUnsaved ==
    /\ resume.task # None /\ HomeOf(resume.task) # None
    /\ \A c \in saved : c.task = resume.task => ~Earlier(c.at)

CheckpointStands ==
    /\ resume.checkpoint # NoRecord =>
          /\ resume.checkpoint \in saved
          /\ resume.task # None =>
                /\ resume.checkpoint.task \in {resume.task, None}
                /\ HomeOf(resume.task) # None =>
                      resume.checkpoint.session = HomeOf(resume.task)
    /\ resume.task # None =>
          \A o \in saved : Earlier(o.at) /\ o.task = resume.task => o.at <= resume.checkpoint.at
    /\ resume.task = None /\ resume.session # None =>
          \A o \in saved :
              Earlier(o.at) /\ o.session = resume.session => o.at <= resume.checkpoint.at

EvidenceStands ==
    /\ resume.checkpoint # NoRecord => resume.evidence = resume.checkpoint.session
    /\ resume.task # None /\ HomeOf(resume.task) # None =>
          resume.evidence = HomeOf(resume.task)
    /\ resume.evidence # None =>
          Begun(resume.evidence) /\ resume.window.at = sessions[resume.evidence].at

StillTrue(n) == notes[n].state = "trusted" \/ ~Earlier(notes[n].at)

NotesStand ==
    /\ resume.step = "source" => resume.looked # None
    /\ resume.looked # None => StillTrue(resume.looked)
    /\ \A x \in resume.cited : StillTrue(x.note)

EventsStand ==
    \A e \in resume.events :
        /\ resume.evidence # None /\ Begun(resume.evidence)
        /\ e.session \in {None, resume.evidence}
        /\ e.at >= sessions[resume.evidence].at

Progress ==
    /\ resume \in Resuming /\ resume.now <= hour
    /\ resume.step # "task" => resume.reads = 0
    /\ resume.step # "answered" => resume.events = {}
    /\ AskedStands
    /\ resume.step = "ended" => NobodyAtWork
    /\ resume.step \in PastSession => SessionStands
    /\ resume.step = "task" => TaskSearched
    /\ resume.step \in PastTask => TaskStands
    /\ resume.step = "taskless" => TaskUnsaved
    /\ resume.step \in PastCheckpoint => CheckpointStands
    /\ resume.step \in PastEvidence => EvidenceStands
    /\ NotesStand
    /\ EventsStand

ResumeInv == RowInv /\ (resume = Quiet \/ Progress)

-----------------------------------------------------------------------------
(* ... while writers move on *)

\* What a write makes is not earlier than the request.
LEMMA NotEarlier ==
    ASSUME RowInv, MovesOn, resume' = resume, resume.now \in Hours, resume.now <= hour
    PROVE  /\ ~Earlier(hour') /\ ~Earlier(0)
           /\ \A at : Earlier(at)' <=> Earlier(at)
           /\ \A at \in Hours : Earlier(at) => at <= hour'
BY HoursAreNumbers DEF RowInv, RowTypes, MovesOn, Earlier, Hours

LEMMA ProgressMoves ==
    ASSUME RowInv, RowInv', MovesOn, UNCHANGED resume, Progress
    PROVE  Progress'
<1> DEFINE asked == resume.asked
           s == resume.session
           t == resume.task
           c == resume.checkpoint
           e == resume.evidence
<1>1. /\ resume \in Resuming /\ resume.now \in Hours /\ resume.now <= hour
      /\ asked.session \in SomeSession /\ asked.task \in SomeWork
      /\ s \in SomeSession /\ t \in SomeWork /\ e \in SomeSession
      /\ resume.looked \in Notes \cup {None}
      /\ \A x \in resume.cited : x.note \in Notes
  BY DEF Progress, Resuming
<1>2. /\ ~Earlier(hour') /\ ~Earlier(0)
      /\ \A at : Earlier(at)' <=> Earlier(at)
      /\ \A at \in Hours : Earlier(at) => at <= hour'
  BY <1>1, NotEarlier
<1>3. \A o \in Sessions :
         /\ Begun(o) => Begun(o)' /\ sessions'[o].at = sessions[o].at
         /\ Earlier(sessions[o].end)' <=> Earlier(sessions[o].end)
         /\ Open(o)' /\ Earlier(sessions[o].at)' =>
               Open(o) /\ Earlier(sessions[o].at) /\ sessions'[o].at = sessions[o].at
  <2>1. \A o \in Sessions : Begun(o) => Begun(o)' /\ sessions'[o].at = sessions[o].at
    BY NobodyIsSomebody DEF MovesOn, SessionsMove, Begun
  <2>2. \A o \in Sessions : ~Begun(o) => sessions[o].at = 0
    BY NobodyIsSomebody DEF Begun
  <2>3. \A o \in Sessions : Earlier(sessions[o].end)' <=> Earlier(sessions[o].end)
    BY <1>2 DEF MovesOn, SessionsMove, Open, Earlier
  <2>4. ASSUME NEW o \in Sessions, Open(o)', Earlier(sessions[o].at)'
        PROVE  Open(o) /\ Earlier(sessions[o].at) /\ sessions'[o].at = sessions[o].at
    <3>1. Begun(o)
      BY <1>2, <2>2, <2>4 DEF MovesOn, SessionsMove, Earlier
    <3>2. sessions[o].end = 0
      BY <2>4 DEF MovesOn, SessionsMove, Open
    <3> QED
      BY <1>2, <2>1, <2>4, <3>1, <3>2 DEF Open, Earlier
  <2> QED
    BY <2>1, <2>3, <2>4
<1>4. \A o \in Works :
         /\ works[o].status # "absent" =>
               works'[o].session = works[o].session /\ works'[o].status # "absent"
         /\ Earlier(works[o].at)' => works'[o] = works[o] /\ Earlier(works[o].at)
         /\ works'[o] = works[o] \/ works'[o].at = hour'
  BY <1>2 DEF MovesOn, WorksMove, Earlier
<1>5. \A n \in Notes : StillTrue(n) => StillTrue(n)'
  BY <1>2 DEF MovesOn, NotesMove, StillTrue, Earlier
<1>6. /\ saved \subseteq saved'
      /\ \A d \in saved' : Earlier(d.at)' => d \in saved /\ Earlier(d.at)
  BY <1>2 DEF MovesOn, SavedMove, Earlier
<1>7. resume'.now <= hour'
  <2>1. resume.now \in Nat /\ hour \in Nat /\ hour' = hour + 1 /\ resume'.now = resume.now
    BY <1>1, HoursAreNumbers DEF MovesOn, RowInv, RowTypes
  <2> QED
    BY <1>1, <2>1
<1>8. AskedStands'
  BY <1>1, <1>3, <1>4 DEF Progress, AskedStands, SomeSession, SomeWork, HomeOf
<1>9. FreeSession' => FreeSession
  BY <1>1, <1>4 DEF Progress, AskedStands, FreeSession, SomeWork, HomeOf
<1>9a. FreeSession => FreeSession'
  BY <1>1, <1>4 DEF Progress, AskedStands, FreeSession, SomeWork, HomeOf
<1>10. NobodyAtWork => NobodyAtWork'
  BY <1>3, <1>9a DEF NobodyAtWork
<1>11. SessionStands => SessionStands'
  <2> SUFFICES ASSUME SessionStands PROVE SessionStands'
    OBVIOUS
  <2>1. s # None => s \in Sessions /\ Begun(s)
    BY <1>1 DEF SessionStands, SomeSession
  <2> QED
    BY <1>3, <1>9, <2>1 DEF SessionStands
<1>12. TaskSearched => TaskSearched'
  BY <1>4 DEF TaskSearched, HomeOf, TaskReads
<1>13. TaskStands => TaskStands'
  <2> SUFFICES ASSUME TaskStands PROVE TaskStands'
    OBVIOUS
  <2>1. t # None => /\ t \in Works /\ works[t].status # "absent"
                    /\ works'[t].session = works[t].session /\ works'[t].status # "absent"
    BY <1>1, <1>4 DEF TaskStands, SomeWork
  <2>2. asked.task = None /\ t # None =>
           works'[t].status # "done" \/ ~(Earlier(works[t].at)')
    BY <1>4, <2>1 DEF TaskStands
  <2>3. ASSUME asked.task = None, s # None, NEW o \in Works,
               works'[o].status = "active", Earlier(works[o].at)', works'[o].session = s
        PROVE  t # None /\ works'[t].session = s /\ works'[o].at <= works'[t].at
    <3>1. works'[o] = works[o] /\ Earlier(works[o].at)
      BY <1>4, <2>3
    <3>2. t # None /\ works[t].session = s /\ works[o].at <= works[t].at
      BY <2>3, <3>1 DEF TaskStands, HomeOf
    <3>3. works[o].at \in Hours
      BY DEF RowInv, RowTypes, WorkRow
    <3>4. CASE works'[t] = works[t]
      BY <2>1, <3>1, <3>2, <3>4
    <3>5. CASE works'[t].at = hour'
      BY <1>2, <2>1, <3>1, <3>2, <3>3, <3>5
    <3> QED
      BY <1>4, <2>1, <3>2, <3>4, <3>5
  <2> QED
    BY <2>1, <2>2, <2>3 DEF TaskStands, HomeOf
<1>14. resume.step \in PastTask /\ t # None =>
          t \in Works /\ works[t].status # "absent" /\ works'[t].session = works[t].session
  BY <1>1, <1>4 DEF Progress, TaskStands, SomeWork
<1>15. resume.step \in PastTask /\ TaskUnsaved => TaskUnsaved'
  BY <1>6, <1>14 DEF TaskUnsaved, HomeOf
<1>16. resume.step \in PastTask /\ CheckpointStands => CheckpointStands'
  BY <1>6, <1>14 DEF CheckpointStands, HomeOf
<1>17. resume.step \in PastTask /\ EvidenceStands => EvidenceStands'
  <2>1. EvidenceStands /\ e # None => e \in Sessions /\ Begun(e)
    BY <1>1 DEF EvidenceStands, SomeSession
  <2> QED
    BY <1>3, <1>14, <2>1 DEF EvidenceStands, HomeOf
<1>18. NotesStand'
  BY <1>1, <1>5 DEF Progress, NotesStand
<1>19. EventsStand'
  BY <1>1, <1>3 DEF Progress, EventsStand, SomeSession
<1>20. PastCheckpoint \subseteq PastTask /\ PastEvidence \subseteq PastTask
  BY DEF PastEvidence, PastTask
<1>21. resume.step = "taskless" => resume.step \in PastTask
  BY DEF PastTask
<1> QED
  BY <1>1, <1>7, <1>8, <1>10, <1>11, <1>12, <1>13, <1>15, <1>16, <1>17, <1>18, <1>19, <1>20,
     <1>21 DEF Progress

-----------------------------------------------------------------------------
(* ... and while it reads on *)

LEMMA AskStep ==
    ASSUME RowInv, NEW s \in SomeSession, NEW t \in SomeWork, AskToResume(s, t)
    PROVE  Progress'
<1> DEFINE r == [step |-> "session", asked |-> [session |-> s, task |-> t], now |-> hour,
                 session |-> None, task |-> None, reads |-> 0, checkpoint |-> NoRecord,
                 evidence |-> None, window |-> [at |-> 0, end |-> 0],
                 notes |-> {}, looked |-> None, cited |-> {}, events |-> {}]
<1>1. resume' = r /\ UNCHANGED rowVars /\ Provenance(s, t)
  BY DEF AskToResume, Reading
<1>2. hour \in Hours /\ 0 \in Hours
  BY HoursAreNumbers DEF RowInv, RowTypes, Hours
<1>3. r \in Resuming
  BY <1>2 DEF Resuming, ResumeSteps, SomeSession, SomeWork, SessionRow
<1>4. /\ r.reads = 0 /\ r.step = "session" /\ r.asked.session = s /\ r.asked.task = t /\ r.now = hour
      /\ r.looked = None /\ r.cited = {} /\ r.events = {}
  OBVIOUS
<1> HIDE DEF r
<1>5. hour <= hour
  BY <1>2, HoursAreNumbers
<1>6. AskedStands'
  BY <1>1, <1>4 DEF AskedStands, Provenance, Begun, HomeOf, rowVars
<1>7. NotesStand' /\ EventsStand'
  BY <1>1, <1>4 DEF NotesStand, EventsStand
<1> QED
  BY <1>1, <1>3, <1>4, <1>5, <1>6, <1>7
  DEF Progress, PastSession, PastTask, PastCheckpoint, PastEvidence, rowVars

\* What the earlier reads have established does not depend on the later ones.
LEMMA ReadingKeeps ==
    ASSUME UNCHANGED rowVars, resume'.now = resume.now, resume'.asked = resume.asked
    PROVE  /\ AskedStands => AskedStands'
           /\ FreeSession' <=> FreeSession
           /\ resume'.session = resume.session /\ SessionStands => SessionStands'
           /\ /\ resume'.session = resume.session /\ resume'.task = resume.task
              /\ TaskStands
              => TaskStands'
           /\ /\ resume'.session = resume.session /\ resume'.task = resume.task
              /\ resume'.checkpoint = resume.checkpoint
              /\ CheckpointStands
              => CheckpointStands'
           /\ /\ resume'.task = resume.task /\ resume'.checkpoint = resume.checkpoint
              /\ resume'.evidence = resume.evidence /\ resume'.window = resume.window
              /\ EvidenceStands
              => EvidenceStands'
           /\ /\ resume'.looked = resume.looked /\ resume'.cited = resume.cited
              /\ resume'.step # "source"
              /\ NotesStand
              => NotesStand'
           /\ /\ resume'.evidence = resume.evidence /\ resume'.events = resume.events
              /\ EventsStand
              => EventsStand'
           /\ \A n : StillTrue(n)' <=> StillTrue(n)
           /\ resume.now <= hour => resume'.now <= hour'
BY DEF rowVars, AskedStands, FreeSession, SessionStands, TaskStands, CheckpointStands,
       EvidenceStands, NotesStand, EventsStand, StillTrue, Earlier, HomeOf, Begun, Open

LEMMA SelectSessionStep ==
    ASSUME ResumeInv, SelectSession
    PROVE  Progress'
<1> DEFINE asked == resume.asked
           rows == {s \in Sessions : Open(s)}
           time == [s \in Sessions |-> sessions[s].at]
           active == LatestOf(rows, time)
<1>1. /\ resume.step = "session" /\ UNCHANGED <<rowVars, saver>>
      /\ IF asked.session # None THEN TakeSession(asked.session)
         ELSE IF asked.task # None /\ HomeOf(asked.task) # None
           THEN TakeSession(HomeOf(asked.task))
         ELSE IF active # None THEN TakeSession(active)
         ELSE Proceed("ended")
  BY DEF SelectSession, Reading
<1>2. RowInv /\ Progress
  BY <1>1 DEF ResumeInv, Quiet
<1>3. /\ resume \in Resuming /\ resume.reads = 0 /\ resume.events = {} /\ AskedStands
      /\ NotesStand /\ EventsStand /\ resume.now <= hour
      /\ asked.session \in SomeSession /\ asked.task \in SomeWork
  BY <1>1, <1>2 DEF Progress, Resuming
<1>4. \A s \in Sessions : time[s] = sessions[s].at /\ sessions[s].at \in Hours
  BY <1>2 DEF RowInv, RowTypes, SessionRow
<1>5. /\ rows = {} => active = None
      /\ rows # {} => active \in rows /\ \A o \in rows : time[o] <= time[active]
  <2>1. \A s \in rows : time[s] \in Hours
    BY <1>4
  <2> QED
    BY <2>1, LatestIsLatest
<1> HIDE DEF active
<1>6. ASSUME NEW s \in SomeSession, TakeSession(s), s # None => Begun(s),
             asked.session # None => s = asked.session,
             FreeSession => \A o \in Sessions : Open(o) /\ Earlier(sessions[o].at) =>
                 s # None /\ ~Earlier(sessions[s].end) /\ sessions[o].at <= sessions[s].at
      PROVE  Progress'
  <2> DEFINE r == [resume EXCEPT !.session = s, !.step = "task"]
  <2>1. /\ r \in Resuming /\ r.session = s /\ r.step = "task" /\ r.now = resume.now
        /\ r.asked = asked /\ r.looked = resume.looked /\ r.cited = resume.cited
        /\ r.evidence = resume.evidence /\ r.events = {} /\ r.reads = 0
    BY <1>3 DEF Resuming, ResumeSteps
  <2>2. resume' = r
    BY <1>6 DEF TakeSession
  <2> HIDE DEF r
  <2>3. UNCHANGED rowVars /\ resume'.now = resume.now /\ resume'.asked = asked
    BY <1>1, <2>1, <2>2
  <2>4. AskedStands' /\ NotesStand' /\ EventsStand' /\ resume'.now <= hour'
        /\ (FreeSession' <=> FreeSession)
    BY <1>1, <1>3, <2>1, <2>2, <2>3, ReadingKeeps
  <2>5. SessionStands'
    BY <1>1, <1>6, <2>1, <2>2, <2>4 DEF SessionStands, rowVars, Begun, Open, Earlier
  <2>6. TaskSearched'
    BY <2>1, <2>2 DEF TaskSearched, TaskReads
  <2> QED
    BY <2>1, <2>2, <2>4, <2>5, <2>6
    DEF Progress, PastSession, PastTask, PastCheckpoint, PastEvidence
<1>7. CASE asked.session # None
  <2>1. TakeSession(asked.session) /\ Begun(asked.session) /\ ~FreeSession
    BY <1>1, <1>3, <1>7 DEF AskedStands, FreeSession
  <2> QED
    BY <1>3, <1>6, <2>1
<1>8. CASE asked.session = None /\ asked.task # None /\ HomeOf(asked.task) # None
  <2> DEFINE home == HomeOf(asked.task)
  <2>1. asked.task \in Works /\ home \in SomeSession
    BY <1>2, <1>3, <1>8 DEF SomeWork, RowInv, RowTypes, WorkRow, HomeOf
  <2>2. TakeSession(home) /\ Begun(home) /\ ~FreeSession
    BY <1>1, <1>2, <1>8, <2>1 DEF RowInv, RowsBelong, FreeSession
  <2> HIDE DEF home
  <2> QED
    BY <1>6, <1>8, <2>1, <2>2
<1>9. CASE /\ asked.session = None /\ ~(asked.task # None /\ HomeOf(asked.task) # None)
           /\ active # None
  <2>1. TakeSession(active) /\ active \in rows
    BY <1>1, <1>5, <1>9
  <2>2. active \in SomeSession /\ Begun(active) /\ sessions[active].end = 0
    BY <2>1 DEF Open, SomeSession
  <2>3. ~Earlier(0)
    BY <1>3, HoursAreNumbers DEF Earlier, Resuming, Hours
  <2>4. \A o \in Sessions : Open(o) => sessions[o].at <= sessions[active].at
    BY <1>4, <1>5, <2>1
  <2> QED
    BY <1>6, <1>9, <2>1, <2>2, <2>3, <2>4
<1>10. CASE /\ asked.session = None /\ ~(asked.task # None /\ HomeOf(asked.task) # None)
            /\ active = None
  <2>1. Proceed("ended") /\ FreeSession
    BY <1>1, <1>10 DEF FreeSession
  <2>2. rows = {}
    BY <1>5, <1>10, NobodyIsSomebody
  <2> DEFINE r == [resume EXCEPT !.step = "ended"]
  <2>3. /\ r \in Resuming /\ r.step = "ended" /\ r.now = resume.now
        /\ r.asked = asked /\ r.looked = resume.looked /\ r.cited = resume.cited
        /\ r.evidence = resume.evidence /\ r.events = {} /\ r.reads = 0
    BY <1>3 DEF Resuming, ResumeSteps
  <2>4. resume' = r
    BY <2>1 DEF Proceed
  <2> HIDE DEF r
  <2>5. AskedStands' /\ NotesStand' /\ EventsStand' /\ resume'.now <= hour'
        /\ (FreeSession' <=> FreeSession)
    BY <1>1, <1>3, <2>3, <2>4, ReadingKeeps
  <2>6. NobodyAtWork'
    BY <1>1, <2>1, <2>2, <2>5 DEF NobodyAtWork, rowVars, Open, Begun
  <2> QED
    BY <2>3, <2>4, <2>5, <2>6
    DEF Progress, PastSession, PastTask, PastCheckpoint, PastEvidence
<1> QED
  BY <1>7, <1>8, <1>9, <1>10

LEMMA SelectEndedSessionStep ==
    ASSUME ResumeInv, SelectEndedSession
    PROVE  Progress'
<1> DEFINE rows == {s \in Sessions : sessions[s].end # 0}
           time == [s \in Sessions |-> sessions[s].end]
           s == LatestOf(rows, time)
<1>1. resume.step = "ended" /\ UNCHANGED <<rowVars, saver>> /\ TakeSession(s)
  BY DEF SelectEndedSession, Reading
<1>2. RowInv /\ Progress
  BY <1>1 DEF ResumeInv, Quiet
<1>3. /\ resume \in Resuming /\ resume.reads = 0 /\ resume.events = {} /\ AskedStands
      /\ NotesStand /\ EventsStand /\ NobodyAtWork /\ resume.now <= hour
  BY <1>1, <1>2 DEF Progress
<1>4. s = None \/ s \in rows
  <2>1. \A o \in rows : time[o] \in Hours
    BY <1>2 DEF RowInv, RowTypes, SessionRow
  <2> QED
    BY <2>1, LatestIsLatest
<1>5. s \in SomeSession /\ (s # None => Begun(s))
  BY <1>2, <1>4 DEF RowInv, RowsBelong, SomeSession
<1> HIDE DEF s
<1> DEFINE r == [resume EXCEPT !.session = s, !.step = "task"]
<1>6. /\ r \in Resuming /\ r.session = s /\ r.step = "task" /\ r.now = resume.now
      /\ r.asked = resume.asked /\ r.looked = resume.looked /\ r.cited = resume.cited
      /\ r.evidence = resume.evidence /\ r.events = {} /\ r.reads = 0
  BY <1>3, <1>5 DEF Resuming, ResumeSteps
<1>7. resume' = r
  BY <1>1 DEF TakeSession
<1> HIDE DEF r
<1>8. AskedStands' /\ NotesStand' /\ EventsStand' /\ resume'.now <= hour'
  BY <1>1, <1>3, <1>6, <1>7, ReadingKeeps
<1>9. SessionStands'
  BY <1>1, <1>3, <1>5, <1>6, <1>7
  DEF SessionStands, NobodyAtWork, FreeSession, rowVars, Begun, Open, Earlier
<1>10. TaskSearched'
  BY <1>6, <1>7 DEF TaskSearched, TaskReads
<1> QED
  BY <1>6, <1>7, <1>8, <1>9, <1>10
  DEF Progress, PastSession, PastTask, PastCheckpoint, PastEvidence

LEMMA PairsInARow ==
    ASSUME NEW a, NEW b, NEW c, NEW d
    PROVE  <<a, b>> \o <<c, d>> = <<a, b, c, d>>
<1> DEFINE S == {a, b, c, d}
           p == <<a, b>>
           q == <<c, d>>
           all == <<a, b, c, d>>
<1>1. p \in Seq(S) /\ q \in Seq(S) /\ all \in Seq(S)
  OBVIOUS
<1>2. Len(p) = 2 /\ Len(q) = 2 /\ Len(all) = 4
  OBVIOUS
<1>3. p[1] = a /\ p[2] = b /\ q[1] = c /\ q[2] = d
  OBVIOUS
<1>4. all[1] = a /\ all[2] = b /\ all[3] = c /\ all[4] = d
  OBVIOUS
<1> HIDE DEF p, q, all, S
<1>5. /\ p \o q \in Seq(S) /\ Len(p \o q) = Len(p) + Len(q)
      /\ \A i \in 1 .. Len(p) + Len(q) :
            (p \o q)[i] = IF i <= Len(p) THEN p[i] ELSE q[i - Len(p)]
  BY <1>1, ConcatProperties
<1>6. Len(p \o q) = 4 /\ \A i \in 1 .. 4 : (p \o q)[i] = all[i]
  BY <1>2, <1>3, <1>4, <1>5
<1>7. p \o q = all
  BY <1>1, <1>2, <1>5, <1>6, SeqEqual
<1> QED
  BY <1>7 DEF p, q, all

\* The reads of a task: what each admits, with a session and without.
LEMMA TaskReadsAre ==
    /\ Len(TaskReads) \in 0 .. 4
    /\ resume.session # None => Len(TaskReads) # 0
    /\ resume.session # None => TaskReads[1] = [homes |-> {resume.session}, statuses |-> {"active"}]
    /\ \A i \in 1 .. Len(TaskReads) :
          /\ TaskReads[i].statuses \subseteq Incomplete
          /\ resume.asked.session # None => TaskReads[i].homes = {resume.session}
<1> DEFINE active(homes) == [homes |-> homes, statuses |-> {"active"}]
           open(homes) == [homes |-> homes, statuses |-> Incomplete]
           mine == {resume.session}
<1>0. {"active"} \subseteq Incomplete
  BY DEF Incomplete
<1>1. CASE resume.session # None /\ resume.asked.session = None
  <2> DEFINE a == active(mine) b == open(mine) c == active(SomeSession) d == open(SomeSession)
  <2>0. TaskReads = <<a, b>> \o <<c, d>>
    BY <1>1 DEF TaskReads
  <2> HIDE DEF a, b, c, d
  <2>1a. TaskReads = <<a, b, c, d>>
    BY <2>0, PairsInARow
  <2>1. TaskReads = <<active(mine), open(mine), active(SomeSession), open(SomeSession)>>
    BY <2>1a DEF a, b, c, d
  <2> HIDE DEF TaskReads
  <2> QED
    BY <1>0, <1>1, <2>1
<1>2. CASE resume.session # None /\ resume.asked.session # None
  <2>1. TaskReads = <<active(mine), open(mine)>>
    BY <1>2 DEF TaskReads
  <2> QED
    BY <1>0, <1>2, <2>1
<1>3. CASE resume.session = None /\ resume.asked.session = None
  <2>1. TaskReads = <<active(SomeSession), open(SomeSession)>>
    BY <1>3 DEF TaskReads
  <2> QED
    BY <1>0, <1>3, <2>1
<1>4. CASE resume.session = None /\ resume.asked.session # None
  <2>1. TaskReads = <<>>
    BY <1>4 DEF TaskReads
  <2> QED
    BY <1>4, <2>1
<1> QED
  BY <1>1, <1>2, <1>3, <1>4

LEMMA LatestTaskIs ==
    ASSUME RowTypes, NEW read
    PROVE  LET t == LatestTask(read)
               rows == {o \in Works : works[o].status \in read.statuses
                                        /\ HomeOf(o) \in read.homes}
           IN  /\ rows = {} => t = None
               /\ rows # {} => t \in rows /\ \A o \in rows : works[o].at <= works[t].at
<1> DEFINE rows == {o \in Works : works[o].status \in read.statuses /\ HomeOf(o) \in read.homes}
           time == [o \in Works |-> works[o].at]
<1>1. \A o \in rows : time[o] \in Hours /\ time[o] = works[o].at
  BY DEF RowTypes, WorkRow
<1>2. /\ rows = {} => LatestOf(rows, time) = None
      /\ rows # {} => /\ LatestOf(rows, time) \in rows
                      /\ \A o \in rows : time[o] <= time[LatestOf(rows, time)]
  BY <1>1, LatestIsLatest
<1> QED
  BY <1>1, <1>2 DEF LatestTask

LEMMA SelectTaskStep ==
    ASSUME ResumeInv, SelectTask
    PROVE  Progress'
<1> DEFINE asked == resume.asked
           read == TaskReads[resume.reads + 1]
           found == LatestTask(read)
<1>1. /\ resume.step = "task" /\ UNCHANGED <<rowVars, saver>>
      /\ IF asked.task # None THEN TakeTask(asked.task)
         ELSE IF resume.reads = Len(TaskReads) THEN TakeTask(None)
         ELSE IF found # None THEN TakeTask(found)
                              ELSE resume' = [resume EXCEPT !.reads = @ + 1]
  BY DEF SelectTask, Reading
<1>2. RowInv /\ Progress
  BY <1>1 DEF ResumeInv, Quiet
<1>3. /\ resume \in Resuming /\ resume.events = {} /\ AskedStands /\ SessionStands
      /\ TaskSearched /\ NotesStand /\ EventsStand /\ resume.now <= hour
      /\ asked.session \in SomeSession /\ asked.task \in SomeWork
      /\ resume.session \in SomeSession /\ resume.reads \in Nat
  BY <1>1, <1>2 DEF Progress, PastSession, Resuming
<1>4. ASSUME NEW t \in SomeWork, TakeTask(t),
             asked.task # None => t = asked.task,
             t # None => works[t].status # "absent",
             t # None /\ asked.session # None => HomeOf(t) = asked.session,
             asked.task = None /\ t # None => works[t].status # "done",
             asked.task = None /\ resume.session # None =>
                \A o \in Works :
                    works[o].status = "active" /\ Earlier(works[o].at)
                       /\ HomeOf(o) = resume.session =>
                    t # None /\ HomeOf(t) = resume.session /\ works[o].at <= works[t].at
      PROVE  Progress'
  <2> DEFINE r == [resume EXCEPT !.task = t, !.reads = 0, !.step = "checkpoint"]
  <2>0. r \in Resuming
    <3>1. resume \in Resuming /\ "checkpoint" \in ResumeSteps /\ 0 \in 0 .. 4
      BY <1>3 DEF ResumeSteps
    <3> QED
      BY <3>1 DEF Resuming
  <2>1. /\ r \in Resuming /\ r.task = t /\ r.step = "checkpoint" /\ r.now = resume.now
        /\ r.asked = asked /\ r.looked = resume.looked /\ r.cited = resume.cited
        /\ r.session = resume.session
        /\ r.evidence = resume.evidence /\ r.events = {} /\ r.reads = 0
    BY <1>3, <2>0 DEF Resuming
  <2>2. resume' = r
    BY <1>4 DEF TakeTask
  <2> HIDE DEF r
  <2>3. AskedStands' /\ NotesStand' /\ EventsStand' /\ resume'.now <= hour' /\ SessionStands'
    BY <1>1, <1>3, <2>1, <2>2, ReadingKeeps
  <2>4. TaskStands'
    BY <1>1, <1>4, <2>1, <2>2 DEF TaskStands, rowVars, HomeOf, Earlier
  <2> QED
    BY <2>1, <2>2, <2>3, <2>4
    DEF Progress, PastSession, PastTask, PastCheckpoint, PastEvidence
<1>5. CASE asked.task # None
  BY <1>1, <1>3, <1>4, <1>5 DEF AskedStands
<1>6. resume.reads # 0 /\ asked.task = None /\ resume.session # None =>
         \A o \in Works : works[o].status = "active" /\ HomeOf(o) = resume.session =>
             ~Earlier(works[o].at)
  BY <1>3 DEF TaskSearched
<1>7. CASE asked.task = None /\ resume.reads = Len(TaskReads)
  <2>1. resume.session # None => resume.reads # 0
    BY <1>7, TaskReadsAre
  <2> QED
    BY <1>1, <1>4, <1>6, <1>7, <2>1 DEF SomeWork
<1>8. CASE asked.task = None /\ resume.reads # Len(TaskReads)
  <2> DEFINE n == Len(TaskReads)
  <2>0. n \in 0 .. 4 /\ resume.reads # n /\ resume.reads \in Nat /\ resume.reads <= n
    BY <1>3, <1>8, TaskReadsAre DEF TaskSearched
  <2> HIDE DEF n
  <2>1a. resume.reads + 1 \in 1 .. n /\ resume.reads + 1 \in 0 .. 4
    BY <2>0
  <2>1. resume.reads + 1 \in 1 .. Len(TaskReads) /\ resume.reads + 1 \in 0 .. 4
    BY <2>1a DEF n
  <2>2. /\ read.statuses \subseteq Incomplete
        /\ asked.session # None => read.homes = {resume.session}
    BY <2>1, TaskReadsAre
  <2>3. resume.reads = 0 /\ resume.session # None =>
           read.statuses = {"active"} /\ read.homes = {resume.session}
    BY <2>1, TaskReadsAre
  <2> DEFINE rows == {o \in Works : works[o].status \in read.statuses
                                      /\ HomeOf(o) \in read.homes}
  <2>4. /\ rows = {} => found = None
        /\ rows # {} => found \in rows /\ \A o \in rows : works[o].at <= works[found].at
    BY <1>2, LatestTaskIs DEF RowInv
  <2> HIDE DEF found, read
  <2>5. resume.reads = 0 /\ resume.session # None =>
           rows = {o \in Works : works[o].status = "active" /\ HomeOf(o) = resume.session}
    BY <2>3
  <2>6. CASE found # None
    <3>1. TakeTask(found) /\ found \in rows /\ \A o \in rows : works[o].at <= works[found].at
      BY <1>1, <1>8, <2>4, <2>6 DEF read, found
    <3>2. found \in SomeWork /\ works[found].status \in Incomplete
      BY <2>2, <3>1 DEF SomeWork
    <3>3. asked.session # None => HomeOf(found) = asked.session
      BY <1>3, <2>2, <3>1 DEF SessionStands
    <3>4. resume.session # None =>
             \A o \in Works :
                 works[o].status = "active" /\ Earlier(works[o].at)
                    /\ HomeOf(o) = resume.session =>
                 HomeOf(found) = resume.session /\ works[o].at <= works[found].at
      BY <1>6, <1>8, <2>5, <3>1
    <3> QED
      BY <1>4, <1>8, <2>6, <3>1, <3>2, <3>3, <3>4 DEF Incomplete
  <2>7. CASE found = None
    <3>1. rows = {} /\ resume' = [resume EXCEPT !.reads = @ + 1]
      BY <1>1, <1>8, <2>4, <2>7, NobodyIsSomebody DEF read, found
    <3> DEFINE r == [resume EXCEPT !.reads = @ + 1]
    <3>2. /\ r \in Resuming /\ r.reads = resume.reads + 1 /\ r.step = "task"
          /\ r.now = resume.now /\ r.asked = asked /\ r.looked = resume.looked
          /\ r.cited = resume.cited /\ r.session = resume.session
          /\ r.evidence = resume.evidence /\ r.events = {}
      BY <1>1, <1>3, <2>1 DEF Resuming, ResumeSteps
    <3>3. resume' = r
      BY <3>1
    <3> HIDE DEF r
    <3>4. AskedStands' /\ NotesStand' /\ EventsStand' /\ resume'.now <= hour' /\ SessionStands'
      BY <1>1, <1>3, <3>2, <3>3, ReadingKeeps
    <3>5. \A o \in Works : works[o].status = "active" /\ HomeOf(o) = resume.session
                              /\ resume.session # None => ~Earlier(works[o].at)
      BY <1>6, <1>8, <2>5, <3>1
    <3>6. TaskReads' = TaskReads
      BY <3>2, <3>3 DEF TaskReads
    <3>7. TaskSearched'
      BY <1>1, <1>8, <2>1, <3>2, <3>3, <3>5, <3>6 DEF TaskSearched, rowVars, HomeOf, Earlier
    <3> QED
      BY <3>2, <3>3, <3>4, <3>7
      DEF Progress, PastSession, PastTask, PastCheckpoint, PastEvidence
  <2> QED
    BY <2>6, <2>7
<1> QED
  BY <1>5, <1>7, <1>8

LEMMA NoRecordIsNone == \A c \in CheckpointRow : c # NoRecord
<1>1. ASSUME NEW c \in CheckpointRow PROVE c # NoRecord
  <2>1. "session" \in DOMAIN c
    BY DEF CheckpointRow
  <2>2. "session" \notin DOMAIN NoRecord
    BY DEF NoRecord
  <2> QED
    BY <2>1, <2>2
<1> QED
  BY <1>1

\* The newest of some checkpoints.
LEMMA NewestSaved ==
    ASSUME RowInv, NEW records, records \subseteq saved
    PROVE  /\ Newest(records) \in CheckpointRow \cup {NoRecord}
           /\ Newest(records) = NoRecord => records = {}
           /\ Newest(records) # NoRecord => Newest(records) \in records
           /\ \A o \in records : o.at <= Newest(records).at
<1>1. \A r \in records : r \in CheckpointRow /\ r.at \in Hours
  BY DEF RowInv, RowTypes, CheckpointRow
<1>2. /\ records = {} => Newest(records) = NoRecord
      /\ records # {} => /\ Newest(records) \in records
                         /\ \A o \in records : o.at <= Newest(records).at
  BY <1>1, NewestIsNewest
<1> QED
  BY <1>1, <1>2, NoRecordIsNone

\* A checkpoint is of its session, and of one of its tasks or none.
LEMMA SavedBelongs ==
    ASSUME RowInv, NEW c \in saved
    PROVE  /\ c.session \in Sessions /\ Begun(c.session)
           /\ c.task # None => HomeOf(c.task) = c.session
BY DEF RowInv, RowTypes, RowsBelong, CheckpointRow, Scoped

\* A checkpoint is taken when it stands.
LEMMA TakeCheckpointStep ==
    ASSUME ResumeInv, resume.step \in {"checkpoint", "taskless"}, UNCHANGED rowVars,
           NEW c \in CheckpointRow \cup {NoRecord}, TakeCheckpoint(c),
           c # NoRecord =>
               /\ c \in saved
               /\ resume.task # None =>
                     /\ c.task \in {resume.task, None}
                     /\ HomeOf(resume.task) # None => c.session = HomeOf(resume.task),
           resume.task # None =>
               \A o \in saved : Earlier(o.at) /\ o.task = resume.task => o.at <= c.at,
           resume.task = None /\ resume.session # None =>
               \A o \in saved : Earlier(o.at) /\ o.session = resume.session => o.at <= c.at
    PROVE  Progress'
<1>1. Progress /\ resume.step \in PastTask
  BY DEF ResumeInv, Quiet, PastTask
<1>2. /\ resume \in Resuming /\ resume.reads = 0 /\ resume.events = {} /\ AskedStands
      /\ SessionStands /\ TaskStands /\ NotesStand /\ EventsStand /\ resume.now <= hour
  BY <1>1 DEF Progress, PastSession, PastTask, PastCheckpoint
<1> DEFINE r == [resume EXCEPT !.checkpoint = c, !.step = "evidence"]
<1>3. r \in Resuming
  BY <1>2 DEF Resuming, ResumeSteps
<1>4. /\ r.checkpoint = c /\ r.step = "evidence" /\ r.now = resume.now
      /\ r.asked = resume.asked /\ r.looked = resume.looked /\ r.cited = resume.cited
      /\ r.session = resume.session /\ r.task = resume.task
      /\ r.evidence = resume.evidence /\ r.events = {} /\ r.reads = 0
  BY <1>2, <1>3 DEF Resuming
<1>5. resume' = r
  BY DEF TakeCheckpoint
<1> HIDE DEF r
<1>6. /\ AskedStands' /\ NotesStand' /\ EventsStand' /\ resume'.now <= hour'
      /\ SessionStands' /\ TaskStands'
  BY <1>2, <1>4, <1>5, ReadingKeeps
<1>7. CheckpointStands'
  BY <1>4, <1>5 DEF CheckpointStands, rowVars, HomeOf, Earlier
<1> QED
  BY <1>3, <1>4, <1>5, <1>6, <1>7 DEF Progress, PastSession, PastTask, PastCheckpoint, PastEvidence

LEMMA SelectCheckpointStep ==
    ASSUME ResumeInv, SelectCheckpoint
    PROVE  Progress'
<1> DEFINE t == resume.task
           taskRows == {c \in saved : c.task = t}
           anyRows == {c \in saved : resume.session \in {None, c.session}}
           ofTask == Newest(taskRows)
           any == Newest(anyRows)
<1>1. /\ resume.step = "checkpoint" /\ UNCHANGED <<rowVars, saver>>
      /\ IF t = None THEN TakeCheckpoint(any)
         ELSE IF ofTask = NoRecord /\ HomeOf(t) # None THEN Proceed("taskless")
         ELSE TakeCheckpoint(ofTask)
  BY DEF SelectCheckpoint, Reading
<1>2. RowInv /\ Progress
  BY <1>1 DEF ResumeInv, Quiet
<1>3. /\ any \in CheckpointRow \cup {NoRecord}
      /\ any # NoRecord => any \in anyRows
      /\ \A o \in anyRows : o.at <= any.at
  BY <1>2, NewestSaved
<1>4. /\ ofTask \in CheckpointRow \cup {NoRecord}
      /\ ofTask = NoRecord => taskRows = {}
      /\ ofTask # NoRecord => ofTask \in taskRows
      /\ \A o \in taskRows : o.at <= ofTask.at
  BY <1>2, NewestSaved
<1> HIDE DEF any, ofTask
<1>5. CASE t = None
  <2>1. TakeCheckpoint(any) /\ resume.step \in {"checkpoint", "taskless"}
    BY <1>1, <1>5
  <2>2. resume.session # None => \A o \in saved : o.session = resume.session => o.at <= any.at
    BY <1>3
  <2> QED
    BY <1>1, <1>3, <1>5, <2>1, <2>2, TakeCheckpointStep
<1>6. CASE t # None /\ ofTask = NoRecord /\ HomeOf(t) # None
  <2>1. /\ resume \in Resuming /\ resume.reads = 0 /\ resume.events = {} /\ AskedStands
        /\ SessionStands /\ TaskStands /\ NotesStand /\ EventsStand /\ resume.now <= hour
    BY <1>1, <1>2 DEF Progress, PastSession, PastTask
  <2> DEFINE r == [resume EXCEPT !.step = "taskless"]
  <2>2. r \in Resuming
    BY <2>1 DEF Resuming, ResumeSteps
  <2>3. /\ r.step = "taskless" /\ r.now = resume.now
        /\ r.asked = resume.asked /\ r.looked = resume.looked /\ r.cited = resume.cited
        /\ r.session = resume.session /\ r.task = resume.task
        /\ r.evidence = resume.evidence /\ r.events = {} /\ r.reads = 0
    BY <2>1, <2>2 DEF Resuming
  <2>4. resume' = r
    BY <1>1, <1>6 DEF Proceed
  <2> HIDE DEF r
  <2>5. /\ AskedStands' /\ NotesStand' /\ EventsStand' /\ resume'.now <= hour'
        /\ SessionStands' /\ TaskStands'
    BY <1>1, <2>1, <2>3, <2>4, ReadingKeeps
  <2>6. TaskUnsaved'
    BY <1>1, <1>4, <1>6, <2>3, <2>4 DEF TaskUnsaved, rowVars, HomeOf
  <2> QED
    BY <2>2, <2>3, <2>4, <2>5, <2>6
    DEF Progress, PastSession, PastTask, PastCheckpoint, PastEvidence
<1>7. CASE t # None /\ ~(ofTask = NoRecord /\ HomeOf(t) # None)
  <2>1. TakeCheckpoint(ofTask) /\ resume.step \in {"checkpoint", "taskless"}
    BY <1>1, <1>7
  <2>2. ofTask # NoRecord => /\ ofTask \in saved /\ ofTask.task = t
                             /\ HomeOf(t) = ofTask.session
    BY <1>2, <1>4, <1>7, SavedBelongs
  <2> QED
    BY <1>1, <1>4, <1>7, <2>1, <2>2, TakeCheckpointStep
<1> QED
  BY <1>5, <1>6, <1>7

LEMMA SelectTasklessStep ==
    ASSUME ResumeInv, SelectTaskless
    PROVE  Progress'
<1> DEFINE s == HomeOf(resume.task)
           rows == {c \in saved : c.session = s /\ c.task = None}
           found == Newest(rows)
<1>1. resume.step = "taskless" /\ UNCHANGED <<rowVars, saver>> /\ TakeCheckpoint(found)
  BY DEF SelectTaskless, Reading, LatestTaskless
<1>2. RowInv /\ Progress /\ TaskUnsaved
  BY <1>1 DEF ResumeInv, Quiet, Progress
<1>3. found \in CheckpointRow \cup {NoRecord} /\ (found # NoRecord => found \in rows)
  BY <1>2, NewestSaved
<1> HIDE DEF found
<1> QED
  BY <1>1, <1>2, <1>3, TakeCheckpointStep DEF TaskUnsaved

LEMMA SelectEvidenceStep ==
    ASSUME ResumeInv, SelectEvidence
    PROVE  Progress'
<1> DEFINE t == resume.task
           c == resume.checkpoint
           home == IF t = None THEN None ELSE HomeOf(t)
           s == IF c # NoRecord THEN c.session ELSE IF home # None THEN home ELSE resume.session
           window == IF s = None THEN resume.window ELSE sessions[s]
           r == [resume EXCEPT !.step = "list", !.evidence = s, !.window = window]
<1>1. resume.step = "evidence" /\ UNCHANGED <<rowVars, saver>> /\ resume' = r
  BY DEF SelectEvidence, Reading
<1>2. RowInv /\ Progress
  BY <1>1 DEF ResumeInv, Quiet
<1>3. /\ resume \in Resuming /\ resume.reads = 0 /\ resume.events = {} /\ AskedStands
      /\ SessionStands /\ TaskStands /\ NotesStand /\ EventsStand /\ CheckpointStands
      /\ resume.now <= hour
      /\ t \in SomeWork /\ resume.session \in SomeSession /\ resume.window \in SessionRow
  BY <1>1, <1>2 DEF Progress, PastSession, PastTask, PastCheckpoint, Resuming
<1>4. /\ home \in SomeSession /\ (home # None => Begun(home))
      /\ c # NoRecord => c \in saved /\ c.session \in Sessions /\ Begun(c.session)
      /\ c # NoRecord /\ home # None => c.session = home
  <2>1. home \in SomeSession /\ (home # None => Begun(home))
    BY <1>2, <1>3 DEF RowInv, RowTypes, RowsBelong, SomeWork, WorkRow, HomeOf, SomeSession
  <2>2. c # NoRecord => c \in saved /\ c.session \in Sessions /\ Begun(c.session)
    BY <1>2, <1>3, SavedBelongs DEF CheckpointStands
  <2> QED
    BY <1>3, <2>1, <2>2 DEF CheckpointStands
<1>5. /\ s \in SomeSession /\ (s # None => Begun(s))
      /\ c # NoRecord => s = c.session
      /\ home # None => s = home
  BY <1>3, <1>4 DEF SessionStands, SomeSession
<1>6. t # None => home = HomeOf(t)
  OBVIOUS
<1> HIDE DEF s, home
<1>7. window \in SessionRow /\ (s # None => window.at = sessions[s].at)
  BY <1>2, <1>3, <1>5 DEF RowInv, RowTypes, SomeSession
<1> HIDE DEF window
<1>8. r \in Resuming
  <2>1. resume \in Resuming /\ "list" \in ResumeSteps
    BY <1>3 DEF ResumeSteps
  <2> QED
    BY <2>1, <1>5, <1>7 DEF Resuming
<1>9. /\ r.step = "list" /\ r.evidence = s /\ r.window = window /\ r.now = resume.now
      /\ r.asked = resume.asked /\ r.looked = resume.looked /\ r.cited = resume.cited
      /\ r.session = resume.session /\ r.task = resume.task /\ r.checkpoint = resume.checkpoint
      /\ r.events = {} /\ r.reads = 0
  BY <1>3, <1>8 DEF Resuming
<1> HIDE DEF r
<1>10. /\ AskedStands' /\ NotesStand' /\ resume'.now <= hour'
       /\ SessionStands' /\ TaskStands' /\ CheckpointStands'
  BY <1>1, <1>3, <1>9, ReadingKeeps
<1>11. EvidenceStands'
  BY <1>1, <1>5, <1>6, <1>7, <1>9 DEF EvidenceStands, rowVars, HomeOf, Begun
<1>12. EventsStand'
  BY <1>1, <1>9 DEF EventsStand
<1> QED
  BY <1>1, <1>8, <1>9, <1>10, <1>11, <1>12
  DEF Progress, PastSession, PastTask, PastCheckpoint, PastEvidence

\* With the evidence chosen only notes and events are added.
LEMMA LaterStep ==
    ASSUME ResumeInv, resume.step \in PastEvidence, UNCHANGED rowVars,
           NEW r \in Resuming, resume' = r, r.step \in PastEvidence,
           r.now = resume.now, r.asked = resume.asked, r.session = resume.session,
           r.task = resume.task, r.checkpoint = resume.checkpoint,
           r.evidence = resume.evidence, r.window = resume.window, r.reads = resume.reads,
           r.step # "answered" => r.events = {},
           NotesStand', EventsStand'
    PROVE  Progress'
<1>1. Progress /\ resume.step # "task"
  BY DEF ResumeInv, Quiet, PastEvidence, PastCheckpoint
<1>2. /\ resume.reads = 0 /\ AskedStands /\ SessionStands /\ TaskStands /\ CheckpointStands
      /\ EvidenceStands /\ resume.now <= hour
  BY <1>1 DEF Progress, PastSession, PastTask, PastEvidence
<1>3. /\ AskedStands' /\ SessionStands' /\ TaskStands' /\ CheckpointStands' /\ EvidenceStands'
      /\ resume'.now <= hour'
  BY <1>2, ReadingKeeps
<1>4. r.step \notin {"session", "ended", "task", "taskless"}
  BY DEF PastEvidence, PastCheckpoint
<1> QED
  BY <1>2, <1>3, <1>4 DEF Progress

LEMMA ListNotesStep ==
    ASSUME ResumeInv, ListNotes
    PROVE  Progress'
<1> DEFINE inScope(n) == IF resume.task # None THEN notes[n].task = resume.task
                         ELSE resume.evidence # None /\ notes[n].session = resume.evidence
           named == IF resume.checkpoint = NoRecord THEN {} ELSE resume.checkpoint.decisions
           listed == named \cup {n \in Notes : notes[n].state = "trusted" /\ inScope(n)}
           r == [resume EXCEPT !.step = "note", !.notes = listed]
<1>1. resume.step = "list" /\ UNCHANGED <<rowVars, saver>> /\ resume' = r
  BY DEF ListNotes, Reading
<1>2. /\ resume \in Resuming /\ NotesStand /\ EventsStand /\ resume.events = {}
      /\ resume.step \in PastEvidence /\ "note" \in PastEvidence
  BY <1>1 DEF ResumeInv, Quiet, Progress, PastEvidence, PastCheckpoint
<1>3. listed \subseteq Notes
  BY <1>2 DEF Resuming, CheckpointRow
<1> HIDE DEF listed
<1>4. r \in Resuming
  <2>1. resume \in Resuming /\ "note" \in ResumeSteps
    BY <1>2 DEF ResumeSteps
  <2> QED
    BY <2>1, <1>3 DEF Resuming
<1>5. /\ r.step = "note" /\ r.now = resume.now /\ r.asked = resume.asked
      /\ r.looked = resume.looked /\ r.cited = resume.cited /\ r.session = resume.session
      /\ r.task = resume.task /\ r.checkpoint = resume.checkpoint /\ r.window = resume.window
      /\ r.evidence = resume.evidence /\ r.reads = resume.reads /\ r.events = {}
  BY <1>2, <1>4 DEF Resuming
<1> HIDE DEF r
<1>6. NotesStand' /\ EventsStand'
  BY <1>1, <1>2, <1>5, ReadingKeeps
<1> QED
  BY <1>1, <1>2, <1>4, <1>5, <1>6, LaterStep

LEMMA LookAtNoteStep ==
    ASSUME ResumeInv, NEW n \in Notes, LookAtNote(n)
    PROVE  Progress'
<1> DEFINE trusted == notes[n].state = "trusted"
           looked == IF trusted THEN n ELSE None
           step == IF trusted THEN "source" ELSE "note"
           r == [resume EXCEPT !.notes = @ \ {n}, !.looked = looked, !.step = step]
<1>1. resume.step = "note" /\ UNCHANGED <<rowVars, saver>> /\ resume' = r
  BY DEF LookAtNote, Reading
<1>2. /\ resume \in Resuming /\ NotesStand /\ EventsStand /\ resume.events = {}
      /\ resume.step \in PastEvidence /\ {"note", "source"} \subseteq PastEvidence
  BY <1>1 DEF ResumeInv, Quiet, Progress, PastEvidence, PastCheckpoint
<1>3. /\ looked \in Notes \cup {None} /\ step \in {"note", "source"}
      /\ looked # None => StillTrue(looked)
      /\ step = "source" => looked # None
  BY NobodyIsSomebody DEF StillTrue
<1> HIDE DEF looked, step
<1>4. r \in Resuming
  <2>1. resume \in Resuming /\ step \in ResumeSteps
    BY <1>2, <1>3 DEF ResumeSteps
  <2> QED
    BY <2>1, <1>3 DEF Resuming
<1>5. /\ r.step = step /\ r.now = resume.now /\ r.asked = resume.asked
      /\ r.looked = looked /\ r.cited = resume.cited /\ r.session = resume.session
      /\ r.task = resume.task /\ r.checkpoint = resume.checkpoint /\ r.window = resume.window
      /\ r.evidence = resume.evidence /\ r.reads = resume.reads /\ r.events = resume.events
  BY <1>2, <1>4 DEF Resuming
<1> HIDE DEF r
<1>6. EventsStand' /\ \A x : StillTrue(x)' <=> StillTrue(x)
  BY <1>1, <1>2, <1>5, ReadingKeeps
<1>7. NotesStand'
  BY <1>1, <1>2, <1>3, <1>5, <1>6 DEF NotesStand
<1>8. r.step \in PastEvidence /\ r.events = {}
  BY <1>2, <1>3, <1>5
<1> QED
  BY <1>1, <1>2, <1>4, <1>5, <1>6, <1>7, <1>8, LaterStep

LEMMA CiteNoteStep ==
    ASSUME ResumeInv, CiteNote
    PROVE  Progress'
<1> DEFINE n == resume.looked
           cite == [note |-> n, current |-> notes[n].state = "trusted"]
           cited == IF notes[n].state = "withdrawn" THEN resume.cited ELSE resume.cited \cup {cite}
           r == [resume EXCEPT !.step = "note", !.looked = None, !.cited = cited]
<1>1. resume.step = "source" /\ UNCHANGED <<rowVars, saver>> /\ resume' = r
  BY DEF CiteNote, Reading
<1>2. /\ resume \in Resuming /\ NotesStand /\ EventsStand /\ resume.events = {}
      /\ resume.step \in PastEvidence /\ "note" \in PastEvidence
  BY <1>1 DEF ResumeInv, Quiet, Progress, PastEvidence, PastCheckpoint
<1>3. n \in Notes /\ StillTrue(n)
  BY <1>1, <1>2 DEF NotesStand, Resuming
<1>4. /\ cited \subseteq [note : Notes, current : BOOLEAN]
      /\ \A x \in cited : StillTrue(x.note)
  <2>1. cite \in [note : Notes, current : BOOLEAN] /\ cite.note = n
    BY <1>3
  <2> HIDE DEF cite
  <2> QED
    BY <1>2, <1>3, <2>1 DEF NotesStand, Resuming
<1> HIDE DEF cited
<1>5. r \in Resuming
  <2>1. resume \in Resuming /\ "note" \in ResumeSteps
    BY <1>2 DEF ResumeSteps
  <2> QED
    BY <2>1, <1>4 DEF Resuming
<1>6. /\ r.step = "note" /\ r.now = resume.now /\ r.asked = resume.asked
      /\ r.looked = None /\ r.cited = cited /\ r.session = resume.session
      /\ r.task = resume.task /\ r.checkpoint = resume.checkpoint /\ r.window = resume.window
      /\ r.evidence = resume.evidence /\ r.reads = resume.reads /\ r.events = resume.events
  BY <1>2, <1>5 DEF Resuming
<1> HIDE DEF r
<1>7. EventsStand' /\ \A x : StillTrue(x)' <=> StillTrue(x)
  BY <1>1, <1>2, <1>6, ReadingKeeps
<1>8. NotesStand'
  BY <1>1, <1>4, <1>6, <1>7 DEF NotesStand
<1> QED
  BY <1>1, <1>2, <1>5, <1>6, <1>7, <1>8, LaterStep

LEMMA NotesReadStep ==
    ASSUME ResumeInv, NotesRead
    PROVE  Progress'
<1> DEFINE r == [resume EXCEPT !.step = "events"]
<1>1. resume.step = "note" /\ UNCHANGED <<rowVars, saver>> /\ resume' = r
  BY DEF NotesRead, Reading, Proceed
<1>2. /\ resume \in Resuming /\ NotesStand /\ EventsStand /\ resume.events = {}
      /\ resume.step \in PastEvidence /\ "events" \in PastEvidence
  BY <1>1 DEF ResumeInv, Quiet, Progress, PastEvidence, PastCheckpoint
<1>3. r \in Resuming
  BY <1>2 DEF Resuming, ResumeSteps
<1>4. /\ r.step = "events" /\ r.now = resume.now /\ r.asked = resume.asked
      /\ r.looked = resume.looked /\ r.cited = resume.cited /\ r.session = resume.session
      /\ r.task = resume.task /\ r.checkpoint = resume.checkpoint /\ r.window = resume.window
      /\ r.evidence = resume.evidence /\ r.reads = resume.reads /\ r.events = {}
  BY <1>2, <1>3 DEF Resuming
<1> HIDE DEF r
<1>5. NotesStand' /\ EventsStand'
  BY <1>1, <1>2, <1>4, ReadingKeeps
<1> QED
  BY <1>1, <1>2, <1>3, <1>4, <1>5, LaterStep

LEMMA ReadEventsStep ==
    ASSUME ResumeInv, ReadEvents
    PROVE  Progress'
<1> DEFINE until == IF resume.window.end = 0 THEN resume.now ELSE resume.window.end
           found == {e \in happened :
                        /\ e.at \in resume.window.at .. until
                        /\ e.session \in {None, resume.evidence}
                        /\ resume.task = None \/ e.task \in {None, resume.task}}
           few == IF resume.evidence = None THEN {}
                  ELSE {e \in found :
                           Cardinality({o \in found : o.at < e.at}) < MaxResumeEvents}
           r == [resume EXCEPT !.step = "answered", !.events = few]
<1>1. resume.step = "events" /\ UNCHANGED <<rowVars, saver>> /\ resume' = r
  BY DEF ReadEvents, Reading
<1>2. /\ resume \in Resuming /\ NotesStand /\ EvidenceStands /\ RowTypes
      /\ resume.step \in PastEvidence /\ "answered" \in PastEvidence
  BY <1>1 DEF ResumeInv, RowInv, Quiet, Progress, PastEvidence, PastCheckpoint
<1>3. /\ few \subseteq happened
      /\ \A e \in few : /\ resume.evidence # None
                        /\ e.at \in resume.window.at .. until
                        /\ e.session \in {None, resume.evidence}
  OBVIOUS
<1>4. /\ few \subseteq EventRow
      /\ \A e \in few : /\ resume.evidence # None /\ Begun(resume.evidence)
                        /\ e.session \in {None, resume.evidence}
                        /\ e.at >= sessions[resume.evidence].at
  <2>1. few \subseteq EventRow
    BY <1>2, <1>3 DEF RowTypes
  <2>2. ASSUME NEW e \in few
        PROVE  /\ Begun(resume.evidence)
               /\ e.at >= sessions[resume.evidence].at
    <3>1. e.at \in resume.window.at .. until /\ resume.evidence # None
      BY <1>3
    <3> HIDE DEF few, until
    <3>2. Begun(resume.evidence) /\ resume.window.at = sessions[resume.evidence].at
      BY <1>2, <3>1 DEF EvidenceStands
    <3> QED
      BY <3>1, <3>2
  <2> QED
    BY <1>3, <2>1, <2>2
<1> HIDE DEF few
<1>5. r \in Resuming
  <2>1. resume \in Resuming /\ "answered" \in ResumeSteps
    BY <1>2 DEF ResumeSteps
  <2> QED
    BY <2>1, <1>4 DEF Resuming
<1>6. /\ r.step = "answered" /\ r.now = resume.now /\ r.asked = resume.asked
      /\ r.looked = resume.looked /\ r.cited = resume.cited /\ r.session = resume.session
      /\ r.task = resume.task /\ r.checkpoint = resume.checkpoint /\ r.window = resume.window
      /\ r.evidence = resume.evidence /\ r.reads = resume.reads /\ r.events = few
  BY <1>2, <1>5 DEF Resuming
<1> HIDE DEF r
<1>7. NotesStand'
  BY <1>1, <1>2, <1>6, ReadingKeeps
<1>8. EventsStand'
  BY <1>1, <1>4, <1>6 DEF EventsStand, rowVars, Begun
<1> QED
  BY <1>1, <1>2, <1>5, <1>6, <1>7, <1>8, LaterStep

-----------------------------------------------------------------------------
(* The theorems about resume_context *)

LEMMA ResumesKeep ==
    ASSUME ResumeInv, Resumes
    PROVE  ResumeInv'
<1>1. UNCHANGED <<rowVars, saver>>
  BY DEF Resumes, AskToResume, SelectSession, SelectEndedSession, SelectTask, SelectCheckpoint,
         SelectTaskless, SelectEvidence, ListNotes, LookAtNote, CiteNote, NotesRead, ReadEvents,
         Answered, Reading
<1>2. RowInv'
  BY <1>1, RowInvUnchanged DEF ResumeInv
<1>3. CASE Answered
  BY <1>2, <1>3 DEF Answered, ResumeInv
<1>4. CASE Resumes /\ ~Answered
  <2>1. Progress'
    BY <1>4, AskStep, SelectSessionStep, SelectEndedSessionStep, SelectTaskStep,
       SelectCheckpointStep, SelectTasklessStep, SelectEvidenceStep, ListNotesStep,
       LookAtNoteStep, CiteNoteStep, NotesReadStep, ReadEventsStep DEF Resumes, ResumeInv
  <2> QED
    BY <1>2, <2>1 DEF ResumeInv
<1> QED
  BY <1>3, <1>4

LEMMA ResumeInvInit == ResumeInit => ResumeInv
BY RowInvInit DEF ResumeInv, ResumeInit

LEMMA ResumeInvNext ==
    ASSUME ResumeInv, [ResumeNext]_resumeVars
    PROVE  ResumeInv'
<1>1. CASE Resumes
  BY <1>1, ResumesKeep
<1>2. CASE Writes \/ InsertCheckpoint
  <2>1. MovesOn /\ RowInv' /\ UNCHANGED resume
    BY <1>2, WritesMove, InsertCheckpointMoves DEF ResumeInv
  <2> QED
    BY <2>1, ProgressMoves DEF ResumeInv
<1>3. ASSUME NEW s \in Sessions, NEW t \in SomeWork, NEW decisions \in SUBSET Notes,
             CheckCheckpoint(s, t, decisions)
      PROVE  ResumeInv'
  <2>1. RowInv' /\ UNCHANGED <<rowVars, resume>>
    BY <1>3, CheckCheckpointKeeps DEF ResumeInv
  <2>2. Progress => Progress'
    BY <2>1 DEF Progress, rowVars, AskedStands, NobodyAtWork, FreeSession, SessionStands,
       TaskSearched, TaskReads, TaskStands, TaskUnsaved, CheckpointStands, EvidenceStands,
       NotesStand, EventsStand, StillTrue, Earlier, HomeOf, Begun, Open
  <2> QED
    BY <2>1, <2>2 DEF ResumeInv
<1>4. CASE UNCHANGED resumeVars
  <2>1. UNCHANGED <<rowVars, saver, resume>>
    BY <1>4 DEF resumeVars, rowVars
  <2>2. Progress => Progress'
    BY <2>1 DEF Progress, rowVars, AskedStands, NobodyAtWork, FreeSession, SessionStands,
       TaskSearched, TaskReads, TaskStands, TaskUnsaved, CheckpointStands, EvidenceStands,
       NotesStand, EventsStand, StillTrue, Earlier, HomeOf, Begun, Open
  <2> QED
    BY <2>1, <2>2, RowInvUnchanged DEF ResumeInv
<1> QED
  BY <1>1, <1>2, <1>3, <1>4 DEF ResumeNext, Checkpoints

LEMMA ResumeInvHolds == ResumeSpec => []ResumeInv
BY ResumeInvInit, ResumeInvNext, PTL DEF ResumeSpec

\* Type correctness of the rows, the checkpoint being stored and the request.
THEOREM ResumeTypesHold == ResumeSpec => []ResumeTypeOK
<1>1. ResumeInv => ResumeTypeOK
  BY DEF ResumeInv, RowInv, RowTypes, RowsBelong, Progress, Resuming, ResumeSteps, Saving,
         Quiet, ResumeTypeOK
<1> QED
  BY <1>1, ResumeInvHolds, PTL

LEMMA AnswersAreWhole == ResumeInv => ResumedWorkIsWhole
<1> SUFFICES ASSUME ResumeInv, resume.step = "answered"
             PROVE  Coherent /\ UpToDate
  BY DEF ResumedWorkIsWhole
<1> DEFINE s == resume.session
           t == resume.task
           c == resume.checkpoint
           asked == resume.asked
<1>1. /\ resume \in Resuming /\ AskedStands /\ SessionStands /\ TaskStands /\ CheckpointStands
      /\ EvidenceStands /\ NotesStand /\ EventsStand /\ RowInv
  BY DEF ResumeInv, Quiet, Progress, PastSession, PastTask, PastCheckpoint, PastEvidence
<1>2. Coherent
  BY <1>1 DEF Coherent, SessionStands, TaskStands, CheckpointStands, EvidenceStands, EventsStand
<1>3. ASSUME FreeSession,
             NEW o \in Sessions, Open(o), Earlier(sessions[o].at)
      PROVE  (IF s = None THEN 0 ELSE IF Earlier(sessions[s].end) THEN 0 ELSE sessions[s].at)
                >= sessions[o].at
  <2>1. s # None /\ ~Earlier(sessions[s].end) /\ sessions[o].at <= sessions[s].at
    BY <1>1, <1>3 DEF SessionStands
  <2>2. s \in Sessions
    BY <1>1, <2>1 DEF Resuming, SomeSession
  <2>3. sessions[o].at \in Nat /\ sessions[s].at \in Nat
    BY <1>1, <2>2, HoursAreNumbers DEF RowInv, RowTypes, SessionRow
  <2> QED
    BY <2>1, <2>3
<1>4. ASSUME asked.task = None, s # None, NEW o \in Works, works[o].status = "active",
             Earlier(works[o].at), HomeOf(o) = s
      PROVE  (IF t # None /\ HomeOf(t) = s THEN works[t].at ELSE 0) >= works[o].at
  <2>1. t # None /\ HomeOf(t) = s /\ works[o].at <= works[t].at
    BY <1>1, <1>4 DEF TaskStands
  <2>2. t \in Works
    BY <1>1, <2>1 DEF Resuming, SomeWork
  <2>3. works[o].at \in Nat /\ works[t].at \in Nat
    BY <1>1, <2>2, HoursAreNumbers DEF RowInv, RowTypes, WorkRow
  <2> QED
    BY <2>1, <2>3
<1>5. ASSUME t # None \/ s # None, NEW o \in saved, Earlier(o.at),
             IF t # None THEN o.task = t ELSE o.session = s
      PROVE  c.at >= o.at
  <2>1. o.at <= c.at
    BY <1>1, <1>5 DEF CheckpointStands
  <2>2. o.at \in Nat
    BY <1>1, HoursAreNumbers DEF RowInv, RowTypes, CheckpointRow
  <2>3. c.at \in Nat
    <3>1. c \in CheckpointRow \/ c = NoRecord
      BY <1>1 DEF Resuming
    <3>2. \A r \in CheckpointRow : r.at \in Nat
      BY HoursAreNumbers DEF CheckpointRow
    <3>3. NoRecord.at \in Nat
      BY DEF NoRecord
    <3> QED
      BY <3>1, <3>2, <3>3
  <2> QED
    BY <2>1, <2>2, <2>3
<1>6. asked.task = None /\ t # None => works[t].status # "done" \/ ~Earlier(works[t].at)
  BY <1>1 DEF TaskStands
<1>7. \A n \in resume.cited : notes[n.note].state = "trusted" \/ ~Earlier(notes[n.note].at)
  BY <1>1 DEF NotesStand, StillTrue
<1>8. UpToDate
  BY <1>3, <1>4, <1>5, <1>6, <1>7 DEF UpToDate, FreeSession
<1> QED
  BY <1>2, <1>8

\* An answer of resume_context belongs together and passes over nothing that
\* was there before the request: whatever sessions, tasks, checkpoints and
\* memories do between its reads, for any number of them.
THEOREM AnswersBelongTogether == ResumeSpec => []ResumedWorkIsWhole
BY AnswersAreWhole, ResumeInvHolds, PTL

-----------------------------------------------------------------------------
(* temporal_retrieval: the rows there are *)

\* Only so many rows have been written.
FewRows ==
    /\ IsFiniteSet({s \in Sessions : Begun(s)})
    /\ IsFiniteSet({t \in Works : works[t].status # "absent"})
    /\ IsFiniteSet({n \in Notes : notes[n].state # "absent"})
    /\ IsFiniteSet(happened)

LEMMA OneMore ==
    ASSUME NEW S, IsFiniteSet(S), NEW x, NEW T, T \subseteq S \cup {x}
    PROVE  IsFiniteSet(T)
BY FS_AddElement, FS_Subset

LEMMA ImageOfFew ==
    ASSUME NEW S, IsFiniteSet(S), NEW f, DOMAIN f = S
    PROVE  IsFiniteSet({f[x] : x \in S})
<1> DEFINE T == {f[x] : x \in S}
           g == [x \in S |-> f[x]]
<1>1. g \in Surjection(S, T)
  BY DEF Surjection
<1> QED
  BY <1>1, FS_Surjection

LEMMA FewRowsMore ==
    ASSUME FewRows, NEW s, NEW t, NEW n, NEW e,
           \A o \in Sessions : Begun(o)' => Begun(o) \/ o = s,
           \A o \in Works : works'[o].status # "absent" => works[o].status # "absent" \/ o = t,
           \A o \in Notes : notes'[o].state # "absent" => notes[o].state # "absent" \/ o = n,
           happened' \subseteq happened \cup {e}
    PROVE  FewRows'
<1>1. IsFiniteSet({o \in Sessions : Begun(o)'})
  <2>1. {o \in Sessions : Begun(o)'} \subseteq {o \in Sessions : Begun(o)} \cup {s}
    OBVIOUS
  <2> QED
    BY <2>1, OneMore DEF FewRows
<1>2. IsFiniteSet({o \in Works : works'[o].status # "absent"})
  <2>1. {o \in Works : works'[o].status # "absent"}
           \subseteq {o \in Works : works[o].status # "absent"} \cup {t}
    OBVIOUS
  <2> QED
    BY <2>1, OneMore DEF FewRows
<1>3. IsFiniteSet({o \in Notes : notes'[o].state # "absent"})
  <2>1. {o \in Notes : notes'[o].state # "absent"}
           \subseteq {o \in Notes : notes[o].state # "absent"} \cup {n}
    OBVIOUS
  <2> QED
    BY <2>1, OneMore DEF FewRows
<1>4. IsFiniteSet(happened')
  BY OneMore DEF FewRows
<1> QED
  BY <1>1, <1>2, <1>3, <1>4 DEF FewRows

LEMMA FewRowsSame ==
    ASSUME FewRows, UNCHANGED <<sessions, works, notes, happened>>
    PROVE  FewRows'
BY DEF FewRows, Begun

LEMMA WritesAddFew ==
    ASSUME RowInv, FewRows, Writes
    PROVE  FewRows'
<1>0. /\ sessions \in [Sessions -> SessionRow] /\ works \in [Works -> WorkRow]
      /\ notes \in [Notes -> NoteRow]
  BY DEF RowInv, RowTypes
<1>1. ASSUME NEW s \in Sessions, StartSession(s) PROVE FewRows'
  <2>1. \A o \in Sessions : Begun(o)' => Begun(o) \/ o = s
    BY <1>0, <1>1 DEF StartSession, Begun
  <2>2. UNCHANGED <<works, notes, happened>>
    BY <1>1 DEF StartSession
  <2> QED
    BY <2>1, <2>2, FewRowsMore
<1>2. ASSUME NEW s \in Sessions, EndSession(s) PROVE FewRows'
  <2>1. \A o \in Sessions : Begun(o)' => Begun(o) \/ o = s
    BY <1>0, <1>2 DEF EndSession, Begun
  <2>2. UNCHANGED <<works, notes, happened>>
    BY <1>2 DEF EndSession
  <2> QED
    BY <2>1, <2>2, FewRowsMore
<1>3. ASSUME NEW t \in Works, NEW s \in SomeSession, StartTask(t, s) PROVE FewRows'
  <2>1. \A o \in Works : works'[o].status # "absent" => works[o].status # "absent" \/ o = t
    BY <1>0, <1>3 DEF StartTask
  <2>2. UNCHANGED <<sessions, notes, happened>>
    BY <1>3 DEF StartTask
  <2> QED
    BY <2>1, <2>2, FewRowsMore DEF Begun
<1>4. ASSUME NEW t \in Works, NEW status \in Incomplete \cup {"done"}, UpdateTask(t, status)
      PROVE  FewRows'
  <2>1. \A o \in Works : works'[o].status # "absent" => works[o].status # "absent" \/ o = t
    BY <1>0, <1>4 DEF UpdateTask
  <2>2. UNCHANGED <<sessions, notes, happened>>
    BY <1>4 DEF UpdateTask
  <2> QED
    BY <2>1, <2>2, FewRowsMore DEF Begun
<1>5. ASSUME NEW s \in SomeSession, NEW t \in SomeWork, RecordEvent(s, t) PROVE FewRows'
  <2>1. UNCHANGED <<sessions, works, notes>>
    BY <1>5 DEF RecordEvent
  <2>2. happened' \subseteq happened \cup {[at |-> hour', session |-> s, task |-> t]}
    BY <1>5 DEF RecordEvent
  <2> QED
    BY <2>1, <2>2, FewRowsMore DEF Begun
<1>6. ASSUME NEW n \in Notes, NEW s \in SomeSession, NEW t \in SomeWork, RecordMemory(n, s, t)
      PROVE  FewRows'
  <2>1. \A o \in Notes : notes'[o].state # "absent" => notes[o].state # "absent" \/ o = n
    BY <1>0, <1>6 DEF RecordMemory
  <2>2. UNCHANGED <<sessions, works, happened>>
    BY <1>6 DEF RecordMemory
  <2> QED
    BY <2>1, <2>2, FewRowsMore DEF Begun
<1>7. ASSUME NEW n \in Notes, NEW state \in {"superseded", "withdrawn"}, Retire(n, state)
      PROVE  FewRows'
  <2>1. \A o \in Notes : notes'[o].state # "absent" => notes[o].state # "absent" \/ o = n
    BY <1>0, <1>7 DEF Retire
  <2>2. UNCHANGED <<sessions, works, happened>>
    BY <1>7 DEF Retire
  <2> QED
    BY <2>1, <2>2, FewRowsMore DEF Begun
<1> QED
  BY <1>1, <1>2, <1>3, <1>4, <1>5, <1>6, <1>7 DEF Writes

-----------------------------------------------------------------------------
(* ... and what the query makes of them *)

LEMMA FewSources ==
    ASSUME FewRows
    PROVE  IsFiniteSet(TimedSources)
<1> DEFINE begun == {s \in Sessions : Begun(s)}
           tasks == {t \in Works : works[t].status # "absent"}
           told == {n \in Notes : notes[n].state \in {"trusted", "superseded"}}
           chunks == {c \in {edited} : c # 0}
           ofSessions == {Source("session_state", s, s,
                                 IF sessions[s].end = 0 THEN sessions[s].at ELSE sessions[s].end,
                                 FALSE) : s \in begun}
           ofTasks == {Source("task_state", t, HomeOf(t), works[t].at, FALSE) : t \in tasks}
           ofNotes == {Source("memory", n, notes[n].session, notes[n].born,
                              notes[n].state = "superseded") : n \in told}
           ofEvents == {Source("event", e.at, e.session, e.at, FALSE) : e \in happened}
           ofChunks == {Source("code", "chunk", None, edited, FALSE) : c \in chunks}
<1>1. TimedSources = ofSessions \cup ofTasks \cup ofNotes \cup ofEvents \cup ofChunks
  BY DEF TimedSources
<1>2. IsFiniteSet(begun) /\ IsFiniteSet(tasks) /\ IsFiniteSet(happened)
  BY DEF FewRows
<1>3. IsFiniteSet(told)
  <2>1. told \subseteq {n \in Notes : notes[n].state # "absent"}
    OBVIOUS
  <2> QED
    BY <2>1, FS_Subset DEF FewRows
<1>4. IsFiniteSet(chunks)
  BY FS_Singleton, FS_Subset
<1> HIDE DEF begun, tasks, told, chunks
<1>5. IsFiniteSet(ofSessions)
  <2> DEFINE f == [s \in begun |-> Source("session_state", s, s,
                                 IF sessions[s].end = 0 THEN sessions[s].at ELSE sessions[s].end,
                                 FALSE)]
  <2>1. ofSessions = {f[s] : s \in begun}
    OBVIOUS
  <2> HIDE DEF ofSessions
  <2>2. IsFiniteSet({f[s] : s \in begun})
    <3>1. DOMAIN f = begun
      OBVIOUS
    <3> HIDE DEF f
    <3> QED
      BY <1>2, <3>1, ImageOfFew
  <2> QED
    BY <2>1, <2>2
<1>6. IsFiniteSet(ofTasks)
  <2> DEFINE f == [t \in tasks |-> Source("task_state", t, HomeOf(t), works[t].at, FALSE)]
  <2>1. ofTasks = {f[t] : t \in tasks}
    OBVIOUS
  <2> HIDE DEF ofTasks
  <2>2. IsFiniteSet({f[t] : t \in tasks})
    <3>1. DOMAIN f = tasks
      OBVIOUS
    <3> HIDE DEF f
    <3> QED
      BY <1>2, <3>1, ImageOfFew
  <2> QED
    BY <2>1, <2>2
<1>7. IsFiniteSet(ofNotes)
  <2> DEFINE f == [n \in told |-> Source("memory", n, notes[n].session, notes[n].born,
                              notes[n].state = "superseded")]
  <2>1. ofNotes = {f[n] : n \in told}
    OBVIOUS
  <2> HIDE DEF ofNotes
  <2>2. IsFiniteSet({f[n] : n \in told})
    <3>1. DOMAIN f = told
      OBVIOUS
    <3> HIDE DEF f
    <3> QED
      BY <1>3, <3>1, ImageOfFew
  <2> QED
    BY <2>1, <2>2
<1>8. IsFiniteSet(ofEvents)
  <2> DEFINE f == [e \in happened |-> Source("event", e.at, e.session, e.at, FALSE)]
  <2>1. ofEvents = {f[e] : e \in happened}
    OBVIOUS
  <2> HIDE DEF ofEvents
  <2>2. IsFiniteSet({f[e] : e \in happened})
    <3>1. DOMAIN f = happened
      OBVIOUS
    <3> HIDE DEF f
    <3> QED
      BY <1>2, <3>1, ImageOfFew
  <2> QED
    BY <2>1, <2>2
<1>9. IsFiniteSet(ofChunks)
  <2> DEFINE f == [c \in chunks |-> Source("code", "chunk", None, edited, FALSE)]
  <2>1. ofChunks = {f[c] : c \in chunks}
    OBVIOUS
  <2> HIDE DEF ofChunks
  <2>2. IsFiniteSet({f[c] : c \in chunks})
    <3>1. DOMAIN f = chunks
      OBVIOUS
    <3> HIDE DEF f
    <3> QED
      BY <1>4, <3>1, ImageOfFew
  <2> QED
    BY <2>1, <2>2
<1> HIDE DEF ofSessions, ofTasks, ofNotes, ofEvents, ofChunks
<1> QED
  BY <1>1, <1>5, <1>6, <1>7, <1>8, <1>9, FS_Union

AnySource ==
    [kind : {"session_state", "task_state", "memory", "event", "code"},
     id : UNION {Sessions, Works, Notes, Hours, {"chunk"}},
     session : SomeSession, at : Hours, superseded : BOOLEAN]

LEMMA SourcesAreTimed ==
    ASSUME RowTypes, edited \in Hours
    PROVE  TimedSources \subseteq AnySource
<1> SUFFICES ASSUME NEW r \in TimedSources PROVE r \in AnySource
  OBVIOUS
<1>0. /\ \A s \in Sessions : sessions[s].at \in Hours /\ sessions[s].end \in Hours
      /\ \A t \in Works : works[t].at \in Hours /\ HomeOf(t) \in SomeSession
      /\ \A n \in Notes : notes[n].born \in Hours /\ notes[n].session \in SomeSession
      /\ \A e \in happened : e.at \in Hours /\ e.session \in SomeSession
  BY DEF RowTypes, SessionRow, WorkRow, NoteRow, EventRow, HomeOf
<1>1. CASE \E s \in Sessions :
              r = Source("session_state", s, s,
                         IF sessions[s].end = 0 THEN sessions[s].at ELSE sessions[s].end, FALSE)
  BY <1>0, <1>1 DEF Source, AnySource, SomeSession
<1>2. CASE \E t \in Works : r = Source("task_state", t, HomeOf(t), works[t].at, FALSE)
  BY <1>0, <1>2 DEF Source, AnySource
<1>3. CASE \E n \in Notes : r = Source("memory", n, notes[n].session, notes[n].born,
                                       notes[n].state = "superseded")
  BY <1>0, <1>3 DEF Source, AnySource
<1>4. CASE \E e \in happened : r = Source("event", e.at, e.session, e.at, FALSE)
  BY <1>0, <1>4 DEF Source, AnySource
<1>5. CASE r = Source("code", "chunk", None, edited, FALSE)
  BY <1>0, <1>5 DEF Source, AnySource, SomeSession
<1> QED
  BY <1>1, <1>2, <1>3, <1>4, <1>5 DEF TimedSources

\* The two orders are one.
LEMMA OneFreshness ==
    ASSUME NEW r
    PROVE  Priority(r) = FreshInQuery(r) /\ FreshInQuery(r) \in {0, 1, 3}
<1>1. CASE r.superseded
  BY <1>1 DEF Priority, FreshInQuery
<1>2. CASE ~r.superseded /\ r.kind \in {"code", "task_state"}
  BY <1>2 DEF Priority, FreshInQuery
<1>3. CASE ~r.superseded /\ ~(r.kind \in {"code", "task_state"})
  BY <1>3 DEF Priority, FreshInQuery
<1> QED
  BY <1>1, <1>2, <1>3

LEMMA FirstInQueryLeads ==
    ASSUME NEW o, NEW r, NEW kept, o.at \in Nat, r.at \in Nat, kept.at \in Nat,
           FirstInQuery(o, r), FirstInQuery(r, kept)
    PROVE  FirstInQuery(o, kept)
<1> DEFINE a == FreshInQuery(o)
           b == FreshInQuery(r)
           c == FreshInQuery(kept)
<1>1. a \in Nat /\ b \in Nat /\ c \in Nat
  BY OneFreshness
<1>2. /\ a > b \/ (a = b /\ o.at > r.at)
      /\ b > c \/ (b = c /\ r.at > kept.at)
  BY DEF FirstInQuery
<1> HIDE DEF a, b, c
<1>3. a > c \/ (a = c /\ o.at > kept.at)
  BY <1>1, <1>2
<1> QED
  BY <1>3 DEF FirstInQuery, a, c

LEMMA OutranksIsFirst ==
    ASSUME NEW r, NEW kept, NEW now, r.at \in Nat, kept.at \in Nat, now \in Nat,
           r.at <= now, Outranks(r, kept, now)
    PROVE  FirstInQuery(r, kept)
<1> DEFINE b == FreshInQuery(r)
           c == FreshInQuery(kept)
<1>1. b \in Nat /\ c \in Nat /\ Priority(r) = b /\ Priority(kept) = c
  BY OneFreshness
<1> HIDE DEF b, c
<1>2. CASE b > c
  BY <1>2 DEF FirstInQuery, b, c
<1>3. CASE b = c /\ Recency(r, now) > Recency(kept, now)
  <2>1. r.at > kept.at
    BY <1>3 DEF Recency
  <2> QED
    BY <1>3, <2>1 DEF FirstInQuery, b, c
<1> QED
  BY <1>1, <1>2, <1>3 DEF Outranks

\* What the limit cuts off is not first before what it keeps.
LEMMA CutOffIsLater ==
    ASSUME NEW found, IsFiniteSet(found), \A r \in found : r.at \in Nat,
           NEW r \in found, NEW kept \in found,
           ~(Cardinality({o \in found : FirstInQuery(o, r)}) < RetrievalLimit),
           Cardinality({o \in found : FirstInQuery(o, kept)}) < RetrievalLimit
    PROVE  ~FirstInQuery(r, kept)
<1> DEFINE A == {o \in found : FirstInQuery(o, r)}
           B == {o \in found : FirstInQuery(o, kept)}
<1> SUFFICES ASSUME FirstInQuery(r, kept) PROVE FALSE
  OBVIOUS
<1>1. A \subseteq B
  BY FirstInQueryLeads
<1>2. IsFiniteSet(B)
  BY FS_Subset
<1> DEFINE a == Cardinality(A)
           b == Cardinality(B)
<1>3. ~(a < RetrievalLimit) /\ b < RetrievalLimit
  OBVIOUS
<1> HIDE DEF A, B
<1>4. a \in Nat /\ b \in Nat /\ a <= b
  BY <1>1, <1>2, FS_Subset, FS_CardinalityType
<1> HIDE DEF a, b
<1> QED
  BY <1>3, <1>4, RetrievalBound

-----------------------------------------------------------------------------
(* The request *)

Bounds == [session : SomeSession, from : Hours, until : Hours]
Recalls ==
    [step : {"previous", "query", "ordered"}, now : Hours, before : Hours, bounds : Bounds,
     superseded : BOOLEAN, list : SUBSET AnySource, left : SUBSET AnySource]

BoundsStand ==
    recall.bounds.session # None =>
        Begun(recall.bounds.session) /\ recall.bounds.from = sessions[recall.bounds.session].at

OrderStands ==
    /\ recall.step # "ordered" => recall.list = {} /\ recall.left = {}
    /\ \A r \in recall.left, kept \in recall.list :
          r.at <= recall.now => ~Outranks(r, kept, recall.now)
    /\ recall.bounds.session # None =>
          \A r \in recall.list : /\ r.session = recall.bounds.session \/ r.kind = "code"
                                 /\ r.at >= recall.bounds.from

RecallInv ==
    /\ RowInv /\ FewRows /\ edited \in Hours
    /\ recall = Quiet \/ (recall \in Recalls /\ BoundsStand /\ OrderStands)

LEMMA BoundedStands ==
    ASSUME RowTypes, NEW s \in Sessions, NEW now \in Hours
    PROVE  /\ Bounded(s, now) \in Bounds /\ Bounded(s, now).session = s
           /\ Bounded(s, now).from = sessions[s].at
BY DEF RowTypes, SessionRow, Bounded, Bounds, SomeSession

LEMMA AskForRecentStep ==
    ASSUME RecallInv, NEW s \in SomeSession, NEW scope \in {"any", "current", "previous"},
           NEW superseded \in BOOLEAN, AskForRecent(s, scope, superseded)
    PROVE  RecallInv'
<1> DEFINE step == IF scope = "previous" THEN "previous" ELSE "query"
           before == IF scope = "any" THEN 0 ELSE sessions[s].at
           bounds == IF scope = "current" THEN Bounded(s, hour) ELSE Unbounded
           r == [step |-> step, now |-> hour, before |-> before, bounds |-> bounds,
                 superseded |-> superseded, list |-> {}, left |-> {}]
<1>1. UNCHANGED <<resumeVars, edited>> /\ recall' = r /\ (scope # "any" => Begun(s))
  BY DEF AskForRecent, Recalling
<1>2. RowInv /\ RowTypes /\ FewRows /\ edited \in Hours /\ hour \in Hours
  BY DEF RecallInv, RowInv, RowTypes
<1>3. 0 \in Hours /\ MaxHour \in Hours
  BY HoursAreNumbers DEF Hours
<1>4. scope # "any" => s \in Sessions
  BY <1>1 DEF Begun, SomeSession
<1>5. step \in {"previous", "query"} /\ before \in Hours
  BY <1>2, <1>3, <1>4 DEF RowTypes, SessionRow
<1>6. /\ bounds \in Bounds
      /\ bounds.session # None =>
            Begun(bounds.session) /\ bounds.from = sessions[bounds.session].at
  <2>1. CASE scope = "current"
    <3>1. s \in Sessions /\ Begun(s) /\ bounds = Bounded(s, hour)
      BY <1>1, <1>4, <2>1
    <3> HIDE DEF bounds
    <3> QED
      BY <1>2, <3>1, BoundedStands
  <2>2. CASE scope # "current"
    <3>1. bounds = Unbounded
      BY <2>2
    <3> HIDE DEF bounds
    <3> QED
      BY <1>3, <3>1 DEF Unbounded, Bounds, SomeSession
  <2> QED
    BY <2>1, <2>2
<1> HIDE DEF step, before, bounds
<1>7. /\ r \in Recalls
      /\ r.bounds = bounds /\ r.list = {} /\ r.left = {}
  BY <1>2, <1>5, <1>6 DEF Recalls
<1> HIDE DEF r
<1>8. RowInv' /\ FewRows' /\ edited' \in Hours
  BY <1>1, <1>2, RowInvUnchanged, FewRowsSame DEF resumeVars, rowVars
<1>9. BoundsStand' /\ OrderStands'
  BY <1>1, <1>6, <1>7 DEF BoundsStand, OrderStands, resumeVars, Begun
<1> QED
  BY <1>1, <1>7, <1>8, <1>9 DEF RecallInv

LEMMA FindPreviousStep ==
    ASSUME RecallInv, FindPrevious
    PROVE  RecallInv'
<1> DEFINE rows == {s \in Sessions : Begun(s) /\ sessions[s].at < recall.before}
           time == [s \in Sessions |-> sessions[s].at]
           s == LatestOf(rows, time)
           bounds == Bounded(s, recall.now)
           r == [recall EXCEPT !.step = "query", !.bounds = bounds]
<1>1. /\ recall.step = "previous" /\ UNCHANGED <<resumeVars, edited>>
      /\ recall' = IF s = None THEN Quiet ELSE r
  BY DEF FindPrevious, Recalling
<1>2. /\ RowInv /\ RowTypes /\ FewRows /\ edited \in Hours
      /\ recall \in Recalls /\ OrderStands /\ recall.now \in Hours
  BY <1>1 DEF RecallInv, RowInv, Quiet, Recalls
<1>3. s = None \/ s \in rows
  <2>1. \A o \in rows : time[o] \in Hours
    BY <1>2 DEF RowTypes, SessionRow
  <2> QED
    BY <2>1, LatestIsLatest
<1> HIDE DEF s
<1>4. RowInv' /\ FewRows' /\ edited' \in Hours
  BY <1>1, <1>2, RowInvUnchanged, FewRowsSame DEF resumeVars, rowVars
<1>5. CASE s = None
  BY <1>1, <1>4, <1>5 DEF RecallInv
<1>6. CASE s # None
  <2>1. s \in Sessions /\ Begun(s)
    BY <1>3, <1>6
  <2>2. bounds \in Bounds /\ bounds.session = s /\ bounds.from = sessions[s].at
    BY <1>2, <2>1, BoundedStands
  <2> HIDE DEF bounds
  <2>3. r \in Recalls
    BY <1>2, <2>2 DEF Recalls
  <2>4. r.bounds = bounds /\ r.list = {} /\ r.left = {}
    BY <1>1, <1>2 DEF Recalls, OrderStands
  <2>5. recall' = r
    BY <1>1, <1>6
  <2> HIDE DEF r
  <2>6. BoundsStand' /\ OrderStands'
    BY <1>1, <2>1, <2>2, <2>4, <2>5 DEF BoundsStand, OrderStands, resumeVars, Begun
  <2> QED
    BY <1>4, <2>3, <2>5, <2>6 DEF RecallInv
<1> QED
  BY <1>5, <1>6

LEMMA RunQueryStep ==
    ASSUME RecallInv, RunQuery
    PROVE  RecallInv'
<1> DEFINE found == {r \in TimedSources : Matches(r)}
           taken == {r \in found :
                        Cardinality({o \in found : FirstInQuery(o, r)}) < RetrievalLimit}
           left == found \ taken
           r == [recall EXCEPT !.step = "ordered", !.list = taken, !.left = left]
           b == recall.bounds
<1>1. recall.step = "query" /\ UNCHANGED <<resumeVars, edited>> /\ recall' = r
  BY DEF RunQuery, Recalling
<1>2. /\ RowInv /\ RowTypes /\ FewRows /\ edited \in Hours
      /\ recall \in Recalls /\ BoundsStand /\ recall.now \in Nat
      /\ b.from \in Nat
  BY <1>1, HoursAreNumbers DEF RecallInv, RowInv, Quiet, Recalls, Bounds
<1>3. found \subseteq AnySource /\ IsFiniteSet(found)
  BY <1>2, SourcesAreTimed, FewSources, FS_Subset
<1>4. \A x \in found : x.at \in Nat
  BY <1>3, HoursAreNumbers DEF AnySource
<1>5. \A x \in found : /\ b.session # None => x.kind = "code" \/ x.session = b.session
                       /\ x.at >= b.from
  <2>1. ASSUME NEW x \in found PROVE x.at >= b.from
    BY <1>2, <1>4, <2>1 DEF Matches
  <2> QED
    BY <2>1 DEF Matches
<1>6. ASSUME NEW x \in left, NEW kept \in taken, x.at <= recall.now
      PROVE  ~Outranks(x, kept, recall.now)
  <2>1. /\ x \in found /\ kept \in found
        /\ ~(Cardinality({o \in found : FirstInQuery(o, x)}) < RetrievalLimit)
        /\ Cardinality({o \in found : FirstInQuery(o, kept)}) < RetrievalLimit
    OBVIOUS
  <2> HIDE DEF found, taken, left
  <2>2. ~FirstInQuery(x, kept)
    BY <1>3, <1>4, <2>1, CutOffIsLater
  <2> QED
    BY <1>2, <1>4, <1>6, <2>1, <2>2, OutranksIsFirst
<1>7. taken \subseteq found /\ left \subseteq found
  OBVIOUS
<1> HIDE DEF found, taken, left
<1>8. r \in Recalls
  <2>1. taken \in SUBSET AnySource /\ left \in SUBSET AnySource
    BY <1>3, <1>7
  <2> QED
    BY <1>2, <2>1 DEF Recalls
<1>9. /\ r.step = "ordered" /\ r.list = taken /\ r.left = left /\ r.bounds = recall.bounds
      /\ r.now = recall.now
  BY <1>2 DEF Recalls
<1> HIDE DEF r
<1>10. RowInv' /\ FewRows' /\ edited' \in Hours
  BY <1>1, <1>2, RowInvUnchanged, FewRowsSame DEF resumeVars, rowVars
<1>11. BoundsStand'
  BY <1>1, <1>2, <1>9 DEF BoundsStand, resumeVars, Begun
<1>12. OrderStands'
  BY <1>1, <1>5, <1>6, <1>7, <1>9 DEF OrderStands
<1> QED
  BY <1>1, <1>8, <1>10, <1>11, <1>12 DEF RecallInv

LEMMA RecalledStep ==
    ASSUME RecallInv, Recalled
    PROVE  RecallInv'
<1>1. UNCHANGED <<resumeVars, edited>> /\ recall' = Quiet
  BY DEF Recalled, Recalling
<1> QED
  BY <1>1, RowInvUnchanged, FewRowsSame DEF RecallInv, resumeVars, rowVars

\* What has been answered stands while writers move on.
LEMMA BoundsMove ==
    ASSUME RecallInv, SessionsMove, UNCHANGED recall
    PROVE  BoundsStand /\ recall \in Recalls => BoundsStand'
<1> SUFFICES ASSUME BoundsStand, recall \in Recalls, recall.bounds.session # None
             PROVE  BoundsStand'
  BY DEF BoundsStand
<1>1. recall.bounds.session \in Sessions
  BY DEF Recalls, Bounds, SomeSession
<1> QED
  BY <1>1 DEF BoundsStand, SessionsMove, Begun

LEMMA RecallInvInit == ResumeInit /\ RecallInit => RecallInv
<1> SUFFICES ASSUME ResumeInit, RecallInit PROVE RecallInv
  OBVIOUS
<1>1. RowInv
  BY RowInvInit
<1>2. FewRows
  <2>1. /\ {s \in Sessions : Begun(s)} = {}
        /\ {t \in Works : works[t].status # "absent"} = {}
        /\ {n \in Notes : notes[n].state # "absent"} = {}
        /\ happened = {}
    BY DEF ResumeInit, Begun
  <2> QED
    BY <2>1, FS_EmptySet DEF FewRows
<1>3. edited \in Hours /\ recall = Quiet
  BY HoursAreNumbers DEF RecallInit, Hours
<1> QED
  BY <1>1, <1>2, <1>3 DEF RecallInv

LEMMA RecallInvNext ==
    ASSUME RecallInv, [RecallNext]_<<resumeVars, recallVars>>
    PROVE  RecallInv'
<1>1. CASE Writes /\ UNCHANGED recallVars
  <2>1. MovesOn /\ RowInv' /\ FewRows'
    BY <1>1, WritesMove, WritesAddFew DEF RecallInv
  <2>2. UNCHANGED <<edited, recall>>
    BY <1>1 DEF recallVars
  <2>3. OrderStands => OrderStands'
    BY <2>2 DEF OrderStands
  <2> QED
    BY <2>1, <2>2, <2>3, BoundsMove DEF MovesOn, RecallInv
<1>2. CASE EditSource
  <2>1. /\ UNCHANGED <<sessions, works, notes, saved, happened, saver, recall>>
        /\ hour < MaxHour /\ hour' = hour + 1 /\ edited' = hour'
    BY <1>2 DEF EditSource, Write
  <2>2. hour' \in Hours
    BY <2>1, HourMoves DEF RecallInv, RowInv
  <2>3. RowInv'
    BY <2>1, <2>2 DEF RecallInv, RowInv, RowTypes, RowsBelong, Scoped, Begun, HomeOf
  <2>4. FewRows'
    BY <2>1, FewRowsSame DEF RecallInv
  <2>5. (BoundsStand => BoundsStand') /\ (OrderStands => OrderStands')
    BY <2>1 DEF BoundsStand, OrderStands, Begun
  <2> QED
    BY <2>1, <2>2, <2>3, <2>4, <2>5 DEF RecallInv
<1>3. CASE UNCHANGED <<resumeVars, recallVars>>
  <2>1. UNCHANGED <<rowVars, saver, recall, edited, sessions>>
    BY <1>3 DEF resumeVars, recallVars, rowVars
  <2>2. RowInv' /\ FewRows'
    BY <2>1, RowInvUnchanged, FewRowsSame DEF RecallInv, rowVars
  <2>3. (BoundsStand => BoundsStand') /\ (OrderStands => OrderStands')
    BY <2>1 DEF BoundsStand, OrderStands, Begun
  <2> QED
    BY <2>1, <2>2, <2>3 DEF RecallInv
<1> QED
  BY <1>1, <1>2, <1>3, AskForRecentStep, FindPreviousStep, RunQueryStep, RecalledStep
  DEF RecallNext

LEMMA RecallInvHolds == RecallSpec => []RecallInv
BY RecallInvInit, RecallInvNext, PTL DEF RecallSpec

\* Type correctness of a temporal_retrieval and the source it dates.
THEOREM RecallTypesHold == RecallSpec => []RecallTypeOK
<1>1. RecallInv => RecallTypeOK
  BY DEF RecallInv, Recalls, Quiet, RecallTypeOK
<1> QED
  BY <1>1, RecallInvHolds, PTL

\* Nothing the limit of a temporal_retrieval cuts off outranks what it keeps,
\* unless it is newer than the request, and a session's scope keeps to the
\* session: for any number of sources and any limit.
THEOREM TheFreshestAreKept == RecallSpec => []RecallKeepsTheFreshest
<1>1. RecallInv => RecallKeepsTheFreshest
  BY DEF RecallInv, BoundsStand, OrderStands, Quiet, RecallKeepsTheFreshest
<1> QED
  BY <1>1, RecallInvHolds, PTL
=============================================================================
