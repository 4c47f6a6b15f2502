---------------------------- MODULE ResumeContext ----------------------------
(***************************************************************************)
(* resume_context: picking up work where another session left it.          *)
(*                                                                         *)
(* The answer is put together from about a dozen reads, each a statement   *)
(* of its own: a session, a task, a checkpoint, the session the evidence   *)
(* comes from, memories (each looked at three times) and events.  Sessions *)
(* begin and end, tasks move and checkpoints are stored in between.        *)
(*                                                                         *)
(* Data abstraction.  One workspace.  Every write takes the next hour, so  *)
(* no two rows are equally old and ids break no ties.  Memories are the    *)
(* decisions and failures.  The working sets and the source files that are *)
(* read at the end add candidates and change nothing read before; what     *)
(* becomes of candidates is PacketAssembly.                                *)
(***************************************************************************)
EXTENDS Integers, Sequences, FiniteSets

CONSTANTS
    Sessions, Works, Notes, \* identities of sessions, tasks and memories
    MaxResumeEvents,        \* MAX_RESUME_EVENTS
    MaxHour                 \* bound: writes

ASSUME ResumeBounds == {MaxResumeEvents, MaxHour} \subseteq Nat

VARIABLES
    sessions, works, notes, \* rows by identity, at 0 when there is none
    saved,                  \* checkpoints
    happened,               \* events
    hour,                   \* the clock
    saver,                  \* a create_checkpoint between its checks and its insert
    resume                  \* a resume_context

resumeVars == <<sessions, works, notes, saved, happened, hour, saver, resume>>
rowVars == <<sessions, works, notes, saved, happened, hour>>

None == "none"
ASSUME NoneIsNobody == None \notin Sessions \cup Works \cup Notes

NoRecord == [at |-> 0]
Hours == 0 .. MaxHour
SomeSession == Sessions \cup {None}
SomeWork == Works \cup {None}
Incomplete == {"pending", "active"}

SessionRow == [at : Hours, end : Hours]
WorkRow == [at : Hours, session : SomeSession, status : Incomplete \cup {"absent", "done"}]
NoteRow == [at : Hours, born : Hours, session : SomeSession, task : SomeWork,
            state : {"absent", "trusted", "superseded", "withdrawn"}]
CheckpointRow == [at : Hours, session : Sessions, task : SomeWork, decisions : SUBSET Notes]
EventRow == [at : Hours, session : SomeSession, task : SomeWork]

Quiet == [step |-> "idle"]

ResumeTypeOK ==
    /\ sessions \in [Sessions -> SessionRow]
    /\ works \in [Works -> WorkRow]
    /\ notes \in [Notes -> NoteRow]
    /\ saved \subseteq CheckpointRow /\ happened \subseteq EventRow
    /\ hour \in Hours
    /\ saver.step \in {"idle", "insert"}
    /\ resume.step \in {"idle", "session", "ended", "task", "checkpoint", "taskless",
                        "evidence", "list", "note", "source", "events", "answered"}

ResumeInit ==
    /\ sessions = [s \in Sessions |-> [at |-> 0, end |-> 0]]
    /\ works = [t \in Works |-> [at |-> 0, session |-> None, status |-> "absent"]]
    /\ notes = [n \in Notes |-> [at |-> 0, born |-> 0, session |-> None, task |-> None,
                               state |-> "absent"]]
    /\ saved = {} /\ happened = {} /\ hour = 0
    /\ saver = Quiet /\ resume = Quiet

-----------------------------------------------------------------------------
(* The rows and their writers *)

Begun(s) == s # None /\ sessions[s].at # 0
Open(s) == Begun(s) /\ sessions[s].end = 0
HomeOf(t) == works[t].session

\* ORDER BY <time> DESC LIMIT 1
LatestOf(rows, time) ==
    IF rows = {} THEN None ELSE CHOOSE r \in rows : \A o \in rows : time[o] <= time[r]
Newest(records) ==
    IF records = {} THEN NoRecord ELSE CHOOSE r \in records : \A o \in records : o.at <= r.at

Write == hour < MaxHour /\ hour' = hour + 1 /\ UNCHANGED resume

StartSession(s) ==
    /\ ~Begun(s) /\ Write
    /\ sessions' = [sessions EXCEPT ![s].at = hour']
    /\ UNCHANGED <<works, notes, saved, happened, saver>>

EndSession(s) ==
    /\ Open(s) /\ Write
    /\ sessions' = [sessions EXCEPT ![s].end = hour']
    /\ UNCHANGED <<works, notes, saved, happened, saver>>

\* The session is looked up before the row is inserted, and may have ended
\* in between; one that had begun when it was looked up has begun now.
StartTask(t, s) ==
    /\ works[t].status = "absent" /\ (s # None => Begun(s)) /\ Write
    /\ works' = [works EXCEPT ![t] = [at |-> hour', session |-> s, status |-> "active"]]
    /\ UNCHANGED <<sessions, notes, saved, happened, saver>>

UpdateTask(t, status) ==
    /\ works[t].status \in Incomplete /\ Write
    /\ works' = [works EXCEPT ![t].at = hour', ![t].status = status]
    /\ UNCHANGED <<sessions, notes, saved, happened, saver>>

\* validate_provenance
Provenance(s, t) ==
    /\ s # None => Begun(s)
    /\ t # None => works[t].status # "absent"
    /\ s # None /\ t # None => HomeOf(t) = s

RecordEvent(s, t) ==
    /\ Provenance(s, t) /\ Write
    /\ happened' = happened \cup {[at |-> hour', session |-> s, task |-> t]}
    /\ UNCHANGED <<sessions, works, notes, saved, saver>>

RecordMemory(n, s, t) ==
    /\ notes[n].state = "absent" /\ Provenance(s, t) /\ Write
    /\ notes' = [notes EXCEPT ![n] = [at |-> hour', born |-> hour', session |-> s,
                                      task |-> t, state |-> "trusted"]]
    /\ UNCHANGED <<sessions, works, saved, happened, saver>>

\* A supersession, or a trust review that no longer says "trusted".
Retire(n, state) ==
    /\ notes[n].state = "trusted" /\ Write
    /\ notes' = [notes EXCEPT ![n].at = hour', ![n].state = state]
    /\ UNCHANGED <<sessions, works, saved, happened, saver>>

\* create_checkpoint: validate_scope and the decisions, then the insert, which
\* is a write and needs an hour left.
ScopeHolds(s, t) == Open(s) /\ (t # None => works[t].status # "absent" /\ HomeOf(t) = s)

CheckCheckpoint(s, t, decisions) ==
    /\ saver = Quiet /\ hour < MaxHour /\ ScopeHolds(s, t)
    /\ \A n \in decisions : notes[n].state \in {"trusted", "superseded"}
    /\ saver' = [step |-> "insert", session |-> s, task |-> t, decisions |-> decisions]
    /\ UNCHANGED <<rowVars, resume>>

InsertCheckpoint ==
    /\ saver.step = "insert" /\ Write
    /\ saved' = saved \cup {[at |-> hour', session |-> saver.session, task |-> saver.task,
                             decisions |-> saver.decisions]}
    /\ saver' = Quiet
    /\ UNCHANGED <<sessions, works, notes, happened>>

-----------------------------------------------------------------------------
(* The session and the task *)

Proceed(step) == resume' = [resume EXCEPT !.step = step]
Reading(step) == resume.step = step /\ UNCHANGED <<rowVars, saver>>

\* Explicit identities exist and belong together.
AskToResume(s, t) ==
    /\ Reading("idle")
    /\ Provenance(s, t)
    /\ resume' = [step |-> "session", asked |-> [session |-> s, task |-> t], now |-> hour,
                  session |-> None, task |-> None, reads |-> 0, checkpoint |-> NoRecord,
                  evidence |-> None, window |-> [at |-> 0, end |-> 0],
                  notes |-> {}, looked |-> None, cited |-> {}, events |-> {}]

TakeSession(s) == resume' = [resume EXCEPT !.session = s, !.step = "task"]

SelectSession ==
    LET asked == resume.asked
        active == LatestOf({s \in Sessions : Open(s)}, [s \in Sessions |-> sessions[s].at])
    IN  /\ Reading("session")
        /\ IF asked.session # None THEN TakeSession(asked.session)
           ELSE IF asked.task # None /\ HomeOf(asked.task) # None
             THEN TakeSession(HomeOf(asked.task))
           ELSE IF active # None THEN TakeSession(active)
           ELSE Proceed("ended")

SelectEndedSession ==
    /\ Reading("ended")
    /\ TakeSession(LatestOf({s \in Sessions : sessions[s].end # 0},
                            [s \in Sessions |-> sessions[s].end]))

\* The tasks tried one statement after another; an explicit session keeps the
\* search inside.
TaskReads ==
    LET of(homes) == <<[homes |-> homes, statuses |-> {"active"}],
                       [homes |-> homes, statuses |-> Incomplete]>>
    IN  (IF resume.session # None THEN of({resume.session}) ELSE <<>>)
          \o (IF resume.asked.session = None THEN of(SomeSession) ELSE <<>>)

LatestTask(read) ==
    LatestOf({t \in Works : works[t].status \in read.statuses /\ HomeOf(t) \in read.homes},
             [t \in Works |-> works[t].at])

TakeTask(t) == resume' = [resume EXCEPT !.task = t, !.reads = 0, !.step = "checkpoint"]

SelectTask ==
    /\ Reading("task")
    /\ IF resume.asked.task # None THEN TakeTask(resume.asked.task)
       ELSE IF resume.reads = Len(TaskReads) THEN TakeTask(None)
       ELSE LET t == LatestTask(TaskReads[resume.reads + 1])
            IN  IF t # None THEN TakeTask(t)
                            ELSE resume' = [resume EXCEPT !.reads = @ + 1]

-----------------------------------------------------------------------------
(* The checkpoint and the evidence *)

TakeCheckpoint(c) == resume' = [resume EXCEPT !.checkpoint = c, !.step = "evidence"]

SelectCheckpoint ==
    LET t == resume.task
        ofTask == Newest({c \in saved : c.task = t})
    IN  /\ Reading("checkpoint")
        /\ IF t = None
             THEN TakeCheckpoint(Newest({c \in saved : resume.session \in {None, c.session}}))
           ELSE IF ofTask = NoRecord /\ HomeOf(t) # None THEN Proceed("taskless")
           ELSE TakeCheckpoint(ofTask)

LatestOfSession(s) == Newest({c \in saved : c.session = s}) \* mutated: of any task
LatestTaskless(s) == Newest({c \in saved : c.session = s /\ c.task = None})

\* A task never falls through to the checkpoint of another task (D031).
SelectTaskless ==
    /\ Reading("taskless")
    /\ TakeCheckpoint(LatestTaskless(HomeOf(resume.task)))

SelectEvidence ==
    LET home == IF resume.task = None THEN None ELSE HomeOf(resume.task)
        s == IF resume.checkpoint # NoRecord THEN resume.checkpoint.session
             ELSE IF home # None THEN home ELSE resume.session
    IN  /\ Reading("evidence")
        /\ resume' = [resume EXCEPT !.step = "list", !.evidence = s,
                         !.window = IF s = None THEN @ ELSE sessions[s]]

\* resume_memories, with the decisions the checkpoint names.
ListNotes ==
    LET inScope(n) == IF resume.task # None THEN notes[n].task = resume.task
                      ELSE resume.evidence # None /\ notes[n].session = resume.evidence
        named == IF resume.checkpoint = NoRecord THEN {} ELSE resume.checkpoint.decisions
    IN  /\ Reading("list")
        /\ resume' = [resume EXCEPT !.step = "note",
               !.notes = named \cup {n \in Notes : notes[n].state = "trusted" /\ inScope(n)}]

\* resume_memory looks again, context_source_candidate once more.
LookAtNote(n) ==
    /\ Reading("note") /\ n \in resume.notes
    /\ resume' = [resume EXCEPT !.notes = @ \ {n},
                     !.looked = IF notes[n].state = "trusted" THEN n ELSE None,
                     !.step = IF notes[n].state = "trusted" THEN "source" ELSE "note"]

CiteNote ==
    LET n == resume.looked
    IN  /\ Reading("source")
        /\ resume' = [resume EXCEPT !.step = "note", !.looked = None,
               !.cited = IF notes[n].state = "withdrawn" THEN @
                         ELSE @ \cup {[note |-> n, current |-> notes[n].state = "trusted"]}]

NotesRead == Reading("note") /\ resume.notes = {} /\ Proceed("events")

\* resume_events: the oldest of the window, scoped or unscoped.
ReadEvents ==
    LET until == IF resume.window.end = 0 THEN resume.now ELSE resume.window.end
        found == {e \in happened :
                     /\ e.at \in resume.window.at .. until
                     /\ e.session \in {None, resume.evidence}
                     /\ resume.task = None \/ e.task \in {None, resume.task}}
    IN  /\ Reading("events")
        /\ resume' = [resume EXCEPT !.step = "answered",
               !.events = IF resume.evidence = None THEN {}
                          ELSE {e \in found :
                                   Cardinality({o \in found : o.at < e.at}) < MaxResumeEvents}]

Answered == Reading("answered") /\ resume' = Quiet

-----------------------------------------------------------------------------
Resumes ==
    \/ \E s \in SomeSession, t \in SomeWork : AskToResume(s, t)
    \/ SelectSession \/ SelectEndedSession \/ SelectTask
    \/ SelectCheckpoint \/ SelectTaskless \/ SelectEvidence
    \/ ListNotes \/ (\E n \in Notes : LookAtNote(n)) \/ CiteNote \/ NotesRead
    \/ ReadEvents \/ Answered

Writes ==
    \/ \E s \in Sessions : StartSession(s) \/ EndSession(s)
    \/ \E t \in Works : \/ \E s \in SomeSession : StartTask(t, s)
                        \/ \E status \in Incomplete \cup {"done"} : UpdateTask(t, status)
    \/ \E s \in SomeSession, t \in SomeWork :
          RecordEvent(s, t) \/ \E n \in Notes : RecordMemory(n, s, t)
    \/ \E n \in Notes, state \in {"superseded", "withdrawn"} : Retire(n, state)

Checkpoints ==
    \/ \E s \in Sessions, t \in SomeWork, decisions \in SUBSET Notes :
          CheckCheckpoint(s, t, decisions)
    \/ InsertCheckpoint

ResumeNext == Resumes \/ Writes \/ Checkpoints

ResumeSpec == ResumeInit /\ [][ResumeNext]_resumeVars

-----------------------------------------------------------------------------
(* Properties *)

Earlier(at) == at \in 1 .. resume.now

\* The parts of the answer belong together: task to session, checkpoint to
\* task, evidence to checkpoint, events to evidence.
Coherent ==
    LET t == resume.task c == resume.checkpoint asked == resume.asked
    IN  /\ asked.session # None =>
              resume.session = asked.session /\ (t # None => HomeOf(t) = asked.session)
        /\ asked.task # None => t = asked.task
        /\ t # None /\ c # NoRecord => c.task \in {t, None}
        /\ t # None /\ HomeOf(t) # None => resume.evidence = HomeOf(t)
        /\ c # NoRecord => resume.evidence = c.session
        /\ \A e \in resume.events : /\ e.session \in {None, resume.evidence}
                                    /\ e.at >= sessions[resume.evidence].at

\* Nothing that was there before the request and stayed is passed over for
\* something older, and nothing that was over by then is taken up.
UpToDate ==
    LET s == resume.session t == resume.task c == resume.checkpoint asked == resume.asked
        newer(mine, others) == \A o \in others : mine >= o
    IN  /\ asked.session = None /\ (asked.task = None \/ HomeOf(asked.task) = None) =>
              newer(IF s = None THEN 0 ELSE IF Earlier(sessions[s].end) THEN 0 ELSE sessions[s].at,
                    {sessions[o].at : o \in {o \in Sessions : Open(o) /\ Earlier(sessions[o].at)}})
        /\ asked.task = None =>
              /\ t # None => works[t].status # "done" \/ ~Earlier(works[t].at)
              /\ newer(IF t # None /\ HomeOf(t) = s THEN works[t].at ELSE 0,
                       {works[o].at : o \in {o \in Works :
                           /\ works[o].status = "active" /\ Earlier(works[o].at)
                           /\ s # None /\ HomeOf(o) = s}})
        /\ t # None \/ s # None =>
              newer(c.at, {o.at : o \in {o \in saved : Earlier(o.at) /\
                              IF t # None THEN o.task = t ELSE o.session = s}})
        /\ \A n \in resume.cited : notes[n.note].state = "trusted" \/ ~Earlier(notes[n.note].at)

\* Hazard: sessions, tasks and checkpoints that move between the reads of a
\* resume_context, and a checkpoint stored after its session ended.
ResumedWorkIsWhole == resume.step = "answered" => Coherent /\ UpToDate
=============================================================================
