-------------------------- MODULE TemporalRetrieval --------------------------
(***************************************************************************)
(* temporal_retrieval over the rows resume_context reads: the newest        *)
(* sources of a workspace or of one session.                               *)
(*                                                                         *)
(* The bounds are resolved first, with the clock and the session of that   *)
(* moment; one query then takes the best rows in SQL's order, and the       *)
(* service orders what came back in its own.                               *)
(*                                                                         *)
(* Data abstraction.  One chunk stands for code and documents.  The bounds *)
(* on created_at and modified_at only keep more rows out.                  *)
(***************************************************************************)
EXTENDS ResumeContext

CONSTANT RetrievalLimit \* the limit of a query, at most MAX_TEMPORAL_LIMIT

ASSUME RetrievalBound == RetrievalLimit \in Nat

VARIABLES
    edited, \* when the chunk was written last, 0 before
    recall  \* a temporal_retrieval

recallVars == <<edited, recall>>

RecallInit == edited = 0 /\ recall = Quiet

RecallTypeOK ==
    /\ edited \in Hours
    /\ recall.step \in {"idle", "previous", "query", "ordered"}

EditSource ==
    /\ Write /\ edited' = hour'
    /\ UNCHANGED <<sessions, works, notes, saved, happened, saver, recall>>

-----------------------------------------------------------------------------
(* Sources *)

Source(kind, id, session, at, superseded) ==
    [kind |-> kind, id |-> id, session |-> session, at |-> at, superseded |-> superseded]

\* The UNION ALL; "at" is COALESCE(modified_at, created_at).
TimedSources ==
    {Source("session_state", s, s, IF sessions[s].end = 0 THEN sessions[s].at ELSE sessions[s].end,
            FALSE) : s \in {s \in Sessions : Begun(s)}}
    \cup {Source("task_state", t, HomeOf(t), works[t].at, FALSE) :
             t \in {t \in Works : works[t].status # "absent"}}
    \cup {Source("memory", n, notes[n].session, notes[n].born, notes[n].state = "superseded") :
             n \in {n \in Notes : notes[n].state \in {"trusted", "superseded"}}}
    \cup {Source("event", e.at, e.session, e.at, FALSE) : e \in happened}
    \cup {Source("code", "chunk", None, edited, FALSE) : c \in {c \in {edited} : c # 0}}

FreshByType(r) == IF r.kind \in {"code", "task_state"} THEN 3 ELSE 1 \* mutated
FreshInQuery(r) ==
    IF r.superseded THEN 0 ELSE IF r.kind \in {"code", "task_state"} THEN 3 ELSE 1

\* ORDER BY freshness, then the newest; hours are all different.
FirstInQuery(a, b) ==
    \/ FreshInQuery(a) > FreshInQuery(b)
    \/ FreshInQuery(a) = FreshInQuery(b) /\ a.at > b.at

\* freshness_priority and recency_score; what is newer than the clock the
\* request read counts as of now.
Priority(r) ==
    CASE r.superseded -> 0
      [] ~r.superseded /\ r.kind \in {"code", "task_state"} -> 3
      [] OTHER -> 1
Recency(r, now) == IF r.at > now THEN now ELSE r.at
Outranks(a, b, now) ==
    \/ Priority(a) > Priority(b)
    \/ Priority(a) = Priority(b) /\ Recency(a, now) > Recency(b, now)

-----------------------------------------------------------------------------
(* The request *)

Recalling(step) == recall.step = step /\ UNCHANGED <<resumeVars, edited>>

\* resolve_temporal_bounds; the window of a session ends with it, or now.
Bounded(s, now) ==
    [session |-> s, from |-> sessions[s].at,
     until |-> IF sessions[s].end = 0 THEN now ELSE sessions[s].end]
Unbounded == [session |-> None, from |-> 0, until |-> MaxHour]

AskForRecent(s, scope, superseded) ==
    /\ Recalling("idle")
    /\ scope # "any" => Begun(s)
    /\ recall' = [step |-> IF scope = "previous" THEN "previous" ELSE "query", now |-> hour,
                  before |-> IF scope = "any" THEN 0 ELSE sessions[s].at,
                  bounds |-> IF scope = "current" THEN Bounded(s, hour) ELSE Unbounded,
                  superseded |-> superseded, list |-> {}, left |-> {}]

\* previous_session; there may be none.
FindPrevious ==
    LET s == LatestOf({s \in Sessions : Begun(s) /\ sessions[s].at < recall.before},
                      [s \in Sessions |-> sessions[s].at])
    IN  /\ Recalling("previous")
        /\ recall' = IF s = None THEN Quiet
                     ELSE [recall EXCEPT !.step = "query", !.bounds = Bounded(s, recall.now)]

Matches(r) ==
    LET b == recall.bounds
    IN  /\ r.at \in b.from .. b.until
        /\ b.session # None => r.kind = "code" \/ r.session = b.session
        /\ r.superseded => recall.superseded

RunQuery ==
    LET found == {r \in TimedSources : Matches(r)}
        taken == {r \in found : Cardinality({o \in found : FirstInQuery(o, r)}) < RetrievalLimit}
    IN  /\ Recalling("query")
        /\ recall' = [recall EXCEPT !.step = "ordered", !.list = taken, !.left = found \ taken]

Recalled == Recalling("ordered") /\ recall' = Quiet

-----------------------------------------------------------------------------
RecallNext ==
    \/ Writes /\ UNCHANGED recallVars
    \/ EditSource
    \/ \E s \in SomeSession, scope \in {"any", "current", "previous"}, superseded \in BOOLEAN :
          AskForRecent(s, scope, superseded)
    \/ FindPrevious \/ RunQuery \/ Recalled

RecallSpec == ResumeInit /\ RecallInit /\ [][RecallNext]_<<resumeVars, recallVars>>

\* Hazard: the query's order and the service's are written twice, and the
\* clock is read before the rows.  What the limit cuts off does not outrank
\* what it keeps, save for rows newer than the request; and what a session's
\* scope returns is that session's, or code, from its time.
RecallKeepsTheFreshest ==
    recall.step = "ordered" =>
        /\ \A r \in recall.left, kept \in recall.list :
              r.at <= recall.now => ~Outranks(r, kept, recall.now)
        /\ recall.bounds.session # None =>
              \A r \in recall.list :
                 /\ r.session = recall.bounds.session \/ r.kind = "code"
                 /\ r.at >= sessions[recall.bounds.session].at
=============================================================================
