--------------------------- MODULE ExperienceReview ---------------------------
(***************************************************************************)
(* What reviewers say of accepted experiences, and the disputes the system *)
(* proposes when a failure comes back.                                     *)
(*                                                                         *)
(* Assessments are only appended.  The transaction that appends one is     *)
(* deferred like a mutation of an episode: a lookup of the request key,    *)
(* then a write that fails when another connection committed in between.    *)
(* A proposal reads candidates, lifecycles and the order of writes in      *)
(* separate statements.                                                    *)
(*                                                                         *)
(* Data abstraction.  All experiences are verified successes with one      *)
(* failure signature, all failures are exact occurrences of it; others are  *)
(* filtered by values that never change.  Every content of a review has its *)
(* request key: a repetition is answered from the row, a key with another   *)
(* content is refused, and neither changes anything.                        *)
(***************************************************************************)
EXTENDS Integers, Sequences

CONSTANTS
    Reviewers,   \* callers of the service
    Lessons,     \* identities of experiences
    Failures,    \* identities of events that decode to the failure
    MaxReviews   \* bound: assessments

ASSUME ReviewBounds == MaxReviews \in Nat
ASSUME ReviewNames == Lessons \cap Failures = {}

VARIABLES
    legacy,       \* rows older than the order of writes
    writeOrder,   \* historical_write_order: events and acceptances
    assessments,  \* experience_assessments, in the order of their commits
    reviewer      \* each caller's operation

reviewVars == <<legacy, writeOrder, assessments, reviewer>>

Kinds == {"disputed", "refuted", "superseded", "confirmed"}
Nothing == "nothing"

Assessment == [lesson : Lessons, kind : Kinds, by : Lessons \cup {Nothing}]

Ordered == {writeOrder[i] : i \in 1 .. Len(writeOrder)}
Stored == legacy \cup Ordered
Said == {assessments[i] : i \in 1 .. Len(assessments)}

Resting == [step |-> "idle"]

ReviewTypeOK ==
    /\ legacy \subseteq Lessons \cup Failures
    /\ writeOrder \in Seq(Lessons \cup Failures)
    /\ assessments \in Seq(Assessment) /\ Len(assessments) <= MaxReviews
    /\ \A r \in Reviewers :
          \/ reviewer[r] = Resting
          \/ reviewer[r].step \in {"append", "overtaken"} /\ reviewer[r].asks \in Assessment
          \/ reviewer[r].step \in {"compare", "proposed"}
                /\ reviewer[r].hits \subseteq Lessons /\ reviewer[r].failures \subseteq Failures

ReviewInit ==
    /\ legacy \in SUBSET (Lessons \cup Failures)
    /\ writeOrder = <<>>
    /\ assessments = <<>>
    /\ reviewer = [r \in Reviewers |-> Resting]

Lapsed(call) == IF call.step = "append" THEN [call EXCEPT !.step = "overtaken"] ELSE call
AllLapsed == [r \in Reviewers |-> Lapsed(reviewer[r])]

\* A row and its place in the order commit together.
Enter(x) ==
    /\ x \notin Stored
    /\ writeOrder' = Append(writeOrder, x)
    /\ reviewer' = AllLapsed
    /\ UNCHANGED <<legacy, assessments>>

-----------------------------------------------------------------------------
(* review and append_reviewed_experience_assessment *)

\* What the service checks before, on rows that stay as they are.
Reviewable ==
    {a \in Assessment :
        /\ a.lesson \in Stored
        /\ a.kind = "superseded" <=> a.by # Nothing
        /\ a.by # a.lesson /\ a.by \in Stored \cup {Nothing}}

BeginReview(r, a) ==
    /\ reviewer[r] = Resting /\ a \in Reviewable
    /\ a \notin Said /\ Len(assessments) < MaxReviews
    /\ reviewer' = [reviewer EXCEPT ![r] = [step |-> "append", asks |-> a]]
    /\ UNCHANGED <<legacy, writeOrder, assessments>>

Replacements == {<<b.lesson, b.by>> : b \in {b \in Said : b.kind = "superseded"}}

\* The recursive query of the trigger: the least set that has the experience and
\* whatever replaces one of its members.
Successors(lesson) ==
    {x \in Lessons : \A S \in SUBSET Lessons :
        lesson \in S /\ (\A p \in Replacements : p[1] \in S => p[2] \in S) => x \in S}

\* mutated: only itself is no replacement
IsItself(a) == a.by = a.lesson
ClosesCycle(a) == a.lesson \in Successors(a.by)

Refused(a) ==
    /\ a.kind = "superseded"
    /\ \/ ClosesCycle(a)
       \/ \E p \in Replacements : p[1] = a.lesson

\* A trigger or the single replacement refuses, or the row is appended.
AppendReview(r) ==
    LET a == reviewer[r].asks
    IN  /\ reviewer[r].step = "append"
        /\ \/ /\ Refused(a)
              /\ reviewer' = [reviewer EXCEPT ![r] = Resting]
              /\ UNCHANGED assessments
           \/ /\ ~Refused(a) /\ Len(assessments) < MaxReviews
              /\ assessments' = Append(assessments, a)
              /\ reviewer' = [AllLapsed EXCEPT ![r] = Resting]
        /\ UNCHANGED <<legacy, writeOrder>>

\* SQLITE_BUSY_SNAPSHOT, or the bound is reached.
LoseReview(r) ==
    /\ \/ reviewer[r].step = "overtaken"
       \/ reviewer[r].step = "append" /\ Len(assessments) = MaxReviews
    /\ reviewer' = [reviewer EXCEPT ![r] = Resting]
    /\ UNCHANGED <<legacy, writeOrder, assessments>>

-----------------------------------------------------------------------------
(* experience_lifecycle and propose_disputes *)

Kind(lesson) == {b.kind : b \in {b \in Said : b.lesson = lesson}}

\* mutated: the latest assessment decides
LatestLifecycle(lesson) ==
    LET own == {i \in 1 .. Len(assessments) : assessments[i].lesson = lesson}
    IN  IF own = {} THEN "active"
        ELSE LET last == CHOOSE i \in own : \A j \in own : j <= i
             IN  IF assessments[last].kind = "confirmed" THEN "active"
                 ELSE assessments[last].kind

Lifecycle(lesson) ==
    CASE "superseded" \in Kind(lesson) -> "superseded"
      [] "superseded" \notin Kind(lesson) /\ "refuted" \in Kind(lesson) -> "refuted"
      [] Kind(lesson) \cap {"superseded", "refuted"} = {} /\ "disputed" \in Kind(lesson) ->
            "disputed"
      [] OTHER -> "active"

\* The candidates of the search are active when they are read.
Search(r, failures) ==
    /\ reviewer[r] = Resting
    /\ failures # {} /\ failures \subseteq Stored
    /\ reviewer' = [reviewer EXCEPT ![r] =
          [step |-> "compare", failures |-> failures,
           hits |-> {x \in Lessons \cap Stored : Lifecycle(x) = "active"}]]
    /\ UNCHANGED <<legacy, writeOrder, assessments>>

Position(x) == CHOOSE i \in 1 .. Len(writeOrder) : writeOrder[i] = x

\* mutated: rows without a place in the order are passed over
LaterIfOrdered(failures, lesson) ==
    lesson \in Ordered /\ \A x \in failures \cap Ordered : Position(x) > Position(lesson)

\* events_ingressed_after_experience
IngressedAfter(failures, lesson) ==
    /\ lesson \in Ordered /\ failures \subseteq Ordered
    /\ \A x \in failures : Position(x) > Position(lesson)

Compare(r) ==
    /\ reviewer[r].step = "compare"
    /\ reviewer' = [reviewer EXCEPT ![r].step = "proposed",
                                    ![r].hits = {x \in @ : IngressedAfter(reviewer[r].failures, x)}]
    /\ UNCHANGED <<legacy, writeOrder, assessments>>

ForgetProposal(r) ==
    /\ reviewer[r].step = "proposed"
    /\ reviewer' = [reviewer EXCEPT ![r] = Resting]
    /\ UNCHANGED <<legacy, writeOrder, assessments>>

ReviewNext ==
    \/ \E x \in Lessons \cup Failures : Enter(x)
    \/ \E r \in Reviewers :
          \/ \E a \in Reviewable : BeginReview(r, a)
          \/ AppendReview(r) \/ LoseReview(r)
          \/ \E failures \in SUBSET Failures : Search(r, failures)
          \/ Compare(r) \/ ForgetProposal(r)

ReviewSpec == ReviewInit /\ [][ReviewNext]_reviewVars

-----------------------------------------------------------------------------
(* Properties *)

\* An experience is replaced at most once, and following the replacements
\* never leads back, whichever reviewers decide at the same time: an
\* experience that nothing has replaced is at the end of every chain.
ReplacementsEnd ==
    /\ \A p, q \in Replacements : p[1] = q[1] => p = q
    /\ \A x \in Lessons : \A y \in {p[2] : p \in {q \in Replacements : q[1] = x}} :
          x \notin Successors(y)

Severity(lifecycle) ==
    CASE lifecycle = "active" -> 0 [] lifecycle = "disputed" -> 1
      [] lifecycle = "refuted" -> 2 [] lifecycle = "superseded" -> 3

\* No review, in whatever order reviews commit, brings an experience back
\* towards ordinary use: negative verdicts survive later confirmations.
VerdictsStay ==
    [][\A x \in Lessons : Severity(Lifecycle(x)') >= Severity(Lifecycle(x))]_reviewVars

\* A proposed dispute is a recurrence: every failure it names entered the
\* database after the experience was accepted.  A row without a place in the
\* order cannot show that, and an entry made meanwhile does not change it.
DisputesAreRecurrences ==
    \A r \in Reviewers : reviewer[r].step = "proposed" =>
        \A x \in reviewer[r].hits : \A f \in reviewer[r].failures :
            \E i, j \in 1 .. Len(writeOrder) : i < j /\ writeOrder[i] = x /\ writeOrder[j] = f
=============================================================================
