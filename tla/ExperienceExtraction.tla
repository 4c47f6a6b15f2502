-------------------------- MODULE ExperienceExtraction --------------------------
(***************************************************************************)
(* The experience that an episode of observed events supports.             *)
(*                                                                         *)
(* The consolidator scans the members of a terminal episode in order: one  *)
(* action of this module is one turn of its loop.  It remembers the first  *)
(* failure, gathers actions into attempts, gives each attempt the results  *)
(* that follow it, and gives up at the first event it cannot place.        *)
(***************************************************************************)
EXTENDS ExperienceRecord, SequencesExt

CONSTANTS
    Observations,  \* events that occur in episodes
    MaxEvents      \* bound: members of the episode

ASSUME ObservationsGiven == Observations \subseteq EvidenceEvent /\ MaxEvents \in Nat

VARIABLES
    members,   \* the events scanned so far
    initial,   \* the first failure: no result, or one
    repeats,   \* places of its repetitions before anything was tried
    attempts,  \* BuiltAttempt
    pending,   \* places of the actions that no result follows yet
    snapshot,  \* historical_snapshot_required
    phase,     \* scanning, given up, or the preview is there
    preview

scanVars == <<members, initial, repeats, attempts, pending, snapshot, phase, preview>>

NoPreview == [outcome |-> "none"]

ScanTypeOK ==
    /\ members \in Seq(Observations) /\ Len(members) <= MaxEvents
    /\ Cardinality(initial) <= 1
    /\ repeats \cup pending \subseteq 1 .. Len(members)
    /\ \A i \in DOMAIN attempts :
          attempts[i].changes \subseteq 1 .. Len(members) /\ attempts[i].changes # {}
    /\ snapshot \in BOOLEAN
    /\ phase \in {"scanning", "refused", "previewed"}
    /\ phase = "previewed" /\ preview.given # NoPreview => RecordTypeOK(preview.given)

ScanInit ==
    /\ members = <<>> /\ initial = {} /\ repeats = {} /\ attempts = <<>>
    /\ pending = {} /\ snapshot = FALSE
    /\ phase = "scanning" /\ preview = NoPreview

Next1 == Len(members) + 1

\* The next member of the episode.
Reads(e) ==
    /\ phase = "scanning" /\ Len(members) < MaxEvents
    /\ members' = Append(members, e)
    /\ UNCHANGED preview

TheFailure == CHOOSE f \in initial : TRUE

Positive(r) == r.status \in {"verified_passed", "explicitly_accepted"}

SameExactly(r, s) ==
    \E x \in r.failure, y \in s.failure : x.exact /\ y.exact /\ x = y

SupportsInitialScope(r) ==
    IF r.status = "explicitly_accepted" THEN r.scope.subject = TheFailure.scope.subject
    ELSE r.scope = TheFailure.scope

\* mutated: any result extends the frontier
AnyTerminal(r) == TRUE
EligibleTerminal(r) ==
    IF r.status = "explicitly_accepted" THEN r.scope.subject = TheFailure.scope.subject
    ELSE /\ r.scope.rule = TheFailure.scope.rule
         /\ (TheFailure.scope.detail = NoDetail \/ r.scope = TheFailure.scope)

AttemptResult(r) ==
    CASE Positive(r) -> "verification_passed"
      [] ~Positive(r) /\ SameExactly(r, TheFailure) -> "still_failing"
      [] ~Positive(r) /\ ~SameExactly(r, TheFailure)
            /\ (\E x \in r.failure, y \in TheFailure.failure : x.exact /\ y.exact) ->
            "verification_changed_failure"
      [] OTHER -> "verification_failed"

-----------------------------------------------------------------------------
(* One turn of the loop *)

PassOver(e) ==
    /\ Reads(e) /\ ~Decoded(e) /\ ~Material(e)
    /\ UNCHANGED <<initial, repeats, attempts, pending, snapshot, phase>>

GiveUp ==
    /\ phase' = "refused"
    /\ UNCHANGED <<initial, repeats, attempts, pending, snapshot>>

\* A material event that does not decode, or that states nothing usable.
Unplaceable(e) == Reads(e) /\ GiveUp /\ ((~Decoded(e) /\ Material(e)) \/ Unusable(e))

Act(e) ==
    /\ Reads(e) /\ IsAction(e)
    /\ IF initial = {} THEN UNCHANGED <<pending, snapshot>>
       ELSE /\ pending' = pending \cup {Next1}
            /\ snapshot' = (snapshot \/ e.contract = "source")
    /\ UNCHANGED <<initial, repeats, attempts, phase>>

Usable(e) == IsResult(e) /\ ~Unusable(e)

BeforeFailure(e) ==
    /\ Reads(e) /\ initial = {} /\ Usable(e)
    /\ initial' = IF Status(e) = "verified_failed" THEN {Result(Next1, e)} ELSE {}
    /\ UNCHANGED <<repeats, attempts, pending, snapshot, phase>>

Untried == pending = {} /\ attempts = <<>>

IsRepeat(r) ==
    r.status = "verified_failed" /\ r.scope = TheFailure.scope /\ SameExactly(r, TheFailure)

BeforeAttempt(e) ==
    LET r == Result(Next1, e)
    IN  /\ Reads(e) /\ initial # {} /\ Untried /\ Usable(e)
        /\ \/ /\ IsRepeat(r)
              /\ repeats' = repeats \cup {Next1}
              /\ UNCHANGED <<initial, attempts, pending, snapshot, phase>>
           \/ ~IsRepeat(r) /\ GiveUp

AfterActions(e) ==
    LET r == Result(Next1, e)
    IN  /\ Reads(e) /\ initial # {} /\ pending # {} /\ Usable(e)
        /\ \/ /\ SupportsInitialScope(r)
              /\ attempts' = Append(attempts,
                    [changes |-> pending, results |-> <<r>>, result |-> AttemptResult(r)])
              /\ pending' = {}
              /\ UNCHANGED <<initial, repeats, snapshot, phase>>
           \/ ~SupportsInitialScope(r) /\ GiveUp

AfterResult(e) ==
    LET r == Result(Next1, e)
    IN  /\ Reads(e) /\ initial # {} /\ pending = {} /\ attempts # <<>> /\ Usable(e)
        /\ \/ /\ EligibleTerminal(r)
              /\ attempts' = [attempts EXCEPT ![Len(attempts)].results = Append(@, r)]
              /\ UNCHANGED <<initial, repeats, pending, snapshot, phase>>
           \/ ~EligibleTerminal(r) /\ GiveUp

-----------------------------------------------------------------------------
(* The end of the scan *)

Terminals == ToSet(Last(attempts).results)

\* terminal_outcome
TerminalOutcome(R) ==
    LET good == {r \in R : Positive(r)} bad == R \ good
    IN  CASE \E r \in good, s \in bad : r.scope.subject = s.scope.subject -> "none"
          [] good # {} /\ bad = {} -> "success"
          [] good = {} /\ bad # {} -> "failure"
          [] OTHER -> "partial_success"

\* The verdict that goes with an outcome.
VerificationOf(outcome, R) ==
    CASE outcome = "abandoned" -> "missing"
      [] outcome = "failure" -> "verified_failed"
      [] outcome = "partial_success" -> "conflicting"
      [] OTHER -> IF \A r \in R : r.status = "explicitly_accepted" THEN "explicitly_accepted"
                  ELSE "verified_passed"

Repeated(R) ==
    R # {} /\ \A r \in R : \E s \in R \ {r} : r.status = s.status /\ r.scope = s.scope

UsesAcceptance(R) == \E r \in R : r.status = "explicitly_accepted"

Proposed(tried, abandoned, R) ==
    LET outcome == IF abandoned THEN "abandoned" ELSE TerminalOutcome(R)
        repeated == ~UsesAcceptance(R) /\ Repeated(R)
    IN  [outcome |-> outcome, status |-> VerificationOf(outcome, R),
         failure |-> TheFailure.at, attempts |-> tried, observations |-> R,
         relation |-> Relations(TheFailure.at, repeats, tried, abandoned),
         strength |-> CASE abandoned -> "weak"
                        [] ~abandoned /\ repeated -> "strong"
                        [] OTHER -> "moderate",
         bases |-> Bases(R, repeated),
         automatic |-> ~snapshot /\ ~UsesAcceptance(R) /\ ~abandoned]

\* The attempt that nothing followed.
Inconclusive == [changes |-> pending, results |-> <<>>, result |-> "inconclusive"]

Extracted(status) ==
    LET abandoned == status = "abandoned"
        tried == IF pending = {} THEN attempts ELSE Append(attempts, Inconclusive)
        frontier == IF abandoned THEN {} ELSE Terminals
    IN  CASE phase = "refused" \/ initial = {} -> NoPreview
          [] phase # "refused" /\ initial # {} /\ pending # {} /\ ~abandoned -> NoPreview
          [] phase # "refused" /\ initial # {} /\ Untried -> NoPreview
          [] OTHER -> IF ~abandoned /\ TerminalOutcome(frontier) = "none" THEN NoPreview
                      ELSE Proposed(tried, abandoned, frontier)

Conclude(status) ==
    /\ phase # "previewed"
    /\ phase' = "previewed"
    /\ preview' = [status |-> status, given |-> Extracted(status)]
    /\ UNCHANGED <<members, initial, repeats, attempts, pending, snapshot>>

ScanNext ==
    \/ \E e \in Observations :
          \/ PassOver(e) \/ Unplaceable(e) \/ Act(e) \/ BeforeFailure(e)
          \/ BeforeAttempt(e) \/ AfterActions(e) \/ AfterResult(e)
    \/ \E status \in {"closed", "abandoned"} : Conclude(status)

ScanSpec == ScanInit /\ [][ScanNext]_scanVars

-----------------------------------------------------------------------------
(* Properties: what the places of the events alone say *)

Places == 1 .. Len(members)
ResultAt(i) == Result(i, members[i])
ActionPlaces == {i \in Places : IsAction(members[i])}
ResultPlaces == {i \in Places : Usable(members[i])}
FailedPlaces == {i \in ResultPlaces : Status(members[i]) = "verified_failed"}

First(S) == CHOOSE i \in S : \A j \in S : i <= j
Latest(S) == CHOOSE i \in S : \A j \in S : j <= i

\* The results that immediately follow an action, not counting what is passed
\* over.
Follows(i) ==
    LET before == {j \in ActionPlaces \cup ResultPlaces : j < i}
    IN  before # {} /\ Latest(before) \in ActionPlaces

\* After the first failure: the results, the actions, the results that come
\* right after actions, and the results after the last of the actions.
Failed == First(FailedPlaces)
Later == {i \in ResultPlaces : i > Failed}
Tries == {i \in ActionPlaces : i > Failed}
Leading == {i \in Later : Follows(i)}
FinalRun == {i \in Later : i > Latest(Tries)}

\* A verdict on one subject that contradicts another one on it.
Mixed ==
    \E i, j \in FinalRun :
        /\ Positive(ResultAt(i)) /\ ~Positive(ResultAt(j))
        /\ members[i].subject = members[j].subject

\* Every material event has its place in the episode.
AllPlaced ==
    /\ \A i \in Places \ (ActionPlaces \cup ResultPlaces) :
          ~Decoded(members[i]) /\ ~Material(members[i])
    /\ FailedPlaces # {} /\ Tries # {}
    /\ \A i \in Later : i < First(Tries) =>
          /\ Scope(members[i]) = Scope(members[Failed])
          /\ Status(members[i]) = "verified_failed"
          /\ \E x \in Normalized(members[i]) : x.exact /\ x \in Normalized(members[Failed])
    /\ \A i \in Leading : members[i].subject = members[Failed].subject
    /\ \A i \in {j \in Later : j > First(Tries)} :
          \/ /\ members[i].contract = "acceptance"
             /\ members[i].subject = members[Failed].subject
          \/ /\ members[i].contract = members[Failed].contract
             /\ (members[Failed].contract = "testrun" \/ i \in Leading) =>
                   Scope(members[i]) = Scope(members[Failed])

\* Nobody has to look at a proposal only if the episode was closed, no source
\* changed after the failure, and verifiers alone speak in the final run, for a
\* success one of the first failure's own scope; a strong one has every statement
\* twice (D082).  The review reasons come from the final run: a user's acceptance
\* after an earlier attempt asks for no review, where D081 makes no exception.
StandsOnVerifiers(given, status) ==
    LET terminal == {r.at : r \in given.observations}
    IN  /\ given.automatic =>
              /\ status = "closed"
              /\ \A i \in Tries : members[i].contract # "source"
              /\ \A i \in terminal : members[i].contract # "acceptance"
              /\ given.outcome = "success" =>
                    \E i \in terminal : /\ members[i].exit = "zero"
                                        /\ Scope(members[i]) = Scope(members[Failed])
        /\ given.strength = "strong" =>
              \A i \in terminal : \E j \in terminal \ {i} :
                 /\ Status(members[i]) = Status(members[j])
                 /\ Scope(members[i]) = Scope(members[j])

Attempted == Cardinality(Leading) + (IF FinalRun = {} THEN 1 ELSE 0)
PlacedEvents == {i \in ActionPlaces \cup ResultPlaces : i >= Failed}

\* The episode is no larger than the record of an experience may be.
FitsTheStore(ended) ==
    /\ Attempted <= AttemptLimit /\ Cardinality(PlacedEvents) <= EvidenceLimit
    /\ ended => Cardinality(FinalRun) <= ObservationLimit

\* What a proposal says is what the places say.
SaysWhatHappened(given, ended) ==
    /\ given.failure = Failed
    /\ Len(given.attempts) = Attempted
    /\ UNION {given.attempts[i].changes : i \in DOMAIN given.attempts} = Tries
    /\ \A i, j \in DOMAIN given.attempts : i < j =>
          \A x \in given.attempts[i].changes, y \in given.attempts[j].changes : x < y
    /\ {r.at : r \in given.observations} = IF ended THEN FinalRun ELSE {}
    /\ DOMAIN given.relation = PlacedEvents
    /\ ended => given.outcome =
          (CASE \A i \in FinalRun : Positive(ResultAt(i)) -> "success"
             [] \A i \in FinalRun : ~Positive(ResultAt(i)) -> "failure"
             [] OTHER -> "partial_success")

Evident(given, status) ==
    LET ended == status = "closed"
    IN  /\ given # NoPreview <=> AllPlaced /\ (ended => FinalRun # {} /\ ~Mixed)
        /\ given # NoPreview =>
              /\ StandsOnVerifiers(given, status) /\ SaysWhatHappened(given, ended)
              /\ Consistent(given, status)
              /\ Admitted(given, status) <=> FitsTheStore(ended)

\* D080, D081: an episode yields an experience exactly if every material event
\* in it has its place; what it is said to show is shown by the complete run of
\* results after the last thing that was tried, of the same verifier as the
\* first failure; success means that nothing in that run failed; and every
\* attempt is a run of actions with the result that came next.  Nobody has to
\* review what stands on verifiers alone.  The store refuses a proposal for its
\* size and for nothing else: exactly those of episodes with more attempts, more
\* placed events or a longer final run than a record may have.
PreviewIsTheEvidence == phase = "previewed" => Evident(preview.given, preview.status)
=============================================================================
