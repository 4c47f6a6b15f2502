---------------------------- MODULE EvidenceReports ----------------------------
(***************************************************************************)
(* What an event says once it is decoded: an action, the result of a       *)
(* verifier, or nothing; and when a failed result has a signature.         *)
(*                                                                         *)
(* Data abstraction.  A payload is reduced to what its decoder and its     *)
(* normalizer decide by.  Identifiers, paths and digests are well formed   *)
(* and within their limits; there is one test profile and one verifier     *)
(* rule, and "flaws" lists what a report lacks to be one of theirs.        *)
(***************************************************************************)
EXTENDS Naturals, FiniteSets

CONSTANTS
    Names,   \* packages, targets, tests, paths
    Inputs,  \* inventories, settings and inputs of test runs
    Causes   \* error codes with their types, names of tests

EvidenceContract ==
    {"tool", "source", "rustc", "cargo", "testrun", "verifier", "acceptance"}

SourceChangeKind == {"created", "modified", "removed", "renamed"}

\* The events that take part in what is observed, and the others.
MaterialType == SourceChangeKind \cup {"compiler", "test", "tool", "acceptance"}
EventType == MaterialType \cup {"note"}

EvidenceSubject ==
    [kind : {"workspace", "package", "target", "test", "path"}, value : Names]

\* An error with a code and both types, a code or a name alone, or only a text.
Failure == [cause : Causes, identity : {"typed", "named", "bare"}]

\* What a test run reports besides parent cases whose assertion failed.
NotExecuted == {"skipped", "todo", "pending"}
Failing == {"errored", "unexpected_successful", "child_failed", "run_error"}
RunReport == {"passed", "expected_failed"} \cup NotExecuted \cup Failing

\* Departures from the profile: components, selection, inventory, retries, ...
Flaw == {"profile", "selection", "inventory", "children", "retried", "repeated",
         "settings", "inputs", "artifact", "rule"}

\* "claim" is what the payload itself says of its outcome.
Claim == SourceChangeKind \cup {"passed", "failed", "completed", "accepted", "none"}

EvidenceEvent ==
    [contract : EvidenceContract \cup {"unknown"}, type : EventType, session : BOOLEAN,
     subject : EvidenceSubject, claim : Claim, exit : {"zero", "nonzero", "none"},
     failures : SUBSET Failure, seen : SUBSET RunReport, flaws : SUBSET Flaw,
     inputs : Inputs]

-----------------------------------------------------------------------------
(* Decoders: one for each contract *)

SupportedTypes ==
    [tool |-> {"tool"}, verifier |-> {"tool"}, rustc |-> {"compiler"},
     cargo |-> {"test"}, testrun |-> {"test"}, acceptance |-> {"acceptance"},
     source |-> SourceChangeKind]

Exited(e) == e.exit # "none"

ToolDecodes(e) == Exited(e)

\* A compiler or a test command exits with zero exactly if it lists no error.
RustcDecodes(e) ==
    /\ e.subject.kind \notin {"test", "path"}
    /\ Exited(e) /\ (e.exit = "zero" <=> e.failures = {})

CargoDecodes(e) ==
    /\ e.subject.kind # "path"
    /\ Exited(e) /\ (e.exit = "zero" <=> e.failures = {})

\* validate_test_exit_consistency
FailureReported(e) == e.failures # {} \/ e.seen \cap Failing # {}

TestRunDecodes(e) ==
    e.claim = "completed" => Exited(e) /\ (e.exit = "zero" <=> ~FailureReported(e))

VerifierDecodes(e) ==
    /\ Exited(e) /\ e.claim \in {"passed", "failed"}
    /\ e.claim = "passed" <=> e.exit = "zero"

SourceDecodes(e) == e.claim = e.type

AcceptanceDecodes(e) == e.claim = "accepted"

ContractDecodes(e) ==
    \/ e.contract = "tool" /\ ToolDecodes(e)
    \/ e.contract = "rustc" /\ RustcDecodes(e)
    \/ e.contract = "cargo" /\ CargoDecodes(e)
    \/ e.contract = "testrun" /\ TestRunDecodes(e)
    \/ e.contract = "verifier" /\ VerifierDecodes(e)
    \/ e.contract = "source" /\ SourceDecodes(e)
    \/ e.contract = "acceptance" /\ AcceptanceDecodes(e)

\* header: no contract or version, or one that nobody decodes, is unsupported.
HasDecoder(e) == e.contract \in EvidenceContract

HasProvenance(e) == e.session

Decoded(e) ==
    /\ HasDecoder(e) /\ HasProvenance(e)
    /\ e.type \in SupportedTypes[e.contract]
    /\ ContractDecodes(e)

Material(e) == e.type \in MaterialType

-----------------------------------------------------------------------------
(* Eligibility of test runs *)

AllPassed(e) == e.failures = {} /\ e.seen = {"passed"}

OneFailed(e) == Cardinality(e.failures) = 1 /\ e.seen \subseteq {"passed"}

\* No issue with the profile, the inventory, the settings and the inputs.
QualifiedRun(e) == e.flaws = {} /\ e.claim = "completed"

\* assess_report
ReportAssessment(e) ==
    CASE QualifiedRun(e) /\ e.exit = "zero" /\ AllPassed(e) -> "eligible_passed"
      [] QualifiedRun(e) /\ e.exit = "nonzero" /\ OneFailed(e) -> "eligible_failed"
      [] OTHER -> "ineligible"

-----------------------------------------------------------------------------
(* Failure normalizers: at most one signature *)

Signature(e, cause, exact) ==
    [rule |-> e.contract, subject |-> e.subject, cause |-> cause, exact |-> exact]

\* The only failure there is, if it has an identity.
Identified(e) ==
    {f \in e.failures : e.failures = {f} /\ f.identity # "bare"}

\* Only a compiler error with both of its types is identified; any other is one
\* of a class.
RustcSignature(e) ==
    {Signature(e, f.cause, f.identity = "typed") : f \in Identified(e)}

CargoSignature(e) == {Signature(e, f.cause, FALSE) : f \in Identified(e)}

TestRunSignature(e) ==
    {Signature(e, f.cause, FALSE) : f \in {g \in e.failures : ReportAssessment(e) = "eligible_failed"}}

\* VerifierRule::cargo_check_v1
RuleAllows(e) == e.flaws = {} /\ e.subject.kind \in {"workspace", "package", "target"}

NoCause == "exit"
ToolSignature(e) ==
    {Signature(e, c, FALSE) : c \in {d \in {NoCause} : e.claim = "failed" /\ RuleAllows(e)}}

Normalized(e) ==
    CASE e.contract = "rustc" -> RustcSignature(e)
      [] e.contract = "cargo" -> CargoSignature(e)
      [] e.contract = "testrun" -> TestRunSignature(e)
      [] e.contract = "verifier" -> ToolSignature(e)
      [] OTHER -> {}

-----------------------------------------------------------------------------
(* classify_observation *)

IsAction(e) == Decoded(e) /\ e.contract \in {"tool", "source"}
IsResult(e) == Decoded(e) /\ e.contract \notin {"tool", "source"}

Status(e) ==
    CASE e.contract = "acceptance" -> "explicitly_accepted"
      [] e.contract # "acceptance" /\ e.exit = "zero" -> "verified_passed"
      [] OTHER -> "verified_failed"

\* No statement can be based on it: nothing ran, the report is not eligible, the
\* rule is not registered, or the failure has no signature.
Unusable(e) ==
    /\ IsResult(e)
    /\ \/ e.contract = "cargo" /\ e.exit = "zero" /\ "passed" \notin e.seen
       \/ e.contract = "testrun" /\ ReportAssessment(e) = "ineligible"
       \/ e.contract = "verifier" /\ ~RuleAllows(e)
       \/ Status(e) = "verified_failed" /\ Normalized(e) = {}

\* scope_fingerprint makes the inputs of a test run part of its scope.
NoDetail == "none"
ASSUME InputsAreDetails == NoDetail \notin Inputs
Scope(e) ==
    [rule |-> e.contract, subject |-> e.subject,
     detail |-> IF e.contract = "testrun" THEN e.inputs ELSE NoDetail]

\* The result at place i of an episode.
Result(i, e) ==
    [at |-> i, status |-> Status(e), scope |-> Scope(e), failure |-> Normalized(e)]
=============================================================================
