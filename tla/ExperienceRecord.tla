----------------------------- MODULE ExperienceRecord -----------------------------
(***************************************************************************)
(* The record of an experience, and what the store demands of one before   *)
(* it inserts it (validate_experience_record).                             *)
(*                                                                         *)
(* A record x says what came of the episode (outcome, status), which event *)
(* stands for what (relation: place -> relation), what was tried           *)
(* (attempts), what the verdict rests on (observations) and how well       *)
(* (strength, bases).  Identifiers, hashes, summaries and snapshots (a       *)
(* proposal has none) are left out.                                        *)
(***************************************************************************)
EXTENDS EvidenceReports, Sequences

CONSTANTS
    AttemptLimit,    \* MAX_EXPERIENCE_ATTEMPTS, 32
    EvidenceLimit,   \* MAX_EXPERIENCE_EVIDENCE, 256
    ObservationLimit \* observations of a verdict, 16

ASSUME RecordLimits == {AttemptLimit, EvidenceLimit, ObservationLimit} \subseteq Nat

ExperienceOutcome == {"success", "failure", "partial_success", "abandoned"}
AttemptOutcome ==
    {"still_failing", "verification_passed", "verification_failed",
     "verification_changed_failure", "inconclusive"}
VerificationStatus ==
    {"verified_passed", "verified_failed", "explicitly_accepted", "conflicting", "missing"}
EvidenceStrength == {"strong", "moderate", "weak"}
EvidenceBasis ==
    {"deterministic_verifier", "repeated_deterministic_evidence",
     "explicit_user_acceptance", "temporal_association"}
EvidenceRelation ==
    {"initial_failure", "attempt_change", "attempt_verification",
     "terminal_verification", "supporting"}

RecordTypeOK(x) ==
    /\ x.outcome \in ExperienceOutcome /\ x.status \in VerificationStatus
    /\ x.strength \in EvidenceStrength /\ x.bases \subseteq EvidenceBasis
    /\ \A p \in DOMAIN x.relation : x.relation[p] \in EvidenceRelation
    /\ \A i \in DOMAIN x.attempts : x.attempts[i].result \in AttemptOutcome

\* An attempt has the actions tried and the results that followed.
Following(a) == {a.results[i].at : i \in {1} \cap DOMAIN a.results}
Additional(a) == {a.results[i].at : i \in DOMAIN a.results \ {1}}

Tried(attempts) == UNION {attempts[i].changes : i \in DOMAIN attempts}
Verified(attempts) == UNION {Following(attempts[i]) : i \in DOMAIN attempts}
Added(attempts) == UNION {Additional(attempts[i]) : i \in DOMAIN attempts}

\* Every event of the sequence has one relation to the experience.
Relations(failure, repeats, attempts, abandoned) ==
    [p \in {failure} \cup repeats \cup Tried(attempts) \cup Verified(attempts)
            \cup Added(attempts) |->
        IF p = failure THEN "initial_failure"
        ELSE IF p \in Tried(attempts) THEN "attempt_change"
        ELSE IF p \in Verified(attempts) THEN "attempt_verification"
        ELSE IF ~abandoned /\ p \in Additional(attempts[Len(attempts)])
             THEN "terminal_verification"
        ELSE "supporting"]

Bases(R, repeated) ==
    {"temporal_association"}
        \cup (IF \E r \in R : r.status # "explicitly_accepted" THEN {"deterministic_verifier"} ELSE {})
        \cup (IF \E r \in R : r.status = "explicitly_accepted" THEN {"explicit_user_acceptance"} ELSE {})
        \cup (IF repeated THEN {"repeated_deterministic_evidence"} ELSE {})

-----------------------------------------------------------------------------
(* The demands *)

HasRelation(x, p, relation) == p \in DOMAIN x.relation /\ x.relation[p] = relation

Disjoint(parts) == \A i, j \in DOMAIN parts : i # j => parts[i] \cap parts[j] = {}

ValidAttempts(x) ==
    /\ x.attempts # <<>> /\ DOMAIN x.relation # {}
    /\ Disjoint([i \in DOMAIN x.attempts |-> x.attempts[i].changes])
    /\ Disjoint([i \in DOMAIN x.attempts |-> Following(x.attempts[i])])
    /\ \A i \in DOMAIN x.attempts :
          /\ x.attempts[i].changes # {}
          /\ \A p \in x.attempts[i].changes : HasRelation(x, p, "attempt_change")
          /\ \A p \in Following(x.attempts[i]) : HasRelation(x, p, "attempt_verification")
          /\ x.attempts[i].result # "inconclusive" => Following(x.attempts[i]) # {}

ValidLinks(x) ==
    \A p \in DOMAIN x.relation :
        /\ x.relation[p] = "attempt_change" => p \in Tried(x.attempts)
        /\ x.relation[p] = "attempt_verification" => p \in Verified(x.attempts)
        /\ x.relation[p] = "terminal_verification" => \E r \in x.observations : r.at = p

ValidObservations(x) ==
    \A r \in x.observations :
        HasRelation(x, r.at, "attempt_verification") \/ HasRelation(x, r.at, "terminal_verification")

Good(R) == {r \in R : r.status \in {"verified_passed", "explicitly_accepted"}}
Bad(R) == R \ Good(R)
Accepted(R) == {r \in R : r.status = "explicitly_accepted"}

ValidOutcome(x) ==
    LET good == Good(x.observations)
        bad == Bad(x.observations)
    IN  CASE x.outcome = "success" ->
                /\ bad = {}
                /\ \/ x.status = "verified_passed" /\ good \ Accepted(good) # {}
                   \/ x.status = "explicitly_accepted" /\ Accepted(good) # {}
          [] x.outcome = "failure" -> bad # {} /\ good = {} /\ x.status = "verified_failed"
          [] x.outcome = "partial_success" ->
                /\ bad # {} /\ good # {} /\ x.status = "conflicting"
                /\ \E r \in good, s \in bad : r.scope.subject # s.scope.subject
          [] x.outcome = "abandoned" -> x.status = "missing" /\ x.observations = {}

Deterministic == {"deterministic_verifier", "repeated_deterministic_evidence"}

ValidStrength(x) ==
    LET verified == x.observations \ Accepted(x.observations)
    IN  /\ x.bases # {}
        /\ x.outcome # "abandoned" => x.strength \in {"strong", "moderate"}
        /\ x.strength \in {"strong", "moderate"} =>
              x.bases \cap (Deterministic \cup {"explicit_user_acceptance"}) # {}
        /\ Accepted(x.observations) # {} => "explicit_user_acceptance" \in x.bases
        /\ verified # {} => x.bases \cap Deterministic # {}
        /\ "repeated_deterministic_evidence" \in x.bases => Cardinality(verified) >= 2

\* An abandoned episode supports only a failed or an abandoned experience.
ValidForEpisode(x, episode) ==
    IF episode = "abandoned" THEN x.outcome \in {"failure", "abandoned"}
    ELSE x.outcome # "abandoned"

WithinLimits(x) ==
    Len(x.attempts) <= AttemptLimit /\ Cardinality(DOMAIN x.relation) <= EvidenceLimit

BoundedVerdict(x) == Cardinality(x.observations) <= ObservationLimit

\* The demands that have nothing to do with size
Consistent(x, episode) ==
    /\ ValidAttempts(x) /\ ValidLinks(x) /\ ValidObservations(x)
    /\ ValidOutcome(x) /\ ValidStrength(x) /\ ValidForEpisode(x, episode)

Admitted(x, episode) == WithinLimits(x) /\ BoundedVerdict(x) /\ Consistent(x, episode)
=============================================================================
