-------------------------- MODULE ExtractionProofs --------------------------
(***************************************************************************
Theorems about what an episode is read as: the scan of its members, the
evidence it quotes, and why the preview it gives stands on that evidence.
***************************************************************************)
EXTENDS ExperienceExtraction, Foundations

-----------------------------------------------------------------------------
(* First and last places *)

LEMMA FirstIs ==
    ASSUME NEW S \in SUBSET Nat, S # {}
    PROVE  First(S) \in S /\ \A j \in S : First(S) <= j
<1>1. \E i \in S : \A j \in S : i <= j
  BY Minimum
<1> QED
  BY <1>1 DEF First

LEMMA FirstGiven ==
    ASSUME NEW S \in SUBSET Nat, NEW i \in S, \A j \in S : i <= j
    PROVE  First(S) = i
<1>1. First(S) \in S /\ First(S) <= i
  BY FirstIs
<1>2. i <= First(S) /\ i \in Nat /\ First(S) \in Nat
  BY <1>1
<1> QED
  BY <1>1, <1>2

LEMMA LatestIs ==
    ASSUME NEW S \in SUBSET Nat, S # {}, NEW bound \in Nat, \A j \in S : j <= bound
    PROVE  Latest(S) \in S /\ \A j \in S : j <= Latest(S)
<1>1. \E i \in S : \A j \in S : j <= i
  BY Maximum
<1> QED
  BY <1>1 DEF Latest

\* The last of the actions and results before one is an action exactly if some
\* action is after all the results before it.
LEMMA LastIsAction ==
    ASSUME NEW A \in SUBSET Nat, NEW R \in SUBSET Nat, A \cap R = {},
           NEW f \in R, NEW i \in Nat, f < i,
           NEW last \in A \cup R, last < i, \A j \in A \cup R : j < i => j <= last
    PROVE  last \in A <=> \E a \in A : /\ f < a /\ a < i
                                       /\ \A r \in R : f < r /\ r < i => r < a
<1>1. f <= last /\ last \in Nat /\ f \in Nat
  OBVIOUS
<1>2. \A j \in A \cup R : j < i => j <= last
  OBVIOUS
<1>3. ASSUME last \in A
      PROVE  \E a \in A : f < a /\ a < i /\ \A r \in R : f < r /\ r < i => r < a
  <2>1. last # f /\ f <= last /\ last \in Nat
    BY <1>1, <1>2, <1>3
  <2>2. \A r \in R : r < i => r < last
    <3> SUFFICES ASSUME NEW r \in R, r < i PROVE r < last
      OBVIOUS
    <3>1. r <= last /\ r # last /\ r \in Nat
      BY <1>2, <1>3
    <3> QED
      BY <2>1, <3>1
  <2> QED
    BY <1>2, <1>3, <2>1, <2>2
<1>4. ASSUME NEW a \in A, f < a, a < i, \A r \in R : f < r /\ r < i => r < a
      PROVE  last \in A
  <2> SUFFICES ASSUME last \notin A PROVE FALSE
    OBVIOUS
  <2>1. last \in R /\ last < i /\ a <= last /\ last \in Nat /\ a \in Nat /\ f \in Nat
    BY <1>2, <1>4
  <2>2. f < last
    BY <1>4, <2>1
  <2>3. last < a
    BY <1>4, <2>1, <2>2
  <2> QED
    BY <2>1, <2>3
<1> QED
  BY <1>3, <1>4

-----------------------------------------------------------------------------
(* What is read *)

MembersTyped == members \in Seq(Observations)

LEMMA PlacesApart ==
    ASSUME MembersTyped
    PROVE  /\ Len(members) \in Nat /\ Places = 1 .. Len(members)
           /\ ActionPlaces \subseteq Places /\ ResultPlaces \subseteq Places
           /\ ActionPlaces \cap ResultPlaces = {} /\ FailedPlaces \subseteq ResultPlaces
           /\ \A i \in Places : i \in Nat /\ members[i] \in Observations
<1>1. Len(members) \in Nat /\ \A i \in 1 .. Len(members) : members[i] \in Observations
  BY LenProperties, ElementOfSeq DEF MembersTyped
<1>2. ActionPlaces \subseteq Places /\ ResultPlaces \subseteq Places
      /\ FailedPlaces \subseteq ResultPlaces
  BY DEF ActionPlaces, ResultPlaces, FailedPlaces
<1>3. ActionPlaces \cap ResultPlaces = {}
  BY DEF ActionPlaces, ResultPlaces, Usable, IsAction, IsResult
<1> QED
  BY <1>1, <1>2, <1>3 DEF Places

\* One more event is read: the old ones stay where they are.
LEMMA Reading ==
    ASSUME MembersTyped, NEW e \in Observations, Reads(e)
    PROVE  /\ MembersTyped' /\ Next1 \in Nat /\ Len(members)' = Next1
           /\ Places' = Places \cup {Next1} /\ \A i \in Places : i < Next1
           /\ members'[Next1] = e /\ \A i \in Places : members'[i] = members[i]
           /\ ActionPlaces' = ActionPlaces \cup {i \in {Next1} : IsAction(e)}
           /\ ResultPlaces' = ResultPlaces \cup {i \in {Next1} : Usable(e)}
           /\ FailedPlaces' = FailedPlaces
                 \cup {i \in {Next1} : Usable(e) /\ Status(e) = "verified_failed"}
<1>1. members' = Append(members, e) /\ members \in Seq(Observations)
  BY DEF Reads, MembersTyped
<1>2. /\ Append(members, e) \in Seq(Observations) /\ Len(members) \in Nat
      /\ Len(Append(members, e)) = Len(members) + 1
      /\ \A i \in 1 .. Len(members) : Append(members, e)[i] = members[i]
      /\ Append(members, e)[Len(members) + 1] = e
  BY <1>1, AppendProperties, LenProperties
<1>3. MembersTyped' /\ Next1 \in Nat /\ Len(members)' = Next1 /\ members'[Next1] = e
  BY <1>1, <1>2 DEF MembersTyped, Next1
<1>4. Places' = Places \cup {Next1} /\ \A i \in Places : i < Next1
  BY <1>2, <1>3 DEF Places, Next1
<1>5. \A i \in Places : members'[i] = members[i]
  BY <1>1, <1>2 DEF Places
<1>6. ActionPlaces' = {i \in Places' : IsAction(members'[i])}
      /\ ResultPlaces' = {i \in Places' : Usable(members'[i])}
  BY DEF ActionPlaces, ResultPlaces, IsAction, Usable, IsResult, Unusable
<1>7. ActionPlaces' = ActionPlaces \cup {i \in {Next1} : IsAction(e)}
  BY <1>3, <1>4, <1>5, <1>6 DEF ActionPlaces
<1>8. ResultPlaces' = ResultPlaces \cup {i \in {Next1} : Usable(e)}
  BY <1>3, <1>4, <1>5, <1>6 DEF ResultPlaces
<1>9. FailedPlaces' = {i \in ResultPlaces' : Status(members'[i]) = "verified_failed"}
  BY DEF FailedPlaces, Status
<1>10. ResultPlaces \subseteq Places
  BY PlacesApart
<1>11. FailedPlaces' = FailedPlaces
          \cup {i \in {Next1} : Usable(e) /\ Status(e) = "verified_failed"}
  BY <1>3, <1>5, <1>8, <1>9, <1>10 DEF FailedPlaces
<1> QED
  BY <1>3, <1>4, <1>5, <1>7, <1>8, <1>11

-----------------------------------------------------------------------------
(* After the first failure *)

\* The results that some action immediately precedes.
LedBy(tries, later) ==
    {i \in later : \E a \in tries : a < i /\ \A r \in later : r < i => r < a}

LEMMA LeadingIs ==
    ASSUME MembersTyped, FailedPlaces # {}
    PROVE  /\ Failed \in FailedPlaces /\ \A i \in FailedPlaces : Failed <= i
           /\ Later \subseteq Places /\ Tries \subseteq Places /\ Later \cap Tries = {}
           /\ Leading = LedBy(Tries, Later)
<1>1. /\ ActionPlaces \in SUBSET Nat /\ ResultPlaces \in SUBSET Nat
      /\ ActionPlaces \cap ResultPlaces = {} /\ FailedPlaces \in SUBSET Nat
      /\ FailedPlaces \subseteq ResultPlaces
  BY PlacesApart
<1>2. Failed \in FailedPlaces /\ \A i \in FailedPlaces : Failed <= i
  BY <1>1, FirstIs DEF Failed
<1> DEFINE A == ActionPlaces
           R == ResultPlaces
           f == Failed
<1>3. A \in SUBSET Nat /\ R \in SUBSET Nat /\ A \cap R = {} /\ f \in R
  BY <1>1, <1>2
<1>4. \A i : Follows(i) = LET before == {j \in A \cup R : j < i}
                          IN  before # {} /\ Latest(before) \in A
  BY DEF Follows
<1>5. Later = {i \in R : i > f} /\ Tries = {i \in A : i > f}
      /\ Leading = {i \in Later : Follows(i)}
  BY DEF Later, Tries, Leading
<1> HIDE DEF A, R, f
<1>6. ASSUME NEW i \in Later
      PROVE  Follows(i) <=> \E a \in Tries : a < i /\ \A r \in Later : r < i => r < a
  <2>1. i \in Nat /\ i \in R /\ f < i
    BY <1>3, <1>5
  <2>2. Follows(i) <=> \E a \in A : /\ f < a /\ a < i
                                    /\ \A r \in R : f < r /\ r < i => r < a
    <3> DEFINE before == {j \in A \cup R : j < i}
               last == Latest(before)
    <3>1. f \in before /\ before \in SUBSET Nat
      BY <1>3, <2>1
    <3>2. \A j \in before : j <= i
      BY <1>3, <2>1
    <3>3. Follows(i) <=> before # {} /\ last \in A
      BY <1>4
    <3>4. \A j : j \in before <=> j \in A \cup R /\ j < i
      OBVIOUS
    <3> HIDE DEF before
    <3>5. last \in before /\ \A j \in before : j <= last
      BY <2>1, <3>1, <3>2, LatestIs
    <3> HIDE DEF last
    <3>6. last \in A \cup R /\ last < i /\ \A j \in A \cup R : j < i => j <= last
      BY <3>4, <3>5
    <3>7. last \in A <=> \E a \in A : /\ f < a /\ a < i
                                      /\ \A r \in R : f < r /\ r < i => r < a
      BY <1>3, <2>1, <3>6, LastIsAction
    <3> QED
      BY <3>1, <3>3, <3>7
  <2>3. \A a \in A : f < a <=> a > f
    BY <1>3
  <2>4. \A r \in R : f < r <=> r > f
    BY <1>3
  <2> QED
    BY <1>5, <2>2, <2>3, <2>4
<1>7. Leading = LedBy(Tries, Later)
  BY <1>5, <1>6 DEF LedBy
<1>8. Later \subseteq Places /\ Tries \subseteq Places /\ Later \cap Tries = {}
  BY PlacesApart DEF Later, Tries
<1> QED
  BY <1>2, <1>7, <1>8

\* What reading one more event does to the places after the first failure.
LEMMA ReadingLater ==
    ASSUME MembersTyped, FailedPlaces # {}, NEW e \in Observations, Reads(e)
    PROVE  /\ FailedPlaces' # {} /\ Failed' = Failed /\ Failed \in Places
           /\ Later' = Later \cup {i \in {Next1} : Usable(e)}
           /\ Tries' = Tries \cup {i \in {Next1} : IsAction(e)}
           /\ Leading' = Leading \cup {i \in {Next1} : Usable(e)
                                          /\ \E a \in Tries : \A r \in Later : r < a}
<1>1. /\ MembersTyped' /\ Next1 \in Nat /\ Places \subseteq Nat
      /\ \A i \in Places : i < Next1
      /\ ActionPlaces' = ActionPlaces \cup {i \in {Next1} : IsAction(e)}
      /\ ResultPlaces' = ResultPlaces \cup {i \in {Next1} : Usable(e)}
      /\ FailedPlaces \subseteq FailedPlaces' /\ FailedPlaces' \subseteq FailedPlaces \cup {Next1}
  BY Reading, PlacesApart
<1>2. /\ Failed \in FailedPlaces /\ \A i \in FailedPlaces : Failed <= i
      /\ Later \subseteq Places /\ Tries \subseteq Places /\ FailedPlaces \subseteq Places
      /\ Leading = LedBy(Tries, Later)
  BY LeadingIs, PlacesApart
<1>3. Failed' = Failed /\ Failed < Next1 /\ Failed \in Nat /\ Failed \in Places
  <2>1. Failed \in Places /\ Failed \in Nat /\ Failed < Next1
    BY <1>1, <1>2
  <2>2. FailedPlaces' \in SUBSET Nat /\ Failed \in FailedPlaces'
    BY <1>1, <1>2
  <2>3. \A i \in FailedPlaces' : Failed <= i
    BY <1>1, <1>2, <2>1
  <2>4. First(FailedPlaces') = Failed
    <3> DEFINE f == Failed
               S == FailedPlaces'
    <3> HIDE DEF f, S
    <3>1. S \in SUBSET Nat /\ f \in S /\ \A i \in S : f <= i
      BY <2>2, <2>3 DEF f, S
    <3>2. First(S) = f
      BY <3>1, FirstGiven
    <3> QED
      BY <3>2 DEF f, S
  <2> QED
    BY <2>1, <2>4 DEF Failed
<1>4. Later' = {i \in ResultPlaces' : i > Failed} /\ Tries' = {i \in ActionPlaces' : i > Failed}
  BY <1>3 DEF Later, Tries
<1>5. Later' = Later \cup {i \in {Next1} : Usable(e)}
      /\ Tries' = Tries \cup {i \in {Next1} : IsAction(e)}
  BY <1>1, <1>3, <1>4 DEF Later, Tries
<1>6. Leading' = LedBy(Tries', Later')
  <2>1. MembersTyped' /\ (FailedPlaces # {})'
    BY <1>1, <1>2
  <2>2. /\ (ActionPlaces \in SUBSET Nat)' /\ (ResultPlaces \in SUBSET Nat)'
        /\ (ActionPlaces \cap ResultPlaces = {})' /\ (Failed \in ResultPlaces)'
    <3>1. /\ ActionPlaces \in SUBSET Nat /\ ResultPlaces \in SUBSET Nat
          /\ ActionPlaces \cap ResultPlaces = {} /\ FailedPlaces \subseteq ResultPlaces
          /\ Next1 \notin ActionPlaces /\ Next1 \notin ResultPlaces
      BY <1>1, PlacesApart
    <3>2. ~(IsAction(e) /\ Usable(e))
      BY DEF IsAction, Usable, IsResult
    <3> QED
      BY <1>1, <1>2, <1>3, <3>1, <3>2
  <2> DEFINE A == ActionPlaces'
             R == ResultPlaces'
             f == Failed'
  <2>3. \A i : Follows(i)' = LET before == {j \in A \cup R : j < i}
                             IN  before # {} /\ Latest(before) \in A
    BY DEF Follows, Latest
  <2>4. Later' = {i \in R : i > f} /\ Tries' = {i \in A : i > f}
        /\ Leading' = {i \in Later' : Follows(i)'}
    BY DEF Later, Tries, Leading
  <2>5. A \in SUBSET Nat /\ R \in SUBSET Nat /\ A \cap R = {} /\ f \in R
    BY <2>2
  <2> DEFINE L == Later'
             T == Tries'
  <2> HIDE DEF A, R, f, L, T
  <2>6. L = {i \in R : i > f} /\ T = {i \in A : i > f}
    BY <2>4 DEF L, T
  <2>7. ASSUME NEW i \in L
        PROVE  Follows(i)' <=> \E a \in T : a < i /\ \A r \in L : r < i => r < a
    <3>1. i \in Nat /\ i \in R /\ f < i
      BY <2>5, <2>6
    <3>2. Follows(i)' <=> \E a \in A : /\ f < a /\ a < i
                                       /\ \A r \in R : f < r /\ r < i => r < a
      <4> DEFINE before == {j \in A \cup R : j < i}
                 last == Latest(before)
      <4>1. f \in before /\ before \in SUBSET Nat
        BY <2>5, <3>1
      <4>2. \A j \in before : j <= i
        BY <2>5, <3>1
      <4>3. Follows(i)' <=> before # {} /\ last \in A
        BY <2>3
      <4>4. \A j : j \in before <=> j \in A \cup R /\ j < i
        OBVIOUS
      <4> HIDE DEF before
      <4>5. last \in before /\ \A j \in before : j <= last
        BY <3>1, <4>1, <4>2, LatestIs
      <4> HIDE DEF last
      <4>6. last \in A \cup R /\ last < i /\ \A j \in A \cup R : j < i => j <= last
        BY <4>4, <4>5
      <4>7. last \in A <=> \E a \in A : /\ f < a /\ a < i
                                        /\ \A r \in R : f < r /\ r < i => r < a
        BY <2>5, <3>1, <4>6, LastIsAction
      <4> QED
        BY <4>1, <4>3, <4>7
    <3>3. \A a \in A : f < a <=> a > f
      BY <2>5
    <3>4. \A r \in R : f < r <=> r > f
      BY <2>5
    <3> QED
      BY <2>6, <3>2, <3>3, <3>4
  <2> QED
    BY <2>4, <2>7 DEF LedBy, L, T
<1>7. Leading' = Leading \cup {i \in {Next1} : Usable(e)
                                  /\ \E a \in Tries : \A r \in Later : r < a}
  <2> DEFINE n == Next1
  <2>1. /\ Later \subseteq Nat /\ Tries \subseteq Nat /\ n \in Nat
        /\ \A i \in Later \cup Tries : i < n
    BY <1>1, <1>2
  <2>2. ~(IsAction(e) /\ Usable(e))
    BY DEF IsAction, Usable, IsResult
  <2> DEFINE L == Later
             T == Tries
             M == Later'
             U == Tries'
             u == {i \in {n} : Usable(e)}
             a == {i \in {n} : IsAction(e)}
  <2>3. M = L \cup u /\ U = T \cup a /\ (u = {} \/ u = {n}) /\ (a = {} \/ a = {n})
        /\ (u = {n} <=> Usable(e)) /\ (u = {n} => a = {})
    BY <1>5, <2>2
  <2> HIDE DEF L, T, M, U, u, a, n
  <2>4. L \subseteq Nat /\ T \subseteq Nat /\ n \in Nat /\ (\A i \in L : i < n)
        /\ (\A i \in T : i < n) /\ n \notin L
    BY <2>1 DEF L, T
  <2>5. ASSUME NEW i \in L PROVE i \in LedBy(U, M) <=> i \in LedBy(T, L)
    <3>1. \A x \in {n} : ~(x < i)
      BY <2>4
    <3>2. \A x \in U : x < i => x \in T
      BY <2>3, <3>1
    <3>3. \A r \in M : r < i => r \in L
      BY <2>3, <3>1
    <3> QED
      BY <2>3, <3>2, <3>3 DEF LedBy
  <2>6. n \in LedBy(U, M) <=> Usable(e) /\ \E x \in T : \A r \in L : r < x
    <3>1. n \in M <=> Usable(e)
      BY <2>3, <2>4
    <3>2. CASE Usable(e)
      <4>1. U = T /\ \A r : r \in M /\ r < n <=> r \in L
        <5>1. ~(n < n)
          BY <2>4
        <5> QED
          BY <2>3, <2>4, <3>2, <5>1
      <4>2. n \in LedBy(U, M) <=> \E x \in T : x < n /\ \A r \in M : r < n => r < x
        BY <3>1, <3>2, <4>1 DEF LedBy
      <4>3. \A x \in T : (\A r \in M : r < n => r < x) <=> \A r \in L : r < x
        BY <4>1
      <4> QED
        BY <2>4, <3>2, <4>2, <4>3
    <3>3. CASE ~Usable(e)
      BY <3>1, <3>3 DEF LedBy
    <3> QED
      BY <3>2, <3>3
  <2>7. LedBy(U, M) \subseteq L \cup {n} /\ LedBy(T, L) \subseteq L
    BY <2>3 DEF LedBy
  <2>8. LedBy(U, M) = LedBy(T, L) \cup {i \in {n} : Usable(e)
                                          /\ \E x \in T : \A r \in L : r < x}
    BY <2>4, <2>5, <2>6, <2>7
  <2> QED
    BY <1>2, <1>6, <2>8 DEF L, T, M, U, n
<1>8. FailedPlaces' # {}
  BY <1>1, <1>2
<1> QED
  BY <1>3, <1>5, <1>7, <1>8

-----------------------------------------------------------------------------
(* What a result has to do with the first failure *)

LEMMA ResultFields ==
    ASSUME NEW i, NEW e
    PROVE  /\ Result(i, e).at = i /\ Result(i, e).status = Status(e)
           /\ Result(i, e).scope = Scope(e) /\ Result(i, e).failure = Normalized(e)
           /\ Scope(e).subject = e.subject /\ Scope(e).rule = e.contract
           /\ Status(e) = "explicitly_accepted" <=> e.contract = "acceptance"
           /\ Status(e) \in {"explicitly_accepted", "verified_passed", "verified_failed"}
           /\ Status(e) = "verified_passed" => e.exit = "zero"
BY DEF Result, Scope, Status

\* The tests of the code, in terms of the two events.
RepeatsIt(g, e) ==
    /\ Scope(e) = Scope(g) /\ Status(e) = "verified_failed"
    /\ \E x \in Normalized(e) : x.exact /\ x \in Normalized(g)
AnswersIt(g, e) ==
    /\ e.subject = g.subject
    /\ e.contract = "acceptance" \/ (e.contract = g.contract /\ Scope(e) = Scope(g))
ExtendsIt(g, e) ==
    \/ e.contract = "acceptance" /\ e.subject = g.subject
    \/ e.contract = g.contract /\ (g.contract = "testrun" => Scope(e) = Scope(g))

LEMMA FitMeans ==
    ASSUME NEW e \in Observations, NEW g \in Observations, Status(g) = "verified_failed",
           NEW i, NEW f, TheFailure = Result(f, g)
    PROVE  /\ SupportsInitialScope(Result(i, e)) <=> AnswersIt(g, e)
           /\ EligibleTerminal(Result(i, e)) <=> ExtendsIt(g, e)
           /\ IsRepeat(Result(i, e)) <=> RepeatsIt(g, e)
<1>1. TheFailure.scope = Scope(g) /\ TheFailure.failure = Normalized(g)
  BY ResultFields
<1>2. g.contract # "acceptance"
  BY ResultFields
<1>3. Scope(e) = Scope(g) => e.subject = g.subject /\ e.contract = g.contract
  BY ResultFields
<1>4. (Scope(g).detail = NoDetail) <=> (g.contract # "testrun")
  <2>1. g.inputs \in Inputs
    BY ObservationsGiven DEF EvidenceEvent
  <2> QED
    BY <2>1, InputsAreDetails DEF Scope
<1>5. SupportsInitialScope(Result(i, e)) <=>
        IF e.contract = "acceptance" THEN e.subject = g.subject ELSE Scope(e) = Scope(g)
  BY <1>1, ResultFields DEF SupportsInitialScope
<1>6. EligibleTerminal(Result(i, e)) <=>
        IF e.contract = "acceptance" THEN e.subject = g.subject
        ELSE e.contract = g.contract /\ (Scope(g).detail = NoDetail \/ Scope(e) = Scope(g))
  BY <1>1, ResultFields DEF EligibleTerminal
<1>7. IsRepeat(Result(i, e)) <=>
        /\ Scope(e) = Scope(g) /\ Status(e) = "verified_failed"
        /\ \E x \in Normalized(e), y \in Normalized(g) : x.exact /\ y.exact /\ x = y
  BY <1>1, ResultFields DEF IsRepeat, SameExactly
<1> QED
  BY <1>2, <1>3, <1>4, <1>5, <1>6, <1>7 DEF AnswersIt, ExtendsIt, RepeatsIt

-----------------------------------------------------------------------------
(* The attempts *)

Row == {Result(i, e) : i \in Nat, e \in Observations}
Attempt == [changes : SUBSET Nat, results : Seq(Row), result : AttemptOutcome]

\* The places of the results of an attempt, and of its first one.
At(a) == {a.results[j].at : j \in 1 .. Len(a.results)}
Lead(a) == a.results[1].at

\* The attempts hold these actions and these results of the events "read", and
\* the first results are "leads"; nothing of an attempt is before what belongs
\* to an earlier one.
Hold(tried, read, tries, answers, leads) ==
    /\ tried \in Seq(Attempt)
    /\ \A k \in 1 .. Len(tried) : LET a == tried[k]
          IN  /\ a.changes # {} /\ a.changes \subseteq tries
              /\ a.results # <<>> /\ Lead(a) \in leads
              /\ \A j \in 1 .. Len(a.results) :
                    LET i == a.results[j].at
                    IN  i \in answers /\ a.results[j] = Result(i, read[i])
              /\ \A x \in a.changes, y \in At(a) : x < y
    /\ \A k, l \in 1 .. Len(tried) : k < l =>
          \A y \in At(tried[k]), x \in tried[l].changes : y < x
    /\ \A x \in tries : \E k \in 1 .. Len(tried) : x \in tried[k].changes
    /\ \A i \in answers : \E k \in 1 .. Len(tried) : i \in At(tried[k])
    /\ \A i \in leads : \E k \in 1 .. Len(tried) : i = Lead(tried[k])

LEMMA RowIs ==
    ASSUME NEW r \in Row
    PROVE  r.at \in Nat /\ \E e \in Observations : r = Result(r.at, e)
<1>1. PICK i \in Nat, e \in Observations : r = Result(i, e)
  BY DEF Row
<1> QED
  BY <1>1, ResultFields

LEMMA AttemptIs ==
    ASSUME NEW a \in Attempt
    PROVE  /\ a.changes \in SUBSET Nat /\ a.results \in Seq(Row) /\ a.result \in AttemptOutcome
           /\ Len(a.results) \in Nat /\ \A j \in 1 .. Len(a.results) : a.results[j] \in Row
           /\ At(a) \in SUBSET Nat
           /\ a.results # <<>> => /\ 1 \in 1 .. Len(a.results) /\ Len(a.results) >= 1
                                  /\ Lead(a) \in At(a) /\ Lead(a) \in Nat
<1>1. a.changes \in SUBSET Nat /\ a.results \in Seq(Row) /\ a.result \in AttemptOutcome
  BY DEF Attempt
<1>2. Len(a.results) \in Nat /\ \A j \in 1 .. Len(a.results) : a.results[j] \in Row
  BY <1>1, LenProperties, ElementOfSeq
<1>3. At(a) \in SUBSET Nat
  BY <1>2, RowIs DEF At
<1>4. a.results # <<>> => Len(a.results) >= 1
  BY <1>1, <1>2, EmptySeq
<1>5. ASSUME a.results # <<>> PROVE 1 \in 1 .. Len(a.results) /\ Lead(a) \in At(a)
  BY <1>2, <1>4, <1>5 DEF At, Lead
<1> QED
  BY <1>1, <1>2, <1>3, <1>4, <1>5

\* More events are read.
LEMMA HoldReading ==
    ASSUME NEW tried, NEW read, NEW more, NEW tries, NEW answers, NEW leads,
           Hold(tried, read, tries, answers, leads), \A i \in answers : more[i] = read[i]
    PROVE  Hold(tried, more, tries, answers, leads)
<1>1. ASSUME NEW k \in 1 .. Len(tried), NEW j \in 1 .. Len(tried[k].results)
      PROVE  LET i == tried[k].results[j].at
             IN  i \in answers /\ tried[k].results[j] = Result(i, more[i])
  <2> DEFINE i == tried[k].results[j].at
  <2>1. i \in answers /\ tried[k].results[j] = Result(i, read[i])
    BY DEF Hold
  <2>2. more[i] = read[i]
    BY <2>1
  <2> QED
    BY <2>1, <2>2
<1> QED
  BY <1>1 DEF Hold

LEMMA HoldNothing ==
    ASSUME NEW read PROVE Hold(<<>>, read, {}, {}, {})
<1>1. <<>> \in Seq(Attempt) /\ Len(<<>>) = 0 /\ 1 .. 0 = {}
  BY EmptySeq
<1> QED
  BY <1>1 DEF Hold

\* The pending actions get their first result.
LEMMA HoldAttempt ==
    ASSUME NEW tried, NEW read, NEW tries, NEW answers, NEW leads,
           Hold(tried, read, tries, answers, leads),
           NEW changes \in SUBSET Nat, changes # {}, NEW n \in Nat, \A x \in changes : x < n,
           answers \in SUBSET Nat, \A i \in answers, x \in changes : i < x,
           NEW e \in Observations, read[n] = e, NEW result \in AttemptOutcome,
           NEW a, a = [changes |-> changes, results |-> <<Result(n, e)>>, result |-> result]
    PROVE  Hold(Append(tried, a), read, tries \cup changes, answers \cup {n}, leads \cup {n})
<1> DEFINE r == Result(n, e)
           t == Append(tried, a)
           m == Len(tried) + 1
<1>1. r \in Row /\ r.at = n
  BY ResultFields DEF Row
<1>2. a \in Attempt /\ a.changes = changes /\ a.results = <<r>> /\ a.results # <<>>
  <2> HIDE DEF r
  <2>1. <<r>> \in Seq(Row)
    BY <1>1
  <2> QED
    BY <2>1 DEF Attempt, r
<1>3. Len(a.results) = 1 /\ a.results[1] = r /\ 1 .. 1 = {1}
  BY <1>2
<1>4. At(a) = {n} /\ Lead(a) = n
  BY <1>1, <1>3 DEF At, Lead
<1>5. tried \in Seq(Attempt) /\ Len(tried) \in Nat
  BY LenProperties DEF Hold
<1>6. /\ t \in Seq(Attempt) /\ Len(t) = m /\ t[m] = a
      /\ \A k \in 1 .. Len(tried) : t[k] = tried[k]
  BY <1>2, <1>5, AppendProperties
<1>7. 1 .. m = 1 .. Len(tried) \cup {m} /\ m \notin 1 .. Len(tried) /\ m \in Nat
  BY <1>5
<1> HIDE DEF t, r, m
<1>8. \A k \in 1 .. Len(tried) : At(tried[k]) \subseteq answers
  BY DEF Hold, At
<1>9. ASSUME NEW k \in 1 .. m
      PROVE  /\ t[k].changes # {} /\ t[k].changes \subseteq tries \cup changes
             /\ t[k].results # <<>> /\ Lead(t[k]) \in leads \cup {n}
             /\ \A j \in 1 .. Len(t[k].results) :
                   LET i == t[k].results[j].at
                   IN  i \in answers \cup {n} /\ t[k].results[j] = Result(i, read[i])
             /\ \A x \in t[k].changes, y \in At(t[k]) : x < y
  <2>1. CASE k = m
    BY <2>1, <1>1, <1>2, <1>3, <1>4, <1>6 DEF r
  <2>2. CASE k \in 1 .. Len(tried)
    BY <2>2, <1>6 DEF Hold
  <2> QED
    BY <1>7, <2>1, <2>2
<1>10. ASSUME NEW k \in 1 .. m, NEW l \in 1 .. m, k < l,
              NEW y \in At(t[k]), NEW x \in t[l].changes
       PROVE  y < x
  <2>1. k \in 1 .. Len(tried)
    BY <1>5, <1>7, <1>10 DEF m
  <2>2. CASE l = m
    BY <2>1, <2>2, <1>2, <1>6, <1>8
  <2>3. CASE l \in 1 .. Len(tried)
    BY <2>1, <2>3, <1>6, <1>10 DEF Hold
  <2> QED
    BY <1>7, <2>2, <2>3
<1>11. \A x \in tries \cup changes : \E k \in 1 .. m : x \in t[k].changes
  BY <1>2, <1>6, <1>7 DEF Hold
<1>12. \A i \in answers \cup {n} : \E k \in 1 .. m : i \in At(t[k])
  BY <1>4, <1>6, <1>7 DEF Hold
<1>13. \A i \in leads \cup {n} : \E k \in 1 .. m : i = Lead(t[k])
  BY <1>4, <1>6, <1>7 DEF Hold
<1>14. Hold(t, read, tries \cup changes, answers \cup {n}, leads \cup {n})
  BY <1>6, <1>9, <1>10, <1>11, <1>12, <1>13 DEF Hold
<1> QED
  BY <1>14 DEF t

\* The last attempt gets one more result.
LEMMA HoldResult ==
    ASSUME NEW tried, NEW read, NEW tries, NEW answers, NEW leads,
           Hold(tried, read, tries, answers, leads), tried # <<>>,
           NEW n \in Nat, \A x \in tries : x < n, NEW e \in Observations, read[n] = e,
           NEW last, last = Len(tried)
    PROVE  Hold([tried EXCEPT ![last].results = Append(@, Result(n, e))],
                read, tries, answers \cup {n}, leads)
<1> DEFINE r == Result(n, e)
           old == tried[last]
           s == Append(old.results, r)
           new == [old EXCEPT !.results = s]
           t == [tried EXCEPT ![last] = new]
<1>1. r \in Row /\ r.at = n
  BY ResultFields DEF Row
<1>2. tried \in Seq(Attempt) /\ Len(tried) \in Nat /\ last \in 1 .. Len(tried)
      /\ \A k \in 1 .. Len(tried) : tried[k] \in Attempt
  <2>1. tried \in Seq(Attempt)
    BY DEF Hold
  <2> QED
    BY <2>1, LenProperties, EmptySeq, ElementOfSeq
<1>3. old \in Attempt /\ old.results \in Seq(Row) /\ Len(old.results) \in Nat
      /\ old.results # <<>> /\ Len(old.results) >= 1
  BY <1>2, AttemptIs DEF Hold
<1> HIDE DEF r
<1>4. /\ s \in Seq(Row) /\ Len(s) = Len(old.results) + 1 /\ s[Len(old.results) + 1] = r
      /\ \A j \in 1 .. Len(old.results) : s[j] = old.results[j]
  BY <1>1, <1>3, AppendProperties
<1> HIDE DEF s
<1>5. new \in Attempt /\ new.results = s /\ new.changes = old.changes
  BY <1>3, <1>4 DEF Attempt
<1> HIDE DEF old, new
<1>6. /\ t \in Seq(Attempt) /\ Len(t) = Len(tried) /\ t[last] = new
      /\ \A k \in 1 .. Len(tried) : k # last => t[k] = tried[k]
  BY <1>2, <1>5, ExceptSeq
<1> HIDE DEF t
<1>7. 1 .. Len(s) = 1 .. Len(old.results) \cup {Len(old.results) + 1}
      /\ 1 \in 1 .. Len(old.results)
  BY <1>3, <1>4
<1>8. At(new) = At(old) \cup {n} /\ Lead(new) = Lead(old)
  <2>1. At(new) = {s[j].at : j \in 1 .. Len(s)}
    BY <1>5 DEF At
  <2>2. Lead(new) = s[1].at
    BY <1>5 DEF Lead
  <2>3. At(new) = At(old) \cup {n}
    <3>1. \A i : i \in At(new) <=> \E j \in 1 .. Len(s) : i = s[j].at
      BY <2>1
    <3>2. \A i : i \in At(old) <=> \E j \in 1 .. Len(old.results) : i = old.results[j].at
      BY DEF At
    <3>3. \A i : i \in At(new) <=> i \in At(old) \/ i = n
      BY <1>1, <1>4, <1>7, <3>1, <3>2
    <3> QED
      BY <3>3
  <2> QED
    BY <1>4, <1>7, <2>2, <2>3 DEF Lead
<1>9. /\ old.changes # {} /\ old.changes \subseteq tries /\ Lead(old) \in leads
      /\ \A j \in 1 .. Len(old.results) :
            LET i == old.results[j].at
            IN  i \in answers /\ old.results[j] = Result(i, read[i])
      /\ \A x \in old.changes, y \in At(old) : x < y
  BY <1>2 DEF Hold, old
<1>10. ASSUME NEW k \in 1 .. Len(tried)
       PROVE  /\ t[k].changes # {} /\ t[k].changes \subseteq tries
              /\ t[k].results # <<>> /\ Lead(t[k]) \in leads
              /\ \A j \in 1 .. Len(t[k].results) :
                    LET i == t[k].results[j].at
                    IN  i \in answers \cup {n} /\ t[k].results[j] = Result(i, read[i])
              /\ \A x \in t[k].changes, y \in At(t[k]) : x < y
  <2>1. CASE k # last
    BY <2>1, <1>6 DEF Hold
  <2>2. CASE k = last
    <3>1. t[k] = new
      BY <2>2, <1>6
    <3>2. new.results # <<>>
      BY <1>3, <1>4, <1>5
    <3>3. ASSUME NEW j \in 1 .. Len(s)
          PROVE  s[j].at \in answers \cup {n} /\ s[j] = Result(s[j].at, read[s[j].at])
      BY <1>1, <1>4, <1>7, <1>9 DEF r
    <3>4. \A x \in new.changes, y \in At(new) : x < y
      BY <1>5, <1>8, <1>9
    <3> QED
      BY <1>5, <1>8, <1>9, <3>1, <3>2, <3>3, <3>4
  <2> QED
    BY <2>1, <2>2
<1>11. ASSUME NEW k \in 1 .. Len(tried), NEW l \in 1 .. Len(tried), k < l,
              NEW y \in At(t[k]), NEW x \in t[l].changes
       PROVE  y < x
  <2>1. k # last
    BY <1>2, <1>11
  <2>2. t[k] = tried[k] /\ t[l].changes = tried[l].changes
    BY <1>5, <1>6, <2>1 DEF old
  <2> QED
    BY <1>11, <2>2 DEF Hold
<1>12. \A k \in 1 .. Len(tried) : /\ t[k].changes = tried[k].changes
                                  /\ At(tried[k]) \subseteq At(t[k])
                                  /\ Lead(t[k]) = Lead(tried[k])
  BY <1>5, <1>6, <1>8 DEF old
<1>13. n \in At(t[last])
  BY <1>6, <1>8
<1>14. t = [tried EXCEPT ![last].results = Append(@, Result(n, e))]
  BY <1>2 DEF t, new, old, s, r
<1>15. Hold(t, read, tries, answers \cup {n}, leads)
  <2>1. \A x \in tries : \E k \in 1 .. Len(t) : x \in t[k].changes
    BY <1>6, <1>12 DEF Hold
  <2>2. \A i \in answers \cup {n} : \E k \in 1 .. Len(t) : i \in At(t[k])
    BY <1>2, <1>6, <1>12, <1>13 DEF Hold
  <2>3. \A i \in leads : \E k \in 1 .. Len(t) : i = Lead(t[k])
    BY <1>6, <1>12 DEF Hold
  <2> QED
    BY <1>6, <1>10, <1>11, <2>1, <2>2, <2>3 DEF Hold
<1> QED
  BY <1>14, <1>15

-----------------------------------------------------------------------------
(* What is remembered of the events after the first failure f *)

Told(f, again, tried, waiting, changed, read, tries, later, leads) ==
    /\ f \in Nat /\ tries \in SUBSET Nat /\ later \in SUBSET Nat /\ leads \subseteq later
    /\ waiting = {t \in tries : \A i \in later : i < t}
    /\ again = {i \in later : \A t \in tries : i < t}
    /\ changed <=> \E t \in tries : read[t].contract = "source"
    /\ \A i \in again : RepeatsIt(read[f], read[i])
    /\ Hold(tried, read, tries \ waiting, later \ again, leads)
    /\ \A i \in later \ again :
          /\ i \in leads => AnswersIt(read[f], read[i])
          /\ i \notin leads => ExtendsIt(read[f], read[i])

\* A new event comes after the others, and they stay what they are.
Comes(n, e, f, read, more, tries, later) ==
    /\ n \in Nat /\ e \in Observations /\ more[n] = e
    /\ \A i \in {f} \cup tries \cup later : i < n /\ more[i] = read[i]

LEMMA ToldPassing ==
    ASSUME NEW f, NEW again, NEW tried, NEW waiting, NEW changed, NEW read, NEW more,
           NEW tries, NEW later, NEW leads, NEW n, NEW e,
           Told(f, again, tried, waiting, changed, read, tries, later, leads),
           Comes(n, e, f, read, more, tries, later)
    PROVE  Told(f, again, tried, waiting, changed, more, tries, later, leads)
<1>1. /\ \A i \in tries : more[i] = read[i]
      /\ \A i \in later : more[i] = read[i]
      /\ more[f] = read[f]
  BY DEF Comes
<1>2. Hold(tried, more, tries \ waiting, later \ again, leads)
  <2>1. Hold(tried, read, tries \ waiting, later \ again, leads)
    BY DEF Told
  <2> QED
    BY <1>1, <2>1, HoldReading
<1>3. again \subseteq later
  BY DEF Told
<1> QED
  BY <1>1, <1>2, <1>3 DEF Told

LEMMA ToldAction ==
    ASSUME NEW f, NEW again, NEW tried, NEW waiting, NEW changed, NEW read, NEW more,
           NEW tries, NEW later, NEW leads, NEW n, NEW e,
           Told(f, again, tried, waiting, changed, read, tries, later, leads),
           Comes(n, e, f, read, more, tries, later)
    PROVE  Told(f, again, tried, waiting \cup {n}, changed \/ e.contract = "source", more,
                tries \cup {n}, later, leads)
<1>1. Told(f, again, tried, waiting, changed, more, tries, later, leads)
  BY ToldPassing
<1>2. n \in Nat /\ (\A i \in tries : i < n) /\ (\A i \in later : i < n) /\ more[n] = e
  BY DEF Comes
<1>3. n \notin tries
  BY <1>2
<1>4. (tries \cup {n}) \ (waiting \cup {n}) = tries \ waiting
  BY <1>3
<1>5. waiting \cup {n} = {t \in tries \cup {n} : \A i \in later : i < t}
  BY <1>1, <1>2 DEF Told
<1>6. again = {i \in later : \A t \in tries \cup {n} : i < t}
  BY <1>1, <1>2 DEF Told
<1>7. (changed \/ e.contract = "source")
        <=> \E t \in tries \cup {n} : more[t].contract = "source"
  BY <1>1, <1>2 DEF Told
<1> QED
  BY <1>1, <1>2, <1>4, <1>5, <1>6, <1>7 DEF Told

\* If nothing is waiting and there is no attempt, nothing was tried.
LEMMA NothingTried ==
    ASSUME NEW f, NEW again, NEW tried, NEW waiting, NEW changed, NEW read,
           NEW tries, NEW later, NEW leads,
           Told(f, again, tried, waiting, changed, read, tries, later, leads)
    PROVE  waiting = {} /\ tried = <<>> <=> tries = {}
<1>1. Hold(tried, read, tries \ waiting, later \ again, leads) /\ waiting \subseteq tries
  BY DEF Told
<1>2. ASSUME tries = {}, tried # <<>> PROVE FALSE
  <2>1. tried \in Seq(Attempt) /\ 1 \in 1 .. Len(tried)
    BY <1>1, <1>2, LenProperties, EmptySeq DEF Hold
  <2>2. tried[1].changes # {} /\ tried[1].changes \subseteq tries \ waiting
    BY <1>1, <2>1 DEF Hold
  <2> QED
    BY <1>2, <2>2
<1>3. ASSUME waiting = {}, tried = <<>> PROVE tries = {}
  <2>1. Len(tried) = 0 /\ 1 .. 0 = {}
    BY <1>3
  <2>2. \A x \in tries : \E k \in 1 .. Len(tried) : x \in tried[k].changes
    BY <1>1, <1>3 DEF Hold
  <2> QED
    BY <2>1, <2>2
<1> QED
  BY <1>1, <1>2, <1>3

LEMMA ToldRepeat ==
    ASSUME NEW f, NEW again, NEW tried, NEW waiting, NEW changed, NEW read, NEW more,
           NEW tries, NEW later, NEW leads, NEW n, NEW e,
           Told(f, again, tried, waiting, changed, read, tries, later, leads),
           Comes(n, e, f, read, more, tries, later),
           waiting = {}, tried = <<>>, RepeatsIt(more[f], e)
    PROVE  Told(f, again \cup {n}, tried, waiting, changed, more, tries, later \cup {n}, leads)
<1>1. Told(f, again, tried, waiting, changed, more, tries, later, leads)
  BY ToldPassing
<1>2. n \in Nat /\ (\A i \in later : i < n) /\ more[n] = e
  BY DEF Comes
<1>3. tries = {}
  BY NothingTried
<1>4. again = later /\ n \notin later
  BY <1>1, <1>2, <1>3 DEF Told
<1>5. later \ again = {} /\ (later \cup {n}) \ (again \cup {n}) = {}
  BY <1>4
<1> QED
  BY <1>1, <1>2, <1>3, <1>4, <1>5 DEF Told

LEMMA ToldAttempt ==
    ASSUME NEW f, NEW again, NEW tried, NEW waiting, NEW changed, NEW read, NEW more,
           NEW tries, NEW later, NEW leads, NEW n, NEW e,
           Told(f, again, tried, waiting, changed, read, tries, later, leads),
           Comes(n, e, f, read, more, tries, later),
           waiting # {}, AnswersIt(more[f], e), NEW result \in AttemptOutcome,
           NEW a, a = [changes |-> waiting, results |-> <<Result(n, e)>>, result |-> result]
    PROVE  Told(f, again, Append(tried, a), {}, changed, more, tries, later \cup {n},
                leads \cup {n})
<1>1. Told(f, again, tried, waiting, changed, more, tries, later, leads)
  BY ToldPassing
<1>2. /\ n \in Nat /\ e \in Observations /\ (\A i \in later : i < n) /\ more[n] = e
      /\ \A i \in tries : i < n
  BY DEF Comes
<1>3. /\ waiting \subseteq tries /\ again \subseteq later /\ tries \in SUBSET Nat
      /\ later \in SUBSET Nat
      /\ \A i \in later, x \in waiting : i < x
  BY <1>1 DEF Told
<1>4. n \notin later /\ ~(n < n) /\ \A x \in tries : ~(n < x)
  BY <1>2, <1>3
<1>5. Hold(Append(tried, a), more, (tries \ waiting) \cup waiting, (later \ again) \cup {n},
           leads \cup {n})
  <2>1. Hold(tried, more, tries \ waiting, later \ again, leads)
    BY <1>1 DEF Told
  <2>2. waiting \in SUBSET Nat /\ \A x \in waiting : x < n
    BY <1>2, <1>3
  <2>3. later \ again \in SUBSET Nat /\ \A i \in later \ again, x \in waiting : i < x
    BY <1>3
  <2> QED
    BY <1>2, <2>1, <2>2, <2>3, HoldAttempt
<1>6. /\ (tries \ waiting) \cup waiting = tries \ {}
      /\ (later \ again) \cup {n} = (later \cup {n}) \ again
  BY <1>3, <1>4
<1>7. {} = {t \in tries : \A i \in later \cup {n} : i < t}
  BY <1>4
<1>8. again = {i \in later \cup {n} : \A t \in tries : i < t}
  <2>1. again = {i \in later : \A t \in tries : i < t}
    BY <1>1 DEF Told
  <2>2. PICK t \in tries : TRUE
    BY <1>3
  <2>3. ~(\A x \in tries : n < x)
    BY <1>4, <2>2
  <2> QED
    BY <2>1, <2>3
<1>9. leads \subseteq later
  BY <1>1 DEF Told
<1>10. \A i \in (later \cup {n}) \ again :
          /\ i \in leads \cup {n} => AnswersIt(more[f], more[i])
          /\ i \notin leads \cup {n} => ExtendsIt(more[f], more[i])
  BY <1>1, <1>2 DEF Told
<1> QED
  BY <1>1, <1>2, <1>3, <1>5, <1>6, <1>7, <1>8, <1>9, <1>10 DEF Told

LEMMA ToldResult ==
    ASSUME NEW f, NEW again, NEW tried, NEW waiting, NEW changed, NEW read, NEW more,
           NEW tries, NEW later, NEW leads, NEW n, NEW e,
           Told(f, again, tried, waiting, changed, read, tries, later, leads),
           Comes(n, e, f, read, more, tries, later),
           waiting = {}, tried # <<>>, ExtendsIt(more[f], e)
    PROVE  Told(f, again, [tried EXCEPT ![Len(tried)].results = Append(@, Result(n, e))],
                waiting, changed, more, tries, later \cup {n}, leads)
<1>1. Told(f, again, tried, waiting, changed, more, tries, later, leads)
  BY ToldPassing
<1>2. /\ n \in Nat /\ e \in Observations /\ (\A i \in later : i < n) /\ more[n] = e
      /\ \A i \in tries : i < n
  BY DEF Comes
<1>3. /\ again \subseteq later /\ tries \in SUBSET Nat /\ later \in SUBSET Nat
      /\ leads \subseteq later
  BY <1>1 DEF Told
<1>4. n \notin later /\ \A x \in tries : ~(n < x)
  BY <1>2, <1>3
<1>5. tries # {}
  BY <1>1, NothingTried
<1>6. Hold([tried EXCEPT ![Len(tried)].results = Append(@, Result(n, e))], more,
           tries \ waiting, (later \ again) \cup {n}, leads)
  <2>1. Hold(tried, more, tries \ waiting, later \ again, leads)
    BY <1>1 DEF Told
  <2>2. \A x \in tries \ waiting : x < n
    BY <1>2
  <2> DEFINE last == Len(tried)
  <2>3. last = Len(tried)
    OBVIOUS
  <2> HIDE DEF last
  <2>4. Hold([tried EXCEPT ![last].results = Append(@, Result(n, e))], more,
             tries \ waiting, (later \ again) \cup {n}, leads)
    BY <1>2, <2>1, <2>2, <2>3, HoldResult
  <2> QED
    BY <2>3, <2>4
<1>7. (later \ again) \cup {n} = (later \cup {n}) \ again
  BY <1>3, <1>4
<1>8. waiting = {t \in tries : \A i \in later \cup {n} : i < t}
  BY <1>1, <1>4 DEF Told
<1>9. again = {i \in later \cup {n} : \A t \in tries : i < t}
  <2>1. again = {i \in later : \A t \in tries : i < t}
    BY <1>1 DEF Told
  <2>2. PICK t \in tries : TRUE
    BY <1>5
  <2>3. ~(\A x \in tries : n < x)
    BY <1>4, <2>2
  <2> QED
    BY <2>1, <2>3
<1>10. \A i \in (later \cup {n}) \ again :
          /\ i \in leads => AnswersIt(more[f], more[i])
          /\ i \notin leads => ExtendsIt(more[f], more[i])
  BY <1>1, <1>2, <1>3, <1>4 DEF Told
<1> QED
  BY <1>1, <1>2, <1>3, <1>6, <1>7, <1>8, <1>9, <1>10 DEF Told

-----------------------------------------------------------------------------
(* The scan: what is remembered is what was read *)

Sorted ==
    \A i \in Places \ (ActionPlaces \cup ResultPlaces) :
        ~Decoded(members[i]) /\ ~Material(members[i])

Story == Told(Failed, repeats, attempts, pending, snapshot, members, Tries, Later, Leading)

Scanning ==
    /\ MembersTyped /\ Sorted
    /\ initial = {} =>
          /\ FailedPlaces = {} /\ repeats = {} /\ attempts = <<>> /\ pending = {}
          /\ snapshot = FALSE
    /\ initial # {} => FailedPlaces # {} /\ initial = {ResultAt(Failed)} /\ Story

Placed(e) == IsAction(e) \/ Usable(e) \/ (~Decoded(e) /\ ~Material(e))

LEMMA SortedStays ==
    ASSUME MembersTyped, Sorted, NEW e \in Observations, Reads(e), Placed(e)
    PROVE  Sorted'
<1>1. /\ Places' = Places \cup {Next1} /\ members'[Next1] = e
      /\ \A i \in Places : members'[i] = members[i]
      /\ ActionPlaces' = ActionPlaces \cup {i \in {Next1} : IsAction(e)}
      /\ ResultPlaces' = ResultPlaces \cup {i \in {Next1} : Usable(e)}
  BY Reading
<1>2. \A i \in Places' \ (ActionPlaces' \cup ResultPlaces') :
         ~Decoded(members'[i]) /\ ~Material(members'[i])
  BY <1>1 DEF Sorted, Placed
<1> QED
  BY <1>2 DEF Sorted

LEMMA TheFailureIs ==
    ASSUME Scanning, initial # {}
    PROVE  /\ Failed \in Places /\ members[Failed] \in Observations
           /\ TheFailure = Result(Failed, members[Failed])
           /\ Status(members[Failed]) = "verified_failed"
<1>1. initial = {Result(Failed, members[Failed])} /\ FailedPlaces # {} /\ MembersTyped
  BY DEF Scanning, ResultAt
<1>2. Failed \in FailedPlaces
  BY <1>1, LeadingIs
<1>3. Failed \in Places /\ members[Failed] \in Observations
  BY <1>1, <1>2, PlacesApart
<1> QED
  BY <1>1, <1>2, <1>3 DEF TheFailure, FailedPlaces

LEMMA NextComes ==
    ASSUME Scanning, initial # {}, NEW e \in Observations, Reads(e)
    PROVE  Comes(Next1, e, Failed, members, members', Tries, Later)
<1>1. MembersTyped /\ FailedPlaces # {}
  BY DEF Scanning
<1>2. Failed \in Places /\ Tries \subseteq Places /\ Later \subseteq Places
  BY <1>1, LeadingIs, PlacesApart
<1>3. /\ Next1 \in Nat /\ members'[Next1] = e
      /\ \A i \in Places : i < Next1 /\ members'[i] = members[i]
  BY <1>1, Reading
<1> QED
  BY <1>2, <1>3 DEF Comes

\* After the first failure, the story goes on.
LEMMA Onward ==
    ASSUME Scanning, initial # {}, NEW e \in Observations, Reads(e), Placed(e),
           initial' = initial,
           Told(Failed, repeats', attempts', pending', snapshot', members', Tries', Later',
                Leading')
    PROVE  Scanning'
<1>1. MembersTyped /\ FailedPlaces # {} /\ Sorted /\ initial = {Result(Failed, members[Failed])}
  BY DEF Scanning, ResultAt
<1>2. FailedPlaces' # {} /\ Failed' = Failed /\ Failed \in Places
  BY <1>1, ReadingLater
<1>3. MembersTyped' /\ members'[Failed] = members[Failed]
  BY <1>1, <1>2, Reading
<1>4. Sorted'
  BY <1>1, SortedStays
<1>5. initial' = {ResultAt(Failed)'}
  BY <1>1, <1>2, <1>3 DEF ResultAt
<1>6. Story'
  BY <1>2 DEF Story
<1> QED
  BY <1>2, <1>3, <1>4, <1>5, <1>6 DEF Scanning

\* Before it, nothing is remembered.
LEMMA NoStory ==
    ASSUME Scanning, initial = {}, NEW e \in Observations, Reads(e), Placed(e),
           UNCHANGED <<initial, repeats, attempts, pending, snapshot>>,
           Usable(e) => Status(e) # "verified_failed"
    PROVE  Scanning'
<1>1. MembersTyped /\ Sorted /\ FailedPlaces = {}
  BY DEF Scanning
<1>2. MembersTyped' /\ Sorted' /\ FailedPlaces' = {}
  BY <1>1, Reading, SortedStays
<1> QED
  BY <1>2 DEF Scanning

LEMMA PassOverScans ==
    ASSUME Scanning, NEW e \in Observations, PassOver(e)
    PROVE  Scanning'
<1>1. Reads(e) /\ Placed(e) /\ ~IsAction(e) /\ ~Usable(e)
      /\ UNCHANGED <<initial, repeats, attempts, pending, snapshot>>
  BY DEF PassOver, Placed, IsAction, Usable, IsResult
<1>2. CASE initial = {}
  BY <1>1, <1>2, NoStory
<1>3. CASE initial # {}
  <2>1. Comes(Next1, e, Failed, members, members', Tries, Later) /\ Story
        /\ MembersTyped /\ FailedPlaces # {}
    BY <1>1, <1>3, NextComes DEF Scanning
  <2>2. Told(Failed, repeats, attempts, pending, snapshot, members', Tries, Later, Leading)
    BY <2>1, ToldPassing DEF Story
  <2>3. Later' = Later /\ Tries' = Tries /\ Leading' = Leading
    BY <1>1, <2>1, ReadingLater
  <2> QED
    BY <1>1, <1>3, <2>2, <2>3, Onward
<1> QED
  BY <1>2, <1>3

LEMMA ActScans ==
    ASSUME Scanning, NEW e \in Observations, Act(e)
    PROVE  Scanning'
<1>1. Reads(e) /\ Placed(e) /\ IsAction(e) /\ ~Usable(e)
      /\ UNCHANGED <<initial, repeats, attempts>>
  BY DEF Act, Placed, IsAction, Usable, IsResult
<1>2. CASE initial = {}
  BY <1>1, <1>2, NoStory DEF Act
<1>3. CASE initial # {}
  <2>1. Comes(Next1, e, Failed, members, members', Tries, Later) /\ Story
        /\ MembersTyped /\ FailedPlaces # {}
    BY <1>1, <1>3, NextComes DEF Scanning
  <2>2. Told(Failed, repeats, attempts, pending \cup {Next1},
             snapshot \/ e.contract = "source", members', Tries \cup {Next1}, Later, Leading)
    BY <2>1, ToldAction DEF Story
  <2>3. Later' = Later /\ Tries' = Tries \cup {Next1} /\ Leading' = Leading
    BY <1>1, <2>1, ReadingLater
  <2>4. pending' = pending \cup {Next1} /\ snapshot' = (snapshot \/ e.contract = "source")
    BY <1>3 DEF Act
  <2> QED
    BY <1>1, <1>3, <2>2, <2>3, <2>4, Onward
<1> QED
  BY <1>2, <1>3

LEMMA BeforeFailureScans ==
    ASSUME Scanning, NEW e \in Observations, BeforeFailure(e)
    PROVE  Scanning'
<1>1. Reads(e) /\ Usable(e) /\ Placed(e) /\ initial = {}
      /\ UNCHANGED <<repeats, attempts, pending, snapshot>>
      /\ initial' = IF Status(e) = "verified_failed" THEN {Result(Next1, e)} ELSE {}
  BY DEF BeforeFailure, Placed
<1>2. CASE Status(e) # "verified_failed"
  BY <1>1, <1>2, NoStory
<1>3. CASE Status(e) = "verified_failed"
  <2>1. /\ MembersTyped /\ Sorted /\ FailedPlaces = {} /\ repeats = {} /\ attempts = <<>>
        /\ pending = {} /\ snapshot = FALSE
    BY <1>1 DEF Scanning
  <2>2. /\ MembersTyped' /\ Next1 \in Nat /\ members'[Next1] = e
        /\ \A i \in Places : i < Next1
        /\ ActionPlaces' = ActionPlaces \cup {i \in {Next1} : IsAction(e)}
        /\ ResultPlaces' = ResultPlaces \cup {i \in {Next1} : Usable(e)}
        /\ FailedPlaces' = {Next1}
    BY <1>1, <1>3, <2>1, Reading
  <2>3. Sorted'
    BY <1>1, <2>1, SortedStays
  <2>4. Failed' = Next1
    <3>1. Failed' = First({Next1})
      BY <2>2 DEF Failed, First
    <3> DEFINE n == Next1
    <3> HIDE DEF n
    <3>2. First({n}) = n
      BY <2>2, FirstGiven DEF n
    <3> QED
      BY <3>1, <3>2 DEF n
  <2>5. Later' = {} /\ Tries' = {}
    <3>1. ~(Next1 > Next1) /\ \A i \in ActionPlaces \cup ResultPlaces : ~(i > Next1)
      BY <2>1, <2>2, PlacesApart
    <3>2. Later' = {i \in ResultPlaces' : i > Next1} /\ Tries' = {i \in ActionPlaces' : i > Next1}
      BY <2>4 DEF Later, Tries
    <3> QED
      BY <2>2, <3>1, <3>2
  <2>6. Leading' = {}
    BY <2>5 DEF Leading
  <2>7. Told(Next1, {}, <<>>, {}, FALSE, members', {}, {}, {})
    <3>1. Hold(<<>>, members', {}, {}, {})
      BY HoldNothing
    <3>2. {} \ {} = {}
      OBVIOUS
    <3> QED
      BY <2>2, <3>1, <3>2 DEF Told
  <2>8. Story'
    BY <1>1, <2>1, <2>4, <2>5, <2>6, <2>7 DEF Story
  <2>9. initial' # {} /\ initial' = {ResultAt(Failed)'} /\ FailedPlaces' # {}
    BY <1>1, <1>3, <2>2, <2>4 DEF ResultAt
  <2> QED
    BY <2>2, <2>3, <2>8, <2>9 DEF Scanning
<1> QED
  BY <1>2, <1>3

-----------------------------------------------------------------------------
(* The scan: what is refused has no place *)

\* A result that comes after something was tried, and has its place.
LEMMA PlacedNext ==
    ASSUME Scanning, initial # {}, NEW e \in Observations, Reads(e), Usable(e), Tries # {},
           AllPlaced'
    PROVE  /\ ExtendsIt(members[Failed], e)
           /\ pending # {} => AnswersIt(members[Failed], e)
<1>1. MembersTyped /\ FailedPlaces # {} /\ Story
  BY DEF Scanning
<1>2. /\ Failed' = Failed /\ Failed \in Places
      /\ Later' = Later \cup {Next1} /\ Tries' = Tries \cup {i \in {Next1} : IsAction(e)}
      /\ Leading' = Leading \cup {i \in {Next1} : \E a \in Tries : \A r \in Later : r < a}
  BY <1>1, ReadingLater
<1>3. Tries' = Tries
  BY <1>2 DEF Usable, IsAction, IsResult
<1>4. /\ Next1 \in Nat /\ members'[Next1] = e /\ members'[Failed] = members[Failed]
      /\ \A i \in Tries : i < Next1
  BY <1>1, <1>2, NextComes DEF Comes
<1>5. First(Tries) \in Tries /\ First(Tries) < Next1
  <2>1. Tries \in SUBSET Nat
    BY <1>1 DEF Story, Told
  <2> QED
    BY <1>4, <2>1, FirstIs
<1>6. First(Tries) \in Nat
  BY <1>1, <1>5 DEF Story, Told
<1>7. Next1 \in Later' /\ Next1 > First(Tries')
  BY <1>2, <1>3, <1>4, <1>5, <1>6
<1>8. /\ Next1 \in Leading' => e.subject = members[Failed].subject
      /\ \/ /\ e.contract = "acceptance"
            /\ e.subject = members[Failed].subject
         \/ /\ e.contract = members[Failed].contract
            /\ (members[Failed].contract = "testrun" \/ Next1 \in Leading') =>
                  Scope(e) = Scope(members[Failed])
  <2>1. /\ \A i \in Leading' : members'[i].subject = members'[Failed'].subject
        /\ \A i \in {j \in Later' : j > First(Tries')} :
              \/ /\ members'[i].contract = "acceptance"
                 /\ members'[i].subject = members'[Failed'].subject
              \/ /\ members'[i].contract = members'[Failed'].contract
                 /\ (members'[Failed'].contract = "testrun" \/ i \in Leading') =>
                       Scope(members'[i]) = Scope(members'[Failed'])
    BY DEF AllPlaced
  <2> QED
    BY <1>2, <1>4, <1>7, <2>1
<1>9. pending # {} => Next1 \in Leading'
  BY <1>1, <1>2 DEF Story, Told
<1> QED
  BY <1>8, <1>9 DEF ExtendsIt, AnswersIt

LEMMA BeforeAttemptScans ==
    ASSUME Scanning, NEW e \in Observations, BeforeAttempt(e)
    PROVE  /\ phase' = "scanning" => Scanning'
           /\ phase' = "refused" => ~AllPlaced'
<1> DEFINE r == Result(Next1, e)
<1>1. /\ Reads(e) /\ initial # {} /\ Untried /\ Usable(e) /\ Placed(e) /\ phase = "scanning"
      /\ \/ /\ IsRepeat(r) /\ repeats' = repeats \cup {Next1}
            /\ UNCHANGED <<initial, attempts, pending, snapshot, phase>>
         \/ ~IsRepeat(r) /\ GiveUp
  BY DEF BeforeAttempt, Placed, Reads
<1>2. /\ Comes(Next1, e, Failed, members, members', Tries, Later) /\ Story
      /\ MembersTyped /\ FailedPlaces # {}
  BY <1>1, NextComes DEF Scanning
<1>3. Tries = {}
  BY <1>1, <1>2, NothingTried DEF Untried, Story
<1>4. /\ Later' = Later \cup {Next1} /\ Tries' = Tries /\ Leading' = Leading
  BY <1>1, <1>2, <1>3, ReadingLater DEF Usable, IsAction, IsResult
<1>5. CASE IsRepeat(r)
  <2>1. RepeatsIt(members[Failed], e)
    BY <1>1, <1>5, TheFailureIs, FitMeans
  <2>2. members'[Failed] = members[Failed]
    BY <1>2 DEF Comes
  <2>3. Told(Failed, repeats \cup {Next1}, attempts, pending, snapshot, members', Tries,
             Later \cup {Next1}, Leading)
    BY <1>1, <1>2, <2>1, <2>2, ToldRepeat DEF Untried, Story
  <2>4. /\ repeats' = repeats \cup {Next1} /\ phase' = "scanning"
        /\ UNCHANGED <<initial, attempts, pending, snapshot>>
    BY <1>1, <1>5
  <2>5. Scanning'
    BY <1>1, <1>4, <2>3, <2>4, Onward
  <2> QED
    BY <2>4, <2>5
<1>6. CASE ~IsRepeat(r)
  <2>1. phase' = "refused"
    BY <1>1, <1>6 DEF GiveUp
  <2>2. ~AllPlaced'
    BY <1>3, <1>4 DEF AllPlaced
  <2> QED
    BY <2>1, <2>2
<1> QED
  BY <1>5, <1>6

LEMMA AfterActionsScans ==
    ASSUME Scanning, NEW e \in Observations, AfterActions(e)
    PROVE  /\ phase' = "scanning" => Scanning'
           /\ phase' = "refused" => ~AllPlaced'
<1> DEFINE r == Result(Next1, e)
           a == [changes |-> pending, results |-> <<r>>, result |-> AttemptResult(r)]
<1>1. /\ Reads(e) /\ initial # {} /\ pending # {} /\ Usable(e) /\ Placed(e)
      /\ phase = "scanning"
      /\ \/ /\ SupportsInitialScope(r) /\ attempts' = Append(attempts, a) /\ pending' = {}
            /\ UNCHANGED <<initial, repeats, snapshot, phase>>
         \/ ~SupportsInitialScope(r) /\ GiveUp
  BY DEF AfterActions, Placed, Reads
<1>2. /\ Comes(Next1, e, Failed, members, members', Tries, Later) /\ Story
      /\ MembersTyped /\ FailedPlaces # {}
  BY <1>1, NextComes DEF Scanning
<1>3. /\ \E x \in Tries : \A i \in Later : i < x
      /\ Tries # {}
  BY <1>1, <1>2 DEF Story, Told
<1>4. Later' = Later \cup {Next1} /\ Tries' = Tries /\ Leading' = Leading \cup {Next1}
  BY <1>1, <1>2, <1>3, ReadingLater DEF Usable, IsAction, IsResult
<1>5. SupportsInitialScope(r) <=> AnswersIt(members[Failed], e)
  BY <1>1, TheFailureIs, FitMeans
<1>6. CASE SupportsInitialScope(r)
  <2>1. members'[Failed] = members[Failed]
    BY <1>2 DEF Comes
  <2>2. AttemptResult(r) \in AttemptOutcome
    BY DEF AttemptResult, AttemptOutcome
  <2>3. Told(Failed, repeats, Append(attempts, a), {}, snapshot, members', Tries,
             Later \cup {Next1}, Leading \cup {Next1})
    <3>1. AnswersIt(members'[Failed], e)
      BY <1>5, <1>6, <2>1
    <3> DEFINE result == AttemptResult(r)
    <3> HIDE DEF result
    <3>2. result \in AttemptOutcome
      BY <2>2 DEF result
    <3>3. a = [changes |-> pending, results |-> <<Result(Next1, e)>>, result |-> result]
      BY DEF result
    <3> HIDE DEF a
    <3> QED
      BY <1>1, <1>2, <3>1, <3>2, <3>3, ToldAttempt DEF Story
  <2>4. /\ attempts' = Append(attempts, a) /\ pending' = {} /\ phase' = "scanning"
        /\ UNCHANGED <<initial, repeats, snapshot>>
    BY <1>1, <1>6
  <2> HIDE DEF a
  <2>5. Scanning'
    BY <1>1, <1>4, <2>3, <2>4, Onward
  <2> QED
    BY <2>4, <2>5
<1>7. CASE ~SupportsInitialScope(r)
  <2>1. phase' = "refused"
    BY <1>1, <1>7 DEF GiveUp
  <2>2. ~AllPlaced'
    BY <1>1, <1>3, <1>5, <1>7, PlacedNext
  <2> QED
    BY <2>1, <2>2
<1> QED
  BY <1>6, <1>7

LEMMA AfterResultScans ==
    ASSUME Scanning, NEW e \in Observations, AfterResult(e)
    PROVE  /\ phase' = "scanning" => Scanning'
           /\ phase' = "refused" => ~AllPlaced'
<1> DEFINE r == Result(Next1, e)
           more == [attempts EXCEPT ![Len(attempts)].results = Append(@, r)]
<1>1. /\ Reads(e) /\ initial # {} /\ pending = {} /\ attempts # <<>> /\ Usable(e)
      /\ Placed(e) /\ phase = "scanning"
      /\ \/ /\ EligibleTerminal(r) /\ attempts' = more
            /\ UNCHANGED <<initial, repeats, pending, snapshot, phase>>
         \/ ~EligibleTerminal(r) /\ GiveUp
  BY DEF AfterResult, Placed, Reads
<1>2. /\ Comes(Next1, e, Failed, members, members', Tries, Later) /\ Story
      /\ MembersTyped /\ FailedPlaces # {}
  BY <1>1, NextComes DEF Scanning
<1>3. Tries # {}
  BY <1>1, <1>2, NothingTried DEF Story
<1>4. ~\E x \in Tries : \A i \in Later : i < x
  BY <1>1, <1>2 DEF Story, Told
<1>5. Later' = Later \cup {Next1} /\ Tries' = Tries /\ Leading' = Leading
  BY <1>1, <1>2, <1>4, ReadingLater DEF Usable, IsAction, IsResult
<1>6. EligibleTerminal(r) <=> ExtendsIt(members[Failed], e)
  BY <1>1, TheFailureIs, FitMeans
<1>7. CASE EligibleTerminal(r)
  <2>1. members'[Failed] = members[Failed]
    BY <1>2 DEF Comes
  <2>2. ExtendsIt(members'[Failed], e)
    BY <1>6, <1>7, <2>1
  <2>3. Told(Failed, repeats, more, pending, snapshot, members', Tries,
             Later \cup {Next1}, Leading)
    BY <1>1, <1>2, <2>2, ToldResult DEF Story
  <2>4. /\ attempts' = more /\ phase' = "scanning"
        /\ UNCHANGED <<initial, repeats, pending, snapshot>>
    BY <1>1, <1>7
  <2> HIDE DEF more
  <2>5. Scanning'
    BY <1>1, <1>5, <2>3, <2>4, Onward
  <2> QED
    BY <2>4, <2>5
<1>8. CASE ~EligibleTerminal(r)
  <2>1. phase' = "refused"
    BY <1>1, <1>8 DEF GiveUp
  <2>2. ~AllPlaced'
    BY <1>1, <1>3, <1>6, <1>8, PlacedNext
  <2> QED
    BY <2>1, <2>2
<1> QED
  BY <1>7, <1>8

LEMMA UnplaceableRefuses ==
    ASSUME MembersTyped, NEW e \in Observations, Unplaceable(e)
    PROVE  phase' = "refused" /\ ~AllPlaced'
<1>1. Reads(e) /\ phase' = "refused" /\ ((~Decoded(e) /\ Material(e)) \/ Unusable(e))
  BY DEF Unplaceable, GiveUp
<1>2. ~IsAction(e) /\ ~Usable(e) /\ (Decoded(e) \/ Material(e))
  BY <1>1 DEF IsAction, Usable, IsResult, Unusable
<1>3. /\ Next1 \in Places' /\ members'[Next1] = e /\ Next1 \notin Places
      /\ ActionPlaces' = ActionPlaces /\ ResultPlaces' = ResultPlaces
      /\ ActionPlaces \subseteq Places /\ ResultPlaces \subseteq Places
  <2>1. ~(Next1 < Next1)
    BY <1>1, Reading
  <2> QED
    BY <1>1, <1>2, <2>1, Reading, PlacesApart
<1>4. ASSUME AllPlaced' PROVE FALSE
  <2>1. \A i \in Places' \ (ActionPlaces' \cup ResultPlaces') :
           ~Decoded(members'[i]) /\ ~Material(members'[i])
    BY <1>4 DEF AllPlaced
  <2> QED
    BY <1>2, <1>3, <2>1
<1> QED
  BY <1>1, <1>4

-----------------------------------------------------------------------------
(* The end: the attempts that a proposal shows *)

LEMMA HoldParts ==
    ASSUME NEW tried, NEW read, NEW tries, NEW answers, NEW leads,
           Hold(tried, read, tries, answers, leads)
    PROVE  /\ tried \in Seq(Attempt) /\ Len(tried) \in Nat
           /\ \A k \in 1 .. Len(tried) :
                 /\ tried[k] \in Attempt /\ tried[k].changes # {} /\ tried[k].results # <<>>
                 /\ tried[k].changes \subseteq tries /\ tried[k].changes \in SUBSET Nat
                 /\ At(tried[k]) \subseteq answers /\ At(tried[k]) \in SUBSET Nat
                 /\ Lead(tried[k]) \in At(tried[k]) /\ Lead(tried[k]) \in leads
           /\ \A k, l \in 1 .. Len(tried) : k < l =>
                 /\ \A x \in tried[k].changes, y \in tried[l].changes : x < y
                 /\ Lead(tried[k]) < Lead(tried[l])
<1>1. tried \in Seq(Attempt)
  BY DEF Hold
<1>2. Len(tried) \in Nat /\ \A k \in 1 .. Len(tried) : tried[k] \in Attempt
  BY <1>1, LenProperties, ElementOfSeq
<1>3. \A k \in 1 .. Len(tried) :
         /\ tried[k].changes # {} /\ tried[k].results # <<>>
         /\ tried[k].changes \subseteq tries /\ Lead(tried[k]) \in leads
         /\ At(tried[k]) \subseteq answers
         /\ \A x \in tried[k].changes, y \in At(tried[k]) : x < y
  BY DEF Hold, At
<1>4. \A k \in 1 .. Len(tried) :
         /\ tried[k].changes \in SUBSET Nat /\ At(tried[k]) \in SUBSET Nat
         /\ Lead(tried[k]) \in At(tried[k])
  BY <1>2, <1>3, AttemptIs
<1>5. ASSUME NEW k \in 1 .. Len(tried), NEW l \in 1 .. Len(tried), k < l
      PROVE  /\ \A x \in tried[k].changes, y \in tried[l].changes : x < y
             /\ Lead(tried[k]) < Lead(tried[l])
  <2>1. /\ \A y \in At(tried[k]), x \in tried[l].changes : y < x
        /\ \A x \in tried[l].changes, y \in At(tried[l]) : x < y
        /\ \A x \in tried[k].changes, y \in At(tried[k]) : x < y
    BY <1>3, <1>5 DEF Hold
  <2>2. PICK x \in tried[l].changes : TRUE
    BY <1>3
  <2>3. Lead(tried[k]) < x /\ x < Lead(tried[l])
    BY <1>4, <2>1
  <2>4. /\ x \in Nat /\ Lead(tried[k]) \in Nat /\ Lead(tried[l]) \in Nat
        /\ tried[k].changes \in SUBSET Nat /\ tried[l].changes \in SUBSET Nat
    BY <1>4
  <2>5. \A u \in tried[k].changes : u < Lead(tried[k])
    BY <1>4, <2>1
  <2>6. \A y \in tried[l].changes : Lead(tried[k]) < y
    BY <1>4, <2>1
  <2> QED
    BY <2>3, <2>4, <2>5, <2>6
<1> QED
  BY <1>1, <1>2, <1>3, <1>4, <1>5

\* Every attempt has one result that leads it.
LEMMA LeadsCount ==
    ASSUME NEW tried, NEW read, NEW tries, NEW answers, NEW leads,
           Hold(tried, read, tries, answers, leads)
    PROVE  IsFiniteSet(leads) /\ Cardinality(leads) = Len(tried)
<1> DEFINE n == Len(tried)
           f == [k \in 1 .. n |-> Lead(tried[k])]
<1>1. /\ n \in Nat /\ \A k \in 1 .. n : Lead(tried[k]) \in leads /\ Lead(tried[k]) \in Nat
      /\ \A k, l \in 1 .. n : k < l => Lead(tried[k]) < Lead(tried[l])
  BY HoldParts
<1>2. \A i \in leads : \E k \in 1 .. n : i = Lead(tried[k])
  BY DEF Hold
<1> HIDE DEF n
<1>3. \A k, l \in 1 .. n : k # l => Lead(tried[k]) # Lead(tried[l])
  <2> SUFFICES ASSUME NEW k \in 1 .. n, NEW l \in 1 .. n, k # l
               PROVE  Lead(tried[k]) # Lead(tried[l])
    OBVIOUS
  <2>1. k < l \/ l < k
    BY <1>1
  <2>2. Lead(tried[k]) \in Nat /\ Lead(tried[l]) \in Nat
        /\ (k < l => Lead(tried[k]) < Lead(tried[l]))
        /\ (l < k => Lead(tried[l]) < Lead(tried[k]))
    BY <1>1
  <2> QED
    BY <2>1, <2>2
<1>4. f \in Bijection(1 .. n, leads)
  <2>1. f \in [1 .. n -> leads]
    BY <1>1
  <2>2. \A k, l \in 1 .. n : f[k] = f[l] => k = l
    BY <1>3
  <2>3. \A i \in leads : \E k \in 1 .. n : f[k] = i
    BY <1>2
  <2> HIDE DEF f
  <2> QED
    BY <2>1, <2>2, <2>3 DEF Bijection, Injection, IsInjective, Surjection
<1>5. ExistsBijection(1 .. n, leads)
  BY <1>4 DEF ExistsBijection
<1>6. IsFiniteSet(1 .. n) /\ Cardinality(1 .. n) = n
  <2>1. 1 \in Int /\ n \in Int
    BY <1>1
  <2> QED
    BY <1>1, <2>1, FS_Interval
<1>7. IsFiniteSet(leads) /\ Cardinality(leads) = Cardinality(1 .. n)
  BY <1>5, <1>6, FS_Bijection
<1> QED
  BY <1>6, <1>7 DEF n

\* The attempts of a proposal: the last one may have no result.
Shown(tried, tries, answers) ==
    /\ tried \in Seq(Attempt) /\ tried # <<>>
    /\ \A k \in 1 .. Len(tried) :
          tried[k].changes # {} /\ (tried[k].results = <<>> => tried[k].result = "inconclusive")
    /\ \A k, l \in 1 .. Len(tried) : k < l =>
          /\ \A x \in tried[k].changes, y \in tried[l].changes : x < y
          /\ Following(tried[k]) \cap Following(tried[l]) = {}
    /\ Tried(tried) = tries
    /\ Verified(tried) \cup Added(tried) = answers

LEMMA PartsOf ==
    ASSUME NEW a \in Attempt
    PROVE  /\ At(a) = Following(a) \cup Additional(a)
           /\ DOMAIN a.results = 1 .. Len(a.results)
           /\ a.results # <<>> => Following(a) = {Lead(a)}
           /\ a.results = <<>> => At(a) = {}
<1>1. DOMAIN a.results = 1 .. Len(a.results)
  BY AttemptIs, LenProperties
<1>2. At(a) = Following(a) \cup Additional(a)
  BY <1>1 DEF At, Following, Additional
<1>3. ASSUME a.results # <<>> PROVE Following(a) = {Lead(a)}
  BY <1>1, <1>3, AttemptIs DEF Following, Lead
<1>4. ASSUME a.results = <<>> PROVE At(a) = {}
  <2>1. Len(a.results) = 0 /\ 1 .. 0 = {}
    BY <1>4
  <2> QED
    BY <2>1 DEF At
<1> QED
  BY <1>1, <1>2, <1>3, <1>4

LEMMA ShownWhenClosed ==
    ASSUME NEW tried, NEW read, NEW tries, NEW answers, NEW leads,
           Hold(tried, read, tries, answers, leads), tried # <<>>
    PROVE  Shown(tried, tries, answers)
<1> DEFINE n == Len(tried)
<1>1. /\ tried \in Seq(Attempt) /\ n \in Nat /\ DOMAIN tried = 1 .. n
      /\ \A k \in 1 .. n :
            /\ tried[k] \in Attempt /\ tried[k].changes # {} /\ tried[k].results # <<>>
            /\ tried[k].changes \subseteq tries /\ At(tried[k]) \subseteq answers
            /\ Lead(tried[k]) \in Nat
      /\ \A k, l \in 1 .. n : k < l =>
            /\ \A x \in tried[k].changes, y \in tried[l].changes : x < y
            /\ Lead(tried[k]) < Lead(tried[l])
  BY HoldParts, LenProperties
<1>2. /\ \A x \in tries : \E k \in 1 .. n : x \in tried[k].changes
      /\ \A i \in answers : \E k \in 1 .. n : i \in At(tried[k])
  BY DEF Hold
<1>3. \A k \in 1 .. n : /\ At(tried[k]) = Following(tried[k]) \cup Additional(tried[k])
                        /\ Following(tried[k]) = {Lead(tried[k])}
  BY <1>1, PartsOf
<1>4. Tried(tried) = tries
  BY <1>1, <1>2 DEF Tried
<1>5. Verified(tried) \cup Added(tried) = answers
  <2>1. \A i : i \in Verified(tried) \cup Added(tried)
                  <=> \E k \in 1 .. n : i \in Following(tried[k]) \cup Additional(tried[k])
    BY <1>1 DEF Verified, Added
  <2> QED
    BY <1>1, <1>2, <1>3, <2>1
<1>6. \A k, l \in 1 .. n : k < l => Following(tried[k]) \cap Following(tried[l]) = {}
  <2> SUFFICES ASSUME NEW k \in 1 .. n, NEW l \in 1 .. n, k < l
               PROVE  Following(tried[k]) \cap Following(tried[l]) = {}
    OBVIOUS
  <2>1. Lead(tried[k]) < Lead(tried[l]) /\ Lead(tried[k]) \in Nat /\ Lead(tried[l]) \in Nat
    BY <1>1
  <2>2. Lead(tried[k]) # Lead(tried[l])
    BY <2>1
  <2> QED
    BY <1>3, <2>2
<1> HIDE DEF n
<1>7. \A k \in 1 .. n :
         tried[k].changes # {} /\ (tried[k].results = <<>> => tried[k].result = "inconclusive")
  BY <1>1
<1>8. \A k, l \in 1 .. n : k < l =>
         /\ \A x \in tried[k].changes, y \in tried[l].changes : x < y
         /\ Following(tried[k]) \cap Following(tried[l]) = {}
  BY <1>1, <1>6
<1> QED
  BY <1>1, <1>4, <1>5, <1>7, <1>8 DEF Shown, n

LEMMA ShownWhenOpen ==
    ASSUME NEW tried, NEW read, NEW tries, NEW answers, NEW leads,
           Hold(tried, read, tries, answers, leads),
           NEW waiting \in SUBSET Nat, waiting # {}, answers \in SUBSET Nat,
           \A i \in answers, x \in waiting : i < x,
           NEW a, a = [changes |-> waiting, results |-> <<>>, result |-> "inconclusive"]
    PROVE  Shown(Append(tried, a), tries \cup waiting, answers)
<1> DEFINE t == Append(tried, a)
           m == Len(tried) + 1
<1>1. /\ a \in Attempt /\ a.changes = waiting /\ a.results = <<>>
      /\ a.result = "inconclusive"
  <2>1. <<>> \in Seq(Row) /\ "inconclusive" \in AttemptOutcome
    BY EmptySeq DEF AttemptOutcome
  <2> QED
    BY <2>1 DEF Attempt
<1>2. At(a) = {} /\ At(a) = Following(a) \cup Additional(a)
  BY <1>1, PartsOf
<1>3. /\ tried \in Seq(Attempt) /\ Len(tried) \in Nat
      /\ \A k \in 1 .. Len(tried) :
            /\ tried[k] \in Attempt /\ tried[k].changes # {} /\ tried[k].results # <<>>
            /\ tried[k].changes \subseteq tries /\ At(tried[k]) \subseteq answers
            /\ tried[k].changes \in SUBSET Nat
            /\ Lead(tried[k]) \in Nat /\ Lead(tried[k]) \in At(tried[k])
      /\ \A k, l \in 1 .. Len(tried) : k < l =>
            /\ \A x \in tried[k].changes, y \in tried[l].changes : x < y
            /\ Lead(tried[k]) < Lead(tried[l])
  BY HoldParts
<1>4. /\ t \in Seq(Attempt) /\ Len(t) = m /\ t[m] = a /\ DOMAIN t = 1 .. m
      /\ \A k \in 1 .. Len(tried) : t[k] = tried[k]
  BY <1>1, <1>3, AppendProperties, LenProperties
<1>5. 1 .. m = 1 .. Len(tried) \cup {m} /\ m \notin 1 .. Len(tried) /\ m \in Nat
      /\ (\A k \in 1 .. m : ~(m < k)) /\ m # 0
  BY <1>3
<1> HIDE DEF t, m
<1>6. \A k \in 1 .. Len(tried) :
         /\ At(tried[k]) = Following(tried[k]) \cup Additional(tried[k])
         /\ Following(tried[k]) = {Lead(tried[k])}
  BY <1>3, PartsOf
<1>7. /\ \A x \in tries : \E k \in 1 .. Len(tried) : x \in tried[k].changes
      /\ \A i \in answers : \E k \in 1 .. Len(tried) : i \in At(tried[k])
      /\ \A k \in 1 .. Len(tried) : \A x \in tried[k].changes, y \in At(tried[k]) : x < y
  BY DEF Hold
<1>8. Tried(t) = tries \cup waiting
  <2>1. \A x : x \in Tried(t) <=> \E k \in 1 .. m : x \in t[k].changes
    BY <1>4 DEF Tried
  <2>2. \A x : x \in Tried(t) <=> (\E k \in 1 .. Len(tried) : x \in tried[k].changes)
                                     \/ x \in waiting
    BY <1>1, <1>4, <1>5, <2>1
  <2> QED
    BY <1>3, <1>7, <2>2
<1>9. Verified(t) \cup Added(t) = answers
  <2>1. \A i : i \in Verified(t) \cup Added(t)
                  <=> \E k \in 1 .. m : i \in Following(t[k]) \cup Additional(t[k])
    BY <1>4 DEF Verified, Added
  <2>2. Following(t[m]) \cup Additional(t[m]) = {}
    BY <1>2, <1>4
  <2>3. \A k \in 1 .. Len(tried) : Following(t[k]) \cup Additional(t[k]) = At(tried[k])
    BY <1>4, <1>6
  <2>4. \A i : i \in Verified(t) \cup Added(t) <=> \E k \in 1 .. Len(tried) : i \in At(tried[k])
    <3>1. ASSUME NEW i, NEW k \in 1 .. m, i \in Following(t[k]) \cup Additional(t[k])
          PROVE  \E l \in 1 .. Len(tried) : i \in At(tried[l])
      <4>1. k # m
        BY <2>2, <3>1
      <4>2. k \in 1 .. Len(tried)
        BY <1>5, <4>1
      <4> QED
        BY <2>3, <3>1, <4>2
    <3>2. ASSUME NEW i, NEW l \in 1 .. Len(tried), i \in At(tried[l])
          PROVE  \E k \in 1 .. m : i \in Following(t[k]) \cup Additional(t[k])
      BY <1>5, <2>3, <3>2
    <3> QED
      BY <2>1, <3>1, <3>2
  <2> QED
    BY <1>3, <1>7, <2>4
<1>10. \A k \in 1 .. m :
          t[k].changes # {} /\ (t[k].results = <<>> => t[k].result = "inconclusive")
  BY <1>1, <1>3, <1>4, <1>5
<1>11. ASSUME NEW k \in 1 .. m, NEW l \in 1 .. m, k < l
       PROVE  /\ \A x \in t[k].changes, y \in t[l].changes : x < y
              /\ Following(t[k]) \cap Following(t[l]) = {}
  <2>1. k \in 1 .. Len(tried) /\ t[k] = tried[k]
    BY <1>4, <1>5, <1>11
  <2>2. CASE l = m
    <3>1. t[l] = a /\ Following(a) = {}
      BY <1>2, <1>4, <2>2
    <3>2. ASSUME NEW x \in tried[k].changes, NEW y \in waiting PROVE x < y
      <4>1. x < Lead(tried[k]) /\ Lead(tried[k]) < y
        BY <1>3, <1>7, <2>1
      <4>2. x \in Nat /\ y \in Nat /\ Lead(tried[k]) \in Nat
        BY <1>3, <2>1
      <4> QED
        BY <4>1, <4>2
    <3> QED
      BY <1>1, <2>1, <3>1, <3>2
  <2>3. CASE l \in 1 .. Len(tried)
    <3>1. t[l] = tried[l] /\ Lead(tried[k]) < Lead(tried[l])
          /\ Lead(tried[k]) \in Nat /\ Lead(tried[l]) \in Nat
      BY <1>3, <1>4, <1>11, <2>1, <2>3
    <3>2. Lead(tried[k]) # Lead(tried[l])
      BY <3>1
    <3>3. \A x \in tried[k].changes, y \in tried[l].changes : x < y
      BY <1>3, <1>11, <2>1, <2>3
    <3> QED
      BY <1>6, <2>1, <2>3, <3>1, <3>2, <3>3
  <2> QED
    BY <1>5, <2>2, <2>3
<1>12. t # <<>>
  <2>1. Len(<<>>) = 0
    OBVIOUS
  <2> QED
    BY <1>4, <1>5, <2>1
<1>13. Shown(t, tries \cup waiting, answers)
  BY <1>4, <1>8, <1>9, <1>10, <1>11, <1>12 DEF Shown
<1> QED
  BY <1>13 DEF t

-----------------------------------------------------------------------------
(* The end: what the store demands *)

\* What is observed in the end are the results of the last attempt.
Observes(x, last, abandoned) ==
    /\ abandoned => x.observations = {}
    /\ ~abandoned => \A p : p \in At(last) <=> \E r \in x.observations : r.at = p

Relates(x, f, again, tries, answers, abandoned) ==
    /\ Shown(x.attempts, tries, answers)
    /\ tries \cap answers = {} /\ again \cap (tries \cup answers) = {}
    /\ f \notin again \cup tries \cup answers
    /\ x.relation = Relations(f, again, x.attempts, abandoned)
    /\ Observes(x, x.attempts[Len(x.attempts)], abandoned)

LEMMA RelationsAdmitted ==
    ASSUME NEW f, NEW again, NEW tries, NEW answers, NEW abandoned, NEW x,
           Relates(x, f, again, tries, answers, abandoned)
    PROVE  /\ ValidAttempts(x) /\ ValidLinks(x) /\ ValidObservations(x)
           /\ DOMAIN x.relation = {f} \cup again \cup tries \cup answers
<1> DEFINE tried == x.attempts
           last == tried[Len(tried)]
           rel == Relations(f, again, tried, abandoned)
           D == {f} \cup again \cup tries \cup answers
           n == Len(tried)
<1>0. /\ Shown(tried, tries, answers)
      /\ tries \cap answers = {} /\ again \cap (tries \cup answers) = {}
      /\ f \notin again \cup tries \cup answers
      /\ x.relation = rel /\ x.attempts = tried /\ last = tried[Len(tried)]
      /\ Observes(x, last, abandoned)
  BY DEF Relates
<1> HIDE DEF last
<1> USE <1>0
<1> HIDE DEF tried
<1>1. Tried(tried) = tries /\ Verified(tried) \cup Added(tried) = answers
  BY DEF Shown
<1>2. /\ n \in Nat /\ DOMAIN tried = 1 .. n /\ n \in 1 .. n
      /\ \A k \in 1 .. n : tried[k] \in Attempt
  BY LenProperties, EmptySeq, ElementOfSeq DEF Shown
<1>3. DOMAIN rel = D
  BY <1>1 DEF Relations
<1>33. \A p \in D : rel[p] =
          IF p = f THEN "initial_failure"
          ELSE IF p \in tries THEN "attempt_change"
          ELSE IF p \in Verified(tried) THEN "attempt_verification"
          ELSE IF ~abandoned /\ p \in Additional(last) THEN "terminal_verification"
          ELSE "supporting"
  BY <1>1, <1>3 DEF Relations
<1> HIDE DEF rel
<1>4. \A p \in tries : p \in D /\ rel[p] = "attempt_change"
  <2>1. \A p \in tries : p \in D /\ p # f
    OBVIOUS
  <2> QED
    BY <1>33, <2>1
<1>5. \A p \in Verified(tried) : p \in D /\ rel[p] = "attempt_verification"
  <2>1. \A p \in Verified(tried) : p \in D /\ p # f /\ p \notin tries
    BY <1>1
  <2> QED
    BY <1>33, <2>1
<1>6. \A p \in answers \ Verified(tried) :
         /\ p \in D
         /\ rel[p] = IF ~abandoned /\ p \in Additional(last) THEN "terminal_verification"
                     ELSE "supporting"
  <2>1. \A p \in answers : p \in D /\ p # f /\ p \notin tries
    OBVIOUS
  <2> QED
    BY <1>33, <2>1
<1>7. rel[f] = "initial_failure"
  BY <1>33
<1>8. \A p \in again : p \notin Additional(last) =>
         rel[p] # "attempt_change" /\ rel[p] # "attempt_verification"
         /\ rel[p] # "terminal_verification"
  <2>1. \A p \in again : p \in D /\ p # f /\ p \notin tries /\ p \notin Verified(tried)
    BY <1>1
  <2> QED
    BY <1>33, <2>1
<1>9. Additional(last) \subseteq answers /\ Following(last) \subseteq Verified(tried)
  BY <1>1, <1>2 DEF Verified, Added
<1> HIDE DEF rel, D
<1>10. ValidAttempts(x)
  <2>1. tried # <<>> /\ DOMAIN rel # {}
    BY <1>3 DEF Shown, D
  <2>2. \A k, l \in 1 .. n : k # l =>
           /\ tried[k].changes \cap tried[l].changes = {}
           /\ Following(tried[k]) \cap Following(tried[l]) = {}
    <3>1. \A k, l \in 1 .. n : k < l =>
             /\ tried[k].changes \cap tried[l].changes = {}
             /\ Following(tried[k]) \cap Following(tried[l]) = {}
      <4> SUFFICES ASSUME NEW k \in 1 .. n, NEW l \in 1 .. n, k < l
                   PROVE  /\ tried[k].changes \cap tried[l].changes = {}
                          /\ Following(tried[k]) \cap Following(tried[l]) = {}
        OBVIOUS
      <4>1. /\ \A u \in tried[k].changes, v \in tried[l].changes : u < v
            /\ Following(tried[k]) \cap Following(tried[l]) = {}
        BY DEF Shown
      <4>2. tried[k].changes \in SUBSET Nat
        BY <1>2, AttemptIs
      <4>3. \A u \in tried[k].changes : ~(u < u)
        BY <4>2
      <4> QED
        BY <4>1, <4>3
    <3> SUFFICES ASSUME NEW k \in 1 .. n, NEW l \in 1 .. n, k # l
                 PROVE  /\ tried[k].changes \cap tried[l].changes = {}
                        /\ Following(tried[k]) \cap Following(tried[l]) = {}
      OBVIOUS
    <3>2. k < l \/ l < k
      BY <1>2
    <3> QED
      BY <3>1, <3>2
  <2>3. Disjoint([i \in DOMAIN tried |-> tried[i].changes])
    BY <1>2, <2>2 DEF Disjoint
  <2>4. Disjoint([i \in DOMAIN tried |-> Following(tried[i])])
    BY <1>2, <2>2 DEF Disjoint
  <2>5. ASSUME NEW k \in 1 .. n
        PROVE  /\ tried[k].changes # {}
               /\ \A p \in tried[k].changes : p \in D /\ rel[p] = "attempt_change"
               /\ \A p \in Following(tried[k]) : p \in D /\ rel[p] = "attempt_verification"
               /\ tried[k].result # "inconclusive" => Following(tried[k]) # {}
    <3>1. /\ tried[k].changes # {}
          /\ tried[k].results = <<>> => tried[k].result = "inconclusive"
      BY DEF Shown
    <3>2. tried[k].changes \subseteq tries /\ Following(tried[k]) \subseteq Verified(tried)
      BY <1>1, <1>2 DEF Tried, Verified
    <3>3. tried[k].results # <<>> => Following(tried[k]) # {}
      BY <1>2, PartsOf
    <3> QED
      BY <1>4, <1>5, <3>1, <3>2, <3>3
  <2> QED
    BY <1>2, <1>3, <2>1, <2>3, <2>4, <2>5 DEF ValidAttempts, HasRelation, rel
<1>11. ValidLinks(x)
  <2>1. ASSUME NEW p \in D, rel[p] = "attempt_change" PROVE p \in tries
    <3>1. p \in again => p \notin Additional(last)
      BY <1>9
    <3> QED
      BY <1>5, <1>6, <1>7, <1>8, <2>1, <3>1 DEF D
  <2>2. ASSUME NEW p \in D, rel[p] = "attempt_verification" PROVE p \in Verified(tried)
    <3>1. p \in again => p \notin Additional(last)
      BY <1>9
    <3> QED
      BY <1>4, <1>6, <1>7, <1>8, <2>2, <3>1 DEF D
  <2>3. ASSUME NEW p \in D, rel[p] = "terminal_verification"
        PROVE  \E r \in x.observations : r.at = p
    <3>1. p \in again => p \notin Additional(last)
      BY <1>9
    <3>2. p \in answers \ Verified(tried)
      BY <1>4, <1>5, <1>7, <1>8, <2>3, <3>1 DEF D
    <3>3. ~abandoned /\ p \in Additional(last)
      BY <1>6, <2>3, <3>2
    <3>4. p \in At(last)
      BY <1>2, <3>3, PartsOf
    <3> QED
      BY <3>3, <3>4 DEF Observes
  <2> QED
    BY <1>1, <1>3, <2>1, <2>2, <2>3 DEF ValidLinks, rel
<1>12. ValidObservations(x)
  <2> SUFFICES ASSUME NEW r \in x.observations
               PROVE  /\ r.at \in D
                      /\ \/ rel[r.at] = "attempt_verification"
                         \/ rel[r.at] = "terminal_verification"
    BY <1>3 DEF ValidObservations, HasRelation, rel
  <2>1. ~abandoned /\ r.at \in At(last)
    BY DEF Observes
  <2>2. r.at \in Following(last) \cup Additional(last)
    BY <1>2, <2>1, PartsOf
  <2> QED
    BY <1>5, <1>6, <1>9, <2>1, <2>2
<1> QED
  BY <1>3, <1>10, <1>11, <1>12 DEF rel, D

\* An outcome of results without a contradiction on one subject.
LEMMA OutcomesAdmitted ==
    ASSUME NEW R, R # {}, NEW x, x.observations = R,
           TerminalOutcome(R) # "none", x.outcome = TerminalOutcome(R),
           x.status = VerificationOf(x.outcome, R),
           \A r \in R : r.status \in {"explicitly_accepted", "verified_passed", "verified_failed"}
    PROVE  /\ ValidOutcome(x) /\ ValidForEpisode(x, "closed")
           /\ x.outcome \in {"success", "failure", "partial_success"}
           /\ x.outcome = (CASE \A r \in R : Positive(r) -> "success"
                             [] \A r \in R : ~Positive(r) -> "failure"
                             [] OTHER -> "partial_success")
<1> DEFINE good == {r \in R : Positive(r)}
           bad == R \ good
<1>1. Good(R) = good /\ Bad(R) = bad
  BY DEF Good, Bad, Positive
<1>2. /\ ~\E r \in good, s \in bad : r.scope.subject = s.scope.subject
      /\ x.outcome = IF bad = {} THEN "success" ELSE IF good = {} THEN "failure"
                     ELSE "partial_success"
  BY DEF TerminalOutcome
<1>3. CASE bad = {}
  <2>1. x.outcome = "success" /\ good = R /\ \A r \in R : Positive(r)
    BY <1>2, <1>3
  <2>2. x.status = IF \A r \in R : r.status = "explicitly_accepted" THEN "explicitly_accepted"
                   ELSE "verified_passed"
    BY <2>1 DEF VerificationOf
  <2>3. (\A r \in R : r.status = "explicitly_accepted") => Accepted(good) # {}
    BY <2>1 DEF Accepted
  <2>4. ~(\A r \in R : r.status = "explicitly_accepted") => good \ Accepted(good) # {}
    BY <2>1 DEF Accepted
  <2>5. ValidOutcome(x)
    BY <1>1, <1>3, <2>1, <2>2, <2>3, <2>4 DEF ValidOutcome
  <2> QED
    BY <2>1, <2>5 DEF ValidForEpisode
<1>4. CASE bad # {} /\ good = {}
  <2>1. x.outcome = "failure" /\ x.status = "verified_failed"
    BY <1>2, <1>4 DEF VerificationOf
  <2>2. ValidOutcome(x)
    BY <1>1, <1>4, <2>1 DEF ValidOutcome
  <2>3. (\A r \in R : ~Positive(r)) /\ ~(\A r \in R : Positive(r))
    BY <1>4
  <2> QED
    BY <2>1, <2>2, <2>3 DEF ValidForEpisode
<1>5. CASE bad # {} /\ good # {}
  <2>1. x.outcome = "partial_success" /\ x.status = "conflicting"
    BY <1>2, <1>5 DEF VerificationOf
  <2>2. \E r \in good, s \in bad : r.scope.subject # s.scope.subject
    BY <1>2, <1>5
  <2> HIDE DEF good, bad
  <2>4. ValidOutcome(x)
    BY <1>1, <1>5, <2>1, <2>2 DEF ValidOutcome
  <2>3. ~(\A r \in R : ~Positive(r)) /\ ~(\A r \in R : Positive(r))
    BY <1>5 DEF good, bad
  <2> QED
    BY <2>1, <2>3, <2>4 DEF ValidForEpisode
<1> QED
  BY <1>3, <1>4, <1>5

LEMMA StrengthAdmitted ==
    ASSUME NEW R, IsFiniteSet(R), NEW abandoned \in BOOLEAN, NEW x, x.observations = R,
           abandoned <=> R = {}, x.outcome = "abandoned" <=> abandoned,
           NEW repeated, repeated = (~UsesAcceptance(R) /\ Repeated(R)),
           x.strength = (CASE abandoned -> "weak"
                           [] ~abandoned /\ repeated -> "strong"
                           [] OTHER -> "moderate"),
           x.bases = Bases(R, repeated)
    PROVE  ValidStrength(x) /\ (x.strength = "strong" => repeated)
<1> DEFINE verified == R \ Accepted(R)
<1>1. /\ abandoned => x.strength = "weak"
      /\ ~abandoned => x.strength = IF repeated THEN "strong" ELSE "moderate"
  OBVIOUS
<1>2. "temporal_association" \in x.bases
  BY DEF Bases
<1>3. "explicit_user_acceptance" \in x.bases <=> Accepted(R) # {}
  BY DEF Bases, Accepted
<1>4. "deterministic_verifier" \in x.bases <=> verified # {}
  BY DEF Bases, Accepted
<1>5. "repeated_deterministic_evidence" \in x.bases <=> repeated
  BY DEF Bases
<1>6. ASSUME repeated PROVE Cardinality(verified) >= 2
  <2>1. Accepted(R) = {} /\ verified = R /\ Repeated(R)
    BY <1>6 DEF UsesAcceptance, Accepted
  <2>2. PICK r \in R : \E s \in R \ {r} : r.status = s.status /\ r.scope = s.scope
    BY <2>1 DEF Repeated
  <2>3. PICK s \in R \ {r} : TRUE
    BY <2>2
  <2>4. IsFiniteSet(R \ {r}) /\ Cardinality(R \ {r}) = Cardinality(R) - 1
    BY FS_RemoveElement
  <2>5. Cardinality(R \ {r}) # 0 /\ Cardinality(R \ {r}) \in Nat /\ Cardinality(R) \in Nat
    BY <2>3, <2>4, FS_CardinalityType, FS_EmptySet
  <2>6. Cardinality(R) >= 2
    BY <2>4, <2>5
  <2> QED
    BY <2>1, <2>6
<1>7. R # {} => Accepted(R) # {} \/ verified # {}
  OBVIOUS
<1>8. /\ x.bases # {}
      /\ x.outcome # "abandoned" => x.strength \in {"strong", "moderate"}
      /\ x.strength \in {"strong", "moderate"} =>
            x.bases \cap (Deterministic \cup {"explicit_user_acceptance"}) # {}
  BY <1>1, <1>2, <1>3, <1>4, <1>7 DEF Deterministic
<1>9. /\ Accepted(R) # {} => "explicit_user_acceptance" \in x.bases
      /\ verified # {} => x.bases \cap Deterministic # {}
      /\ "repeated_deterministic_evidence" \in x.bases => Cardinality(verified) >= 2
  BY <1>3, <1>4, <1>5, <1>6 DEF Deterministic
<1> QED
  BY <1>1, <1>8, <1>9 DEF ValidStrength

-----------------------------------------------------------------------------
(* The end: what the places say *)

LEMMA StoryIs ==
    ASSUME Scanning, initial # {}
    PROVE  /\ MembersTyped /\ FailedPlaces # {} /\ Failed \in Nat
           /\ Hold(attempts, members, Tries \ pending, Later \ repeats, Leading)
           /\ Tries \in SUBSET Nat /\ Later \in SUBSET Nat /\ Leading \subseteq Later
           /\ \A i \in Tries \cup Later : Failed < i
           /\ Tries \cap Later = {} /\ pending \subseteq Tries /\ repeats \subseteq Later
           /\ \A t \in pending, i \in Later : i < t
           /\ \A t \in Tries, i \in repeats : i < t
           /\ \A i \in Later \ repeats : \E t \in Tries : t < i
<1>1. MembersTyped /\ FailedPlaces # {} /\ Story
  BY DEF Scanning
<1>2. /\ Hold(attempts, members, Tries \ pending, Later \ repeats, Leading)
      /\ Tries \in SUBSET Nat /\ Later \in SUBSET Nat /\ Leading \subseteq Later
      /\ Failed \in Nat
      /\ pending \subseteq Tries /\ repeats \subseteq Later
      /\ \A t \in pending, i \in Later : i < t
      /\ \A t \in Tries, i \in repeats : i < t
      /\ repeats = {i \in Later : \A t \in Tries : i < t}
  BY <1>1 DEF Story, Told
<1>3. Tries \cap Later = {}
  BY <1>1, LeadingIs
<1>4. \A i \in Tries \cup Later : Failed < i
  <2>1. (\A i \in Tries : i > Failed) /\ (\A i \in Later : i > Failed)
    BY DEF Tries, Later
  <2> QED
    BY <1>2, <2>1
<1>5. \A i \in Later \ repeats : \E t \in Tries : t < i
  <2> SUFFICES ASSUME NEW i \in Later \ repeats PROVE \E t \in Tries : t < i
    OBVIOUS
  <2>1. PICK t \in Tries : ~(i < t)
    BY <1>2
  <2>2. t # i /\ t \in Nat /\ i \in Nat
    BY <1>2, <1>3
  <2> QED
    BY <2>1, <2>2
<1> QED
  BY <1>1, <1>2, <1>3, <1>4, <1>5

LEMMA PlacedIfTried ==
    ASSUME Scanning, initial # {}
    PROVE  AllPlaced <=> Tries # {}
<1>1. AllPlaced => Tries # {}
  BY DEF AllPlaced
<1> SUFFICES ASSUME Tries # {} PROVE AllPlaced
  BY <1>1
<1> DEFINE g == members[Failed]
<1>2. /\ Sorted /\ FailedPlaces # {}
      /\ \A i \in repeats : RepeatsIt(g, members[i])
      /\ \A i \in Later \ repeats : /\ i \in Leading => AnswersIt(g, members[i])
                                    /\ i \notin Leading => ExtendsIt(g, members[i])
  BY DEF Scanning, Story, Told
<1>3. /\ Tries \in SUBSET Nat /\ Later \in SUBSET Nat /\ Leading \subseteq Later
      /\ Tries \cap Later = {} /\ repeats \subseteq Later
      /\ \A t \in Tries, i \in repeats : i < t
      /\ \A i \in Later \ repeats : \E t \in Tries : t < i
      /\ Hold(attempts, members, Tries \ pending, Later \ repeats, Leading)
  BY StoryIs
<1>4. First(Tries) \in Tries /\ \A t \in Tries : First(Tries) <= t
  BY <1>3, FirstIs
<1> DEFINE first == First(Tries)
<1>5. first \in Tries /\ first \in Nat /\ \A t \in Tries : first <= t
  BY <1>3, <1>4
<1> HIDE DEF first
<1>6. \A i \in Later : i < first => i \in repeats
  <2> SUFFICES ASSUME NEW i \in Later, i < first, i \notin repeats PROVE FALSE
    OBVIOUS
  <2>1. PICK t \in Tries : t < i
    BY <1>3
  <2>2. t \in Nat /\ i \in Nat /\ first <= t
    BY <1>3, <1>5
  <2> QED
    BY <1>5, <2>1, <2>2
<1>7. \A i \in Later : i > first => i \notin repeats
  <2> SUFFICES ASSUME NEW i \in repeats, i > first PROVE FALSE
    OBVIOUS
  <2>1. i < first /\ i \in Nat
    BY <1>3, <1>5
  <2> QED
    BY <1>5, <2>1
<1>8. Leading \cap repeats = {}
  <2>1. \A i \in Leading : \E k \in 1 .. Len(attempts) : i = Lead(attempts[k])
    BY <1>3 DEF Hold
  <2>2. \A k \in 1 .. Len(attempts) : Lead(attempts[k]) \in Later \ repeats
    <3> DEFINE answers == Later \ repeats
               tries == Tries \ pending
    <3>1. Hold(attempts, members, tries, answers, Leading)
      BY <1>3
    <3> HIDE DEF answers, tries
    <3>2. \A k \in 1 .. Len(attempts) :
             At(attempts[k]) \subseteq answers /\ Lead(attempts[k]) \in At(attempts[k])
      BY <3>1, HoldParts
    <3> QED
      BY <3>2 DEF answers
  <2> QED
    BY <2>1, <2>2
<1>9. \A i \in Later : i < first =>
         /\ Scope(members[i]) = Scope(g) /\ Status(members[i]) = "verified_failed"
         /\ \E x \in Normalized(members[i]) : x.exact /\ x \in Normalized(g)
  BY <1>2, <1>6 DEF RepeatsIt
<1>10. \A i \in Leading : members[i].subject = g.subject
  BY <1>2, <1>3, <1>8 DEF AnswersIt
<1>11. \A i \in {j \in Later : j > first} :
          \/ members[i].contract = "acceptance" /\ members[i].subject = g.subject
          \/ /\ members[i].contract = g.contract
             /\ (g.contract = "testrun" \/ i \in Leading) => Scope(members[i]) = Scope(g)
  <2> SUFFICES ASSUME NEW i \in Later, i > first
               PROVE  \/ members[i].contract = "acceptance" /\ members[i].subject = g.subject
                      \/ /\ members[i].contract = g.contract
                         /\ (g.contract = "testrun" \/ i \in Leading) =>
                               Scope(members[i]) = Scope(g)
    OBVIOUS
  <2>1. i \in Later \ repeats
    BY <1>7
  <2>2. CASE i \in Leading
    BY <1>2, <2>1, <2>2 DEF AnswersIt
  <2>3. CASE i \notin Leading
    BY <1>2, <2>1, <2>3 DEF ExtendsIt
  <2> QED
    BY <2>2, <2>3
<1> QED
  BY <1>2, <1>9, <1>10, <1>11 DEF AllPlaced, Sorted, first

\* The results after the last action are those of the last attempt.
LEMMA FinalRunIs ==
    ASSUME Scanning, initial # {}, Tries # {}
    PROVE  /\ pending # {} => FinalRun = {}
           /\ pending = {} => /\ attempts # <<>>
                              /\ attempts[Len(attempts)] \in Attempt
                              /\ FinalRun = At(attempts[Len(attempts)])
                              /\ Lead(attempts[Len(attempts)]) \in FinalRun \cap Leading
<1>1. /\ Tries \in SUBSET Nat /\ Later \in SUBSET Nat
      /\ Hold(attempts, members, Tries \ pending, Later \ repeats, Leading)
      /\ pending \subseteq Tries /\ repeats \subseteq Later /\ MembersTyped
      /\ FailedPlaces # {} /\ Story
      /\ \A t \in pending, i \in Later : i < t
      /\ \A t \in Tries, i \in repeats : i < t
  BY StoryIs DEF Scanning
<1> DEFINE last == Latest(Tries)
<1>2. last \in Tries /\ last \in Nat /\ \A t \in Tries : t <= last
  <2>1. \A t \in Tries : t <= Len(members)
    BY <1>1, LeadingIs DEF Places
  <2>2. Len(members) \in Nat
    BY <1>1, PlacesApart
  <2> QED
    BY <1>1, <2>1, <2>2, LatestIs
<1>3. FinalRun = {i \in Later : i > last}
  BY DEF FinalRun
<1> HIDE DEF last
<1>4. ASSUME pending # {} PROVE FinalRun = {}
  <2>1. PICK t \in pending : TRUE
    BY <1>4
  <2>2. \A i \in Later : ~(i > last)
    <3> SUFFICES ASSUME NEW i \in Later PROVE ~(i > last)
      OBVIOUS
    <3>1. i < t /\ t <= last /\ i \in Nat /\ t \in Nat
      BY <1>1, <1>2, <2>1
    <3> QED
      BY <1>2, <3>1
  <2> QED
    BY <1>3, <2>2
<1>5. ASSUME pending = {}
      PROVE  /\ attempts # <<>> /\ attempts[Len(attempts)] \in Attempt
             /\ FinalRun = At(attempts[Len(attempts)])
             /\ Lead(attempts[Len(attempts)]) \in FinalRun \cap Leading
  <2> DEFINE n == Len(attempts)
             answers == Later \ repeats
  <2>1. attempts # <<>>
    BY <1>1, <1>5, NothingTried DEF Story
  <2>2. /\ attempts \in Seq(Attempt) /\ n \in Nat
        /\ \A k \in 1 .. n :
              /\ attempts[k] \in Attempt /\ attempts[k].changes # {}
              /\ attempts[k].changes \subseteq Tries
              /\ At(attempts[k]) \subseteq answers /\ Lead(attempts[k]) \in At(attempts[k])
              /\ Lead(attempts[k]) \in Leading
        /\ \A k, l \in 1 .. n : k < l =>
              \A x \in attempts[k].changes, y \in attempts[l].changes : x < y
    <3>1. Tries \ pending = Tries
      BY <1>5
    <3>2. Hold(attempts, members, Tries, answers, Leading)
      BY <1>1, <3>1
    <3> HIDE DEF answers
    <3> QED
      BY <3>2, HoldParts
  <2>3. n \in 1 .. n /\ \A k \in 1 .. n : k = n \/ k < n
    <3>1. n # 0
      BY <2>1, <2>2, EmptySeq
    <3> QED
      BY <2>2, <3>1
  <2>4. /\ \A k \in 1 .. n : \A x \in attempts[k].changes, y \in At(attempts[k]) : x < y
        /\ \A k, l \in 1 .. n : k < l =>
              \A y \in At(attempts[k]), x \in attempts[l].changes : y < x
        /\ \A x \in Tries : \E k \in 1 .. n : x \in attempts[k].changes
        /\ \A i \in answers : \E k \in 1 .. n : i \in At(attempts[k])
    BY <1>1, <1>5 DEF Hold
  <2> HIDE DEF n, answers
  <2>5. \A i \in answers : i \in Nat /\ i \in Later /\ i \notin repeats
    BY <1>1 DEF answers
  <2>6. last \in attempts[n].changes
    <3>1. PICK k \in 1 .. n : last \in attempts[k].changes
      BY <1>2, <2>4
    <3>2. PICK x \in attempts[n].changes : TRUE
      BY <2>2, <2>3
    <3>3. x \in Tries /\ x <= last /\ x \in Nat
      BY <1>1, <1>2, <2>2, <2>3, <3>2
    <3>4. CASE k < n
      <4>1. last < x
        BY <2>2, <2>3, <3>1, <3>2, <3>4
      <4> QED
        BY <1>2, <3>3, <4>1
    <3> QED
      BY <2>3, <3>1, <3>4
  <2>7. ASSUME NEW i \in At(attempts[n]) PROVE i \in FinalRun
    <3>1. i \in Later /\ i \in Nat /\ last < i
      BY <2>2, <2>3, <2>4, <2>5, <2>6
    <3> QED
      BY <1>2, <1>3, <3>1
  <2>8. ASSUME NEW i \in FinalRun PROVE i \in At(attempts[n])
    <3>1. i \in Later /\ last < i /\ i \in Nat
      BY <1>1, <1>2, <1>3
    <3>2. i \notin repeats
      <4> SUFFICES ASSUME i \in repeats PROVE FALSE
        OBVIOUS
      <4>1. i < last
        BY <1>1, <1>2
      <4> QED
        BY <1>2, <3>1, <4>1
    <3>3. PICK k \in 1 .. n : i \in At(attempts[k])
      BY <2>4, <3>1, <3>2 DEF answers
    <3>4. CASE k < n
      <4>1. i < last
        BY <2>3, <2>4, <2>6, <3>3, <3>4
      <4> QED
        BY <1>2, <3>1, <4>1
    <3> QED
      BY <2>3, <3>3, <3>4
  <2>9. FinalRun = At(attempts[n])
    BY <2>7, <2>8
  <2>10. attempts[n] \in Attempt /\ Lead(attempts[n]) \in FinalRun \cap Leading
    BY <2>2, <2>3, <2>9
  <2> QED
    BY <2>1, <2>9, <2>10 DEF n
<1> QED
  BY <1>4, <1>5

\* terminal_results: the results of the last attempt.
LEMMA TerminalsAre ==
    ASSUME Scanning, initial # {}, Tries # {}, pending = {}
    PROVE  /\ \A r \in Terminals : r.at \in FinalRun /\ r = ResultAt(r.at)
           /\ \A i \in FinalRun : ResultAt(i) \in Terminals
           /\ IsFiniteSet(Terminals) /\ Terminals # {} /\ FinalRun # {}
<1> DEFINE a == attempts[Len(attempts)]
<1>1. /\ Hold(attempts, members, Tries \ pending, Later \ repeats, Leading)
      /\ attempts # <<>> /\ a \in Attempt /\ FinalRun = At(a) /\ Lead(a) \in FinalRun
  BY StoryIs, FinalRunIs
<1>2. Terminals = ToSet(a.results)
  BY DEF Terminals, Last
<1>3. /\ Len(a.results) \in Nat /\ DOMAIN a.results = 1 .. Len(a.results)
      /\ a.results \in Seq(Row)
  BY <1>1, AttemptIs, PartsOf
<1>4. Len(attempts) \in 1 .. Len(attempts)
  BY <1>1, LenProperties, EmptySeq, HoldParts
<1>5. \A j \in 1 .. Len(a.results) :
         a.results[j] = Result(a.results[j].at, members[a.results[j].at])
  BY <1>1, <1>4 DEF Hold
<1> HIDE DEF a
<1>6. Terminals = {a.results[j] : j \in 1 .. Len(a.results)}
  BY <1>2, <1>3 DEF ToSet
<1>7. \A r \in Terminals : r.at \in FinalRun /\ r = ResultAt(r.at)
  BY <1>1, <1>5, <1>6 DEF At, ResultAt
<1>8. \A i \in FinalRun : ResultAt(i) \in Terminals
  BY <1>1, <1>5, <1>6 DEF At, ResultAt
<1>9. IsFiniteSet(Terminals)
  <2> DEFINE n == Len(a.results)
             s == a.results
  <2>1. n \in Nat
    BY <1>3
  <2> HIDE DEF n
  <2>2. IsFiniteSet(1 .. n)
    BY <2>1, FS_Interval
  <2> DEFINE T == {s[j] : j \in 1 .. n}
             f == [j \in 1 .. n |-> s[j]]
  <2> HIDE DEF s
  <2>3. IsFiniteSet(T)
    <3>1. f \in Surjection(1 .. n, T)
      BY DEF Surjection
    <3> HIDE DEF f, T
    <3> QED
      BY <2>2, <3>1, FS_Surjection
  <2> QED
    BY <1>6, <2>3 DEF n, s
<1>10. FinalRun # {}
  BY <1>1
<1> QED
  BY <1>7, <1>8, <1>9, <1>10

-----------------------------------------------------------------------------
(* The end: what is proposed *)

LEMMA ProposedIs ==
    ASSUME NEW tried, NEW abandoned \in BOOLEAN, NEW R, NEW x,
           x = Proposed(tried, abandoned, R)
    PROVE  LET repeated == ~UsesAcceptance(R) /\ Repeated(R)
           IN  /\ x.outcome = (IF abandoned THEN "abandoned" ELSE TerminalOutcome(R))
               /\ x.status = VerificationOf(x.outcome, R)
               /\ x.failure = TheFailure.at /\ x.attempts = tried /\ x.observations = R
               /\ x.relation = Relations(TheFailure.at, repeats, tried, abandoned)
               /\ x.strength = (CASE abandoned -> "weak"
                                  [] ~abandoned /\ repeated -> "strong"
                                  [] OTHER -> "moderate")
               /\ x.bases = Bases(R, repeated)
               /\ x.automatic <=> (~snapshot /\ ~UsesAcceptance(R) /\ ~abandoned)
BY DEF Proposed

\* The attempts of a proposal, with one that nothing followed at most.
TriedSoFar == IF pending = {} THEN attempts ELSE Append(attempts, Inconclusive)

LEMMA TriedIs ==
    ASSUME Scanning, initial # {}, Tries # {}
    PROVE  /\ Shown(TriedSoFar, Tries, Later \ repeats)
           /\ Len(TriedSoFar) = Cardinality(Leading) + (IF FinalRun = {} THEN 1 ELSE 0)
           /\ \A k \in DOMAIN TriedSoFar : TriedSoFar[k].result \in AttemptOutcome
<1> DEFINE answers == Later \ repeats
<1>1. /\ Hold(attempts, members, Tries \ pending, answers, Leading)
      /\ Tries \in SUBSET Nat /\ answers \in SUBSET Nat /\ pending \in SUBSET Nat
      /\ (Tries \ pending) \cup pending = Tries
      /\ \A i \in answers, t \in pending : i < t
  BY StoryIs
<1>2. Cardinality(Leading) = Len(attempts) /\ Len(attempts) \in Nat
      /\ attempts \in Seq(Attempt)
  BY <1>1, LeadsCount, HoldParts
<1> HIDE DEF answers
<1>3. ASSUME pending = {}
      PROVE  /\ Shown(TriedSoFar, Tries, answers)
             /\ Len(TriedSoFar) = Cardinality(Leading) + (IF FinalRun = {} THEN 1 ELSE 0)
  <2>1. attempts # <<>> /\ FinalRun # {}
    BY <1>3, FinalRunIs
  <2>2. TriedSoFar = attempts /\ Hold(attempts, members, Tries, answers, Leading)
    <3>1. Tries \ pending = Tries
      BY <1>3
    <3> QED
      BY <1>1, <1>3, <3>1 DEF TriedSoFar
  <2>3. Shown(attempts, Tries, answers)
    BY <2>1, <2>2, ShownWhenClosed
  <2> QED
    BY <1>2, <2>1, <2>2, <2>3
<1>4. ASSUME pending # {}
      PROVE  /\ Shown(TriedSoFar, Tries, answers)
             /\ Len(TriedSoFar) = Cardinality(Leading) + (IF FinalRun = {} THEN 1 ELSE 0)
  <2> DEFINE a == Inconclusive
             tries == Tries \ pending
  <2>1. TriedSoFar = Append(attempts, a) /\ FinalRun = {}
    BY <1>4, FinalRunIs DEF TriedSoFar
  <2>2. a = [changes |-> pending, results |-> <<>>, result |-> "inconclusive"]
    BY DEF Inconclusive
  <2>3. Hold(attempts, members, tries, answers, Leading)
    BY <1>1
  <2> HIDE DEF a, tries
  <2>4. Shown(Append(attempts, a), tries \cup pending, answers)
    BY <1>1, <1>4, <2>2, <2>3, ShownWhenOpen
  <2>5. Len(Append(attempts, a)) = Len(attempts) + 1
    <3>1. Append(attempts, a) \in Seq(Attempt)
      BY <2>4 DEF Shown
    <3> QED
      BY <1>2, LenProperties
  <2> QED
    BY <1>1, <1>2, <2>1, <2>4, <2>5 DEF tries
<1>5. Shown(TriedSoFar, Tries, answers)
  BY <1>3, <1>4
<1>6. \A k \in DOMAIN TriedSoFar : TriedSoFar[k] \in Attempt
  BY <1>5, ElementOfSeq, LenProperties DEF Shown
<1>7. \A k \in DOMAIN TriedSoFar : TriedSoFar[k].result \in AttemptOutcome
  BY <1>6, AttemptIs
<1> QED
  BY <1>3, <1>4, <1>7 DEF answers

\* The failure, the attempts and the sequence of a proposal.
LEMMA ProposedTells ==
    ASSUME Scanning, initial # {}, Tries # {}, NEW abandoned \in BOOLEAN, NEW R,
           abandoned => R = {},
           ~abandoned => pending = {} /\ R = Terminals,
           NEW x, x = Proposed(TriedSoFar, abandoned, R)
    PROVE  /\ ValidAttempts(x) /\ ValidLinks(x) /\ ValidObservations(x)
           /\ x.failure = Failed
           /\ Len(x.attempts) = Attempted
           /\ UNION {x.attempts[i].changes : i \in DOMAIN x.attempts} = Tries
           /\ \A i, j \in DOMAIN x.attempts : i < j =>
                 \A y \in x.attempts[i].changes, z \in x.attempts[j].changes : y < z
           /\ DOMAIN x.relation = PlacedEvents
           /\ \A i \in DOMAIN x.attempts : x.attempts[i].result \in AttemptOutcome
<1> DEFINE tried == TriedSoFar
           answers == Later \ repeats
           last == tried[Len(tried)]
<1>1. /\ Tries \in SUBSET Nat /\ Later \in SUBSET Nat
      /\ Tries \cap Later = {} /\ repeats \subseteq Later
      /\ (\A i \in Tries \cup Later : Failed < i) /\ Failed \in Nat
      /\ MembersTyped /\ FailedPlaces # {}
  BY StoryIs
<1>2. TheFailure.at = Failed
  BY TheFailureIs, ResultFields
<1>3. Shown(tried, Tries, answers)
  BY TriedIs
<1>4. /\ x.failure = Failed /\ x.attempts = tried /\ x.observations = R
      /\ x.relation = Relations(Failed, repeats, tried, abandoned)
  BY <1>2, ProposedIs
<1>5. /\ Tries \cap answers = {} /\ repeats \cap (Tries \cup answers) = {}
      /\ Failed \notin repeats \cup Tries \cup answers
  <2>1. ~(Failed < Failed)
    BY <1>1
  <2> QED
    BY <1>1, <2>1
<1>6. ASSUME ~abandoned PROVE \A p : p \in At(last) <=> \E r \in R : r.at = p
  <2>1. R = Terminals /\ last = attempts[Len(attempts)] /\ pending = {}
    BY <1>6 DEF TriedSoFar
  <2>2. FinalRun = At(last)
    BY <2>1, FinalRunIs
  <2>3. (\A r \in R : r.at \in FinalRun) /\ \A i \in FinalRun : ResultAt(i) \in R
    BY <2>1, TerminalsAre
  <2>4. \A i \in FinalRun : ResultAt(i).at = i
    BY ResultFields DEF ResultAt
  <2> HIDE DEF last
  <2> QED
    BY <2>2, <2>3, <2>4
<1>7. abandoned => R = {}
  OBVIOUS
<1> HIDE DEF tried, answers
<1>8. /\ ValidAttempts(x) /\ ValidLinks(x) /\ ValidObservations(x)
      /\ DOMAIN x.relation = {Failed} \cup repeats \cup Tries \cup answers
  <2>1. Observes(x, tried[Len(tried)], abandoned)
    BY <1>4, <1>6, <1>7 DEF Observes
  <2>2. Relates(x, Failed, repeats, Tries, answers, abandoned)
    BY <1>3, <1>4, <1>5, <2>1 DEF Relates
  <2> QED
    BY <2>2, RelationsAdmitted
<1>9. {Failed} \cup repeats \cup Tries \cup answers
        = {i \in ActionPlaces \cup ResultPlaces : i >= Failed}
  <2>1. Failed \in ResultPlaces /\ ResultPlaces \subseteq Nat /\ ActionPlaces \subseteq Nat
    BY <1>1, LeadingIs, PlacesApart
  <2>2. repeats \cup answers = Later
    BY <1>1 DEF answers
  <2>3. \A i \in Nat : i >= Failed <=> i = Failed \/ i > Failed
    BY <1>1
  <2>4. \A i \in ActionPlaces \cup ResultPlaces : i >= Failed <=> i = Failed \/ i \in Tries \cup Later
    BY <2>1, <2>3 DEF Tries, Later
  <2>5. Tries \subseteq ActionPlaces /\ Later \subseteq ResultPlaces
    BY DEF Tries, Later
  <2> QED
    BY <2>1, <2>2, <2>4, <2>5
<1>10. /\ UNION {tried[i].changes : i \in DOMAIN tried} = Tries
       /\ \A i, j \in DOMAIN tried : i < j =>
             \A y \in tried[i].changes, z \in tried[j].changes : y < z
  <2>1. DOMAIN tried = 1 .. Len(tried)
    BY <1>3, LenProperties DEF Shown
  <2> QED
    BY <1>3, <2>1 DEF Shown, Tried
<1>11. /\ Len(tried) = Cardinality(Leading) + (IF FinalRun = {} THEN 1 ELSE 0)
       /\ \A i \in DOMAIN tried : tried[i].result \in AttemptOutcome
  BY TriedIs DEF tried
<1> QED
  BY <1>4, <1>8, <1>9, <1>10, <1>11 DEF Attempted, PlacedEvents

LEMMA MixedIs ==
    ASSUME Scanning, initial # {}, Tries # {}, pending = {}
    PROVE  /\ TerminalOutcome(Terminals) = "none" <=> Mixed
           /\ \A r \in Terminals : r.status
                 \in {"explicitly_accepted", "verified_passed", "verified_failed"}
<1>1. /\ \A r \in Terminals : r.at \in FinalRun /\ r = ResultAt(r.at)
      /\ \A i \in FinalRun : ResultAt(i) \in Terminals
  BY TerminalsAre
<1>2. \A i : /\ ResultAt(i).scope.subject = members[i].subject
             /\ ResultAt(i).status
                  \in {"explicitly_accepted", "verified_passed", "verified_failed"}
  BY ResultFields DEF ResultAt
<1>3. TerminalOutcome(Terminals) = "none" <=>
        \E r \in Terminals, s \in Terminals :
           Positive(r) /\ ~Positive(s) /\ r.scope.subject = s.scope.subject
  BY DEF TerminalOutcome
<1>4. (\E r \in Terminals, s \in Terminals :
           Positive(r) /\ ~Positive(s) /\ r.scope.subject = s.scope.subject) <=> Mixed
  <2>1. ASSUME NEW r \in Terminals, NEW s \in Terminals,
               Positive(r), ~Positive(s), r.scope.subject = s.scope.subject
        PROVE  Mixed
    <3>1. /\ r.at \in FinalRun /\ s.at \in FinalRun
          /\ Positive(ResultAt(r.at)) /\ ~Positive(ResultAt(s.at))
      BY <1>1, <2>1
    <3>2. members[r.at].subject = members[s.at].subject
      BY <1>1, <1>2, <2>1
    <3> QED
      BY <3>1, <3>2 DEF Mixed
  <2>2. ASSUME Mixed
        PROVE  \E r \in Terminals, s \in Terminals :
                  Positive(r) /\ ~Positive(s) /\ r.scope.subject = s.scope.subject
    <3>1. PICK i \in FinalRun, j \in FinalRun :
             /\ Positive(ResultAt(i)) /\ ~Positive(ResultAt(j))
             /\ members[i].subject = members[j].subject
      BY <2>2 DEF Mixed
    <3>2. ResultAt(i) \in Terminals /\ ResultAt(j) \in Terminals
      BY <1>1
    <3>3. ResultAt(i).scope.subject = ResultAt(j).scope.subject
      BY <1>2, <3>1
    <3> QED
      BY <3>1, <3>2, <3>3
  <2> QED
    BY <2>1, <2>2
<1> QED
  BY <1>1, <1>2, <1>3, <1>4

\* The results of the last attempt are as many as their places.
LEMMA TerminalsCount ==
    ASSUME Scanning, initial # {}, Tries # {}, pending = {}
    PROVE  Cardinality(Terminals) = Cardinality(FinalRun)
<1>1. /\ \A r \in Terminals : r.at \in FinalRun /\ r = ResultAt(r.at)
      /\ \A i \in FinalRun : ResultAt(i) \in Terminals
      /\ IsFiniteSet(Terminals)
  BY TerminalsAre
<1>2. \A i : ResultAt(i).at = i
  BY ResultFields DEF ResultAt
<1> DEFINE place == [r \in Terminals |-> r.at]
           result == [i \in FinalRun |-> ResultAt(i)]
<1>3. place \in Surjection(Terminals, FinalRun)
  BY <1>1, <1>2 DEF Surjection
<1>4. result \in Surjection(FinalRun, Terminals)
  BY <1>1 DEF Surjection
<1>5. IsFiniteSet(FinalRun) /\ Cardinality(FinalRun) <= Cardinality(Terminals)
  BY <1>1, <1>3, FS_Surjection
<1>6. Cardinality(Terminals) <= Cardinality(FinalRun)
  BY <1>4, <1>5, FS_Surjection
<1> QED
  BY <1>1, <1>5, <1>6, FS_CardinalityType

\* A record that says what happened is within the limits if the episode is.
LEMMA FittingIsAdmitted ==
    ASSUME NEW status, NEW ended \in BOOLEAN, NEW x, Consistent(x, status),
           SaysWhatHappened(x, ended),
           Cardinality(x.observations) = IF ended THEN Cardinality(FinalRun) ELSE 0
    PROVE  Admitted(x, status) <=> FitsTheStore(ended)
<1>1. 0 <= ObservationLimit
  BY RecordLimits
<1> QED
  BY <1>1 DEF Admitted, WithinLimits, BoundedVerdict, FitsTheStore, SaysWhatHappened

\* A proposal for an episode that was closed.
LEMMA ClosedIsEvident ==
    ASSUME Scanning, initial # {}, Tries # {}, pending = {},
           TerminalOutcome(Terminals) # "none",
           NEW abandoned \in BOOLEAN, ~abandoned,
           NEW x, x = Proposed(attempts, abandoned, Terminals)
    PROVE  /\ Cardinality(x.observations) = Cardinality(FinalRun)
           /\ x # NoPreview /\ RecordTypeOK(x) /\ StandsOnVerifiers(x, "closed")
           /\ Consistent(x, "closed") /\ SaysWhatHappened(x, TRUE)
<1> DEFINE R == Terminals
           repeated == ~UsesAcceptance(R) /\ Repeated(R)
<1>1. TriedSoFar = attempts
  BY DEF TriedSoFar
<1>2. /\ ValidAttempts(x) /\ ValidLinks(x) /\ ValidObservations(x)
      /\ x.failure = Failed
      /\ Len(x.attempts) = Attempted
      /\ UNION {x.attempts[i].changes : i \in DOMAIN x.attempts} = Tries
      /\ \A i, j \in DOMAIN x.attempts : i < j =>
            \A y \in x.attempts[i].changes, z \in x.attempts[j].changes : y < z
      /\ DOMAIN x.relation = PlacedEvents
      /\ \A i \in DOMAIN x.attempts : x.attempts[i].result \in AttemptOutcome
  BY <1>1, ProposedTells
<1>3. /\ x.outcome = TerminalOutcome(R) /\ x.status = VerificationOf(x.outcome, R)
      /\ x.observations = R /\ x.bases = Bases(R, repeated)
      /\ x.strength = (IF repeated THEN "strong" ELSE "moderate")
      /\ x.automatic <=> (~snapshot /\ ~UsesAcceptance(R))
      /\ x.relation = Relations(TheFailure.at, repeats, attempts, abandoned)
  BY ProposedIs
<1>4. /\ \A r \in R : r.at \in FinalRun /\ r = ResultAt(r.at)
      /\ \A i \in FinalRun : ResultAt(i) \in R
      /\ IsFiniteSet(R) /\ R # {} /\ FinalRun # {}
      /\ \A r \in R : r.status
            \in {"explicitly_accepted", "verified_passed", "verified_failed"}
  BY TerminalsAre, MixedIs
<1>5. \A i : /\ ResultAt(i).at = i /\ ResultAt(i).status = Status(members[i])
             /\ ResultAt(i).scope = Scope(members[i])
             /\ Status(members[i]) = "explicitly_accepted" <=> members[i].contract = "acceptance"
             /\ Status(members[i]) = "verified_passed" => members[i].exit = "zero"
  BY ResultFields DEF ResultAt
<1> HIDE DEF R, repeated
<1>6. /\ ValidOutcome(x) /\ ValidForEpisode(x, "closed")
      /\ x.outcome \in {"success", "failure", "partial_success"}
      /\ x.outcome = (CASE \A r \in R : Positive(r) -> "success"
                        [] \A r \in R : ~Positive(r) -> "failure"
                        [] OTHER -> "partial_success")
  BY <1>3, <1>4, OutcomesAdmitted DEF R
<1>7. ValidStrength(x) /\ (x.strength = "strong" => repeated)
  <2>1. repeated = (~UsesAcceptance(R) /\ Repeated(R))
    BY DEF repeated
  <2>2. x.strength = (CASE abandoned -> "weak" [] ~abandoned /\ repeated -> "strong"
                        [] OTHER -> "moderate")
    BY <1>3
  <2>3. x.outcome # "abandoned"
    BY <1>6
  <2> QED
    BY <1>3, <1>4, <2>1, <2>2, <2>3, StrengthAdmitted
<1>8. {r.at : r \in x.observations} = FinalRun
  BY <1>3, <1>4, <1>5
<1>9. SaysWhatHappened(x, TRUE)
  <2>1. (\A r \in R : Positive(r)) <=> \A i \in FinalRun : Positive(ResultAt(i))
    BY <1>4
  <2>2. (\A r \in R : ~Positive(r)) <=> \A i \in FinalRun : ~Positive(ResultAt(i))
    BY <1>4
  <2>3. x.outcome = (CASE \A i \in FinalRun : Positive(ResultAt(i)) -> "success"
                       [] \A i \in FinalRun : ~Positive(ResultAt(i)) -> "failure"
                       [] OTHER -> "partial_success")
    BY <1>6, <2>1, <2>2
  <2> QED
    BY <1>2, <1>8, <2>3 DEF SaysWhatHappened
<1>10. ASSUME x.automatic
       PROVE  /\ \A i \in Tries : members[i].contract # "source"
              /\ \A i \in FinalRun : members[i].contract # "acceptance"
              /\ x.outcome = "success" =>
                    \E i \in FinalRun : /\ members[i].exit = "zero"
                                        /\ Scope(members[i]) = Scope(members[Failed])
  <2>1. ~snapshot /\ ~UsesAcceptance(R)
    BY <1>3, <1>10
  <2>2. \A i \in Tries : members[i].contract # "source"
    BY <2>1 DEF Scanning, Story, Told
  <2>3. \A i \in FinalRun : members[i].contract # "acceptance"
    BY <1>4, <1>5, <2>1 DEF UsesAcceptance
  <2>4. ASSUME x.outcome = "success"
        PROVE  \E i \in FinalRun : /\ members[i].exit = "zero"
                                   /\ Scope(members[i]) = Scope(members[Failed])
    <3> DEFINE i == Lead(attempts[Len(attempts)])
    <3>1. i \in FinalRun \cap Leading
      BY FinalRunIs
    <3> HIDE DEF i
    <3>2. \A r \in R : Positive(r)
      BY <1>4, <1>6, <2>4
    <3>3. Positive(ResultAt(i))
      BY <1>4, <3>1, <3>2
    <3>4. members[i].contract # "acceptance"
      BY <2>3, <3>1
    <3>5. members[i].exit = "zero"
      BY <1>5, <3>3, <3>4 DEF Positive
    <3>6. AnswersIt(members[Failed], members[i])
      <4>1. i \in Later \ repeats
        <5>1. Hold(attempts, members, Tries \ pending, Later \ repeats, Leading)
          BY StoryIs
        <5>2. \E k \in 1 .. Len(attempts) : i = Lead(attempts[k])
          BY <3>1, <5>1 DEF Hold
        <5> DEFINE answers == Later \ repeats
                   tries == Tries \ pending
        <5>3. Hold(attempts, members, tries, answers, Leading)
          BY <5>1
        <5> HIDE DEF answers, tries
        <5>4. \A k \in 1 .. Len(attempts) :
                 At(attempts[k]) \subseteq answers /\ Lead(attempts[k]) \in At(attempts[k])
          BY <5>3, HoldParts
        <5> QED
          BY <5>2, <5>4 DEF answers
      <4> QED
        BY <3>1, <4>1 DEF Scanning, Story, Told
    <3> QED
      BY <3>1, <3>4, <3>5, <3>6 DEF AnswersIt
  <2> QED
    BY <2>2, <2>3, <2>4
<1>11. ASSUME x.strength = "strong"
       PROVE  \A i \in FinalRun : \E j \in FinalRun \ {i} :
                 /\ Status(members[i]) = Status(members[j])
                 /\ Scope(members[i]) = Scope(members[j])
  <2>1. Repeated(R)
    BY <1>7, <1>11 DEF repeated
  <2> SUFFICES ASSUME NEW i \in FinalRun
               PROVE  \E j \in FinalRun \ {i} :
                         /\ Status(members[i]) = Status(members[j])
                         /\ Scope(members[i]) = Scope(members[j])
    OBVIOUS
  <2>2. PICK s \in R \ {ResultAt(i)} :
           ResultAt(i).status = s.status /\ ResultAt(i).scope = s.scope
    BY <1>4, <2>1 DEF Repeated
  <2>3. s.at \in FinalRun /\ s = ResultAt(s.at) /\ s.at # i
    BY <1>4, <2>2
  <2> QED
    BY <1>5, <2>2, <2>3
<1>12. StandsOnVerifiers(x, "closed")
  <2> DEFINE terminal == {r.at : r \in x.observations}
  <2>1. terminal = FinalRun
    BY <1>8
  <2>2. StandsOnVerifiers(x, "closed") <=>
          /\ x.automatic =>
                /\ \A i \in Tries : members[i].contract # "source"
                /\ \A i \in terminal : members[i].contract # "acceptance"
                /\ x.outcome = "success" =>
                      \E i \in terminal : /\ members[i].exit = "zero"
                                          /\ Scope(members[i]) = Scope(members[Failed])
          /\ x.strength = "strong" =>
                \A i \in terminal : \E j \in terminal \ {i} :
                   /\ Status(members[i]) = Status(members[j])
                   /\ Scope(members[i]) = Scope(members[j])
    BY DEF StandsOnVerifiers
  <2> HIDE DEF terminal
  <2>3. x.automatic =>
          /\ \A i \in Tries : members[i].contract # "source"
          /\ \A i \in terminal : members[i].contract # "acceptance"
          /\ x.outcome = "success" =>
                \E i \in terminal : /\ members[i].exit = "zero"
                                    /\ Scope(members[i]) = Scope(members[Failed])
    BY <1>10, <2>1
  <2>4. x.strength = "strong" =>
          \A i \in terminal : \E j \in terminal \ {i} :
             /\ Status(members[i]) = Status(members[j])
             /\ Scope(members[i]) = Scope(members[j])
    BY <1>11, <2>1
  <2> QED
    BY <2>2, <2>3, <2>4
<1>13. x # NoPreview
  BY <1>6 DEF NoPreview
<1>14. RecordTypeOK(x)
  <2>1. x.outcome \in ExperienceOutcome /\ x.status \in VerificationStatus
    BY <1>3, <1>6 DEF ExperienceOutcome, VerificationStatus, VerificationOf
  <2>2. x.strength \in EvidenceStrength /\ x.bases \subseteq EvidenceBasis
    BY <1>3 DEF EvidenceStrength, EvidenceBasis, Bases
  <2>3. \A p \in DOMAIN x.relation : x.relation[p] \in EvidenceRelation
    BY <1>3 DEF Relations, EvidenceRelation
  <2> QED
    BY <1>2, <2>1, <2>2, <2>3 DEF RecordTypeOK
<1>15. Cardinality(x.observations) = Cardinality(FinalRun)
  BY <1>3, TerminalsCount DEF R
<1> QED
  BY <1>2, <1>6, <1>7, <1>9, <1>12, <1>13, <1>14, <1>15 DEF Consistent

\* One for an episode that was abandoned.
LEMMA AbandonedIsEvident ==
    ASSUME Scanning, initial # {}, Tries # {},
           NEW abandoned \in BOOLEAN, NEW ended \in BOOLEAN, ~ended, NEW R,
           abandoned => R = {},
           ~abandoned => pending = {} /\ R = Terminals,
           NEW x, x = Proposed(TriedSoFar, abandoned, R)
    PROVE  abandoned =>
           /\ Cardinality(x.observations) = 0
           /\ x # NoPreview /\ RecordTypeOK(x) /\ StandsOnVerifiers(x, "abandoned")
           /\ Consistent(x, "abandoned") /\ SaysWhatHappened(x, ended)
<1> DEFINE repeated == ~UsesAcceptance(R) /\ Repeated(R)
<1>1. /\ ValidAttempts(x) /\ ValidLinks(x) /\ ValidObservations(x)
      /\ x.failure = Failed
      /\ Len(x.attempts) = Attempted
      /\ UNION {x.attempts[i].changes : i \in DOMAIN x.attempts} = Tries
      /\ \A i, j \in DOMAIN x.attempts : i < j =>
            \A y \in x.attempts[i].changes, z \in x.attempts[j].changes : y < z
      /\ DOMAIN x.relation = PlacedEvents
      /\ \A i \in DOMAIN x.attempts : x.attempts[i].result \in AttemptOutcome
  BY ProposedTells
<1>2. /\ abandoned => x.outcome = "abandoned" /\ ~x.automatic
      /\ x.status = VerificationOf(x.outcome, R)
      /\ x.observations = R /\ x.bases = Bases(R, repeated)
      /\ x.strength = (CASE abandoned -> "weak" [] ~abandoned /\ repeated -> "strong"
                         [] OTHER -> "moderate")
      /\ x.relation = Relations(TheFailure.at, repeats, TriedSoFar, abandoned)
  BY ProposedIs
<1> SUFFICES ASSUME abandoned
             PROVE  /\ Cardinality(x.observations) = 0
                    /\ x # NoPreview /\ RecordTypeOK(x) /\ StandsOnVerifiers(x, "abandoned")
                    /\ Consistent(x, "abandoned") /\ SaysWhatHappened(x, ended)
  OBVIOUS
<1>3. x.status = "missing" /\ x.strength = "weak"
  BY <1>2 DEF VerificationOf
<1>4. ValidOutcome(x) /\ ValidForEpisode(x, "abandoned")
  BY <1>2, <1>3 DEF ValidOutcome, ValidForEpisode
<1>5. ValidStrength(x)
  <2>1. repeated = (~UsesAcceptance(R) /\ Repeated(R)) /\ IsFiniteSet(R)
    BY FS_EmptySet
  <2> HIDE DEF repeated
  <2> QED
    BY <1>2, <2>1, StrengthAdmitted
<1>6. StandsOnVerifiers(x, "abandoned")
  BY <1>2, <1>3 DEF StandsOnVerifiers
<1>7. SaysWhatHappened(x, ended)
  <2>1. {r.at : r \in x.observations} = IF ended THEN FinalRun ELSE {}
    BY <1>2
  <2> QED
    BY <1>1, <2>1 DEF SaysWhatHappened
<1>8. x # NoPreview
  <2>1. x.outcome = "abandoned"
    BY <1>2
  <2>2. NoPreview.outcome = "none"
    BY DEF NoPreview
  <2> QED
    BY <2>1, <2>2
<1>9. RecordTypeOK(x)
  <2>1. x.outcome \in ExperienceOutcome /\ x.status \in VerificationStatus
    BY <1>2, <1>3 DEF ExperienceOutcome, VerificationStatus
  <2>2. x.strength \in EvidenceStrength /\ x.bases \subseteq EvidenceBasis
    BY <1>2, <1>3 DEF EvidenceStrength, EvidenceBasis, Bases
  <2>3. \A p \in DOMAIN x.relation : x.relation[p] \in EvidenceRelation
    BY <1>2 DEF Relations, EvidenceRelation
  <2> QED
    BY <1>1, <2>1, <2>2, <2>3 DEF RecordTypeOK
<1>10. Cardinality(x.observations) = 0
  BY <1>2, FS_EmptySet
<1> QED
  BY <1>1, <1>4, <1>5, <1>6, <1>7, <1>8, <1>9, <1>10 DEF Consistent

LEMMA ExtractedIsEvident ==
    ASSUME phase \in {"scanning", "refused"}, phase = "scanning" => Scanning,
           phase = "refused" => ~AllPlaced,
           NEW status \in {"closed", "abandoned"}, NEW x, x = Extracted(status)
    PROVE  Evident(x, status) /\ (x # NoPreview => RecordTypeOK(x))
<1> DEFINE ended == status = "closed"
           abandoned == status = "abandoned"
           frontier == IF abandoned THEN {} ELSE Terminals
<1>1. x = (CASE phase = "refused" \/ initial = {} -> NoPreview
             [] phase # "refused" /\ initial # {} /\ pending # {} /\ ~abandoned -> NoPreview
             [] phase # "refused" /\ initial # {} /\ Untried -> NoPreview
             [] OTHER -> IF ~abandoned /\ TerminalOutcome(frontier) = "none" THEN NoPreview
                         ELSE Proposed(TriedSoFar, abandoned, frontier))
  BY DEF Extracted, TriedSoFar
<1>2. ended <=> ~abandoned
  OBVIOUS
<1>3. ASSUME x = NoPreview, ~(AllPlaced /\ (ended => FinalRun # {} /\ ~Mixed))
      PROVE  Evident(x, status)
  BY <1>3 DEF Evident
<1>4. CASE phase = "refused"
  BY <1>1, <1>3, <1>4
<1>5. CASE phase = "scanning" /\ initial = {}
  <2>1. ~AllPlaced
    BY <1>5 DEF Scanning, AllPlaced
  <2> QED
    BY <1>1, <1>3, <1>5, <2>1
<1>6. CASE phase = "scanning" /\ initial # {}
  <2>1. Scanning /\ (AllPlaced <=> Tries # {}) /\ (Untried <=> Tries = {})
    BY <1>6, PlacedIfTried, NothingTried DEF Untried, Scanning, Story
  <2>2. CASE Tries = {}
    <3>1. Untried /\ ~AllPlaced
      BY <2>1, <2>2
    <3>2. x = NoPreview
      BY <1>1, <1>6, <3>1 DEF Untried
    <3> QED
      BY <1>3, <3>1, <3>2
  <2>3. CASE Tries # {} /\ pending # {} /\ ~abandoned
    <3>1. FinalRun = {} /\ x = NoPreview
      BY <1>1, <1>6, <2>1, <2>3, FinalRunIs
    <3> QED
      BY <1>2, <1>3, <2>3, <3>1
  <2>4. CASE Tries # {} /\ pending = {} /\ ~abandoned
    <3>1. frontier = Terminals /\ TriedSoFar = attempts /\ ~Untried
      BY <2>1, <2>4 DEF TriedSoFar
    <3>2. x = IF TerminalOutcome(Terminals) = "none" THEN NoPreview
              ELSE Proposed(attempts, abandoned, Terminals)
      BY <1>1, <1>6, <2>4, <3>1
    <3>3. FinalRun # {} /\ (TerminalOutcome(Terminals) = "none" <=> Mixed)
      BY <1>6, <2>1, <2>4, TerminalsAre, MixedIs
    <3>4. CASE Mixed
      BY <1>2, <1>3, <2>4, <3>2, <3>3, <3>4
    <3>5. CASE ~Mixed
      <4>1. abandoned \in BOOLEAN /\ x = Proposed(attempts, abandoned, Terminals)
        BY <3>2, <3>3, <3>5
      <4> HIDE DEF abandoned
      <4>2. /\ Cardinality(x.observations) = Cardinality(FinalRun)
            /\ x # NoPreview /\ RecordTypeOK(x) /\ StandsOnVerifiers(x, "closed")
            /\ Consistent(x, "closed") /\ SaysWhatHappened(x, TRUE)
        BY <1>6, <2>1, <2>4, <3>3, <3>5, <4>1, ClosedIsEvident
      <4>3. status = "closed" /\ ended = TRUE
        BY <1>2, <2>4
      <4>4. Admitted(x, "closed") <=> FitsTheStore(TRUE)
        BY <4>2, FittingIsAdmitted
      <4> QED
        BY <2>1, <2>4, <3>3, <3>5, <4>2, <4>3, <4>4 DEF Evident
    <3> QED
      BY <3>4, <3>5
  <2>5. CASE Tries # {} /\ abandoned
    <3>1. frontier = {} /\ ~Untried
      BY <2>1, <2>5
    <3>2. abandoned \in BOOLEAN /\ x = Proposed(TriedSoFar, abandoned, frontier)
      BY <1>1, <1>6, <2>5, <3>1
    <3>3. status = "abandoned" /\ ~ended /\ abandoned /\ ended \in BOOLEAN
      BY <1>2, <2>5
    <3>5. Evident(x, status) <=>
            /\ x # NoPreview <=> AllPlaced /\ (ended => FinalRun # {} /\ ~Mixed)
            /\ x # NoPreview => /\ StandsOnVerifiers(x, status) /\ SaysWhatHappened(x, ended)
                                /\ Consistent(x, status)
                                /\ Admitted(x, status) <=> FitsTheStore(ended)
      BY DEF Evident
    <3> HIDE DEF abandoned, frontier, ended
    <3>4. /\ Cardinality(x.observations) = 0
          /\ x # NoPreview /\ RecordTypeOK(x) /\ StandsOnVerifiers(x, "abandoned")
          /\ Consistent(x, "abandoned") /\ SaysWhatHappened(x, ended)
      BY <1>6, <2>1, <2>5, <3>1, <3>2, <3>3, AbandonedIsEvident
    <3>6. Admitted(x, "abandoned") <=> FitsTheStore(ended)
      BY <3>3, <3>4, FittingIsAdmitted
    <3> QED
      BY <2>1, <2>5, <3>3, <3>4, <3>5, <3>6
  <2> QED
    BY <2>2, <2>3, <2>4, <2>5
<1> QED
  BY <1>4, <1>5, <1>6

-----------------------------------------------------------------------------
(* The invariant of the scan *)

ScanInv ==
    /\ MembersTyped /\ Len(members) <= MaxEvents
    /\ initial = {} \/ \E r : initial = {r}
    /\ repeats \cup pending \subseteq Places
    /\ attempts \in Seq(Attempt)
    /\ \A k \in DOMAIN attempts :
          attempts[k].changes \subseteq Places /\ attempts[k].changes # {}
    /\ snapshot \in BOOLEAN /\ phase \in {"scanning", "refused", "previewed"}
    /\ phase = "scanning" => Scanning
    /\ phase = "refused" => ~AllPlaced
    /\ phase = "previewed" =>
          /\ Evident(preview.given, preview.status)
          /\ preview.given # NoPreview => RecordTypeOK(preview.given)

\* What the places say changes only with the members.
LEMMA EvidenceStays ==
    ASSUME members' = members
    PROVE  /\ AllPlaced' <=> AllPlaced
           /\ \A x, s : Evident(x, s)' <=> Evident(x, s)
<1>1. /\ Places' = Places /\ ActionPlaces' = ActionPlaces /\ ResultPlaces' = ResultPlaces
      /\ FailedPlaces' = FailedPlaces /\ \A i : ResultAt(i)' = ResultAt(i)
  BY DEF Places, ActionPlaces, ResultPlaces, FailedPlaces, ResultAt
<1>2. \A i : Follows(i)' <=> Follows(i)
  BY <1>1 DEF Follows
<1>3. Failed' = Failed
  BY <1>1 DEF Failed
<1>4. Later' = Later /\ Tries' = Tries
  BY <1>1, <1>3 DEF Later, Tries
<1>5. Leading' = Leading
  BY <1>2, <1>4 DEF Leading
<1>6. FinalRun' = FinalRun
  BY <1>4 DEF FinalRun
<1>7. Mixed' <=> Mixed
  BY <1>1, <1>6 DEF Mixed
<1>8. AllPlaced' <=> AllPlaced
  BY <1>1, <1>3, <1>4, <1>5 DEF AllPlaced
<1>9. \A x, s : StandsOnVerifiers(x, s)' <=> StandsOnVerifiers(x, s)
  BY <1>3, <1>4 DEF StandsOnVerifiers
<1>10. \A x, ended : SaysWhatHappened(x, ended)' <=> SaysWhatHappened(x, ended)
  <2>1. Attempted' = Attempted
    BY <1>5, <1>6 DEF Attempted
  <2>2. PlacedEvents' = PlacedEvents
    BY <1>1, <1>3 DEF PlacedEvents
  <2> QED
    BY <1>1, <1>3, <1>4, <1>6, <2>1, <2>2 DEF SaysWhatHappened
<1>11. \A ended : FitsTheStore(ended)' <=> FitsTheStore(ended)
  <2>1. Attempted' = Attempted
    BY <1>5, <1>6 DEF Attempted
  <2>2. PlacedEvents' = PlacedEvents
    BY <1>1, <1>3 DEF PlacedEvents
  <2> QED
    BY <1>6, <2>1, <2>2 DEF FitsTheStore
<1>12. \A x, s : Evident(x, s)' <=> Evident(x, s)
  BY <1>6, <1>7, <1>8, <1>9, <1>10, <1>11 DEF Evident
<1> QED
  BY <1>8, <1>12

LEMMA StoryStays ==
    ASSUME UNCHANGED <<members, initial, repeats, attempts, pending, snapshot>>
    PROVE  Scanning' <=> Scanning
<1>1. /\ Places' = Places /\ ActionPlaces' = ActionPlaces /\ ResultPlaces' = ResultPlaces
      /\ FailedPlaces' = FailedPlaces /\ \A i : ResultAt(i)' = ResultAt(i)
  BY DEF Places, ActionPlaces, ResultPlaces, FailedPlaces, ResultAt
<1>2. \A i : Follows(i)' <=> Follows(i)
  BY <1>1 DEF Follows
<1>3. Failed' = Failed
  BY <1>1 DEF Failed
<1>4. Later' = Later /\ Tries' = Tries
  BY <1>1, <1>3 DEF Later, Tries
<1>5. Leading' = Leading
  BY <1>2, <1>4 DEF Leading
<1>6. Story' <=> Story
  BY <1>3, <1>4, <1>5 DEF Story
<1>7. Sorted' <=> Sorted
  BY <1>1 DEF Sorted
<1>8. ResultAt(Failed)' = ResultAt(Failed)
  BY <1>3 DEF ResultAt
<1> QED
  BY <1>1, <1>6, <1>7, <1>8 DEF Scanning, MembersTyped

LEMMA ScanInvFirst == ScanInit => ScanInv
<1> SUFFICES ASSUME ScanInit PROVE ScanInv
  OBVIOUS
<1>1. /\ members = <<>> /\ initial = {} /\ repeats = {} /\ attempts = <<>> /\ pending = {}
      /\ snapshot = FALSE /\ phase = "scanning"
  BY DEF ScanInit
<1>2. MembersTyped /\ Len(members) = 0 /\ Places = {}
  <2>1. 1 .. 0 = {}
    OBVIOUS
  <2> QED
    BY <1>1, <2>1, EmptySeq DEF MembersTyped, Places
<1>3. FailedPlaces = {}
  BY <1>2 DEF FailedPlaces, ResultPlaces
<1>4. Scanning
  BY <1>1, <1>2, <1>3 DEF Scanning, Sorted
<1>5. attempts \in Seq(Attempt) /\ DOMAIN attempts = {}
  BY <1>1, EmptySeq
<1>6. Len(members) <= MaxEvents
  BY <1>2, ObservationsGiven
<1>7. repeats \cup pending \subseteq Places /\ snapshot \in BOOLEAN
  BY <1>1
<1>8. phase = "scanning"
  BY <1>1
<1>9. initial = {}
  BY <1>1
<1> QED
  BY <1>2, <1>4, <1>5, <1>6, <1>7, <1>8, <1>9 DEF ScanInv

\* What the types say of the state follows from the scan, while it goes on.
LEMMA ScanningTyped ==
    ASSUME Scanning, snapshot \in BOOLEAN
    PROVE  /\ initial = {} \/ \E r : initial = {r}
           /\ repeats \cup pending \subseteq Places
           /\ attempts \in Seq(Attempt)
           /\ \A k \in DOMAIN attempts :
                 attempts[k].changes \subseteq Places /\ attempts[k].changes # {}
<1>1. CASE initial = {}
  <2>1. attempts = <<>> /\ repeats = {} /\ pending = {}
    BY <1>1 DEF Scanning
  <2>2. attempts \in Seq(Attempt) /\ DOMAIN attempts = {}
    BY <2>1, EmptySeq
  <2> QED
    BY <1>1, <2>1, <2>2
<1>2. CASE initial # {}
  <2> DEFINE answers == Later \ repeats
             tries == Tries \ pending
  <2>1. /\ Hold(attempts, members, tries, answers, Leading)
        /\ pending \subseteq Tries /\ repeats \subseteq Later
        /\ MembersTyped /\ FailedPlaces # {}
    BY <1>2, StoryIs
  <2>2. Tries \subseteq Places /\ Later \subseteq Places
    BY <2>1, LeadingIs
  <2> HIDE DEF answers, tries
  <2>3. /\ attempts \in Seq(Attempt)
        /\ \A k \in 1 .. Len(attempts) :
              attempts[k].changes \subseteq tries /\ attempts[k].changes # {}
    BY <2>1, HoldParts
  <2>4. DOMAIN attempts = 1 .. Len(attempts)
    BY <2>3, LenProperties
  <2>5. tries \subseteq Places
    BY <2>2 DEF tries
  <2>6. \E r : initial = {r}
    BY <1>2 DEF Scanning
  <2> QED
    BY <2>1, <2>2, <2>3, <2>4, <2>5, <2>6
<1> QED
  BY <1>1, <1>2

LEMMA ReadingKeeps ==
    ASSUME ScanInv, NEW e \in Observations, Reads(e), snapshot' \in BOOLEAN,
           phase' = "scanning" => Scanning',
           phase' = "refused" => ~AllPlaced' /\ UNCHANGED <<initial, repeats, attempts, pending>>,
           phase' \in {"scanning", "refused"}
    PROVE  ScanInv'
<1>1. /\ MembersTyped /\ Len(members) < MaxEvents /\ Places \subseteq Places'
      /\ MembersTyped' /\ Len(members)' = Len(members) + 1
  <2>1. MembersTyped
    BY DEF ScanInv
  <2> QED
    BY <2>1, Reading DEF Reads, Next1
<1>2. Len(members)' <= MaxEvents
  BY <1>1, ObservationsGiven, PlacesApart
<1>3. CASE phase' = "scanning"
  <2>1. Scanning' /\ (snapshot \in BOOLEAN)'
    BY <1>3
  <2>2. /\ initial' = {} \/ \E r : initial' = {r}
        /\ repeats' \cup pending' \subseteq Places'
        /\ attempts' \in Seq(Attempt)
        /\ \A k \in DOMAIN attempts' :
              attempts'[k].changes \subseteq Places' /\ attempts'[k].changes # {}
    <3>1. CASE initial' = {}
      <4>1. attempts' = <<>> /\ repeats' = {} /\ pending' = {}
        BY <2>1, <3>1 DEF Scanning
      <4>2. <<>> \in Seq(Attempt) /\ DOMAIN <<>> = {}
        BY EmptySeq
      <4> QED
        BY <3>1, <4>1, <4>2
    <3>2. CASE initial' # {}
      <4> DEFINE answers == Later' \ repeats'
                 tries == Tries' \ pending'
                 tried == attempts'
                 read == members'
                 leads == Leading'
      <4>1. /\ Hold(tried, read, tries, answers, leads)
            /\ pending' \subseteq Tries' /\ repeats' \subseteq Later'
        BY <2>1, <3>2 DEF Scanning, Story, Told
      <4>2. Tries' \subseteq Places' /\ Later' \subseteq Places'
        BY DEF Tries, Later, ActionPlaces, ResultPlaces
      <4> HIDE DEF answers, tries, tried, read, leads
      <4>3. /\ tried \in Seq(Attempt)
            /\ \A k \in 1 .. Len(tried) : tried[k].changes \subseteq tries /\ tried[k].changes # {}
        BY <4>1, HoldParts
      <4>4. DOMAIN tried = 1 .. Len(tried)
        BY <4>3, LenProperties
      <4>5. tries \subseteq Places'
        BY <4>2 DEF tries
      <4>6. \E r : initial' = {r}
        BY <2>1, <3>2 DEF Scanning
      <4>7. \A k \in DOMAIN tried : tried[k].changes \subseteq Places' /\ tried[k].changes # {}
        BY <4>3, <4>4, <4>5
      <4> QED
        BY <4>1, <4>2, <4>3, <4>6, <4>7 DEF tried
    <3> QED
      BY <3>1, <3>2
  <2> QED
    BY <1>1, <1>2, <1>3, <2>1, <2>2 DEF ScanInv
<1>4. CASE phase' = "refused"
  <2>1. ~AllPlaced' /\ UNCHANGED <<initial, repeats, attempts, pending>>
    BY <1>4
  <2> QED
    BY <1>1, <1>2, <1>4, <2>1 DEF ScanInv
<1> QED
  BY <1>3, <1>4

LEMMA ScanInvNext == ScanInv /\ [ScanNext]_scanVars => ScanInv'
<1> SUFFICES ASSUME ScanInv, [ScanNext]_scanVars PROVE ScanInv'
  OBVIOUS
<1>1. MembersTyped /\ snapshot \in BOOLEAN /\ (phase = "scanning" => Scanning)
  BY DEF ScanInv
<1>2. ASSUME NEW e \in Observations,
             PassOver(e) \/ Unplaceable(e) \/ Act(e) \/ BeforeFailure(e)
                \/ BeforeAttempt(e) \/ AfterActions(e) \/ AfterResult(e)
      PROVE  ScanInv'
  <2>1. Reads(e)
    BY <1>2 DEF PassOver, Unplaceable, Act, BeforeFailure, BeforeAttempt, AfterActions,
                AfterResult
  <2>2. phase = "scanning" /\ Scanning
    BY <1>1, <2>1 DEF Reads
  <2>3. phase' = "scanning" => Scanning'
    <3>1. CASE PassOver(e)
      BY <2>2, <3>1, PassOverScans
    <3>2. CASE Unplaceable(e)
      BY <1>1, <3>2, UnplaceableRefuses
    <3>3. CASE Act(e)
      BY <2>2, <3>3, ActScans
    <3>4. CASE BeforeFailure(e)
      BY <2>2, <3>4, BeforeFailureScans
    <3>5. CASE BeforeAttempt(e)
      BY <2>2, <3>5, BeforeAttemptScans
    <3>6. CASE AfterActions(e)
      BY <2>2, <3>6, AfterActionsScans
    <3>7. CASE AfterResult(e)
      BY <2>2, <3>7, AfterResultScans
    <3> QED
      BY <1>2, <3>1, <3>2, <3>3, <3>4, <3>5, <3>6, <3>7
  <2>4. /\ phase' \in {"scanning", "refused"} /\ snapshot' \in BOOLEAN
        /\ phase' = "refused" => UNCHANGED <<initial, repeats, attempts, pending>>
    <3>1. CASE PassOver(e) \/ BeforeFailure(e) \/ Act(e)
      <4>1. phase' = phase
        BY <3>1 DEF PassOver, BeforeFailure, Act
      <4>2. snapshot' \in BOOLEAN
        BY <1>1, <3>1 DEF PassOver, BeforeFailure, Act
      <4> QED
        BY <2>2, <4>1, <4>2
    <3>2. CASE Unplaceable(e)
      BY <1>1, <3>2 DEF Unplaceable, GiveUp
    <3>3. CASE BeforeAttempt(e)
      BY <1>1, <2>2, <3>3 DEF BeforeAttempt, GiveUp
    <3>4. CASE AfterActions(e)
      BY <1>1, <2>2, <3>4 DEF AfterActions, GiveUp
    <3>5. CASE AfterResult(e)
      BY <1>1, <2>2, <3>5 DEF AfterResult, GiveUp
    <3> QED
      BY <1>2, <3>1, <3>2, <3>3, <3>4, <3>5
  <2>5. phase' = "refused" => ~AllPlaced'
    <3>1. CASE PassOver(e) \/ BeforeFailure(e) \/ Act(e)
      BY <2>2, <3>1 DEF PassOver, BeforeFailure, Act
    <3>2. CASE Unplaceable(e)
      BY <1>1, <3>2, UnplaceableRefuses
    <3>3. CASE BeforeAttempt(e)
      BY <2>2, <3>3, BeforeAttemptScans
    <3>4. CASE AfterActions(e)
      BY <2>2, <3>4, AfterActionsScans
    <3>5. CASE AfterResult(e)
      BY <2>2, <3>5, AfterResultScans
    <3> QED
      BY <1>2, <3>1, <3>2, <3>3, <3>4, <3>5
  <2> QED
    BY <2>1, <2>3, <2>4, <2>5, ReadingKeeps
<1>3. ASSUME NEW status \in {"closed", "abandoned"}, Conclude(status)
      PROVE  ScanInv'
  <2>1. PICK x : x = Extracted(status)
    OBVIOUS
  <2>2. /\ phase # "previewed" /\ phase' = "previewed"
        /\ preview' = [status |-> status, given |-> x]
        /\ UNCHANGED <<members, initial, repeats, attempts, pending, snapshot>>
    BY <1>3, <2>1 DEF Conclude
  <2>3. phase \in {"scanning", "refused"} /\ (phase = "refused" => ~AllPlaced)
    BY <2>2 DEF ScanInv
  <2>4. Evident(x, status) /\ (x # NoPreview => RecordTypeOK(x))
    BY <1>1, <2>1, <2>3, ExtractedIsEvident
  <2>5. preview'.given = x /\ preview'.status = status
    BY <2>2
  <2>6. Evident(preview.given, preview.status)'
    <3>1. Evident(x, status)'
      BY <2>2, <2>4, EvidenceStays
    <3> QED
      BY <2>5, <3>1
  <2>7. (preview.given # NoPreview => RecordTypeOK(preview.given))'
    BY <2>4, <2>5
  <2>8. /\ MembersTyped' /\ Len(members)' <= MaxEvents /\ Places' = Places
    BY <2>2 DEF ScanInv, MembersTyped, Places
  <2> QED
    BY <2>2, <2>6, <2>7, <2>8 DEF ScanInv
<1>4. ASSUME UNCHANGED scanVars PROVE ScanInv'
  <2>1. UNCHANGED <<members, initial, repeats, attempts, pending, snapshot, phase, preview>>
    BY <1>4 DEF scanVars
  <2>2. Scanning' <=> Scanning
    BY <2>1, StoryStays
  <2>3. (AllPlaced' <=> AllPlaced) /\ \A x, s : Evident(x, s)' <=> Evident(x, s)
    BY <2>1, EvidenceStays
  <2>4. Evident(preview.given, preview.status)' <=> Evident(preview.given, preview.status)
    <3>1. PICK x, s : x = preview.given /\ s = preview.status
      OBVIOUS
    <3>2. preview'.given = x /\ preview'.status = s
      BY <2>1, <3>1
    <3>3. Evident(x, s)' <=> Evident(x, s)
      BY <2>3
    <3> QED
      BY <3>1, <3>2, <3>3
  <2>5. MembersTyped' /\ Places' = Places /\ Len(members)' <= MaxEvents
    BY <2>1 DEF ScanInv, MembersTyped, Places
  <2> QED
    BY <2>1, <2>2, <2>3, <2>4, <2>5 DEF ScanInv
<1> QED
  BY <1>2, <1>3, <1>4 DEF ScanNext

LEMMA ScanInvariant == ScanSpec => []ScanInv
<1>1. ScanInit => ScanInv
  BY ScanInvFirst
<1>2. ScanInv /\ [ScanNext]_scanVars => ScanInv'
  BY ScanInvNext
<1> QED
  BY <1>1, <1>2, PTL DEF ScanSpec

\* While a scan goes on, at most one failure is remembered as the first one,
\* every attempt has actions, and what is remembered are places of events.
THEOREM ScanTypesHold == ScanSpec => []ScanTypeOK
<1>1. ScanInv => ScanTypeOK
  <2> SUFFICES ASSUME ScanInv PROVE ScanTypeOK
    OBVIOUS
  <2>1. Cardinality(initial) <= 1
    <3>1. Cardinality({}) = 0 /\ \A r : Cardinality({r}) = 1
      BY FS_EmptySet, FS_Singleton
    <3>2. CASE initial = {}
      BY <3>1, <3>2
    <3>3. CASE \E r : initial = {r}
      <4>1. PICK r : initial = {r}
        BY <3>3
      <4>2. Cardinality({r}) = 1 /\ 1 <= 1
        BY FS_Singleton
      <4> QED
        BY <4>1, <4>2
    <3> QED
      BY <3>2, <3>3 DEF ScanInv
  <2> QED
    BY <2>1 DEF ScanInv, ScanTypeOK, MembersTyped, Places
<1> QED
  BY <1>1, ScanInvariant, PTL

\* D080, D081, for episodes of any length, any events and any limits of the store:
\* a proposal says what happened, and the store refuses it for its size alone
\* (build_proposal, validate_experience_record).
THEOREM PreviewsAreTheEvidence == ScanSpec => []PreviewIsTheEvidence
<1>1. ScanInv => PreviewIsTheEvidence
  BY DEF ScanInv, PreviewIsTheEvidence
<1> QED
  BY <1>1, ScanInvariant, PTL
=============================================================================
