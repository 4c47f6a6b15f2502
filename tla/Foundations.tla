----------------------------- MODULE Foundations -----------------------------
(***************************************************************************)
(* What the proofs of several components rest on: induction over the        *)
(* natural numbers and over finite sets, functions defined by recursion,    *)
(* and sets put in order.                                                  *)
(*                                                                         *)
(* The library states its induction theorems with an operator parameter.   *)
(* Here the induction hypothesis is a set: that of the numbers for which    *)
(* the claim is true.                                                      *)
(***************************************************************************)
EXTENDS Ordering, Sequences, SequenceTheorems, FiniteSetTheorems, WellFoundedInduction, TLAPS

-----------------------------------------------------------------------------
(* Induction *)

\* A set of natural numbers has a least one.
LEMMA Minimum ==
    ASSUME NEW T \in SUBSET Nat, T # {}
    PROVE  \E n \in T : \A m \in T : n <= m
<1>1. IsWellFoundedOn(OpToRel(<, Nat), Nat)
  BY NatLessThanWellFounded
<1>2. \E x \in T : \A y \in T : ~(<<y, x>> \in OpToRel(<, Nat))
  BY <1>1, WFMin
<1>3. PICK x \in T : \A y \in T : ~(<<y, x>> \in OpToRel(<, Nat))
  BY <1>2
<1>4. \A y \in T : ~(y < x)
  BY <1>3 DEF OpToRel
<1> QED
  BY <1>4

\* A set with 0, and with the successor of each of its numbers, has them all.
LEMMA SetInduction ==
    ASSUME NEW S, 0 \in S, \A n \in Nat : n \in S => n + 1 \in S
    PROVE  \A n \in Nat : n \in S
<1> SUFFICES ASSUME NEW n \in Nat, n \notin S PROVE FALSE
  OBVIOUS
<1> DEFINE T == {k \in Nat : k \notin S}
<1>1. PICK k \in T : \A m \in T : k <= m
  BY Minimum
<1>2. k \in Nat /\ k # 0
  OBVIOUS
<1>3. k - 1 \in Nat /\ k - 1 \in S
  <2>1. k - 1 \in Nat
    BY <1>2
  <2>2. k - 1 \notin T
    BY <1>1, <2>1
  <2> QED
    BY <2>1, <2>2
<1> QED
  BY <1>2, <1>3

\* A finite set of natural numbers has a greatest one.
LEMMA Maximum ==
    ASSUME NEW T \in SUBSET Nat, T # {}, NEW bound \in Nat, \A m \in T : m <= bound
    PROVE  \E n \in T : \A m \in T : m <= n
<1> DEFINE U == {k \in Nat : \A m \in T : m <= k}
<1>1. PICK k \in U : \A u \in U : k <= u
  BY Minimum
<1>2. k \in T
  <2> SUFFICES ASSUME k \notin T PROVE FALSE
    OBVIOUS
  <2>1. k # 0
    <3>1. PICK t \in T : TRUE
      OBVIOUS
    <3>2. t <= k /\ t \in Nat /\ k \in Nat /\ t # k
      BY <1>1, <3>1
    <3> QED
      BY <3>2
  <2>2. k - 1 \in U
    BY <1>1, <2>1
  <2> QED
    BY <1>1, <2>2
<1>3. \A m \in T : m <= k
  BY <1>1
<1> QED
  BY <1>2, <1>3

\* Induction up to a bound.
LEMMA InductionUpTo ==
    ASSUME NEW d \in Nat, NEW S, 0 \in S, \A n \in 0 .. d : n < d /\ n \in S => n + 1 \in S
    PROVE  \A n \in 0 .. d : n \in S
<1> DEFINE T == {n \in Nat : n <= d => n \in S}
<1>1. 0 \in T
  OBVIOUS
<1>2. \A n \in Nat : n \in T => n + 1 \in T
  OBVIOUS
<1> HIDE DEF T
<1>3. \A n \in Nat : n \in T
  BY <1>1, <1>2, SetInduction
<1> QED
  BY <1>3 DEF T

\* A function defined by recursion on 0 .. d is one.
LEMMA Recursion ==
    ASSUME NEW V, NEW base \in V, NEW d \in Nat, NEW step \in [1 .. d -> [V -> V]]
    PROVE  \E f \in [0 .. d -> V] :
              /\ f[0] = base
              /\ \A k \in 1 .. d : f[k] = step[k][f[k - 1]]
<1> DEFINE Good(f, n) == f[0] = base /\ \A k \in 1 .. n : f[k] = step[k][f[k - 1]]
           S == {n \in Nat : n <= d => \E f \in [0 .. n -> V] : Good(f, n)}
<1>1. 0 \in S
  <2> DEFINE f == [k \in 0 .. 0 |-> base]
  <2>1. f \in [0 .. 0 -> V] /\ f[0] = base /\ 1 .. 0 = {}
    OBVIOUS
  <2>2. Good(f, 0)
    BY <2>1
  <2> HIDE DEF f, Good
  <2>3. 0 <= d => \E g \in [0 .. 0 -> V] : Good(g, 0)
    BY <2>1, <2>2
  <2> QED
    BY <2>3
<1>2. ASSUME NEW n \in Nat, n \in S PROVE n + 1 \in S
  <2> SUFFICES ASSUME n + 1 <= d PROVE \E f \in [0 .. n + 1 -> V] : Good(f, n + 1)
    OBVIOUS
  <2>1. PICK f \in [0 .. n -> V] : Good(f, n)
    BY <1>2
  <2> DEFINE g == [k \in 0 .. n + 1 |-> IF k = n + 1 THEN step[n + 1][f[n]] ELSE f[k]]
  <2>2. step[n + 1] \in [V -> V] /\ f[n] \in V
    <3>1. n + 1 \in 1 .. d /\ n \in 0 .. n
      OBVIOUS
    <3> QED
      BY <3>1
  <2>3. g \in [0 .. n + 1 -> V]
    <3>1. \A k \in 0 .. n + 1 : k # n + 1 => k \in 0 .. n
      OBVIOUS
    <3> QED
      BY <2>2, <3>1
  <2>4. \A k \in 0 .. n : g[k] = f[k]
    OBVIOUS
  <2>5. g[n + 1] = step[n + 1][f[n]]
    OBVIOUS
  <2>6. Good(g, n + 1)
    <3>1. g[0] = base
      BY <2>1, <2>4
    <3>2. ASSUME NEW k \in 1 .. n + 1 PROVE g[k] = step[k][g[k - 1]]
      <4>1. CASE k = n + 1
        <5>1. g[k - 1] = f[n]
          BY <4>1, <2>4
        <5> QED
          BY <4>1, <5>1, <2>5
      <4>2. CASE k # n + 1
        <5>1. k \in 1 .. n /\ k \in 0 .. n /\ k - 1 \in 0 .. n
          BY <4>2
        <5>2. f[k] = step[k][f[k - 1]]
          BY <2>1, <5>1
        <5> QED
          BY <5>1, <5>2, <2>4
      <4> QED
        BY <4>1, <4>2
    <3> QED
      BY <3>1, <3>2
  <2> HIDE DEF g, Good
  <2> QED
    BY <2>3, <2>6
<1> HIDE DEF S
<1>3. d \in S
  BY <1>1, <1>2, SetInduction
<1> QED
  BY <1>3 DEF S
-----------------------------------------------------------------------------
(* Order *)

\* Nothing is ahead of itself, of two one is ahead, and what is ahead of one
\* that is ahead of a third is ahead of that.
StrictOrder(ahead) ==
    /\ \A x \in DOMAIN ahead : ahead[x] \subseteq DOMAIN ahead /\ x \notin ahead[x]
    /\ \A x, y \in DOMAIN ahead :
          /\ x = y \/ x \in ahead[y] \/ y \in ahead[x]
          /\ x \in ahead[y] => ahead[x] \subseteq ahead[y]

\* In a strict order of a finite set the members have the ranks 0, 1, 2, ...
LEMMA Ranks ==
    ASSUME NEW ahead, IsFiniteSet(DOMAIN ahead), StrictOrder(ahead)
    PROVE  /\ \A x \in DOMAIN ahead :
                 Cardinality(ahead[x]) \in 0 .. Cardinality(DOMAIN ahead) - 1
           /\ \A x, y \in DOMAIN ahead :
                 x \in ahead[y] <=> Cardinality(ahead[x]) < Cardinality(ahead[y])
           /\ \A i \in 0 .. Cardinality(DOMAIN ahead) - 1 :
                 \E x \in DOMAIN ahead : Cardinality(ahead[x]) = i
<1> DEFINE S == DOMAIN ahead
           n == Cardinality(S)
           rank == [x \in S |-> Cardinality(ahead[x])]
<1>1. n \in Nat
  BY FS_CardinalityType
<1>2. ASSUME NEW x \in S PROVE IsFiniteSet(ahead[x]) /\ rank[x] \in 0 .. n - 1
  <2>1. ahead[x] \subseteq S /\ ahead[x] # S
    BY DEF StrictOrder
  <2>2. IsFiniteSet(ahead[x]) /\ Cardinality(ahead[x]) <= n /\ Cardinality(ahead[x]) # n
    BY <2>1, FS_Subset
  <2>3. Cardinality(ahead[x]) \in Nat
    BY <2>2, FS_CardinalityType
  <2> QED
    BY <2>2, <2>3, <1>1
<1>3. ASSUME NEW x \in S, NEW y \in S, x \in ahead[y] PROVE rank[x] < rank[y]
  <2>1. ahead[x] \subseteq ahead[y] /\ ahead[x] # ahead[y]
    BY <1>3 DEF StrictOrder
  <2>2. Cardinality(ahead[x]) <= Cardinality(ahead[y])
        /\ Cardinality(ahead[x]) # Cardinality(ahead[y])
    BY <2>1, <1>2, FS_Subset
  <2>3. rank[x] \in Nat /\ rank[y] \in Nat
    BY <1>1, <1>2
  <2> QED
    BY <2>2, <2>3
<1>4. ASSUME NEW x \in S, NEW y \in S PROVE x \in ahead[y] <=> rank[x] < rank[y]
  <2>1. rank[x] \in Int /\ rank[y] \in Int
    BY <1>1, <1>2
  <2>2. x = y \/ x \in ahead[y] \/ y \in ahead[x]
    BY DEF StrictOrder
  <2>3. x \notin ahead[x]
    BY DEF StrictOrder
  <2> HIDE DEF rank
  <2> QED
    BY <1>3, <2>1, <2>2, <2>3
<1>5. IsFiniteSet(0 .. n - 1) /\ Cardinality(0 .. n - 1) = n
  BY <1>1, FS_Interval
<1>6. rank \in [S -> 0 .. n - 1]
  BY <1>2
<1>7. rank \in Injection(S, 0 .. n - 1)
  <2>1. ASSUME NEW x \in S, NEW y \in S, x # y PROVE rank[x] # rank[y]
    <3>1. rank[x] \in Int /\ rank[y] \in Int
      BY <1>1, <1>2
    <3>2. x \in ahead[y] \/ y \in ahead[x]
      BY <2>1 DEF StrictOrder
    <3> HIDE DEF rank
    <3> QED
      BY <3>1, <3>2, <1>4
  <2> HIDE DEF rank
  <2> QED
    BY <2>1, <1>6 DEF Injection, IsInjective
<1>8. \A i \in 0 .. n - 1 : \E x \in S : rank[x] = i
  <2> DEFINE R == {rank[x] : x \in S}
  <2>1. R \subseteq 0 .. n - 1
    BY <1>2
  <2>2. rank \in Surjection(S, R)
    BY DEF Surjection
  <2>3. rank \in Injection(S, R)
    <3>1. \A a, b \in S : rank[a] = rank[b] => a = b
      BY <1>7 DEF Injection, IsInjective
    <3>2. rank \in [S -> R]
      OBVIOUS
    <3> HIDE DEF rank, R
    <3> QED
      BY <3>1, <3>2 DEF Injection, IsInjective
  <2>4. rank \in Bijection(S, R)
    BY <2>2, <2>3 DEF Bijection
  <2> HIDE DEF rank, R
  <2>5. ExistsBijection(S, R)
    BY <2>4 DEF ExistsBijection
  <2>6. IsFiniteSet(R) /\ Cardinality(R) = n
    BY <2>5, FS_Bijection
  <2>7. R = 0 .. n - 1
    BY <2>1, <2>6, <1>5, FS_Subset
  <2> QED
    BY <2>7 DEF R
<1> QED
  BY <1>2, <1>4, <1>8

\* A finite set in a strict order: every member once, and each after what is
\* ahead of it.
LEMMA Arranged ==
    ASSUME NEW ahead, IsFiniteSet(DOMAIN ahead), StrictOrder(ahead)
    PROVE  LET s == InOrder(ahead) n == Cardinality(DOMAIN ahead)
           IN  /\ n \in Nat /\ s \in [1 .. n -> DOMAIN ahead] /\ Len(s) = n
               /\ s \in Seq(DOMAIN ahead)
               /\ \A x \in DOMAIN ahead : \E i \in 1 .. n : s[i] = x
               /\ \A i, j \in 1 .. n : s[i] = s[j] => i = j
               /\ \A i, j \in 1 .. n : i < j <=> s[i] \in ahead[s[j]]
               /\ \A i \in 1 .. n : Cardinality(ahead[s[i]]) = i - 1
<1> DEFINE S == DOMAIN ahead
           n == Cardinality(S)
           s == InOrder(ahead)
<1>1. n \in Nat
  BY FS_CardinalityType
<1>2. DOMAIN s = 1 .. n /\ s = [i \in 1 .. n |-> s[i]]
  BY DEF InOrder
<1>3. ASSUME NEW i \in 1 .. n PROVE s[i] \in S /\ Cardinality(ahead[s[i]]) = i - 1
  <2>1. s[i] = CHOOSE x \in S : Cardinality(ahead[x]) = i - 1
    BY DEF InOrder
  <2>2. i - 1 \in 0 .. n - 1
    BY <1>1
  <2>3. \E x \in S : Cardinality(ahead[x]) = i - 1
    BY <2>2, Ranks
  <2> HIDE DEF s
  <2> QED
    BY <2>1, <2>3
<1> HIDE DEF s
<1>4. s \in [1 .. n -> S]
  BY <1>2, <1>3
<1>5. s \in Seq(S) /\ Len(s) = n
  BY <1>1, <1>4, SeqDef, LenProperties
<1>6. \A x \in S : \E i \in 1 .. n : s[i] = x
  <2> SUFFICES ASSUME NEW x \in S PROVE \E i \in 1 .. n : s[i] = x
    OBVIOUS
  <2> DEFINE r == Cardinality(ahead[x])
  <2>1. r \in 0 .. n - 1
    BY Ranks
  <2> HIDE DEF r
  <2>2. r + 1 \in 1 .. n /\ (r + 1) - 1 = r
    BY <2>1, <1>1
  <2>3. Cardinality(ahead[s[r + 1]]) = r /\ s[r + 1] \in S
    BY <2>2, <1>3
  <2>4. ~(x \in ahead[s[r + 1]]) /\ ~(s[r + 1] \in ahead[x])
    BY <2>1, <2>3, Ranks DEF r
  <2>5. s[r + 1] = x
    BY <2>3, <2>4 DEF StrictOrder
  <2> QED
    BY <2>2, <2>5
<1>7. \A i, j \in 1 .. n : s[i] = s[j] => i = j
  <2> SUFFICES ASSUME NEW i \in 1 .. n, NEW j \in 1 .. n, s[i] = s[j] PROVE i = j
    OBVIOUS
  <2>1. i - 1 = j - 1
    BY <1>3
  <2> QED
    BY <2>1
<1>8. \A i, j \in 1 .. n : i < j <=> s[i] \in ahead[s[j]]
  <2> SUFFICES ASSUME NEW i \in 1 .. n, NEW j \in 1 .. n PROVE i < j <=> s[i] \in ahead[s[j]]
    OBVIOUS
  <2>1. Cardinality(ahead[s[i]]) = i - 1 /\ Cardinality(ahead[s[j]]) = j - 1
    BY <1>3
  <2>2. s[i] \in ahead[s[j]] <=> Cardinality(ahead[s[i]]) < Cardinality(ahead[s[j]])
    BY <1>3, Ranks
  <2> QED
    BY <2>1, <2>2
<1> QED
  BY <1>1, <1>3, <1>4, <1>5, <1>6, <1>7, <1>8 DEF s

-----------------------------------------------------------------------------
(* Members of sequences *)

Members(s) == {s[i] : i \in 1 .. Len(s)}

LEMMA MembersAppend ==
    ASSUME NEW S, NEW s \in Seq(S), NEW x \in S
    PROVE  Members(Append(s, x)) = Members(s) \cup {x}
<1> DEFINE t == Append(s, x)
<1>1. /\ Len(t) = Len(s) + 1 /\ Len(s) \in Nat
      /\ \A i \in 1 .. Len(s) : t[i] = s[i]
      /\ t[Len(s) + 1] = x
  BY AppendProperties, LenProperties
<1> HIDE DEF t
<1>2. 1 .. Len(t) = (1 .. Len(s)) \cup {Len(s) + 1}
  BY <1>1
<1>3. Members(t) = {t[i] : i \in 1 .. Len(s)} \cup {t[Len(s) + 1]}
  BY <1>2 DEF Members
<1>4. {t[i] : i \in 1 .. Len(s)} = {s[i] : i \in 1 .. Len(s)}
  BY <1>1
<1> QED
  BY <1>1, <1>3, <1>4 DEF t, Members

LEMMA MembersHeadTail ==
    ASSUME NEW S, NEW s \in Seq(S), s # <<>>
    PROVE  /\ Members(s) = {Head(s)} \cup Members(Tail(s))
           /\ Head(s) \in S /\ Tail(s) \in Seq(S)
<1>1. /\ Len(Tail(s)) = Len(s) - 1 /\ Len(s) \in Nat \ {0} /\ Head(s) = s[1]
      /\ \A i \in 1 .. Len(s) - 1 : Tail(s)[i] = s[i + 1]
      /\ Head(s) \in S /\ Tail(s) \in Seq(S)
  BY HeadTailProperties, LenProperties, EmptySeq
<1> DEFINE n == Len(s)
           t == Tail(s)
<1> HIDE DEF n, t
<1>2. ASSUME NEW i \in 1 .. n PROVE s[i] = s[1] \/ s[i] \in Members(t)
  <2>1. CASE i # 1
    <3>1. i - 1 \in 1 .. n - 1 /\ (i - 1) + 1 = i
      BY <2>1, <1>1 DEF n
    <3>2. t[i - 1] = s[i] /\ i - 1 \in 1 .. Len(t)
      BY <3>1, <1>1 DEF n, t
    <3> QED
      BY <3>2 DEF Members
  <2> QED
    BY <2>1
<1>3. ASSUME NEW i \in 1 .. Len(t) PROVE t[i] \in Members(s)
  <2>1. i + 1 \in 1 .. Len(s) /\ t[i] = s[i + 1]
    BY <1>1 DEF t
  <2> QED
    BY <2>1 DEF Members
<1>4. s[1] \in Members(s)
  BY <1>1 DEF Members
<1>5. Members(s) \subseteq {s[1]} \cup Members(t)
  BY <1>2 DEF n, Members
<1>6. Members(t) \subseteq Members(s)
  BY <1>3 DEF Members
<1> QED
  BY <1>1, <1>4, <1>5, <1>6 DEF t

LEMMA MembersOfSeq ==
    ASSUME NEW S, NEW s \in Seq(S)
    PROVE  Members(s) \subseteq S /\ Members(<<>>) = {}
BY ElementOfSeq, LenProperties DEF Members
=============================================================================
