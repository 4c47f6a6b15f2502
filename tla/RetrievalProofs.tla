--------------------------- MODULE RetrievalProofs ---------------------------
(***************************************************************************)
(* Theorems about retrieval: a structural walk finds what is near, a hybrid *)
(* search answers with the best of what it read, and a context packet gives *)
(* its budget to what is required, for any graph, chunks, scores, limits,  *)
(* candidates and experiences.                                             *)
(***************************************************************************)
EXTENDS StructuralTraversal, HybridSearch, PacketAssembly, Foundations

-----------------------------------------------------------------------------
(* What the walk is made of *)

\* A request's bounds, by their types.
LEMMA RequestTypes ==
    ASSUME WalkTypeOK
    PROVE  /\ bounds.seeds \in SUBSET Nodes /\ bounds.seeds # {} /\ IsFiniteSet(bounds.seeds)
           /\ bounds.nodes \in Nat \ {0} /\ bounds.edges \in Nat \ {0}
           /\ bounds.depth \in Nat \ {0}
<1>1. bounds \in WalkRequest /\ bounds.seeds # {}
  BY DEF WalkTypeOK, WalkRequests
<1>2. bounds.seeds \in SUBSET Nodes /\ bounds.nodes \in NodeLimits
      /\ bounds.edges \in EdgeLimits /\ bounds.depth \in Depths
  BY <1>1 DEF WalkRequest
<1>3. IsFiniteSet(bounds.seeds)
  BY <1>2, GraphBounds, FS_Subset
<1> QED
  BY <1>1, <1>2, <1>3, GraphBounds

LEMMA AdjacentEdges ==
    ASSUME WalkTypeOK, NEW n, NEW d
    PROVE  Adjacent(n, d) \subseteq Edges /\ IsFiniteSet(Adjacent(n, d))
<1>1. Adjacent(n, d) \subseteq stored /\ stored \subseteq Edges
  BY DEF Adjacent, Contained, WalkTypeOK
<1>2. Adjacent(n, d) \subseteq Edges
  BY <1>1
<1> QED
  BY <1>2, GraphBounds, FS_Subset

LEMMA OtherEnd ==
    ASSUME NEW e \in Edges, NEW n
    PROVE  Other(e, n) \in Nodes
BY GraphBounds DEF Other, Edge

\* The edges of a node are taken one after the other, each once.
LEMMA KeyOrder ==
    ASSUME NEW S \in SUBSET Edges, IsFiniteSet(S)
    PROVE  /\ InKeyOrder(S) \in Seq(S)
           /\ \A e \in S : \E i \in 1 .. Len(InKeyOrder(S)) : InKeyOrder(S)[i] = e
<1> DEFINE ahead == [e \in S |-> {f \in S : f.key < e.key}]
<1>1. \A e \in S : e.key \in Nat
  BY GraphBounds DEF Edge
<1>2. \A e, f \in S : e.key = f.key => e = f
  BY GraphBounds
<1>3. DOMAIN ahead = S
  OBVIOUS
<1>4. StrictOrder(ahead)
  BY <1>1, <1>2 DEF StrictOrder
<1> HIDE DEF ahead
<1>5. /\ InOrder(ahead) \in Seq(S)
      /\ \A e \in S : \E i \in 1 .. Len(InOrder(ahead)) : InOrder(ahead)[i] = e
  BY <1>3, <1>4, Arranged
<1> QED
  BY <1>5 DEF InKeyOrder, ahead

LEMMA SeedOrder ==
    ASSUME WalkTypeOK
    PROVE  LET seeds == InOrder([n \in bounds.seeds |-> {m \in bounds.seeds : m < n}])
           IN  /\ seeds \in Seq(bounds.seeds)
               /\ \A n \in bounds.seeds : \E i \in 1 .. Len(seeds) : seeds[i] = n
<1> DEFINE ahead == [n \in bounds.seeds |-> {m \in bounds.seeds : m < n}]
<1>1. bounds.seeds \subseteq Nat /\ IsFiniteSet(bounds.seeds)
  BY RequestTypes, GraphBounds
<1>2. DOMAIN ahead = bounds.seeds
  OBVIOUS
<1>3. StrictOrder(ahead)
  BY <1>1 DEF StrictOrder
<1> HIDE DEF ahead
<1>5. /\ InOrder(ahead) \in Seq(bounds.seeds)
      /\ \A n \in bounds.seeds : \E i \in 1 .. Len(InOrder(ahead)) : InOrder(ahead)[i] = n
  BY <1>1, <1>2, <1>3, Arranged
<1> QED
  BY <1>5 DEF ahead

-----------------------------------------------------------------------------
(* What the steps do *)


SeedPath(n) == [nodes |-> <<n>>, edges |-> <<>>]

\* A queue of one path for each seed; or nothing but the refusal.
LEMMA LoadStep ==
    ASSUME WalkTypeOK, LoadSeeds
    PROVE  /\ UNCHANGED <<stored, bounds>> /\ walk.step = "load" /\ walk' \in Walk
           /\ walk'.found = walk.found /\ walk'.edges = walk.edges /\ walk'.used = walk.used
           /\ walk'.truncated = walk.truncated /\ walk'.left = walk.left
           /\ walk'.current = walk.current
           /\ \/ walk'.step = "refused" /\ walk'.queue = walk.queue /\ walk'.seen = walk.seen
              \/ /\ walk'.step = "walk" /\ walk'.seen = bounds.seeds
                 /\ Members(walk'.queue) = {SeedPath(n) : n \in bounds.seeds}
<1> DEFINE seeds == InOrder([n \in bounds.seeds |-> {m \in bounds.seeds : m < n}])
           paths == [i \in DOMAIN seeds |-> [nodes |-> <<seeds[i]>>, edges |-> <<>>]]
<1>1. seeds \in Seq(bounds.seeds) /\ \A n \in bounds.seeds : \E i \in 1 .. Len(seeds) : seeds[i] = n
  BY SeedOrder
<1>2. /\ UNCHANGED <<stored, bounds>> /\ walk.step = "load"
      /\ walk' = IF Len(seeds) > bounds.nodes
                   THEN [walk EXCEPT !.step = "refused"]
                   ELSE [walk EXCEPT !.step = "walk", !.queue = paths, !.seen = bounds.seeds]
  BY DEF LoadSeeds
<1> HIDE DEF seeds
<1>3. DOMAIN seeds = 1 .. Len(seeds) /\ Len(seeds) \in Nat
      /\ \A i \in 1 .. Len(seeds) : seeds[i] \in bounds.seeds
  BY <1>1, LenProperties, ElementOfSeq
<1>4. \A n \in bounds.seeds : SeedPath(n) \in WalkPaths
  BY RequestTypes DEF SeedPath, WalkPaths
<1>5. paths = [i \in 1 .. Len(seeds) |-> SeedPath(seeds[i])]
  BY <1>3 DEF SeedPath
<1> HIDE DEF paths
<1>6. paths \in Seq(WalkPaths) /\ Len(paths) = Len(seeds)
  BY <1>3, <1>4, <1>5, IsASeq
<1>7. Members(paths) = {SeedPath(n) : n \in bounds.seeds}
  BY <1>1, <1>3, <1>5, <1>6 DEF Members
<1>8. walk \in Walk /\ bounds.seeds \in SUBSET Nodes
  BY RequestTypes DEF WalkTypeOK
<1>9. CASE Len(seeds) > bounds.nodes
  <2>1. walk' = [walk EXCEPT !.step = "refused"]
    BY <1>2, <1>9
  <2> QED
    BY <2>1, <1>2, <1>8 DEF Walk, WalkStep
<1>10. CASE ~(Len(seeds) > bounds.nodes)
  <2>1. walk' = [walk EXCEPT !.step = "walk", !.queue = paths, !.seen = bounds.seeds]
    BY <1>2, <1>10
  <2>2. walk'.queue = paths
    BY <2>1, <1>8 DEF Walk
  <2> QED
    BY <2>1, <2>2, <1>2, <1>6, <1>7, <1>8 DEF Walk, WalkStep
<1> QED
  BY <1>9, <1>10

\* The oldest path leaves the queue, for good or to be expanded along at most
\* so many edges of its end; or the walk is over.
LEMMA ExpandStep ==
    ASSUME WalkTypeOK, Expand, Traversed \in Nat, Traversed <= bounds.edges
    PROVE  LET path == Head(walk.queue)
               adjacent == Adjacent(Last(path.nodes), Len(path.edges))
           IN  /\ UNCHANGED <<stored, bounds>> /\ walk' \in Walk
               /\ walk.step = "walk" /\ walk.left = <<>> /\ walk.queue # <<>>
               /\ walk'.seen = walk.seen /\ walk'.found = walk.found
               /\ walk'.edges = walk.edges /\ walk'.used = walk.used
               /\ \/ /\ Len(path.edges) >= bounds.depth /\ walk'.queue = Tail(walk.queue)
                     /\ walk'.step = "walk" /\ walk'.left = <<>>
                     /\ walk'.truncated = walk.truncated /\ walk'.current = walk.current
                  \/ /\ walk'.queue = walk.queue /\ walk'.left = <<>>
                     /\ walk'.step = "done" /\ walk'.truncated /\ walk'.current = walk.current
                  \/ /\ Len(path.edges) < bounds.depth /\ walk'.queue = Tail(walk.queue)
                     /\ walk'.step = "walk" /\ walk'.current = path /\ ~NoRoom
                     /\ walk'.left \in Seq(adjacent)
                     /\ Len(walk'.left) <= bounds.edges - Traversed
                     /\ walk.truncated => walk'.truncated
                     /\ ~walk'.truncated => \A e \in adjacent : e \in Members(walk'.left)
<1> DEFINE path == Head(walk.queue)
           others == Tail(walk.queue)
           depth == Len(path.edges)
           remaining == bounds.edges - Traversed
           edges == Adjacent(Last(path.nodes), depth)
           adjacent == InKeyOrder(edges)
           cut == Len(adjacent) > remaining
           left == IF cut THEN SubSeq(adjacent, 1, remaining) ELSE adjacent
<1>1. /\ UNCHANGED <<stored, bounds>>
      /\ walk.step = "walk" /\ walk.left = <<>> /\ walk.queue # <<>>
      /\ walk' =
             IF depth >= bounds.depth
               THEN [walk EXCEPT !.queue = others]
             ELSE IF remaining = 0 \/ NoRoom
               THEN [walk EXCEPT !.step = "done", !.truncated = TRUE]
             ELSE [walk EXCEPT !.queue = others, !.current = path, !.left = left,
                      !.truncated = @ \/ cut]
  BY DEF Expand
<1>2. walk \in Walk /\ walk.queue \in Seq(WalkPaths) /\ walk.truncated \in BOOLEAN
  BY DEF WalkTypeOK, Walk
<1>3. path \in WalkPaths /\ others \in Seq(WalkPaths)
  BY <1>1, <1>2, HeadTailProperties
<1>4. edges \subseteq Edges /\ IsFiniteSet(edges)
  BY AdjacentEdges
<1>5. adjacent \in Seq(edges) /\ \A e \in edges : \E i \in 1 .. Len(adjacent) : adjacent[i] = e
  BY <1>4, KeyOrder
<1>6. remaining \in Nat /\ depth \in Nat /\ bounds.depth \in Nat /\ bounds.edges \in Nat
  <2>1. path.edges \in Seq(Edges)
    BY <1>3, GraphBounds DEF WalkPaths
  <2> HIDE DEF path
  <2> QED
    BY <2>1, RequestTypes, LenProperties
<1> HIDE DEF path, others, edges, adjacent, remaining, depth
<1>7. Len(adjacent) \in Nat
  BY <1>5, LenProperties
<1>8. /\ left \in Seq(edges) /\ Len(left) <= remaining
      /\ ~cut => \A e \in edges : e \in Members(left)
  <2>1. CASE cut
    <3>1. SubSeq(adjacent, 1, remaining) \in Seq(edges)
          /\ Len(SubSeq(adjacent, 1, remaining)) = IF 1 <= remaining THEN remaining - 1 + 1 ELSE 0
      <4>1. remaining <= Len(adjacent)
        BY <2>1, <1>6, <1>7
      <4> QED
        BY <4>1, <1>5, <1>6, <1>7, SubSeqProperties
    <3> QED
      BY <2>1, <3>1, <1>6
  <2>2. CASE ~cut
    <3>1. \A e \in edges : e \in Members(adjacent)
      BY <1>5 DEF Members
    <3> QED
      BY <2>2, <3>1, <1>5, <1>6, <1>7
  <2> QED
    BY <2>1, <2>2
<1> HIDE DEF left, cut
<1>9. left \in Seq(Edges)
  BY <1>4, <1>8, SeqMonotonic
<1>10. CASE depth >= bounds.depth
  <2>1. walk' = [walk EXCEPT !.queue = others]
    BY <1>1, <1>10
  <2> QED
    BY <2>1, <1>1, <1>2, <1>3, <1>10 DEF Walk, path, others, depth
<1>11. CASE ~(depth >= bounds.depth) /\ (remaining = 0 \/ NoRoom)
  <2>1. walk' = [walk EXCEPT !.step = "done", !.truncated = TRUE]
    BY <1>1, <1>11
  <2> QED
    BY <2>1, <1>1, <1>2 DEF Walk, WalkStep
<1>12. CASE ~(depth >= bounds.depth) /\ ~(remaining = 0 \/ NoRoom)
  <2>1. walk' = [walk EXCEPT !.queue = others, !.current = path, !.left = left,
                      !.truncated = @ \/ cut]
    BY <1>1, <1>12
  <2>2. depth < bounds.depth
    BY <1>6, <1>12
  <2>3. walk' \in Walk
    <3>1. (walk.truncated \/ cut) \in BOOLEAN
      BY DEF cut
    <3> QED
      BY <2>1, <3>1, <1>2, <1>3, <1>9 DEF Walk
  <2>4. /\ walk'.seen = walk.seen /\ walk'.found = walk.found
        /\ walk'.edges = walk.edges /\ walk'.used = walk.used
        /\ walk'.step = walk.step /\ walk'.queue = others
        /\ walk'.current = path /\ walk'.left = left
        /\ walk'.truncated = (walk.truncated \/ cut)
    BY <2>1, <1>2 DEF Walk
  <2> QED
    BY <2>2, <2>3, <2>4, <1>1, <1>8, <1>12 DEF path, others, depth, edges, remaining
<1> QED
  BY <1>10, <1>11, <1>12

\* The path that an edge makes of another.
Extended(p, e) ==
    [nodes |-> Append(p.nodes, Other(e, Last(p.nodes))), edges |-> Append(p.edges, e)]

\* The next edge leads to a node that is known, to a new one, or to the last
\* one there is room for.
LEMMA FollowStep ==
    ASSUME WalkTypeOK, Follow
    PROVE  LET edge == Head(walk.left)
               path == Extended(walk.current, edge)
               node == Other(edge, Last(walk.current.nodes))
           IN  /\ UNCHANGED <<stored, bounds>> /\ walk' \in Walk
               /\ walk.step = "walk" /\ walk.left # <<>> /\ walk'.step = "walk"
               /\ edge \in Edges /\ node \in Nodes /\ path \in WalkPaths
               /\ walk'.edges = walk.edges \cup {edge} /\ walk'.used = walk.used + 1
               /\ walk'.current = walk.current
               /\ \/ /\ node \in walk.seen /\ walk'.seen = walk.seen
                     /\ walk'.found = walk.found /\ walk'.queue = walk.queue
                     /\ walk'.left = Tail(walk.left) /\ walk'.truncated = walk.truncated
                  \/ /\ node \notin walk.seen /\ walk'.seen = walk.seen \cup {node}
                     /\ walk'.found = Append(walk.found, path)
                     /\ \/ /\ walk'.left = Tail(walk.left)
                           /\ walk'.truncated = walk.truncated
                           /\ walk'.queue = Append(walk.queue, path)
                           /\ Len(walk'.found) # bounds.nodes
                        \/ /\ walk'.left = <<>> /\ Len(walk'.found) = bounds.nodes
                           /\ \/ walk'.queue = walk.queue
                              \/ walk'.queue = Append(walk.queue, path)
<1> DEFINE edge == Head(walk.left)
           node == Other(edge, Last(walk.current.nodes))
           path == [nodes |-> Append(walk.current.nodes, node),
                    edges |-> Append(walk.current.edges, edge)]
           met == [walk EXCEPT !.left = Tail(@), !.used = @ + 1, !.edges = @ \cup {edge}]
           new == [met EXCEPT !.seen = @ \cup {node}, !.found = Append(@, path)]
           last == Len(new.found) = bounds.nodes
           queue == IF last /\ bounds.kind = "traverse" THEN walk.queue
                    ELSE Pushed(walk.queue, path)
<1>1. /\ UNCHANGED <<stored, bounds>>
      /\ walk.step = "walk" /\ walk.left # <<>>
      /\ walk' = IF node \in walk.seen THEN met
                 ELSE IF ~last THEN [new EXCEPT !.queue = queue]
                 ELSE [new EXCEPT !.queue = queue, !.left = <<>>,
                                  !.truncated = new.left # <<>> \/ queue # <<>>]
  BY DEF Follow
<1>2. walk \in Walk
  BY DEF WalkTypeOK
<1>3. walk.left \in Seq(Edges) /\ walk.current \in WalkPaths /\ walk.queue \in Seq(WalkPaths)
      /\ walk.found \in Seq(WalkPaths)
  BY <1>2 DEF Walk
<1>4. edge \in Edges /\ Tail(walk.left) \in Seq(Edges)
  BY <1>1, <1>3, HeadTailProperties
<1> HIDE DEF edge
<1>5. node \in Nodes
  BY <1>4, OtherEnd
<1> HIDE DEF node
<1>6. path \in WalkPaths
  <2>1. walk.current.nodes \in Seq(Nodes) /\ walk.current.edges \in Seq(Edges)
    BY <1>3 DEF WalkPaths
  <2>2. Append(walk.current.nodes, node) \in Seq(Nodes) /\ Append(walk.current.edges, edge) \in Seq(Edges)
    BY <2>1, <1>4, <1>5, AppendProperties
  <2> QED
    BY <2>2 DEF WalkPaths
<1>7. path = Extended(walk.current, edge)
  BY DEF Extended, node
<1> HIDE DEF path
<1>8. met \in Walk
  <2>1. walk.edges \cup {edge} \in SUBSET Edges /\ walk.used + 1 \in Nat
    BY <1>2, <1>4 DEF Walk
  <2> QED
    BY <2>1, <1>2, <1>4 DEF Walk
<1>9. /\ met.left = Tail(walk.left) /\ met.used = walk.used + 1
      /\ met.edges = walk.edges \cup {edge} /\ met.step = walk.step /\ met.queue = walk.queue
      /\ met.seen = walk.seen /\ met.found = walk.found /\ met.current = walk.current
      /\ met.truncated = walk.truncated
  BY <1>2 DEF Walk
<1> HIDE DEF met
<1>10. Append(walk.found, path) \in Seq(WalkPaths) /\ Append(walk.queue, path) \in Seq(WalkPaths)
  BY <1>3, <1>6, AppendProperties
<1>11. new \in Walk
  BY <1>5, <1>8, <1>9, <1>10 DEF Walk
<1>12. /\ new.left = Tail(walk.left) /\ new.used = walk.used + 1
       /\ new.edges = walk.edges \cup {edge} /\ new.step = walk.step /\ new.queue = walk.queue
       /\ new.seen = walk.seen \cup {node} /\ new.found = Append(walk.found, path)
       /\ new.current = walk.current /\ new.truncated = walk.truncated
  BY <1>8, <1>9 DEF Walk
<1> HIDE DEF new
<1>13. queue \in Seq(WalkPaths) /\ (queue = walk.queue \/ queue = Append(walk.queue, path))
       /\ (~last => queue = Append(walk.queue, path))
  BY <1>3, <1>10 DEF Pushed
<1> HIDE DEF queue
<1>14. CASE node \in walk.seen
  <2>1. walk' = met
    BY <1>1, <1>14
  <2> QED
    BY <2>1, <1>1, <1>4, <1>5, <1>6, <1>7, <1>8, <1>9, <1>14 DEF edge, node
<1>15. CASE node \notin walk.seen /\ ~last
  <2>1. walk' = [new EXCEPT !.queue = queue]
    BY <1>1, <1>15
  <2>2. walk' \in Walk
    BY <2>1, <1>11, <1>13 DEF Walk
  <2>3. /\ walk'.left = Tail(walk.left) /\ walk'.used = walk.used + 1
        /\ walk'.edges = walk.edges \cup {edge} /\ walk'.step = walk.step
        /\ walk'.queue = Append(walk.queue, path)
        /\ walk'.seen = walk.seen \cup {node} /\ walk'.found = Append(walk.found, path)
        /\ walk'.current = walk.current /\ walk'.truncated = walk.truncated
        /\ Len(walk'.found) # bounds.nodes
    BY <2>1, <1>11, <1>12, <1>13, <1>15 DEF Walk
  <2> QED
    BY <2>2, <2>3, <1>1, <1>4, <1>5, <1>6, <1>7, <1>15 DEF edge, node
<1>16. CASE node \notin walk.seen /\ last
  <2>1. walk' = [new EXCEPT !.queue = queue, !.left = <<>>,
                            !.truncated = new.left # <<>> \/ queue # <<>>]
    BY <1>1, <1>16
  <2>2. walk' \in Walk
    <3>1. (new.left # <<>> \/ queue # <<>>) \in BOOLEAN /\ <<>> \in Seq(Edges)
      BY EmptySeq
    <3> QED
      BY <2>1, <3>1, <1>11, <1>13 DEF Walk
  <2>3. /\ walk'.left = <<>> /\ walk'.used = walk.used + 1
        /\ walk'.edges = walk.edges \cup {edge} /\ walk'.step = walk.step
        /\ (walk'.queue = walk.queue \/ walk'.queue = Append(walk.queue, path))
        /\ walk'.seen = walk.seen \cup {node} /\ walk'.found = Append(walk.found, path)
        /\ walk'.current = walk.current
        /\ Len(walk'.found) = bounds.nodes
    BY <2>1, <1>11, <1>12, <1>13, <1>16 DEF Walk
  <2> QED
    BY <2>2, <2>3, <1>1, <1>4, <1>5, <1>6, <1>7, <1>16 DEF edge, node
<1> QED
  BY <1>14, <1>15, <1>16

\* Nothing is left to do.
LEMMA EndStep ==
    ASSUME WalkTypeOK, EndWalk
    PROVE  /\ UNCHANGED <<stored, bounds>> /\ walk' \in Walk
           /\ walk.left = <<>> /\ walk.queue = <<>> /\ walk.step = "walk"
           /\ walk'.step = "done" /\ walk'.left = <<>> /\ walk'.queue = <<>>
           /\ walk'.seen = walk.seen /\ walk'.found = walk.found
           /\ walk'.edges = walk.edges /\ walk'.used = walk.used
           /\ walk'.current = walk.current /\ walk'.truncated = walk.truncated
<1>1. walk \in Walk /\ walk' = [walk EXCEPT !.step = "done"]
  BY DEF WalkTypeOK, EndWalk
<1> QED
  BY <1>1 DEF EndWalk, Walk, WalkStep

-----------------------------------------------------------------------------
(* The bounds *)

CountsHold ==
    /\ IsFiniteSet(walk.edges) /\ Cardinality(walk.edges) <= walk.used
    /\ Traversed + Len(walk.left) <= bounds.edges
    /\ Len(walk.found) <= bounds.nodes
    /\ walk.left # <<>> => Len(walk.found) < bounds.nodes

LEMMA CountsAreNumbers ==
    ASSUME WalkTypeOK, CountsHold
    PROVE  /\ Traversed \in Nat /\ Traversed <= bounds.edges
           /\ walk.used \in Nat /\ Cardinality(walk.edges) \in Nat
           /\ Cardinality(walk.edges) <= bounds.edges
           /\ Len(walk.left) \in Nat /\ Len(walk.found) \in Nat
<1>1. walk.used \in Nat /\ Cardinality(walk.edges) \in Nat
      /\ Len(walk.left) \in Nat /\ Len(walk.found) \in Nat
  BY FS_CardinalityType, LenProperties DEF WalkTypeOK, Walk, CountsHold
<1>2. bounds.edges \in Nat
  BY RequestTypes
<1>3. Traversed = walk.used \/ Traversed = Cardinality(walk.edges)
  BY DEF Traversed
<1>4. Cardinality(walk.edges) <= walk.used /\ Traversed + Len(walk.left) <= bounds.edges
  BY DEF CountsHold
<1> HIDE DEF Traversed
<1> QED
  BY <1>1, <1>2, <1>3, <1>4

LEMMA CountsKept ==
    ASSUME WalkTypeOK, CountsHold, WalkNext
    PROVE  WalkTypeOK' /\ CountsHold'
<1>1. /\ Traversed \in Nat /\ Traversed <= bounds.edges
      /\ walk.used \in Nat /\ Cardinality(walk.edges) \in Nat
      /\ Len(walk.left) \in Nat /\ Len(walk.found) \in Nat
  BY CountsAreNumbers
<1>2. bounds.nodes \in Nat \ {0} /\ bounds.edges \in Nat
  BY RequestTypes
<1>3. walk \in Walk /\ walk.left \in Seq(Edges) /\ walk.found \in Seq(WalkPaths)
  BY DEF WalkTypeOK, Walk
<1>4. IsFiniteSet(walk.edges) /\ Cardinality(walk.edges) <= walk.used
      /\ Traversed + Len(walk.left) <= bounds.edges /\ Len(walk.found) <= bounds.nodes
      /\ (walk.left # <<>> => Len(walk.found) < bounds.nodes)
  BY DEF CountsHold
<1>5. ASSUME UNCHANGED <<stored, bounds>>, walk' \in Walk PROVE WalkTypeOK'
  BY <1>5 DEF WalkTypeOK, WalkRequests, WalkRequest
<1>6. ASSUME UNCHANGED bounds, walk'.edges = walk.edges, walk'.used = walk.used
      PROVE  Traversed' = Traversed
  BY <1>6 DEF Traversed
<1>7. CASE LoadSeeds
  BY <1>4, <1>5, <1>6, <1>7, LoadStep DEF CountsHold
<1>8. CASE EndWalk
  BY <1>4, <1>5, <1>6, <1>8, EndStep DEF CountsHold
<1>9. CASE Expand
  <2>1. /\ UNCHANGED <<stored, bounds>> /\ walk' \in Walk
        /\ walk.left = <<>> /\ walk'.found = walk.found
        /\ walk'.edges = walk.edges /\ walk'.used = walk.used
        /\ \/ walk'.left = <<>>
           \/ ~NoRoom /\ Len(walk'.left) <= bounds.edges - Traversed
    BY <1>1, <1>9, ExpandStep
  <2>2. Traversed' = Traversed
    BY <2>1, <1>6
  <2>3. walk'.left \in Seq(Edges) /\ Len(walk'.left) \in Nat /\ Len(<<>>) = 0
    BY <2>1, LenProperties DEF Walk
  <2>4. (Traversed + Len(walk.left) <= bounds.edges)'
    BY <2>1, <2>2, <2>3, <1>1, <1>2
  <2>5. (walk.left # <<>> => Len(walk.found) < bounds.nodes)'
    BY <2>1, <1>1, <1>2, <1>4 DEF NoRoom
  <2> QED
    BY <2>1, <2>4, <2>5, <1>4, <1>5 DEF CountsHold
<1>10. CASE Follow
  <2> DEFINE edge == Head(walk.left)
             path == Extended(walk.current, edge)
  <2>1. /\ UNCHANGED <<stored, bounds>> /\ walk' \in Walk /\ walk.left # <<>>
        /\ path \in WalkPaths
        /\ walk'.edges = walk.edges \cup {edge} /\ walk'.used = walk.used + 1
        /\ walk'.left = Tail(walk.left) \/ walk'.left = <<>>
        /\ \/ walk'.found = walk.found
           \/ /\ walk'.found = Append(walk.found, path)
              /\ walk'.left = <<>> \/ Len(walk'.found) # bounds.nodes
    BY <1>10, FollowStep
  <2> HIDE DEF edge, path
  <2>2. IsFiniteSet(walk'.edges) /\ Cardinality(walk'.edges) \in Nat
        /\ Cardinality(walk'.edges) <= Cardinality(walk.edges) + 1
    <3>1. /\ IsFiniteSet(walk.edges \cup {edge})
          /\ \/ Cardinality(walk.edges \cup {edge}) = Cardinality(walk.edges)
             \/ Cardinality(walk.edges \cup {edge}) = Cardinality(walk.edges) + 1
      BY <1>4, FS_AddElement
    <3> QED
      BY <3>1, <2>1, <1>1
  <2>3. (Traversed' = walk.used + 1 /\ Traversed = walk.used)
        \/ (Traversed' = Cardinality(walk'.edges) /\ Traversed = Cardinality(walk.edges))
    BY <2>1 DEF Traversed
  <2>4. Len(walk'.left) + 1 <= Len(walk.left) /\ Len(walk'.left) \in Nat
    <3>1. walk.left # <<>> => Len(walk.left) # 0 /\ Len(Tail(walk.left)) = Len(walk.left) - 1
      BY <1>3, HeadTailProperties, EmptySeq
    <3>2. CASE walk'.left = <<>>
      <4>1. Len(walk'.left) = 0
        BY <3>2
      <4> QED
        BY <4>1, <3>1, <2>1, <1>1
    <3>3. CASE walk'.left = Tail(walk.left)
      <4>1. Len(walk'.left) = Len(walk.left) - 1
        BY <3>1, <3>3, <2>1
      <4> QED
        BY <4>1, <3>1, <2>1, <1>1
    <3> QED
      BY <2>1, <3>2, <3>3
  <2>5. (Traversed + Len(walk.left) <= bounds.edges)'
    <3> DEFINE old == Traversed new == Traversed'
    <3>1. old + Len(walk.left) <= bounds.edges /\ old \in Nat
      BY <1>1, <1>4
    <3>2. new <= old + 1 /\ new \in Nat
      BY <2>2, <2>3, <1>1
    <3> HIDE DEF old, new
    <3>3. new + Len(walk'.left) <= bounds.edges
      BY <3>1, <3>2, <2>4, <1>1, <1>2
    <3> QED
      BY <3>3, <2>1 DEF new
  <2>6. Len(Append(walk.found, path)) = Len(walk.found) + 1
    BY <2>1, <1>3, AppendProperties
  <2>7. /\ Len(walk'.found) <= bounds.nodes
        /\ walk'.left # <<>> => Len(walk'.found) < bounds.nodes
    BY <2>1, <2>6, <1>1, <1>2, <1>4
  <2>8. Cardinality(walk'.edges) <= walk'.used
    BY <2>1, <2>2, <1>1, <1>4
  <2> QED
    BY <2>1, <2>2, <2>5, <2>7, <2>8, <1>5 DEF CountsHold
<1> QED
  BY <1>7, <1>8, <1>9, <1>10 DEF WalkNext

-----------------------------------------------------------------------------
(* The paths *)

\* A walk from a seed along stored edges that are in the answer.
PathHolds(p) ==
    /\ p.nodes[1] \in bounds.seeds /\ Len(p.edges) <= bounds.depth
    /\ Len(p.nodes) = Len(p.edges) + 1
    /\ \A j \in 1 .. Len(p.edges) :
          /\ p.edges[j] \in Adjacent(p.nodes[j], j - 1) \cap walk.edges
          /\ p.nodes[j + 1] = Other(p.edges[j], p.nodes[j])

PathsHold ==
    /\ walk.step \in {"load", "refused"} =>
          walk.queue = <<>> /\ walk.found = <<>> /\ walk.left = <<>>
    /\ \A p \in Members(walk.queue) \cup Members(walk.found) : PathHolds(p)
    /\ \A p \in Members(walk.found) : Len(p.edges) >= 1
    /\ walk.left # <<>> => PathHolds(walk.current) /\ Len(walk.current.edges) < bounds.depth
    /\ Members(walk.left) \subseteq Adjacent(Last(walk.current.nodes), Len(walk.current.edges))

LEMMA AdjacentStays ==
    ASSUME UNCHANGED <<stored, bounds>>
    PROVE  \A n, d : Adjacent(n, d)' = Adjacent(n, d)
BY DEF Adjacent, Contained

LEMMA PathStays ==
    ASSUME UNCHANGED <<stored, bounds>>, walk.edges \subseteq walk'.edges
    PROVE  \A p : PathHolds(p) => PathHolds(p)'
BY AdjacentStays DEF PathHolds

LEMMA SeedPathHolds ==
    ASSUME WalkTypeOK, UNCHANGED <<stored, bounds>>, NEW n \in bounds.seeds
    PROVE  PathHolds(SeedPath(n))'
<1>1. SeedPath(n).nodes[1] = n /\ Len(SeedPath(n).nodes) = 1 /\ Len(SeedPath(n).edges) = 0
  BY DEF SeedPath
<1>2. bounds.depth \in Nat /\ 1 .. 0 = {}
  BY RequestTypes
<1> HIDE DEF SeedPath
<1> QED
  BY <1>1, <1>2 DEF PathHolds

LEMMA ExtendedFields ==
    ASSUME NEW p \in WalkPaths, NEW e \in Edges
    PROVE  LET q == Extended(p, e)
           IN  /\ q \in WalkPaths /\ Last(q.nodes) = Other(e, Last(p.nodes))
               /\ Len(q.nodes) = Len(p.nodes) + 1 /\ Len(q.edges) = Len(p.edges) + 1
               /\ q.nodes[Len(p.nodes) + 1] = Other(e, Last(p.nodes))
               /\ q.edges[Len(p.edges) + 1] = e
               /\ \A j \in 1 .. Len(p.nodes) : q.nodes[j] = p.nodes[j]
               /\ \A j \in 1 .. Len(p.edges) : q.edges[j] = p.edges[j]
               /\ Len(p.nodes) \in Nat /\ Len(p.edges) \in Nat
<1> DEFINE node == Other(e, Last(p.nodes))
<1>1. p.nodes \in Seq(Nodes) /\ p.edges \in Seq(Edges) /\ node \in Nodes
  BY OtherEnd DEF WalkPaths
<1> HIDE DEF node
<1>2. /\ Append(p.nodes, node) \in Seq(Nodes) /\ Append(p.edges, e) \in Seq(Edges)
      /\ Len(Append(p.nodes, node)) = Len(p.nodes) + 1
      /\ Len(Append(p.edges, e)) = Len(p.edges) + 1
      /\ Append(p.nodes, node)[Len(p.nodes) + 1] = node
      /\ Append(p.edges, e)[Len(p.edges) + 1] = e
      /\ \A j \in 1 .. Len(p.nodes) : Append(p.nodes, node)[j] = p.nodes[j]
      /\ \A j \in 1 .. Len(p.edges) : Append(p.edges, e)[j] = p.edges[j]
  BY <1>1, AppendProperties
<1>3. Extended(p, e) = [nodes |-> Append(p.nodes, node), edges |-> Append(p.edges, e)]
  BY DEF Extended, node
<1>4. Len(p.nodes) \in Nat /\ Len(p.edges) \in Nat
  BY <1>1, LenProperties
<1>5. Extended(p, e).nodes = Append(p.nodes, node) /\ Extended(p, e).edges = Append(p.edges, e)
  BY <1>3
<1>6. Extended(p, e) \in WalkPaths
  BY <1>2, <1>3 DEF WalkPaths
<1>7. Last(Extended(p, e).nodes) = node
  BY <1>2, <1>5 DEF Last
<1> HIDE DEF Extended
<1> QED
  BY <1>2, <1>4, <1>5, <1>6, <1>7 DEF node

LEMMA PathGrows ==
    ASSUME UNCHANGED <<stored, bounds>>, WalkTypeOK, NEW p \in WalkPaths, PathHolds(p),
           Len(p.edges) < bounds.depth, NEW e \in Adjacent(Last(p.nodes), Len(p.edges)),
           walk.edges \subseteq walk'.edges, e \in walk'.edges
    PROVE  PathHolds(Extended(p, e))'
<1> DEFINE q == Extended(p, e)
<1>1. e \in Edges
  BY AdjacentEdges
<1>2. /\ Len(q.nodes) = Len(p.nodes) + 1 /\ Len(q.edges) = Len(p.edges) + 1
      /\ q.nodes[Len(p.nodes) + 1] = Other(e, Last(p.nodes))
      /\ q.edges[Len(p.edges) + 1] = e
      /\ \A j \in 1 .. Len(p.nodes) : q.nodes[j] = p.nodes[j]
      /\ \A j \in 1 .. Len(p.edges) : q.edges[j] = p.edges[j]
      /\ Len(p.nodes) \in Nat /\ Len(p.edges) \in Nat
  BY <1>1, ExtendedFields
<1> HIDE DEF q
<1>3. /\ p.nodes[1] \in bounds.seeds /\ Len(p.nodes) = Len(p.edges) + 1
      /\ \A j \in 1 .. Len(p.edges) :
            /\ p.edges[j] \in Adjacent(p.nodes[j], j - 1) \cap walk.edges
            /\ p.nodes[j + 1] = Other(p.edges[j], p.nodes[j])
  BY DEF PathHolds
<1>4. bounds.depth \in Nat
  BY RequestTypes
<1> DEFINE n == Len(p.edges)
<1> HIDE DEF n
<1>5. ASSUME NEW j \in 1 .. n + 1
      PROVE  /\ q.edges[j] \in Adjacent(q.nodes[j], j - 1) \cap walk'.edges
             /\ q.nodes[j + 1] = Other(q.edges[j], q.nodes[j])
  <2>1. CASE j = n + 1
    <3>1. q.edges[j] = e /\ q.nodes[j] = p.nodes[j] /\ p.nodes[j] = Last(p.nodes)
          /\ q.nodes[j + 1] = Other(e, Last(p.nodes))
      BY <2>1, <1>2, <1>3 DEF n, Last
    <3>2. e \in Adjacent(p.nodes[j], j - 1)
      BY <3>1, <2>1, <1>2 DEF n
    <3> QED
      BY <3>1, <3>2
  <2>2. CASE j # n + 1
    <3>1. j \in 1 .. n /\ j \in 1 .. Len(p.nodes) /\ j + 1 \in 1 .. Len(p.nodes)
      BY <2>2, <1>2, <1>3 DEF n
    <3>2. q.edges[j] = p.edges[j] /\ q.nodes[j] = p.nodes[j] /\ q.nodes[j + 1] = p.nodes[j + 1]
      BY <3>1, <1>2 DEF n
    <3> QED
      BY <3>1, <3>2, <1>3 DEF n
  <2> QED
    BY <2>1, <2>2
<1>6. q.nodes[1] \in bounds.seeds /\ Len(q.edges) <= bounds.depth
      /\ Len(q.nodes) = Len(q.edges) + 1
  BY <1>2, <1>3, <1>4
<1>7. \A j \in 1 .. Len(q.edges) :
            /\ q.edges[j] \in Adjacent(q.nodes[j], j - 1)' \cap walk'.edges
            /\ q.nodes[j + 1] = Other(q.edges[j], q.nodes[j])
  BY <1>2, <1>5, AdjacentStays DEF n
<1>8. PathHolds(q)'
  BY <1>6, <1>7 DEF PathHolds
<1> QED
  BY <1>8 DEF q

LEMMA PathsKept ==
    ASSUME WalkTypeOK, CountsHold, PathsHold, WalkNext
    PROVE  PathsHold'
<1>1. walk.queue \in Seq(WalkPaths) /\ walk.found \in Seq(WalkPaths)
      /\ walk.left \in Seq(Edges) /\ walk.current \in WalkPaths /\ walk.step \in WalkStep
  BY DEF WalkTypeOK, Walk
<1>2. /\ walk.step \in {"load", "refused"} =>
            walk.queue = <<>> /\ walk.found = <<>> /\ walk.left = <<>>
      /\ \A p \in Members(walk.queue) \cup Members(walk.found) : PathHolds(p)
      /\ \A p \in Members(walk.found) : Len(p.edges) >= 1
      /\ walk.left # <<>> => PathHolds(walk.current) /\ Len(walk.current.edges) < bounds.depth
      /\ Members(walk.left) \subseteq Adjacent(Last(walk.current.nodes), Len(walk.current.edges))
  BY DEF PathsHold
<1>3. Members(<<>>) = {}
  BY DEF Members
<1>4. CASE LoadSeeds
  <2>1. /\ UNCHANGED <<stored, bounds>> /\ walk.step = "load"
        /\ walk'.found = walk.found /\ walk'.edges = walk.edges /\ walk'.left = walk.left
        /\ \/ walk'.step = "refused" /\ walk'.queue = walk.queue
           \/ walk'.step = "walk" /\ Members(walk'.queue) = {SeedPath(n) : n \in bounds.seeds}
    BY <1>4, LoadStep
  <2>2. walk'.left = <<>> /\ walk'.found = <<>>
    BY <2>1, <1>2
  <2>3. \A p \in Members(walk'.queue) : PathHolds(p)'
    BY <2>1, <1>2, <1>3, SeedPathHolds
  <2> QED
    BY <2>1, <2>2, <2>3, <1>2, <1>3 DEF PathsHold
<1>5. CASE EndWalk
  <2>1. /\ UNCHANGED <<stored, bounds>> /\ walk'.step = "done" /\ walk'.left = <<>>
        /\ walk'.queue = <<>> /\ walk'.found = walk.found /\ walk'.edges = walk.edges
    BY <1>5, EndStep
  <2> QED
    BY <2>1, <1>2, <1>3, PathStays DEF PathsHold
<1>6. CASE Expand
  <2> DEFINE path == Head(walk.queue)
             adjacent == Adjacent(Last(path.nodes), Len(path.edges))
  <2>1. /\ UNCHANGED <<stored, bounds>> /\ walk.queue # <<>>
        /\ walk'.found = walk.found /\ walk'.edges = walk.edges
        /\ walk'.step \in {"walk", "done"}
        /\ walk'.queue = Tail(walk.queue) \/ walk'.queue = walk.queue
        /\ \/ walk'.left = <<>>
           \/ /\ Len(path.edges) < bounds.depth /\ walk'.current = path
              /\ walk'.left \in Seq(adjacent)
    BY <1>6, CountsAreNumbers, ExpandStep
  <2>2. Members(walk'.queue) \subseteq Members(walk.queue) /\ path \in Members(walk.queue)
    BY <2>1, <1>1, MembersHeadTail
  <2> HIDE DEF path
  <2>3. \A p \in Members(walk'.queue) \cup Members(walk'.found) : PathHolds(p)'
    BY <2>1, <2>2, <1>2, PathStays
  <2>4. PICK c : c = path
    OBVIOUS
  <2>5. PathHolds(c)'
    BY <2>1, <2>2, <2>4, <1>2, PathStays
  <2>6. /\ walk'.left # <<>> => PathHolds(walk.current)' /\ Len(walk'.current.edges) < bounds.depth
        /\ Members(walk'.left) \subseteq Adjacent(Last(walk'.current.nodes), Len(walk'.current.edges))
    <3>1. CASE walk'.left = <<>>
      BY <3>1, <1>3
    <3>2. CASE walk'.left # <<>>
      <4>1. walk'.current = c /\ Len(c.edges) < bounds.depth
            /\ walk'.left \in Seq(Adjacent(Last(c.nodes), Len(c.edges)))
        BY <3>2, <2>1, <2>4
      <4>2. PathHolds(walk.current)'
        BY <4>1, <2>5 DEF PathHolds
      <4>3. Members(walk'.left) \subseteq Adjacent(Last(c.nodes), Len(c.edges))
        BY <4>1, MembersOfSeq
      <4> QED
        BY <4>1, <4>2, <4>3
    <3> QED
      BY <3>1, <3>2
  <2>7. Members(walk'.left) \subseteq Adjacent(Last(walk.current.nodes), Len(walk.current.edges))'
    BY <2>1, <2>6 DEF Adjacent, Contained, Last
  <2> QED
    BY <2>1, <2>3, <2>6, <2>7, <1>2 DEF PathsHold
<1>7. CASE Follow
  <2>1. PICK c, e, path : /\ c = walk.current /\ e = Head(walk.left)
                          /\ path = Extended(walk.current, Head(walk.left))
    OBVIOUS
  <2>2. /\ UNCHANGED <<stored, bounds>> /\ walk.left # <<>> /\ walk'.step = "walk"
        /\ path \in WalkPaths
        /\ walk'.edges = walk.edges \cup {e} /\ walk'.current = c
        /\ walk'.left = Tail(walk.left) \/ walk'.left = <<>>
        /\ walk'.queue = walk.queue \/ walk'.queue = Append(walk.queue, path)
        /\ walk'.found = walk.found \/ walk'.found = Append(walk.found, path)
    BY <1>7, <2>1, FollowStep
  <2>3. Members(walk'.left) \subseteq Members(walk.left) /\ e \in Members(walk.left)
    BY <2>1, <2>2, <1>1, <1>3, MembersHeadTail
  <2>4. /\ e \in Adjacent(Last(c.nodes), Len(c.edges)) /\ c \in WalkPaths
        /\ PathHolds(walk.current) /\ Len(c.edges) < bounds.depth
    BY <2>1, <2>2, <2>3, <1>1, <1>2
  <2>5. PathHolds(c)
    BY <2>1, <2>4 DEF PathHolds
  <2>6. path = Extended(c, e)
    BY <2>1
  <2>7. PathHolds(path)'
    <3>1. PathHolds(Extended(c, e))'
      BY <2>2, <2>4, <2>5, PathGrows
    <3> QED
      BY <3>1, <2>6
  <2>8. Len(path.edges) >= 1
    BY <2>4, <2>6, AdjacentEdges, ExtendedFields
  <2>9. Members(walk'.queue) \subseteq Members(walk.queue) \cup {path}
    <3>1. Members(Append(walk.queue, path)) = Members(walk.queue) \cup {path}
      BY <2>2, <1>1, MembersAppend
    <3>2. CASE walk'.queue = walk.queue
      BY <3>2
    <3>3. CASE walk'.queue = Append(walk.queue, path)
      BY <3>1, <3>3
    <3> QED
      BY <2>2, <3>2, <3>3
  <2>10. Members(walk'.found) \subseteq Members(walk.found) \cup {path}
    <3>1. Members(Append(walk.found, path)) = Members(walk.found) \cup {path}
      BY <2>2, <1>1, MembersAppend
    <3>2. CASE walk'.found = walk.found
      BY <3>2
    <3>3. CASE walk'.found = Append(walk.found, path)
      BY <3>1, <3>3
    <3> QED
      BY <2>2, <3>2, <3>3
  <2>11. \A p : PathHolds(p) => PathHolds(p)'
    BY <2>2, PathStays
  <2>12. \A p \in Members(walk'.queue) \cup Members(walk'.found) : PathHolds(p)'
    BY <2>7, <2>9, <2>10, <2>11, <1>2
  <2>13. \A p \in Members(walk'.found) : Len(p.edges) >= 1
    BY <2>8, <2>10, <1>2
  <2>14. PathHolds(c)'
    BY <2>5, <2>11
  <2>15. PathHolds(walk.current)'
    BY <2>2, <2>14 DEF PathHolds
  <2>16. Members(walk'.left) \subseteq Adjacent(Last(walk.current.nodes), Len(walk.current.edges))'
    BY <2>1, <2>2, <2>3, <1>2 DEF Adjacent, Contained, Last
  <2> QED
    BY <2>2, <2>4, <2>12, <2>13, <2>15, <2>16 DEF PathsHold
<1> QED
  BY <1>4, <1>5, <1>6, <1>7 DEF WalkNext

-----------------------------------------------------------------------------
(* The nodes found *)

EndsHold ==
    /\ \A i, j \in 1 .. Len(walk.found) :
          Last(walk.found[i].nodes) = Last(walk.found[j].nodes) => i = j
    /\ Ends(walk.found) \cap bounds.seeds = {}
    /\ walk.step \in {"walk", "done"} => walk.seen = bounds.seeds \cup Ends(walk.found)

LEMMA EndsOfMembers ==
    ASSUME NEW found \in Seq(WalkPaths)
    PROVE  Ends(found) = {Last(p.nodes) : p \in Members(found)}
<1>1. DOMAIN found = 1 .. Len(found)
  BY LenProperties
<1> QED
  BY <1>1 DEF Ends, Members

LEMMA EndsKept ==
    ASSUME WalkTypeOK, PathsHold, EndsHold, WalkNext
    PROVE  EndsHold'
<1>1. walk.found \in Seq(WalkPaths) /\ walk.current \in WalkPaths /\ walk.left \in Seq(Edges)
  BY DEF WalkTypeOK, Walk
<1>2. /\ \A i, j \in 1 .. Len(walk.found) :
            Last(walk.found[i].nodes) = Last(walk.found[j].nodes) => i = j
      /\ Ends(walk.found) \cap bounds.seeds = {}
      /\ walk.step \in {"walk", "done"} => walk.seen = bounds.seeds \cup Ends(walk.found)
  BY DEF EndsHold
<1>3. ASSUME UNCHANGED bounds, walk'.found = walk.found,
             walk'.step \in {"walk", "done"} => walk'.seen = bounds.seeds \cup Ends(walk.found)
      PROVE  EndsHold'
  BY <1>2, <1>3 DEF EndsHold, Ends, Last
<1>4. CASE LoadSeeds
  <2>1. /\ UNCHANGED bounds /\ walk.step = "load" /\ walk'.found = walk.found
        /\ walk'.step = "refused" \/ walk'.seen = bounds.seeds
    BY <1>4, LoadStep
  <2>2. walk.found = <<>>
    BY <2>1 DEF PathsHold
  <2>3. Ends(walk.found) = {}
    BY <2>2 DEF Ends
  <2> QED
    BY <2>1, <2>3, <1>3
<1>5. CASE EndWalk
  BY <1>2, <1>3, <1>5, EndStep
<1>6. CASE Expand
  <2>1. /\ UNCHANGED bounds /\ walk.step = "walk" /\ walk'.seen = walk.seen
        /\ walk'.found = walk.found
    BY <1>6 DEF Expand, WalkTypeOK, Walk
  <2> QED
    BY <2>1, <1>2, <1>3
<1>7. CASE Follow
  <2>1. PICK e, path, node :
            /\ e = Head(walk.left) /\ path = Extended(walk.current, e)
            /\ node = Other(e, Last(walk.current.nodes))
    OBVIOUS
  <2>2. /\ UNCHANGED bounds /\ walk.step = "walk" /\ e \in Edges /\ path \in WalkPaths
        /\ \/ /\ walk'.seen = walk.seen /\ walk'.found = walk.found
           \/ /\ node \notin walk.seen /\ walk'.seen = walk.seen \cup {node}
              /\ walk'.found = Append(walk.found, path)
    BY <1>7, <2>1, FollowStep
  <2>3. CASE walk'.seen = walk.seen /\ walk'.found = walk.found
    BY <2>2, <2>3, <1>2, <1>3
  <2>4. CASE /\ node \notin walk.seen /\ walk'.seen = walk.seen \cup {node}
             /\ walk'.found = Append(walk.found, path)
    <3> DEFINE found == Append(walk.found, path)
               n == Len(walk.found)
    <3>1. Last(path.nodes) = node
      BY <2>1, <2>2, <1>1, ExtendedFields
    <3>2. /\ found \in Seq(WalkPaths) /\ Len(found) = n + 1 /\ n \in Nat
          /\ \A i \in 1 .. n : found[i] = walk.found[i]
          /\ found[n + 1] = path
      BY <2>2, <1>1, AppendProperties, LenProperties
    <3>3. Members(found) = Members(walk.found) \cup {path}
      BY <2>2, <1>1, MembersAppend
    <3> HIDE DEF found
    <3>4. Ends(found) = Ends(walk.found) \cup {node}
      BY <3>1, <3>2, <3>3, <1>1, EndsOfMembers
    <3>5. node \notin Ends(walk.found) /\ node \notin bounds.seeds
      BY <2>2, <2>4, <1>2
    <3>6. \A i \in 1 .. n : Last(walk.found[i].nodes) \in Ends(walk.found)
      <4>1. \A i \in 1 .. n : walk.found[i] \in Members(walk.found)
        BY DEF Members
      <4> QED
        BY <4>1, <1>1, EndsOfMembers
    <3>7. ASSUME NEW i \in 1 .. n + 1, NEW j \in 1 .. n + 1,
                 Last(found[i].nodes) = Last(found[j].nodes)
          PROVE  i = j
      <4>1. CASE i = n + 1 /\ j # n + 1
        <5>1. j \in 1 .. n
          BY <4>1, <3>2
        <5> QED
          BY <4>1, <5>1, <3>1, <3>2, <3>5, <3>6, <3>7
      <4>2. CASE i # n + 1 /\ j = n + 1
        <5>1. i \in 1 .. n
          BY <4>2, <3>2
        <5> QED
          BY <4>2, <5>1, <3>1, <3>2, <3>5, <3>6, <3>7
      <4>3. CASE i # n + 1 /\ j # n + 1
        <5>1. i \in 1 .. n /\ j \in 1 .. n
          BY <4>3, <3>2
        <5> QED
          BY <5>1, <3>2, <3>7, <1>2
      <4> QED
        BY <4>1, <4>2, <4>3
    <3> HIDE DEF n
    <3>8. walk'.found = found /\ walk'.seen = bounds.seeds \cup Ends(found)
          /\ Ends(found) \cap bounds.seeds = {}
      BY <2>2, <2>4, <3>4, <3>5, <1>2 DEF found
    <3>9. \A i, j \in 1 .. Len(walk'.found) :
             Last(walk'.found[i].nodes) = Last(walk'.found[j].nodes) => i = j
      BY <3>2, <3>7, <3>8
    <3>10. \A i, j \in 1 .. Len(walk'.found) :
             Last(walk.found[i].nodes)' = Last(walk.found[j].nodes)' => i = j
      BY <3>9 DEF Last
    <3>11. Ends(walk.found)' = Ends(found)
      BY <3>8 DEF Ends, Last
    <3> QED
      BY <3>8, <3>10, <3>11, <2>2 DEF EndsHold
  <2> QED
    BY <2>2, <2>3, <2>4
<1> QED
  BY <1>4, <1>5, <1>6, <1>7 DEF WalkNext

-----------------------------------------------------------------------------
(* What is near *)

LEMMA NearDef ==
    ASSUME WalkTypeOK
    PROVE  /\ Near \in [0 .. bounds.depth -> SUBSET Nodes]
           /\ Near[0] = bounds.seeds
           /\ \A k \in 1 .. bounds.depth :
                 Near[k] = Near[k - 1] \cup
                    UNION {{Other(e, n) : e \in Adjacent(n, IF n \in bounds.seeds THEN 0 ELSE k - 1)} :
                           n \in Near[k - 1]}
<1> DEFINE V == SUBSET Nodes
           D == bounds.depth
           Beside(k, W) ==
               W \cup UNION {{Other(e, n) : e \in Adjacent(n, IF n \in bounds.seeds THEN 0 ELSE k - 1)} :
                             n \in W}
           step == [k \in 1 .. D |-> [W \in V |-> Beside(k, W)]]
<1>1. bounds.seeds \in V /\ D \in Nat
  BY RequestTypes
<1>2. \A k \in 1 .. D : \A W \in V : Beside(k, W) \in V
  <2> TAKE k \in 1 .. D
  <2> TAKE W \in V
  <2>1. ASSUME NEW n \in W, NEW e \in Adjacent(n, IF n \in bounds.seeds THEN 0 ELSE k - 1)
        PROVE  Other(e, n) \in Nodes
    <3>1. e \in Edges
      BY AdjacentEdges
    <3> QED
      BY <3>1, OtherEnd
  <2> QED
    BY <2>1
<1> HIDE DEF Beside
<1>3. step \in [1 .. D -> [V -> V]]
  BY <1>2
<1>4. \E f \in [0 .. D -> V] :
         /\ f[0] = bounds.seeds
         /\ \A k \in 1 .. D : f[k] = step[k][f[k - 1]]
  <2> DEFINE base == bounds.seeds
  <2>1. base \in V
    BY <1>1
  <2> HIDE DEF V, D, step, base
  <2>2. \E f \in [0 .. D -> V] :
           /\ f[0] = base
           /\ \A k \in 1 .. D : f[k] = step[k][f[k - 1]]
    BY <1>1, <1>3, <2>1, Recursion
  <2> QED
    BY <2>2 DEF base
<1>5. PICK f \in [0 .. D -> V] : f[0] = bounds.seeds /\ \A k \in 1 .. D : f[k] = step[k][f[k - 1]]
  BY <1>4
<1>6. \A k \in 1 .. D : f[k] = Beside(k, f[k - 1])
  <2> TAKE k \in 1 .. D
  <2>1. k - 1 \in 0 .. D
    BY <1>1
  <2>2. f[k - 1] \in V
    BY <2>1
  <2> QED
    BY <1>5, <2>2
<1>7. f = [k \in 0 .. D |-> IF k = 0 THEN bounds.seeds ELSE Beside(k, f[k - 1])]
  <2>1. \A k \in 0 .. D : f[k] = IF k = 0 THEN bounds.seeds ELSE Beside(k, f[k - 1])
    <3> TAKE k \in 0 .. D
    <3>1. k # 0 => k \in 1 .. D
      BY <1>1
    <3> QED
      BY <3>1, <1>5, <1>6
  <2> QED
    BY <2>1
<1>8. Near = [k \in 0 .. D |-> IF k = 0 THEN bounds.seeds ELSE Beside(k, Near[k - 1])]
  BY <1>7 DEF Near, Beside
<1>9. Near[0] = bounds.seeds /\ \A k \in 1 .. D : Near[k] = Beside(k, Near[k - 1])
  <2>1. 0 \in 0 .. D /\ \A k \in 1 .. D : k \in 0 .. D /\ k # 0
    BY <1>1
  <2> QED
    BY <2>1, <1>8
<1>10. \A k \in 0 .. D : Near[k] \in V
  <2> DEFINE S == {k \in 0 .. D : Near[k] \in V}
  <2>1. 0 \in S
    BY <1>1, <1>9
  <2>2. \A k \in 0 .. D : k < D /\ k \in S => k + 1 \in S
    <3> TAKE k \in 0 .. D
    <3> HAVE k < D /\ k \in S
    <3>1. k + 1 \in 1 .. D /\ k + 1 \in 0 .. D /\ (k + 1) - 1 = k
      BY <1>1
    <3>2. Near[k + 1] = Beside(k + 1, Near[k])
      BY <3>1, <1>9
    <3> QED
      BY <3>1, <3>2, <1>2
  <2> HIDE DEF S
  <2>3. \A k \in 0 .. D : k \in S
    BY <1>1, <2>1, <2>2, InductionUpTo
  <2> QED
    BY <2>3 DEF S
<1>11. Near \in [0 .. D -> V]
  BY <1>8, <1>10
<1> QED
  BY <1>9, <1>11 DEF Beside

LEMMA NearGrows ==
    ASSUME WalkTypeOK
    PROVE  \A j \in 0 .. bounds.depth : \A k \in 0 .. j : Near[k] \subseteq Near[j]
<1> DEFINE D == bounds.depth
           S == {j \in 0 .. D : \A k \in 0 .. j : Near[k] \subseteq Near[j]}
<1>1. D \in Nat
  BY RequestTypes
<1>2. 0 \in S
  BY <1>1
<1>3. \A j \in 0 .. D : j < D /\ j \in S => j + 1 \in S
  <2> TAKE j \in 0 .. D
  <2> HAVE j < D /\ j \in S
  <2>1. j + 1 \in 1 .. D /\ j + 1 \in 0 .. D /\ (j + 1) - 1 = j
    BY <1>1
  <2>2. Near[j] \subseteq Near[j + 1]
    BY <2>1, NearDef
  <2>3. \A k \in 0 .. j + 1 : k = j + 1 \/ k \in 0 .. j
    BY <1>1
  <2> QED
    BY <2>1, <2>2, <2>3
<1> HIDE DEF S
<1>4. \A j \in 0 .. D : j \in S
  BY <1>1, <1>2, <1>3, InductionUpTo
<1> QED
  BY <1>4 DEF S

LEMMA NearStays ==
    ASSUME UNCHANGED <<stored, bounds>>
    PROVE  Near' = Near
BY DEF Near, Adjacent, Contained

-----------------------------------------------------------------------------
(* Nothing near is missed *)

SeedPaths == {SeedPath(n) : n \in bounds.seeds}
Known == SeedPaths \cup Members(walk.found)

\* No shorter path leads to the end of this one.
Shortest(p) ==
    /\ Last(p.nodes) \in Near[Len(p.edges)]
    /\ Len(p.edges) >= 1 => Last(p.nodes) \notin Near[Len(p.edges) - 1]

\* It waits to be expanded, is at its greatest length, or was expanded: every
\* edge of its end is still to be followed, or was.
Handled(p) ==
    \/ p \in Members(walk.queue) \/ Len(p.edges) >= bounds.depth
    \/ \A e \in Adjacent(Last(p.nodes), Len(p.edges)) :
          \/ p = walk.current /\ e \in Members(walk.left)
          \/ Other(e, Last(p.nodes)) \in walk.seen

\* The queue goes from shorter paths to longer ones, by one edge at most.
InLevels ==
    walk.step \in {"walk", "done"} =>
        /\ Members(walk.queue) \subseteq Known
        /\ walk.left # <<>> => walk.current \in Known
        /\ \A i, j \in 1 .. Len(walk.queue) : i <= j =>
              /\ Len(walk.queue[i].edges) <= Len(walk.queue[j].edges)
              /\ Len(walk.queue[j].edges) <= Len(walk.queue[i].edges) + 1
        /\ walk.left # <<>> => \A p \in Members(walk.queue) :
              /\ Len(walk.current.edges) <= Len(p.edges)
              /\ Len(p.edges) <= Len(walk.current.edges) + 1

NothingMissed ==
    walk.step \in {"walk", "done"} /\ ~walk.truncated /\ ~NoRoom =>
        /\ \A p \in Known : Shortest(p) /\ Handled(p)
        /\ walk.step = "done" => walk.queue = <<>> /\ walk.left = <<>>

LEMMA KnownPaths ==
    ASSUME WalkTypeOK, PathsHold
    PROVE  /\ \A p \in Known :
                 /\ p \in WalkPaths /\ Len(p.edges) \in 0 .. bounds.depth
                 /\ Last(p.nodes) \in bounds.seeds \cup Ends(walk.found)
           /\ \A n \in bounds.seeds : /\ SeedPath(n) \in WalkPaths /\ Len(SeedPath(n).edges) = 0
                                      /\ Last(SeedPath(n).nodes) = n
           /\ \A p \in Members(walk.found) :
                 Len(p.edges) \in 1 .. bounds.depth /\ Last(p.nodes) \in Ends(walk.found)
           /\ \A n \in bounds.seeds \cup Ends(walk.found) : \E p \in Known : Last(p.nodes) = n
<1>1. bounds.seeds \in SUBSET Nodes /\ bounds.depth \in Nat
  BY RequestTypes
<1>2. ASSUME NEW n \in bounds.seeds
      PROVE  /\ SeedPath(n) \in WalkPaths /\ Len(SeedPath(n).edges) = 0
             /\ Last(SeedPath(n).nodes) = n
  <2>1. <<n>> \in Seq(Nodes) /\ <<>> \in Seq(Edges) /\ Len(<<n>>) = 1
    BY <1>1
  <2> QED
    BY <2>1 DEF SeedPath, WalkPaths, Last
<1>3. walk.found \in Seq(WalkPaths)
  BY DEF WalkTypeOK, Walk
<1>4. Ends(walk.found) = {Last(p.nodes) : p \in Members(walk.found)}
      /\ Members(walk.found) \subseteq WalkPaths
  BY <1>3, EndsOfMembers, MembersOfSeq
<1>5. ASSUME NEW p \in Members(walk.found)
      PROVE  Len(p.edges) \in 1 .. bounds.depth /\ Last(p.nodes) \in Ends(walk.found)
  <2>1. p.edges \in Seq(Edges)
    BY <1>4 DEF WalkPaths
  <2>2. Len(p.edges) \in Nat /\ Len(p.edges) >= 1 /\ Len(p.edges) <= bounds.depth
    BY <2>1, LenProperties DEF PathsHold, PathHolds
  <2> QED
    BY <2>2, <1>1, <1>4
<1>6. ASSUME NEW p \in Known
      PROVE  /\ p \in WalkPaths /\ Len(p.edges) \in 0 .. bounds.depth
             /\ Last(p.nodes) \in bounds.seeds \cup Ends(walk.found)
  <2>1. CASE p \in Members(walk.found)
    BY <2>1, <1>1, <1>4, <1>5
  <2>2. CASE p \in SeedPaths
    <3>1. PICK n \in bounds.seeds : p = SeedPath(n)
      BY <2>2 DEF SeedPaths
    <3> QED
      BY <3>1, <1>1, <1>2
  <2> QED
    BY <2>1, <2>2 DEF Known
<1>7. ASSUME NEW n \in bounds.seeds \cup Ends(walk.found) PROVE \E p \in Known : Last(p.nodes) = n
  <2>1. CASE n \in bounds.seeds
    <3>1. SeedPath(n) \in Known
      BY <2>1 DEF Known, SeedPaths
    <3> QED
      BY <2>1, <3>1, <1>2
  <2>2. CASE n \in Ends(walk.found)
    BY <2>2, <1>4 DEF Known
  <2> QED
    BY <2>1, <2>2
<1> QED
  BY <1>2, <1>5, <1>6, <1>7

\* What a file contains counts for the first edge only.
LEMMA AdjacentLater ==
    ASSUME NEW n, NEW k \in Nat \ {0}, NEW d \in Nat \ {0}
    PROVE  Adjacent(n, k) = Adjacent(n, d)
BY DEF Adjacent, Contained

\* When nothing shorter is left to expand, everything as near is known.
LEMMA LevelSeen ==
    ASSUME WalkTypeOK, PathsHold, EndsHold, NothingMissed,
           walk.step \in {"walk", "done"}, ~walk.truncated, ~NoRoom,
           NEW k \in 0 .. bounds.depth,
           \A p \in Members(walk.queue) : Len(p.edges) >= k,
           walk.left # <<>> => Len(walk.current.edges) >= k
    PROVE  Near[k] \subseteq walk.seen
<1> DEFINE D == bounds.depth
           S == {j \in 0 .. k : Near[j] \subseteq walk.seen}
<1>1. D \in Nat /\ bounds.seeds \in SUBSET Nodes
  BY RequestTypes
<1>2. walk.seen = bounds.seeds \cup Ends(walk.found) /\ Ends(walk.found) \cap bounds.seeds = {}
  BY DEF EndsHold
<1>3. 0 \in S
  <2>1. Near[0] = bounds.seeds /\ 0 \in 0 .. k
    BY <1>1, NearDef
  <2> QED
    BY <2>1, <1>2
<1>4. ASSUME NEW j \in 0 .. k, j < k, j \in S PROVE j + 1 \in S
  <2>1. j + 1 \in 1 .. D /\ j + 1 \in 0 .. k /\ (j + 1) - 1 = j /\ j \in 0 .. D /\ j \in Nat
    BY <1>1, <1>4
  <2>2. Near[j + 1] = Near[j] \cup
            UNION {{Other(e, n) : e \in Adjacent(n, IF n \in bounds.seeds THEN 0 ELSE j)} :
                   n \in Near[j]}
    BY <2>1, NearDef
  <2>3. ASSUME NEW n \in Near[j], NEW e \in Adjacent(n, IF n \in bounds.seeds THEN 0 ELSE j)
        PROVE  Other(e, n) \in walk.seen
    <3>1. n \in bounds.seeds \cup Ends(walk.found)
      BY <1>2, <1>4
    <3>2. PICK p \in Known : Last(p.nodes) = n
      BY <3>1, KnownPaths
    <3> DEFINE d == Len(p.edges)
    <3>3. d \in 0 .. D
      BY <3>2, KnownPaths
    <3>4. Shortest(p) /\ Handled(p)
      BY <3>2 DEF NothingMissed
    <3>5. d <= j
      <4>1. CASE d = 0
        BY <4>1, <2>1
      <4>2. CASE d # 0
        <5>1. d - 1 \in 0 .. D /\ n \notin Near[d - 1]
          BY <4>2, <3>2, <3>3, <3>4, <1>1 DEF Shortest
        <5>2. j <= d - 1 => Near[j] \subseteq Near[d - 1]
          <6>1. j <= d - 1 => j \in 0 .. d - 1
            BY <5>1, <2>1
          <6> QED
            BY <5>1, <6>1, NearGrows
        <5>3. ~(j <= d - 1)
          BY <5>1, <5>2, <2>3
        <5> QED
          BY <5>3, <2>1, <3>3, <1>1
      <4> QED
        BY <4>1, <4>2
    <3>6. Adjacent(n, d) = Adjacent(n, IF n \in bounds.seeds THEN 0 ELSE j)
      <4>1. CASE p \in SeedPaths
        <5>1. PICK m \in bounds.seeds : p = SeedPath(m)
          BY <4>1 DEF SeedPaths
        <5>2. d = 0 /\ n = m
          BY <5>1, <3>2, KnownPaths
        <5> QED
          BY <5>1, <5>2
      <4>2. CASE p \in Members(walk.found)
        <5>1. d \in 1 .. D /\ n \in Ends(walk.found)
          BY <4>2, <3>2, KnownPaths
        <5>2. n \notin bounds.seeds
          BY <5>1, <1>2
        <5>3. d \in Nat \ {0} /\ j \in Nat \ {0}
          BY <5>1, <3>5, <2>1, <1>1
        <5> HIDE DEF d
        <5>4. Adjacent(n, d) = Adjacent(n, j)
          BY <5>3, AdjacentLater
        <5> QED
          BY <5>2, <5>4
      <4> QED
        BY <4>1, <4>2, <3>2 DEF Known
    <3>7. p \notin Members(walk.queue) /\ ~(d >= D)
      <4>1. ~(d >= k) /\ ~(d >= D)
        BY <3>3, <3>5, <2>1, <1>1, <1>4
      <4> QED
        BY <4>1
    <3>8. p = walk.current => walk.left = <<>>
      <4>1. ~(d >= k)
        BY <3>3, <3>5, <2>1, <1>1, <1>4
      <4> QED
        BY <4>1
    <3>9. Members(<<>>) = {}
      BY DEF Members
    <3>10. ~(p = walk.current /\ e \in Members(walk.left))
      BY <3>8, <3>9
    <3>11. e \in Adjacent(Last(p.nodes), Len(p.edges))
      BY <3>2, <3>6, <2>3
    <3> QED
      BY <3>2, <3>4, <3>7, <3>10, <3>11 DEF Handled
  <2> QED
    BY <2>1, <2>2, <2>3, <1>4
<1> HIDE DEF S
<1>5. k \in Nat
  BY <1>1
<1>6. \A j \in 0 .. k : j \in S
  BY <1>3, <1>4, <1>5, InductionUpTo
<1>7. k \in S
  BY <1>5, <1>6
<1> QED
  BY <1>7 DEF S

LEMMA KnownStays ==
    ASSUME UNCHANGED bounds, walk'.found = walk.found
    PROVE  Known' = Known
BY DEF Known, SeedPaths, Members

LEMMA QueueIndex ==
    ASSUME NEW queue \in Seq(WalkPaths)
    PROVE  /\ \A i \in 1 .. Len(queue) : queue[i] \in Members(queue)
           /\ \A p \in Members(queue) : Len(p.edges) \in Nat
           /\ \A i \in 1 .. Len(queue) : Len(queue[i].edges) \in Nat
<1>1. \A i \in 1 .. Len(queue) : queue[i] \in Members(queue) /\ queue[i] \in WalkPaths
  BY ElementOfSeq DEF Members
<1>2. \A p \in WalkPaths : Len(p.edges) \in Nat
  BY LenProperties DEF WalkPaths
<1>3. \A p \in Members(queue) : p \in WalkPaths
  BY MembersOfSeq
<1> QED
  BY <1>1, <1>2, <1>3

LEMMA LevelsKept ==
    ASSUME WalkTypeOK, CountsHold, PathsHold, InLevels, WalkNext
    PROVE  InLevels'
<1>1. walk.queue \in Seq(WalkPaths) /\ walk.found \in Seq(WalkPaths)
      /\ walk.left \in Seq(Edges) /\ walk.current \in WalkPaths /\ Len(walk.queue) \in Nat
  BY LenProperties DEF WalkTypeOK, Walk
<1>2. /\ \A i \in 1 .. Len(walk.queue) : walk.queue[i] \in Members(walk.queue)
      /\ \A p \in Members(walk.queue) : Len(p.edges) \in Nat
      /\ \A i \in 1 .. Len(walk.queue) : Len(walk.queue[i].edges) \in Nat
  BY <1>1, QueueIndex
<1>3. CASE LoadSeeds
  <2>1. /\ UNCHANGED <<stored, bounds>> /\ walk.step = "load" /\ walk' \in Walk
        /\ walk'.left = walk.left
        /\ \/ walk'.step = "refused"
           \/ Members(walk'.queue) = {SeedPath(n) : n \in bounds.seeds}
    BY <1>3, LoadStep
  <2>2. CASE walk'.step = "refused"
    BY <2>2 DEF InLevels
  <2>3. CASE Members(walk'.queue) = {SeedPath(n) : n \in bounds.seeds}
    <3>1. walk'.left = <<>>
      BY <2>1 DEF PathsHold
    <3>2. Members(walk'.queue) \subseteq Known'
      BY <2>1, <2>3 DEF Known, SeedPaths
    <3>3. \A p \in Members(walk'.queue) : Len(p.edges) = 0
      BY <2>3, KnownPaths
    <3>4. \A i \in 1 .. Len(walk'.queue) : Len(walk'.queue[i].edges) = 0
      BY <3>3 DEF Members
    <3>5. \A i, j \in 1 .. Len(walk'.queue) :
              /\ Len(walk'.queue[i].edges) <= Len(walk'.queue[j].edges)
              /\ Len(walk'.queue[j].edges) <= Len(walk'.queue[i].edges) + 1
      BY <3>4
    <3> QED
      BY <3>1, <3>2, <3>5 DEF InLevels, Members
  <2> QED
    BY <2>1, <2>2, <2>3
<1>4. CASE EndWalk
  <2>1. /\ UNCHANGED bounds /\ walk'.left = <<>> /\ walk'.queue = <<>>
    BY <1>4, EndStep
  <2>2. Members(<<>>) = {} /\ 1 .. Len(<<>>) = {}
    BY DEF Members
  <2> QED
    BY <2>1, <2>2 DEF InLevels
<1>5. CASE Expand
  <2>1. PICK path, queue : path = Head(walk.queue) /\ queue = Tail(walk.queue)
    OBVIOUS
  <2>2. /\ UNCHANGED bounds /\ walk.step = "walk" /\ walk.queue # <<>>
        /\ walk'.found = walk.found
        /\ \/ walk'.queue = queue /\ walk'.left = <<>>
           \/ walk'.queue = walk.queue /\ walk'.left = <<>>
           \/ walk'.queue = queue /\ walk'.current = path
    BY <1>5, <2>1, CountsAreNumbers, ExpandStep
  <2>3. /\ Members(walk.queue) \subseteq Known
        /\ \A i, j \in 1 .. Len(walk.queue) : i <= j =>
              /\ Len(walk.queue[i].edges) <= Len(walk.queue[j].edges)
              /\ Len(walk.queue[j].edges) <= Len(walk.queue[i].edges) + 1
    BY <2>2 DEF InLevels
  <2>4. /\ Members(walk.queue) = {path} \cup Members(queue) /\ queue \in Seq(WalkPaths)
    BY <2>1, <2>2, <1>1, MembersHeadTail
  <2>5. /\ Len(queue) = Len(walk.queue) - 1 /\ path = walk.queue[1]
        /\ \A i \in 1 .. Len(queue) : queue[i] = walk.queue[i + 1]
    BY <2>1, <2>2, <1>1, HeadTailProperties
  <2>6. \A i, j \in 1 .. Len(queue) : i <= j =>
              /\ Len(queue[i].edges) <= Len(queue[j].edges)
              /\ Len(queue[j].edges) <= Len(queue[i].edges) + 1
    <3> TAKE i, j \in 1 .. Len(queue)
    <3> HAVE i <= j
    <3>1. i + 1 \in 1 .. Len(walk.queue) /\ j + 1 \in 1 .. Len(walk.queue) /\ i + 1 <= j + 1
      BY <2>5, <1>1
    <3> QED
      BY <3>1, <2>3, <2>5
  <2>7. \A p \in Members(queue) : Len(path.edges) <= Len(p.edges)
                                  /\ Len(p.edges) <= Len(path.edges) + 1
    <3>1. ASSUME NEW i \in 1 .. Len(queue)
          PROVE  Len(path.edges) <= Len(queue[i].edges)
                 /\ Len(queue[i].edges) <= Len(path.edges) + 1
      <4>1. i + 1 \in 1 .. Len(walk.queue) /\ 1 \in 1 .. Len(walk.queue) /\ 1 <= i + 1
        BY <2>5, <1>1
      <4> QED
        BY <4>1, <2>3, <2>5
    <3> QED
      BY <3>1 DEF Members
  <2>8. Known' = Known
    BY <2>2, KnownStays
  <2>9. Members(walk'.queue) \subseteq Known' /\ (walk'.left # <<>> => walk'.current \in Known')
    BY <2>2, <2>3, <2>4, <2>8
  <2>10. \A i, j \in 1 .. Len(walk'.queue) : i <= j =>
              /\ Len(walk'.queue[i].edges) <= Len(walk'.queue[j].edges)
              /\ Len(walk'.queue[j].edges) <= Len(walk'.queue[i].edges) + 1
    BY <2>2, <2>3, <2>6
  <2>11. walk'.left # <<>> => \A p \in Members(walk'.queue) :
              /\ Len(walk'.current.edges) <= Len(p.edges)
              /\ Len(p.edges) <= Len(walk'.current.edges) + 1
    BY <2>2, <2>7
  <2>12. Members(walk'.queue) = Members(walk.queue)'
    BY DEF Members
  <2> QED
    BY <2>9, <2>10, <2>11, <2>12 DEF InLevels
<1>6. CASE Follow
  <2>1. PICK c, e, path : /\ c = walk.current /\ e = Head(walk.left)
                          /\ path = Extended(walk.current, Head(walk.left))
    OBVIOUS
  <2>2. /\ UNCHANGED <<stored, bounds>> /\ walk.left # <<>> /\ walk.step = "walk"
        /\ path \in WalkPaths /\ e \in Edges /\ walk'.current = c
        /\ \/ walk'.queue = walk.queue /\ walk'.found = walk.found
           \/ walk'.queue = walk.queue /\ walk'.found = Append(walk.found, path)
           \/ walk'.queue = Append(walk.queue, path) /\ walk'.found = Append(walk.found, path)
    BY <1>6, <2>1, FollowStep
  <2>3. /\ Members(walk.queue) \subseteq Known /\ c \in Known
        /\ \A i, j \in 1 .. Len(walk.queue) : i <= j =>
              /\ Len(walk.queue[i].edges) <= Len(walk.queue[j].edges)
              /\ Len(walk.queue[j].edges) <= Len(walk.queue[i].edges) + 1
        /\ \A p \in Members(walk.queue) :
              /\ Len(c.edges) <= Len(p.edges) /\ Len(p.edges) <= Len(c.edges) + 1
    BY <2>1, <2>2 DEF InLevels
  <2>4. Len(path.edges) = Len(c.edges) + 1 /\ Len(c.edges) \in Nat
    <3>1. path = Extended(c, e) /\ c \in WalkPaths
      BY <2>1, <1>1
    <3> QED
      BY <3>1, <2>2, ExtendedFields
  <2>5. Members(Append(walk.found, path)) = Members(walk.found) \cup {path}
        /\ Members(Append(walk.queue, path)) = Members(walk.queue) \cup {path}
    BY <2>2, <1>1, MembersAppend
  <2>6. Known' = Known \/ Known' = Known \cup {path}
    <3>1. Known' = SeedPaths \cup Members(walk'.found)
      BY <2>2 DEF Known, SeedPaths, Members
    <3>2. Members(walk'.found) = Members(walk.found)
          \/ Members(walk'.found) = Members(walk.found) \cup {path}
      <4>1. CASE walk'.found = walk.found
        BY <4>1
      <4>2. CASE walk'.found = Append(walk.found, path)
        BY <4>2, <2>5
      <4> QED
        BY <4>1, <4>2, <2>2
    <3> QED
      BY <3>1, <3>2 DEF Known
  <2>7. CASE walk'.queue = walk.queue
    <3>1. Members(walk'.queue) \subseteq Known' /\ walk'.current \in Known'
      BY <2>2, <2>3, <2>6, <2>7
    <3> QED
      BY <3>1, <2>2, <2>3, <2>7 DEF InLevels, Members
  <2>8. CASE walk'.queue = Append(walk.queue, path) /\ walk'.found = Append(walk.found, path)
    <3>1. path \in Known'
      <4>1. path \in Members(walk'.found)
        BY <2>5, <2>8
      <4> QED
        BY <4>1 DEF Known, Members
    <3>2. Members(walk'.queue) = Members(walk.queue) \cup {path}
      BY <2>5, <2>8
    <3>3. Members(walk'.queue) \subseteq Known' /\ walk'.current \in Known'
      BY <3>1, <3>2, <2>2, <2>3, <2>6
    <3>4. \A p \in Members(walk'.queue) :
              /\ Len(c.edges) <= Len(p.edges) /\ Len(p.edges) <= Len(c.edges) + 1
      BY <3>2, <2>3, <2>4
    <3> DEFINE queue == Append(walk.queue, path)
               n == Len(walk.queue)
    <3>5. /\ Len(queue) = n + 1 /\ queue[n + 1] = path /\ n \in Nat
          /\ \A i \in 1 .. n : queue[i] = walk.queue[i]
      BY <2>2, <1>1, AppendProperties
    <3> HIDE DEF queue
    <3>6. \A i, j \in 1 .. n + 1 : i <= j =>
              /\ Len(queue[i].edges) <= Len(queue[j].edges)
              /\ Len(queue[j].edges) <= Len(queue[i].edges) + 1
      <4> TAKE i, j \in 1 .. n + 1
      <4> HAVE i <= j
      <4>1. CASE j = n + 1 /\ i = n + 1
        BY <4>1, <3>5, <2>4
      <4>2. CASE j = n + 1 /\ i # n + 1
        <5>1. i \in 1 .. n
          BY <4>2, <3>5
        <5>2. Len(c.edges) <= Len(queue[i].edges) /\ Len(queue[i].edges) <= Len(c.edges) + 1
              /\ Len(queue[i].edges) \in Nat
          BY <5>1, <3>5, <2>3, <1>2
        <5>3. Len(queue[j].edges) = Len(c.edges) + 1
          BY <4>2, <3>5, <2>4
        <5> QED
          BY <5>2, <5>3, <2>4
      <4>3. CASE j # n + 1
        <5>1. i \in 1 .. n /\ j \in 1 .. n
          BY <4>3, <3>5
        <5> QED
          BY <5>1, <3>5, <2>3
      <4> QED
        BY <4>1, <4>2, <4>3
    <3> HIDE DEF n
    <3>7. walk'.queue = queue /\ Len(queue) = n + 1
      BY <2>8, <3>5 DEF queue
    <3>8. \A i, j \in 1 .. Len(walk'.queue) : i <= j =>
              /\ Len(walk'.queue[i].edges) <= Len(walk'.queue[j].edges)
              /\ Len(walk'.queue[j].edges) <= Len(walk'.queue[i].edges) + 1
      BY <3>6, <3>7
    <3> QED
      BY <3>3, <3>4, <3>8, <2>2 DEF InLevels, Members
  <2> QED
    BY <2>2, <2>7, <2>8
<1> QED
  BY <1>3, <1>4, <1>5, <1>6 DEF WalkNext

LEMMA NothingMissedKept ==
    ASSUME WalkTypeOK, CountsHold, PathsHold, EndsHold, InLevels, NothingMissed, WalkNext
    PROVE  NothingMissed'
<1>1. walk.queue \in Seq(WalkPaths) /\ walk.found \in Seq(WalkPaths)
      /\ walk.left \in Seq(Edges) /\ walk.current \in WalkPaths
      /\ Len(walk.found) \in Nat
  BY LenProperties DEF WalkTypeOK, Walk
<1>2. Members(<<>>) = {}
  BY DEF Members
<1>3. CASE LoadSeeds
  <2>1. /\ UNCHANGED <<stored, bounds>> /\ walk.step = "load" /\ walk'.found = walk.found
        /\ \/ walk'.step = "refused"
           \/ walk'.step = "walk" /\ Members(walk'.queue) = {SeedPath(n) : n \in bounds.seeds}
    BY <1>3, LoadStep
  <2>2. CASE walk'.step = "refused"
    BY <2>2 DEF NothingMissed
  <2>3. CASE walk'.step = "walk" /\ Members(walk'.queue) = {SeedPath(n) : n \in bounds.seeds}
    <3>1. walk'.found = <<>>
      BY <2>1 DEF PathsHold
    <3>2. Known' = {SeedPath(n) : n \in bounds.seeds}
      BY <2>1, <3>1, <1>2 DEF Known, SeedPaths, Members
    <3>3. Near' = Near /\ Near[0] = bounds.seeds
      BY <2>1, NearStays, NearDef
    <3>4. ASSUME NEW p \in Known' PROVE Shortest(p)' /\ Handled(p)'
      <4>1. PICK n \in bounds.seeds : p = SeedPath(n)
        BY <3>2
      <4>2. Len(p.edges) = 0 /\ Last(p.nodes) = n
        BY <4>1, KnownPaths
      <4>3. p \in Members(walk'.queue)
        BY <3>2, <2>3
      <4>4. Shortest(p)'
        BY <3>3, <4>2 DEF Shortest
      <4>5. Handled(p)'
        BY <4>3 DEF Handled, Members
      <4> QED
        BY <4>4, <4>5
    <3> QED
      BY <3>4, <2>3 DEF NothingMissed
  <2> QED
    BY <2>1, <2>2, <2>3
<1>4. CASE EndWalk
  <2>1. /\ UNCHANGED <<stored, bounds>> /\ walk.step = "walk" /\ walk'.found = walk.found
        /\ walk.queue = <<>> /\ walk.left = <<>> /\ walk'.queue = <<>> /\ walk'.left = <<>>
        /\ walk'.truncated = walk.truncated /\ walk'.seen = walk.seen
        /\ walk'.current = walk.current
    BY <1>4, EndStep
  <2>2. Known' = Known /\ Near' = Near
    BY <2>1, KnownStays, NearStays
  <2>3. ASSUME ~walk'.truncated, ~NoRoom', NEW p \in Known' PROVE Shortest(p)' /\ Handled(p)'
    <3>1. ~walk.truncated /\ ~NoRoom
      BY <2>1, <2>3 DEF NoRoom
    <3>2. Shortest(p) /\ Handled(p)
      BY <3>1, <2>1, <2>2, <2>3 DEF NothingMissed
    <3>3. Shortest(p)'
      BY <3>2, <2>2 DEF Shortest
    <3>4. Handled(p)'
      BY <3>2, <2>1, AdjacentStays DEF Handled, Members
    <3> QED
      BY <3>3, <3>4
  <2> QED
    BY <2>1, <2>3 DEF NothingMissed
<1>5. CASE Expand
  <2>1. PICK path, queue : path = Head(walk.queue) /\ queue = Tail(walk.queue)
    OBVIOUS
  <2>2. /\ UNCHANGED <<stored, bounds>> /\ walk.step = "walk" /\ walk.queue # <<>>
        /\ walk.left = <<>> /\ walk'.found = walk.found /\ walk'.seen = walk.seen
        /\ \/ /\ Len(path.edges) >= bounds.depth /\ walk'.queue = queue
              /\ walk'.left = <<>> /\ walk'.truncated = walk.truncated /\ walk'.step = "walk"
           \/ walk'.truncated
           \/ /\ walk'.queue = queue /\ walk'.current = path /\ walk'.step = "walk"
              /\ walk.truncated => walk'.truncated
              /\ ~walk'.truncated => \A e \in Adjacent(Last(path.nodes), Len(path.edges)) :
                                         e \in Members(walk'.left)
    BY <1>5, <2>1, CountsAreNumbers, ExpandStep
  <2>3. Known' = Known /\ Near' = Near
    BY <2>2, KnownStays, NearStays
  <2>4. Members(walk.queue) = {path} \cup Members(queue)
    BY <2>1, <2>2, <1>1, MembersHeadTail
  <2>5. ASSUME ~walk'.truncated, ~NoRoom', NEW p \in Known' PROVE Shortest(p)' /\ Handled(p)'
    <3>1. ~walk.truncated /\ ~NoRoom
      BY <2>2, <2>5 DEF NoRoom
    <3>2. Shortest(p) /\ Handled(p)
      BY <3>1, <2>2, <2>3, <2>5 DEF NothingMissed
    <3>3. Shortest(p)'
      BY <3>2, <2>3 DEF Shortest
    <3>4. CASE p \in Members(queue)
      <4>1. p \in Members(walk'.queue)
        BY <3>4, <2>2, <2>5
      <4> QED
        BY <3>3, <4>1 DEF Handled, Members
    <3>5. CASE p = path /\ Len(path.edges) >= bounds.depth
      BY <3>3, <3>5, <2>2 DEF Handled
    <3>6. CASE p = path /\ ~(Len(path.edges) >= bounds.depth)
      <4>1. /\ walk'.current = path
            /\ \A e \in Adjacent(Last(path.nodes), Len(path.edges)) : e \in Members(walk'.left)
        BY <3>6, <2>2, <2>5
      <4> QED
        BY <3>3, <3>6, <4>1, <2>2, AdjacentStays DEF Handled, Members
    <3>7. CASE p \notin Members(walk.queue)
      <4>1. \/ Len(p.edges) >= bounds.depth
            \/ \A e \in Adjacent(Last(p.nodes), Len(p.edges)) : Other(e, Last(p.nodes)) \in walk.seen
        BY <3>2, <3>7, <2>2, <1>2 DEF Handled
      <4> QED
        BY <3>3, <4>1, <2>2, AdjacentStays DEF Handled
    <3> QED
      BY <3>4, <3>5, <3>6, <3>7, <2>4
  <2>6. walk'.truncated \/ walk'.step = "walk"
    BY <2>2
  <2> QED
    BY <2>5, <2>6 DEF NothingMissed
<1>6. CASE Follow
  <2>1. PICK c, e, path, node :
            /\ c = walk.current /\ e = Head(walk.left)
            /\ path = Extended(walk.current, Head(walk.left))
            /\ node = Other(Head(walk.left), Last(walk.current.nodes))
    OBVIOUS
  <2>2. /\ UNCHANGED <<stored, bounds>> /\ walk.left # <<>> /\ walk.step = "walk"
        /\ path \in WalkPaths /\ e \in Edges /\ walk'.current = c /\ walk'.step = "walk"
        /\ \/ /\ node \in walk.seen /\ walk'.seen = walk.seen
              /\ walk'.found = walk.found /\ walk'.queue = walk.queue
              /\ walk'.left = Tail(walk.left) /\ walk'.truncated = walk.truncated
           \/ /\ node \notin walk.seen /\ walk'.seen = walk.seen \cup {node}
              /\ walk'.found = Append(walk.found, path)
              /\ walk'.left = Tail(walk.left) /\ walk'.truncated = walk.truncated
              /\ walk'.queue = Append(walk.queue, path)
           \/ Len(walk'.found) = bounds.nodes
    BY <1>6, <2>1, FollowStep
  <2>3. path = Extended(c, e) /\ c \in WalkPaths /\ node = Other(e, Last(c.nodes))
    BY <2>1, <1>1
  <2>4. Len(path.edges) = Len(c.edges) + 1 /\ Len(c.edges) \in Nat /\ Last(path.nodes) = node
    BY <2>2, <2>3, ExtendedFields
  <2>5. Members(walk.left) = {e} \cup Members(Tail(walk.left))
    BY <2>1, <2>2, <1>1, MembersHeadTail
  <2>6. Near' = Near
    BY <2>2, NearStays
  <2>7. Members(Append(walk.found, path)) = Members(walk.found) \cup {path}
        /\ Members(Append(walk.queue, path)) = Members(walk.queue) \cup {path}
    BY <2>2, <1>1, MembersAppend
  <2>8. ~NoRoom
    <3>1. Len(walk.found) < bounds.nodes /\ bounds.nodes \in Nat
      BY <2>2, RequestTypes DEF CountsHold
    <3> QED
      BY <3>1, <1>1 DEF NoRoom
  <2>9. ASSUME ~walk'.truncated, ~NoRoom', NEW p \in Known' PROVE Shortest(p)' /\ Handled(p)'
    <3>1. ~(Len(walk'.found) = bounds.nodes)
      BY <2>2, <2>9 DEF NoRoom
    <3>2. /\ node \in walk'.seen /\ walk.seen \subseteq walk'.seen
          /\ walk'.left = Tail(walk.left) /\ walk'.truncated = walk.truncated
          /\ Members(walk.queue) \subseteq Members(walk'.queue)
          /\ \/ node \in walk.seen /\ walk'.found = walk.found
             \/ /\ node \notin walk.seen /\ walk'.found = Append(walk.found, path)
                /\ path \in Members(walk'.queue)
      <4>1. CASE node \in walk.seen
        BY <4>1, <3>1, <2>2
      <4>2. CASE node \notin walk.seen
        <5>1. walk'.queue = Append(walk.queue, path)
          BY <4>2, <3>1, <2>2
        <5>2. Members(walk'.queue) = Members(walk.queue) \cup {path}
          BY <5>1, <2>7
        <5> QED
          BY <4>2, <5>2, <3>1, <2>2
      <4> QED
        BY <4>1, <4>2
    <3>3. ~walk.truncated
      BY <3>2, <2>9
    <3>4. \A q \in Known : Shortest(q) /\ Handled(q)
      BY <3>3, <2>2, <2>8 DEF NothingMissed
    <3>5. CASE p \in Known
      <4>1. Shortest(p) /\ Handled(p)
        BY <3>4, <3>5
      <4>2. Shortest(p)'
        BY <4>1, <2>6 DEF Shortest
      <4>3. CASE p \in Members(walk.queue)
        <5>1. p \in Members(walk'.queue)
          BY <4>3, <3>2
        <5> QED
          BY <5>1, <4>2 DEF Handled, Members
      <4>4. CASE Len(p.edges) >= bounds.depth
        BY <4>2, <4>4, <2>2 DEF Handled
      <4>5. CASE \A f \in Adjacent(Last(p.nodes), Len(p.edges)) :
                    \/ p = walk.current /\ f \in Members(walk.left)
                    \/ Other(f, Last(p.nodes)) \in walk.seen
        <5>1. ASSUME NEW f \in Adjacent(Last(p.nodes), Len(p.edges))
              PROVE  \/ p = walk'.current /\ f \in Members(walk'.left)
                     \/ Other(f, Last(p.nodes)) \in walk'.seen
          <6>1. CASE Other(f, Last(p.nodes)) \in walk.seen
            BY <6>1, <3>2
          <6>2. CASE p = walk.current /\ f \in Members(walk.left)
            <7>1. CASE f = e
              <8>1. Other(f, Last(p.nodes)) = node
                BY <6>2, <7>1, <2>1, <2>3
              <8> QED
                BY <8>1, <3>2
            <7>2. CASE f \in Members(Tail(walk.left))
              BY <6>2, <7>2, <3>2, <2>1, <2>2
            <7> QED
              BY <6>2, <7>1, <7>2, <2>5
          <6> QED
            BY <6>1, <6>2, <4>5
        <5> QED
          BY <5>1, <4>2, <2>2, AdjacentStays DEF Handled, Members
      <4> QED
        BY <4>1, <4>3, <4>4, <4>5 DEF Handled
    <3>6. CASE p \notin Known
      <4>1. p = path /\ node \notin walk.seen /\ path \in Members(walk'.queue)
        <5>1. Known' = SeedPaths \cup Members(walk'.found)
          BY <2>2 DEF Known, SeedPaths, Members
        <5>2. p \in Members(walk'.found) \ Members(walk.found)
          BY <5>1, <3>6, <2>9 DEF Known
        <5>3. CASE walk'.found = walk.found
          BY <5>2, <5>3
        <5>4. CASE walk'.found = Append(walk.found, path) /\ node \notin walk.seen
                   /\ path \in Members(walk'.queue)
          <6>1. Members(walk'.found) = Members(walk.found) \cup {path}
            BY <5>4, <2>7
          <6> QED
            BY <5>2, <5>4, <6>1
        <5> QED
          BY <5>3, <5>4, <3>2
      <4>2. c \in Known
        BY <2>1, <2>2 DEF InLevels
      <4> DEFINE k == Len(c.edges)
      <4>3. k \in 0 .. bounds.depth /\ k < bounds.depth /\ bounds.depth \in Nat
        <5>1. k \in 0 .. bounds.depth
          BY <4>2, KnownPaths
        <5>2. k < bounds.depth
          BY <2>1, <2>2 DEF PathsHold
        <5> QED
          BY <5>1, <5>2, RequestTypes
      <4>4. e \in Adjacent(Last(c.nodes), k)
        BY <2>1, <2>5 DEF PathsHold
      <4>5. Last(c.nodes) \in Near[k]
        BY <4>2, <3>4 DEF Shortest
      <4>6. Last(c.nodes) \in bounds.seeds => k = 0
        <5>1. CASE c \in SeedPaths
          <6>1. PICK m \in bounds.seeds : c = SeedPath(m)
            BY <5>1 DEF SeedPaths
          <6> QED
            BY <6>1, KnownPaths
        <5>2. CASE c \in Members(walk.found)
          <6>1. Last(c.nodes) \in Ends(walk.found)
            BY <5>2, KnownPaths
          <6> QED
            BY <6>1 DEF EndsHold
        <5> QED
          BY <5>1, <5>2, <4>2 DEF Known
      <4>7. node \in Near[k + 1]
        <5>1. k + 1 \in 1 .. bounds.depth /\ (k + 1) - 1 = k
          BY <4>3
        <5>2. Near[k + 1] = Near[k] \cup
                 UNION {{Other(f, n) : f \in Adjacent(n, IF n \in bounds.seeds THEN 0 ELSE k)} :
                        n \in Near[k]}
          BY <5>1, NearDef
        <5>3. e \in Adjacent(Last(c.nodes), IF Last(c.nodes) \in bounds.seeds THEN 0 ELSE k)
          BY <4>4, <4>6
        <5> HIDE DEF k
        <5> QED
          BY <5>2, <5>3, <4>5, <2>3
      <4>8. node \notin Near[k]
        <5>1. \A q \in Members(walk.queue) : Len(q.edges) >= k
          <6>1. \A q \in Members(walk.queue) : k <= Len(q.edges) /\ Len(q.edges) \in Nat
            BY <2>1, <2>2, <1>1, QueueIndex DEF InLevels
          <6> QED
            BY <6>1, <4>3
        <5>2. Len(walk.current.edges) >= k
          BY <2>1, <4>3
        <5> HIDE DEF k
        <5>3. Near[k] \subseteq walk.seen
          BY <5>1, <5>2, <4>3, <3>3, <2>2, <2>8, LevelSeen
        <5> QED
          BY <5>3, <4>1
      <4>9. Shortest(path)'
        <5>1. Len(path.edges) = k + 1 /\ (k + 1) - 1 = k
          BY <2>4
        <5> HIDE DEF k
        <5> QED
          BY <5>1, <4>7, <4>8, <2>4, <2>6 DEF Shortest
      <4>10. Handled(path)'
        BY <4>1 DEF Handled, Members
      <4> QED
        BY <4>1, <4>9, <4>10
    <3> QED
      BY <3>5, <3>6
  <2> QED
    BY <2>2, <2>9 DEF NothingMissed
<1> QED
  BY <1>3, <1>4, <1>5, <1>6 DEF WalkNext

-----------------------------------------------------------------------------
(* The answer *)

\* The last node an impact analysis has room for is left in its queue.
FullIsTold == bounds.kind = "impact" /\ NoRoom => walk.truncated

LEMMA FullIsToldKept ==
    ASSUME WalkTypeOK, CountsHold, FullIsTold, WalkNext
    PROVE  FullIsTold'
<1>1. /\ bounds' = bounds
      /\ walk.found \in Seq(WalkPaths) /\ bounds.nodes \in Nat
      /\ walk.queue \in Seq(WalkPaths) /\ walk \in Walk
  BY CountsAreNumbers, RequestTypes DEF WalkTypeOK, Walk, WalkNext, LoadSeeds, Expand, Follow, EndWalk
<1>2. CASE LoadSeeds
  <2>1. walk'.found = walk.found /\ walk'.truncated = walk.truncated
    BY <1>1, <1>2 DEF LoadSeeds, Walk
  <2> QED
    BY <1>1, <2>1 DEF FullIsTold, NoRoom
<1>3. CASE Expand
  <2>1. walk'.found = walk.found /\ (walk.truncated => walk'.truncated)
    BY <1>1, <1>3 DEF Expand, Walk
  <2> QED
    BY <1>1, <2>1 DEF FullIsTold, NoRoom
<1>4. CASE EndWalk
  <2>1. walk'.found = walk.found /\ walk'.truncated = walk.truncated
    BY <1>1, <1>4 DEF EndWalk, Walk
  <2> QED
    BY <1>1, <2>1 DEF FullIsTold, NoRoom
<1>5. CASE Follow
  <2> DEFINE edge == Head(walk.left)
             node == Other(edge, Last(walk.current.nodes))
             path == [nodes |-> Append(walk.current.nodes, node),
                      edges |-> Append(walk.current.edges, edge)]
             met == [walk EXCEPT !.left = Tail(@), !.used = @ + 1, !.edges = @ \cup {edge}]
             new == [met EXCEPT !.seen = @ \cup {node}, !.found = Append(@, path)]
             last == Len(new.found) = bounds.nodes
             queue == IF last /\ bounds.kind = "traverse" THEN walk.queue
                      ELSE Pushed(walk.queue, path)
  <2>1. walk' = IF node \in walk.seen THEN met
                ELSE IF ~last THEN [new EXCEPT !.queue = queue]
                ELSE [new EXCEPT !.queue = queue, !.left = <<>>,
                                 !.truncated = new.left # <<>> \/ queue # <<>>]
    BY <1>5 DEF Follow
  <2>2. /\ met.found = walk.found /\ met.truncated = walk.truncated
        /\ new.found = Append(walk.found, path)
    BY <1>1 DEF Walk
  <2>3. bounds.kind = "impact" => queue = Append(walk.queue, path)
    BY DEF Pushed
  <2>4. CASE node \in walk.seen
    BY <1>1, <2>1, <2>2, <2>4 DEF FullIsTold, NoRoom
  <2>5. CASE node \notin walk.seen /\ ~last
    <3>1. walk'.found = new.found
      BY <1>1, <2>1, <2>5 DEF Walk
    <3> QED
      BY <1>1, <2>5, <3>1 DEF FullIsTold, NoRoom
  <2>6. CASE node \notin walk.seen /\ last
    <3>1. walk'.truncated = (new.left # <<>> \/ queue # <<>>)
      BY <1>1, <2>1, <2>6 DEF Walk
    <3>2. Append(walk.queue, path) # <<>>
      BY <1>1
    <3> HIDE DEF queue, new
    <3> QED
      BY <1>1, <2>3, <3>1, <3>2 DEF FullIsTold
  <2> QED
    BY <2>4, <2>5, <2>6
<1> QED
  BY <1>2, <1>3, <1>4, <1>5 DEF WalkNext

WalkInv ==
    /\ WalkTypeOK /\ CountsHold /\ PathsHold /\ EndsHold /\ InLevels /\ NothingMissed
    /\ FullIsTold

LEMMA WalkBegins ==
    ASSUME WalkInit
    PROVE  WalkInv
<1>1. /\ stored \subseteq Edges /\ bounds \in WalkRequests
      /\ walk = [step |-> "load", queue |-> <<>>, seen |-> {}, found |-> <<>>,
                 edges |-> {}, used |-> 0, truncated |-> FALSE,
                 current |-> Nowhere, left |-> <<>>]
  BY DEF WalkInit
<1>2. WalkTypeOK
  <2>1. Nowhere \in WalkPaths
    BY EmptySeq DEF Nowhere, WalkPaths
  <2> QED
    BY <1>1, <2>1, EmptySeq DEF WalkTypeOK, Walk, WalkStep
<1>3. /\ walk.step = "load" /\ walk.queue = <<>> /\ walk.found = <<>> /\ walk.edges = {}
      /\ walk.used = 0 /\ walk.left = <<>>
  BY <1>1
<1>4. Members(<<>>) = {} /\ Ends(<<>>) = {} /\ 1 .. Len(<<>>) = {}
  BY DEF Members, Ends
<1>5. bounds.edges \in Nat /\ bounds.nodes \in Nat
  BY <1>2, RequestTypes
<1>6. CountsHold
  <2>1. IsFiniteSet({}) /\ Cardinality({}) = 0
    BY FS_EmptySet
  <2>2. Traversed = 0
    BY <1>3, <2>1 DEF Traversed
  <2> QED
    BY <2>1, <2>2, <1>3, <1>5 DEF CountsHold
<1>7. PathsHold
  BY <1>3, <1>4 DEF PathsHold
<1>8. EndsHold
  BY <1>3, <1>4 DEF EndsHold
<1>9. InLevels /\ NothingMissed
  BY <1>3 DEF InLevels, NothingMissed
<1>10. FullIsTold
  <2>1. Len(<<>>) = 0 /\ bounds.nodes \in Nat \ {0}
    BY <1>1, GraphBounds DEF WalkRequests, WalkRequest
  <2> QED
    BY <1>3, <2>1 DEF FullIsTold, NoRoom
<1> QED
  BY <1>2, <1>6, <1>7, <1>8, <1>9, <1>10 DEF WalkInv

LEMMA WalkInvKept ==
    ASSUME WalkInv, [WalkNext]_walkVars
    PROVE  WalkInv'
<1>1. CASE WalkNext
  BY <1>1, CountsKept, PathsKept, EndsKept, LevelsKept, NothingMissedKept, FullIsToldKept DEF WalkInv
<1>2. CASE UNCHANGED walkVars
  <2>1. UNCHANGED <<stored, bounds>> /\ walk' = walk
    BY <1>2 DEF walkVars
  <2>2. Near' = Near /\ Known' = Known /\ \A n, d : Adjacent(n, d)' = Adjacent(n, d)
    BY <2>1, NearStays, KnownStays, AdjacentStays
  <2>3. (WalkTypeOK /\ CountsHold)'
    BY <2>1 DEF WalkInv, WalkTypeOK, CountsHold, Traversed, WalkRequests, WalkRequest
  <2>4. PathsHold'
    BY <2>1, <2>2 DEF WalkInv, PathsHold, PathHolds, Members, Last
  <2>5. EndsHold'
    BY <2>1 DEF WalkInv, EndsHold, Ends, Last
  <2>6. InLevels'
    BY <2>1, <2>2 DEF WalkInv, InLevels, Members
  <2>7. NothingMissed'
    BY <2>1, <2>2 DEF WalkInv, NothingMissed, NoRoom, Shortest, Handled, Members
  <2>8. FullIsTold'
    BY <2>1 DEF WalkInv, FullIsTold, NoRoom
  <2> QED
    BY <2>3, <2>4, <2>5, <2>6, <2>7, <2>8 DEF WalkInv
<1> QED
  BY <1>1, <1>2

\* The invariant says what the property asks of the answer.
LEMMA AnswerIsNear ==
    ASSUME WalkInv
    PROVE  FindsWhatIsNear
<1> SUFFICES ASSUME walk.step = "done" PROVE FindsWhatIsNear
  BY DEF FindsWhatIsNear
<1> USE DEF WalkInv
<1> DEFINE found == walk.found
<1>1. found \in Seq(WalkPaths) /\ DOMAIN found = 1 .. Len(found)
  BY LenProperties DEF WalkTypeOK, Walk
<1>2. ASSUME NEW i \in DOMAIN found
      PROVE  found[i] \in Members(found) /\ found[i] \in WalkPaths
  BY <1>1, <1>2, ElementOfSeq DEF Members
<1>3. ASSUME NEW i \in DOMAIN found
      PROVE  LET p == found[i]
             IN  /\ p.nodes[1] \in bounds.seeds /\ Len(p.edges) \in 1 .. bounds.depth
                 /\ Len(p.nodes) = Len(p.edges) + 1
                 /\ \A j \in DOMAIN p.edges :
                        /\ p.edges[j] \in Adjacent(p.nodes[j], j - 1) \cap walk.edges
                        /\ p.nodes[j + 1] = Other(p.edges[j], p.nodes[j])
  <2>1. PICK p \in WalkPaths : p = found[i] /\ p \in Members(found)
    BY <1>2
  <2>2. PathHolds(p) /\ Len(p.edges) \in 1 .. bounds.depth
    BY <2>1, KnownPaths DEF PathsHold
  <2>3. DOMAIN p.edges = 1 .. Len(p.edges)
    BY LenProperties DEF WalkPaths
  <2> QED
    BY <2>1, <2>2, <2>3 DEF PathHolds
<1>4. /\ \A i, j \in DOMAIN found : Last(found[i].nodes) = Last(found[j].nodes) => i = j
      /\ Ends(found) \cap bounds.seeds = {}
      /\ walk.seen = bounds.seeds \cup Ends(found)
  BY <1>1 DEF EndsHold
<1>5. Len(found) <= bounds.nodes /\ Cardinality(walk.edges) <= bounds.edges
  BY CountsAreNumbers DEF CountsHold
<1>6. ASSUME ~walk.truncated, ~NoRoom
      PROVE  /\ Ends(found) = Near[bounds.depth] \ bounds.seeds
             /\ \A i \in DOMAIN found : Last(found[i].nodes) \notin Near[Len(found[i].edges) - 1]
  <2>1. walk.queue = <<>> /\ walk.left = <<>> /\ \A p \in Known : Shortest(p)
    BY <1>6 DEF NothingMissed
  <2>2. Members(found) \subseteq Known
    BY DEF Known
  <2>3. bounds.depth \in Nat
    BY RequestTypes
  <2>4. Near[bounds.depth] \subseteq walk.seen
    <3>1. Members(walk.queue) = {} /\ bounds.depth \in 0 .. bounds.depth
      BY <2>1, <2>3 DEF Members
    <3> QED
      BY <3>1, <2>1, <1>6, LevelSeen
  <2>5. ASSUME NEW p \in Members(found)
        PROVE  /\ Last(p.nodes) \in Near[bounds.depth]
               /\ Last(p.nodes) \notin Near[Len(p.edges) - 1]
    <3>1. Len(p.edges) \in 1 .. bounds.depth
      BY KnownPaths
    <3>2. Shortest(p)
      BY <2>1, <2>2
    <3>3. Len(p.edges) \in 0 .. bounds.depth /\ bounds.depth \in 0 .. bounds.depth
          /\ Len(p.edges) >= 1
      BY <3>1, <2>3
    <3>4. Near[Len(p.edges)] \subseteq Near[bounds.depth]
      BY <3>3, NearGrows
    <3> QED
      BY <3>2, <3>3, <3>4 DEF Shortest
  <2>6. Ends(found) \subseteq Near[bounds.depth]
    BY <1>1, <2>5, EndsOfMembers
  <2> QED
    BY <1>2, <1>4, <2>4, <2>5, <2>6
<1>7. bounds.kind = "impact" /\ NoRoom => walk.truncated
  BY DEF FullIsTold
<1> QED
  BY <1>3, <1>4, <1>5, <1>6, <1>7 DEF FindsWhatIsNear

\* StructuralService::traverse and the impact analysis: whatever the graph, the
\* seeds and the bounds, the walk keeps its types.
THEOREM WalkTypesHold == WalkSpec => []WalkTypeOK
<1>1. WalkInv => WalkTypeOK
  BY DEF WalkInv
<1> QED
  BY <1>1, WalkBegins, WalkInvKept, PTL DEF WalkSpec

\* The answer is a set of walks from the seeds along stored edges to distinct new
\* nodes within the bounds.  When the walk met neither its node limit nor an edge
\* limit that it tells of, exactly what is near enough is found, each by a
\* shortest path; and an impact analysis tells of its node limit.  What a
\* traversal that met its node limit left out, the theorem does not say.
THEOREM WalksFindWhatIsNear == WalkSpec => []FindsWhatIsNear
BY WalkBegins, WalkInvKept, AnswerIsNear, PTL DEF WalkSpec

-----------------------------------------------------------------------------
(* Scores and ranks *)

\* The scores of a component have a lowest and a highest.
LEMMA ScoresBounded ==
    ASSUME SearchBounds, NEW T \in SUBSET Scores, T # {}
    PROVE  /\ (CHOOSE s \in T : \A t \in T : s <= t) \in T
           /\ (CHOOSE s \in T : \A t \in T : s >= t) \in T
           /\ \A t \in T : /\ (CHOOSE s \in T : \A u \in T : s <= u) <= t
                           /\ t <= (CHOOSE s \in T : \A u \in T : s >= u)
<1>1. T \subseteq Nat /\ Unit \in Nat /\ \A t \in T : t <= Unit
  BY DEF SearchBounds, Scores
<1>2. \E s \in T : \A t \in T : s <= t
  BY <1>1, Minimum
<1>3. \E s \in T : \A t \in T : t <= s
  BY <1>1, Maximum
<1>4. \E s \in T : \A t \in T : s >= t
  BY <1>1, <1>3
<1> DEFINE low == CHOOSE s \in T : \A t \in T : s <= t
           high == CHOOSE s \in T : \A t \in T : s >= t
<1>5. low \in T /\ \A t \in T : low <= t
  BY <1>2
<1>6. high \in T /\ \A t \in T : high >= t
  BY <1>4
<1> HIDE DEF low, high
<1>7. \A t \in T : t <= high
  BY <1>1, <1>6
<1> QED
  BY <1>5, <1>6, <1>7 DEF low, high

LEMMA PartialScores ==
    ASSUME NEW scores \in Partial
    PROVE  DOMAIN scores \subseteq Chunks /\ scores \in [DOMAIN scores -> Scores]
<1>1. PICK S \in SUBSET Chunks : scores \in [S -> Scores]
  BY DEF Partial
<1> QED
  BY <1>1

LEMMA NormalizedIsWhole ==
    ASSUME SearchBounds, NEW scores \in Partial, NEW c \in Chunks
    PROVE  Normalized(scores, c) \in Int
<1> DEFINE T == Range(scores)
           low == CHOOSE s \in T : \A t \in T : s <= t
           high == CHOOSE s \in T : \A t \in T : s >= t
<1>1. T \in SUBSET Scores /\ Scores \subseteq Int /\ Unit \in Int
  <2>1. T \subseteq Scores
    BY PartialScores DEF Range
  <2>2. Scores \subseteq Int /\ Unit \in Int
    BY DEF Scores, SearchBounds
  <2> QED
    BY <2>1, <2>2
<1>2. CASE c \notin DOMAIN scores
  BY <1>2 DEF Normalized
<1>3. CASE c \in DOMAIN scores
  <2>1. scores[c] \in T
    BY <1>3 DEF Range
  <2>2. low \in T /\ high \in T /\ low <= scores[c] /\ scores[c] <= high
    BY <1>1, <2>1, ScoresBounded
  <2>3. Normalized(scores, c) =
          IF low = high THEN Unit ELSE ((scores[c] - low) * Unit) \div (high - low)
    BY <1>3 DEF Normalized
  <2> HIDE DEF low, high, T
  <2>4. low \in Int /\ high \in Int /\ scores[c] \in Int
    BY <1>1, <2>1, <2>2
  <2>5. CASE low # high
    <3> DEFINE a == (scores[c] - low) * Unit
               b == high - low
    <3>1. a \in Int
      BY <1>1, <2>4
    <3>2. b \in Int /\ b > 0
      BY <2>2, <2>4, <2>5
    <3> HIDE DEF a, b
    <3>3. a \div b \in Int
      BY <3>1, <3>2
    <3> QED
      BY <2>3, <2>5, <3>3 DEF a, b
  <2> QED
    BY <1>1, <2>3, <2>5
<1> QED
  BY <1>2, <1>3

LEMMA HybridIsWhole ==
    ASSUME SearchBounds, SearchTypeOK, NEW c \in Chunks
    PROVE  Hybrid(c) \in Int
<1> DEFINE S == {e.score : e \in {e \in search.evidence : e.chunk = c}}
<1>1. S \in SUBSET Scores /\ Scores \subseteq Int
  BY DEF SearchTypeOK, Search, Evidence, Scores, SearchBounds
<1>2. S # {} => (CHOOSE s \in S : \A t \in S : s >= t) \in Int
  <2> HIDE DEF S
  <2> QED
    BY <1>1, ScoresBounded
<1>3. Structural(c) \in Int
  <2>1. Structural(c) = IF S = {} THEN 0 ELSE CHOOSE s \in S : \A t \in S : s >= t
    BY DEF Structural
  <2> HIDE DEF S
  <2> QED
    BY <1>2, <2>1
<1>4. search.semantic.scores \in Partial /\ search.lexical.scores \in Partial
  BY DEF SearchTypeOK, Search, Component
<1> DEFINE p == Normalized(search.semantic.scores, c)
           q == Normalized(search.lexical.scores, c)
           u == Structural(c)
<1>5. p \in Int /\ q \in Int /\ u \in Int
  BY <1>3, <1>4, NormalizedIsWhole
<1>6. /\ Weights["semantic"] \in Int /\ Weights["lexical"] \in Int
      /\ Weights["structural"] \in Int
  BY DEF SearchBounds
<1>7. Hybrid(c) = p * Weights["semantic"] + q * Weights["lexical"] + u * Weights["structural"]
  BY DEF Hybrid
<1> HIDE DEF p, q, u
<1> QED
  BY <1>5, <1>6, <1>7

\* What is ranked above each member of a set.
Above(chunks) == [c \in chunks |-> {d \in chunks : RanksAbove(d, c)}]

LEMMA RanksInOrder ==
    ASSUME SearchBounds, SearchTypeOK, NEW S \in SUBSET Chunks
    PROVE  IsFiniteSet(S) /\ DOMAIN Above(S) = S /\ StrictOrder(Above(S))
<1>1. IsFiniteSet(S)
  BY FS_Subset DEF SearchBounds
<1>2. \A c \in S : Hybrid(c) \in Int /\ c \in Int
  BY HybridIsWhole DEF SearchBounds
<1> DEFINE h == [c \in S |-> Hybrid(c)]
           a == Above(S)
<1>3. \A c \in S : h[c] \in Int /\ c \in Int
  BY <1>2
<1>4. DOMAIN a = S
      /\ \A c \in S : a[c] = {d \in S : h[d] > h[c] \/ (h[d] = h[c] /\ d < c)}
  BY DEF Above, RanksAbove
<1> HIDE DEF h, a
<1>5. \A x \in S : a[x] \subseteq S /\ x \notin a[x]
  BY <1>3, <1>4
<1>6. \A x, y \in S : x = y \/ x \in a[y] \/ y \in a[x]
  BY <1>3, <1>4
<1>7. \A x, y \in S : x \in a[y] => a[x] \subseteq a[y]
  <2> SUFFICES ASSUME NEW x \in S, NEW y \in S, x \in a[y], NEW d \in a[x]
               PROVE  d \in a[y]
    OBVIOUS
  <2>1. h[x] > h[y] \/ (h[x] = h[y] /\ x < y)
    BY <1>4
  <2>2. d \in S /\ (h[d] > h[x] \/ (h[d] = h[x] /\ d < x))
    BY <1>4
  <2>3. h[d] > h[y] \/ (h[d] = h[y] /\ d < y)
    BY <1>3, <2>1, <2>2
  <2> QED
    BY <1>4, <2>2, <2>3
<1> QED
  BY <1>1, <1>4, <1>5, <1>6, <1>7 DEF StrictOrder, a

\* Ranked lists the members of a set once each, best first.
LEMMA RankedInOrder ==
    ASSUME SearchBounds, SearchTypeOK, NEW S \in SUBSET Chunks
    PROVE  LET r == Ranked(S) n == Cardinality(S)
           IN  /\ n \in Nat /\ r \in Seq(S) /\ Len(r) = n
               /\ \A i \in 1 .. n : r[i] \in S
               /\ \A c \in S : \E i \in 1 .. n : r[i] = c
               /\ \A i, j \in 1 .. n : r[i] = r[j] => i = j
               /\ \A i, j \in 1 .. n : i < j => RanksAbove(r[i], r[j])
               /\ \A i \in 1 .. n : Cardinality({d \in S : RanksAbove(d, r[i])}) = i - 1
<1> DEFINE a == Above(S)
           r == InOrder(a)
           n == Cardinality(S)
<1>1. IsFiniteSet(S) /\ DOMAIN a = S /\ StrictOrder(a)
  BY RanksInOrder
<1>2. \A c \in S : a[c] = {d \in S : RanksAbove(d, c)}
  BY DEF Above
<1>3. Ranked(S) = r
  BY DEF Ranked, Above
<1> HIDE DEF a
<1>4. /\ n \in Nat /\ r \in [1 .. n -> S] /\ Len(r) = n
      /\ r \in Seq(S)
      /\ \A x \in S : \E i \in 1 .. n : r[i] = x
      /\ \A i, j \in 1 .. n : r[i] = r[j] => i = j
      /\ \A i, j \in 1 .. n : i < j <=> r[i] \in a[r[j]]
      /\ \A i \in 1 .. n : Cardinality(a[r[i]]) = i - 1
  BY <1>1, Arranged
<1> HIDE DEF r, n
<1>5. \A i \in 1 .. n : r[i] \in S
  BY <1>4
<1>6. \A i, j \in 1 .. n : i < j => RanksAbove(r[i], r[j])
  <2> SUFFICES ASSUME NEW i \in 1 .. n, NEW j \in 1 .. n, i < j
               PROVE  RanksAbove(r[i], r[j])
    OBVIOUS
  <2>1. r[i] \in a[r[j]] /\ r[j] \in S
    BY <1>4, <1>5
  <2>2. a[r[j]] = {d \in S : RanksAbove(d, r[j])}
    BY <1>2, <2>1
  <2> QED
    BY <2>1, <2>2
<1>7. \A i \in 1 .. n : Cardinality({d \in S : RanksAbove(d, r[i])}) = i - 1
  BY <1>2, <1>4, <1>5
<1> QED
  BY <1>3, <1>4, <1>5, <1>6, <1>7 DEF r, n

-----------------------------------------------------------------------------
(* The answer that Merge gives *)

\* What SearchShowsStructure says of the results.
Answers(results) ==
    /\ Len(results) = IF Cardinality(Merged) < search.limit
                        THEN Cardinality(Merged) ELSE search.limit
    /\ \A i \in 1 .. Len(results) - 1 : RanksAbove(results[i], results[i + 1])
    /\ search.evidence # {} => \E i \in DOMAIN results : HasEvidence(results[i])
    /\ \A c \in Merged :
          Cardinality({d \in Merged : RanksAbove(d, c)}) < search.limit - 1
             => c \in ToSet(results)

LEMMA MergedChunks ==
    ASSUME SearchBounds, SearchTypeOK
    PROVE  Merged \in SUBSET Chunks
<1>1. search.semantic.scores \in Partial /\ search.lexical.scores \in Partial
      /\ search.evidence \subseteq Evidence
  BY DEF SearchTypeOK, Search, Component
<1>2. {e.chunk : e \in search.evidence} \subseteq Chunks
  BY <1>1 DEF Evidence
<1>3. Baseline \subseteq Chunks
  BY <1>1, PartialScores DEF Baseline
<1> QED
  BY <1>2, <1>3 DEF Merged

\* Nothing with evidence is cut off: the first of the ranked will do.
LEMMA FirstAnswers ==
    ASSUME SearchBounds, SearchTypeOK, NEW n, n = Cardinality(Merged),
           SelectInSeq(Ranked(Merged), HasEvidence) <= search.limit
    PROVE  /\ FirstOf(Ranked(Merged), search.limit) \in Seq(Chunks)
           /\ Answers(FirstOf(Ranked(Merged), search.limit))
<1> DEFINE M == Merged
           r == Ranked(M)
           l == search.limit
           k == IF n < l THEN n ELSE l
           s == FirstOf(r, l)
           best == SelectInSeq(r, HasEvidence)
<1>1. M \in SUBSET Chunks
  BY MergedChunks
<1>2. l \in Nat \ {0}
  BY DEF SearchTypeOK, Search, SearchBounds
<1>3. /\ n \in Nat /\ r \in Seq(M) /\ Len(r) = n
      /\ \A i \in 1 .. n : r[i] \in M
      /\ \A c \in M : \E i \in 1 .. n : r[i] = c
      /\ \A i, j \in 1 .. n : i < j => RanksAbove(r[i], r[j])
      /\ \A i \in 1 .. n : Cardinality({d \in M : RanksAbove(d, r[i])}) = i - 1
  <2>1. n = Cardinality(M)
    OBVIOUS
  <2> HIDE DEF M
  <2> QED
    BY <1>1, <2>1, RankedInOrder
<1>4. s = SubSeq(r, 1, k)
  BY <1>3 DEF FirstOf
<1>5. best = LET I == {i \in 1 .. n : HasEvidence(r[i])}
             IN  IF I # {} THEN CHOOSE i \in I : \A j \in I : i =< j ELSE 0
  BY <1>3 DEF SelectInSeq, Min
<1>6. best <= l
  OBVIOUS
<1>7. search.evidence # {} => \E c \in M : HasEvidence(c)
  BY DEF HasEvidence, Merged
<1>8. k \in Nat /\ k <= n /\ k <= l /\ (n <= l => k = n) /\ (n >= l => k = l)
  BY <1>2, <1>3
<1> HIDE DEF M, r, l, s, best
<1> HIDE DEF k
<1>9. /\ s \in Seq(Chunks) /\ Len(s) = k
      /\ \A i \in 1 .. k : s[i] = r[i]
  <2>1. \A i \in 1 .. k : i \in 1 .. n
    BY <1>3, <1>8
  <2>2. \A i \in 1 .. k : r[i] \in Chunks
    <3>1. \A i \in 1 .. k : r[i] \in M
      BY <1>3, <2>1
    <3> QED
      BY <1>1, <3>1
  <2>3. /\ SubSeq(r, 1, k) \in Seq(Chunks)
        /\ Len(SubSeq(r, 1, k)) = IF 1 <= k THEN k - 1 + 1 ELSE 0
        /\ \A i \in 1 .. k - 1 + 1 : SubSeq(r, 1, k)[i] = r[1 + i - 1]
    BY <2>2, <1>8, SubSeqProperties
  <2>4. \A i \in 1 .. k : i \in 1 .. k - 1 + 1 /\ 1 + i - 1 = i
    BY <1>8
  <2> QED
    BY <1>4, <1>8, <2>3, <2>4
<1>10. DOMAIN s = 1 .. k
  BY <1>9, LenProperties
<1>11. \A i \in 1 .. Len(s) - 1 : RanksAbove(s[i], s[i + 1])
  <2> SUFFICES ASSUME NEW i \in 1 .. k - 1 PROVE RanksAbove(s[i], s[i + 1])
    BY <1>9
  <2>1. i \in 1 .. k /\ i + 1 \in 1 .. k /\ i \in 1 .. n /\ i + 1 \in 1 .. n /\ i < i + 1
    BY <1>3, <1>8
  <2> QED
    BY <2>1, <1>3, <1>9
<1>12. search.evidence # {} => \E i \in DOMAIN s : HasEvidence(s[i])
  <2> SUFFICES ASSUME search.evidence # {} PROVE \E i \in 1 .. k : HasEvidence(s[i])
    BY <1>10
  <2> DEFINE I == {i \in 1 .. n : HasEvidence(r[i])}
  <2>1. I # {} /\ I \in SUBSET Nat
    <3>1. PICK c \in M : HasEvidence(c)
      BY <1>7
    <3>2. PICK i \in 1 .. n : r[i] = c
      BY <1>3
    <3> QED
      BY <3>1, <3>2
  <2>2. best \in I
    <3>1. \E i \in I : \A j \in I : i <= j
      BY <2>1, Minimum
    <3> HIDE DEF I
    <3>2. (CHOOSE i \in I : \A j \in I : i =< j) \in I
      BY <3>1
    <3> QED
      BY <1>5, <2>1, <3>2 DEF I
  <2>3. best \in 1 .. n /\ HasEvidence(r[best])
    BY <2>2
  <2>4. best \in 1 .. k
    BY <1>2, <1>3, <1>6, <1>8, <2>3
  <2> QED
    BY <1>9, <2>3, <2>4
<1>13. \A c \in M : Cardinality({d \in M : RanksAbove(d, c)}) < l - 1 => c \in ToSet(s)
  <2> SUFFICES ASSUME NEW c \in M, Cardinality({d \in M : RanksAbove(d, c)}) < l - 1
               PROVE  \E i \in 1 .. k : s[i] = c
    BY <1>10 DEF ToSet
  <2>1. PICK i \in 1 .. n : r[i] = c
    BY <1>3
  <2>2. i - 1 < l - 1
    BY <1>3, <2>1
  <2>3. i \in 1 .. k
    BY <1>2, <1>3, <1>8, <2>1, <2>2
  <2> QED
    BY <1>9, <2>1, <2>3
<1>14. Len(s) = IF Cardinality(M) < l THEN Cardinality(M) ELSE l
  BY <1>9 DEF k, M
<1> QED
  BY <1>9, <1>11, <1>12, <1>13, <1>14 DEF Answers, M, r, l, s

\* The best result with evidence would be cut off: it takes the last place.
LEMMA KeptAnswers ==
    ASSUME SearchBounds, SearchTypeOK, NEW best,
           best = SelectInSeq(Ranked(Merged), HasEvidence), ~(best <= search.limit),
           NEW s, s = Ranked(ToSet(SubSeq(Ranked(Merged), 1, search.limit - 1))
                               \cup {Ranked(Merged)[best]})
    PROVE  s \in Seq(Chunks) /\ Answers(s)
<1> DEFINE M == Merged
           n == Cardinality(M)
           r == Ranked(M)
           l == search.limit
           F == ToSet(SubSeq(r, 1, l - 1))
           S == F \cup {r[best]}
<1>1. M \in SUBSET Chunks
  BY MergedChunks
<1>2. l \in Nat \ {0}
  BY DEF SearchTypeOK, Search, SearchBounds
<1>3. /\ n \in Nat /\ r \in Seq(M) /\ Len(r) = n
      /\ \A i \in 1 .. n : r[i] \in M
      /\ \A c \in M : \E i \in 1 .. n : r[i] = c
      /\ \A i, j \in 1 .. n : r[i] = r[j] => i = j
      /\ \A i \in 1 .. n : Cardinality({d \in M : RanksAbove(d, r[i])}) = i - 1
  <2>1. n = Cardinality(M)
    OBVIOUS
  <2> HIDE DEF M
  <2> QED
    BY <1>1, <2>1, RankedInOrder
<1>4. best = LET I == {i \in 1 .. n : HasEvidence(r[i])}
             IN  IF I # {} THEN CHOOSE i \in I : \A j \in I : i =< j ELSE 0
  BY <1>3 DEF SelectInSeq, Min
<1>5. ~(best <= l) /\ s = Ranked(S)
  OBVIOUS
<1> HIDE DEF M, r, l
<1> HIDE DEF n
<1>6. best \in 1 .. n /\ HasEvidence(r[best])
  <2> DEFINE I == {i \in 1 .. n : HasEvidence(r[i])}
  <2>1. I # {}
    BY <1>2, <1>4, <1>5
  <2>2. I \in SUBSET Nat
    BY <1>3
  <2>3. best \in I
    <3>1. \E i \in I : \A j \in I : i <= j
      BY <2>1, <2>2, Minimum
    <3> HIDE DEF I
    <3>2. (CHOOSE i \in I : \A j \in I : i =< j) \in I
      BY <3>1
    <3> QED
      BY <1>4, <2>1, <3>2 DEF I
  <2> QED
    BY <2>3
<1>7. best \in Nat /\ l < best /\ best <= n /\ l < n
  BY <1>2, <1>3, <1>5, <1>6
<1>8. F = {r[i] : i \in 1 .. l - 1}
  <2> DEFINE f == SubSeq(r, 1, l - 1)
  <2>1. \A i \in 1 .. l - 1 : i \in 1 .. n
    BY <1>2, <1>3, <1>7
  <2>2. \A i \in 1 .. l - 1 : r[i] \in M
    BY <1>3, <2>1
  <2>3. /\ f \in Seq(M) /\ Len(f) = IF 1 <= l - 1 THEN l - 1 - 1 + 1 ELSE 0
        /\ \A i \in 1 .. l - 1 - 1 + 1 : f[i] = r[1 + i - 1]
    BY <1>2, <2>2, SubSeqProperties
  <2>4. Len(f) = l - 1 /\ \A i \in 1 .. l - 1 : i \in 1 .. l - 1 - 1 + 1 /\ 1 + i - 1 = i
    BY <1>2, <2>3
  <2>5. DOMAIN f = 1 .. l - 1
    BY <2>3, <2>4, LenProperties
  <2> HIDE DEF f
  <2>6. \A i \in 1 .. l - 1 : f[i] = r[i]
    BY <2>3, <2>4
  <2>7. {f[i] : i \in DOMAIN f} = {r[i] : i \in 1 .. l - 1}
    BY <2>5, <2>6
  <2> QED
    BY <2>7 DEF ToSet, f
<1> HIDE DEF F
<1>9. \A i \in 1 .. l - 1 : i \in 1 .. n /\ i # best
  BY <1>2, <1>3, <1>7
<1>10. r[best] \notin F /\ F \subseteq M
  BY <1>3, <1>6, <1>8, <1>9
<1>11. IsFiniteSet(F) /\ Cardinality(F) = l - 1
  <2> DEFINE g == [i \in 1 .. l - 1 |-> r[i]]
  <2>1. \A i, j \in 1 .. l - 1 : g[i] = g[j] => i = j
    BY <1>3, <1>9
  <2>2. g \in [1 .. l - 1 -> F]
    BY <1>8
  <2>3. \A c \in F : \E i \in 1 .. l - 1 : g[i] = c
    BY <1>8
  <2> HIDE DEF g
  <2>4. g \in Bijection(1 .. l - 1, F)
    BY <2>1, <2>2, <2>3 DEF Bijection, Injection, Surjection, IsInjective
  <2>5. IsFiniteSet(1 .. l - 1) /\ Cardinality(1 .. l - 1) = l - 1
    <3> DEFINE m == l - 1
    <3>1. m \in Nat /\ 1 \in Int /\ m \in Int
      BY <1>2
    <3> HIDE DEF m
    <3>2. IsFiniteSet(1 .. m) /\ Cardinality(1 .. m) = IF 1 > m THEN 0 ELSE m - 1 + 1
      BY <3>1, FS_Interval
    <3>3. Cardinality(1 .. m) = m
      BY <3>1, <3>2
    <3> QED
      BY <3>2, <3>3 DEF m
  <2>6. ExistsBijection(1 .. l - 1, F)
    BY <2>4 DEF ExistsBijection
  <2> QED
    BY <2>5, <2>6, FS_Bijection
<1>12. Cardinality(S) = l /\ S \in SUBSET Chunks /\ S \subseteq M
  <2>1. S \subseteq M
    BY <1>3, <1>6, <1>10
  <2>2. Cardinality(S) = Cardinality(F) + 1
    BY <1>10, <1>11, FS_AddElement
  <2> QED
    <3>1. Cardinality(S) = l - 1 + 1
      BY <1>11, <2>2
    <3> HIDE DEF S
    <3> QED
      BY <1>1, <1>2, <2>1, <3>1
<1> HIDE DEF S
<1>13. /\ s \in Seq(S) /\ Len(s) = l
       /\ \A c \in S : \E i \in 1 .. l : s[i] = c
       /\ \A i, j \in 1 .. l : i < j => RanksAbove(s[i], s[j])
  <2> DEFINE k == Cardinality(S)
  <2>1. /\ Ranked(S) \in Seq(S) /\ Len(Ranked(S)) = k
        /\ \A c \in S : \E i \in 1 .. k : Ranked(S)[i] = c
        /\ \A i, j \in 1 .. k : i < j => RanksAbove(Ranked(S)[i], Ranked(S)[j])
    BY <1>12, RankedInOrder
  <2>2. k = l
    BY <1>12
  <2> HIDE DEF k
  <2> QED
    BY <1>5, <2>1, <2>2
<1>14. DOMAIN s = 1 .. l
  BY <1>13, LenProperties
<1>15. s \in Seq(Chunks)
  BY <1>12, <1>13, SeqMonotonic
<1>16. \A i \in 1 .. Len(s) - 1 : RanksAbove(s[i], s[i + 1])
  <2> SUFFICES ASSUME NEW i \in 1 .. l - 1 PROVE RanksAbove(s[i], s[i + 1])
    BY <1>13
  <2>1. i \in 1 .. l /\ i + 1 \in 1 .. l /\ i < i + 1
    BY <1>2
  <2> QED
    BY <2>1, <1>13
<1>17. \E i \in DOMAIN s : HasEvidence(s[i])
  <2>1. PICK i \in 1 .. l : s[i] = r[best]
    BY <1>13 DEF S
  <2> QED
    BY <1>6, <1>14, <2>1
<1>18. \A c \in M : Cardinality({d \in M : RanksAbove(d, c)}) < l - 1 => c \in ToSet(s)
  <2> SUFFICES ASSUME NEW c \in M, Cardinality({d \in M : RanksAbove(d, c)}) < l - 1
               PROVE  \E i \in 1 .. l : s[i] = c
    BY <1>14 DEF ToSet
  <2>1. PICK i \in 1 .. n : r[i] = c
    BY <1>3
  <2>2. i - 1 < l - 1
    BY <1>3, <2>1
  <2>3. i \in 1 .. l - 1
    BY <1>2, <1>3, <2>1, <2>2
  <2>4. c \in S
    BY <1>8, <2>1, <2>3 DEF S
  <2> QED
    BY <1>13, <2>4
<1>19. Len(s) = IF Cardinality(M) < l THEN Cardinality(M) ELSE l
  BY <1>2, <1>3, <1>7, <1>13 DEF n
<1> QED
  BY <1>15, <1>16, <1>17, <1>18, <1>19 DEF Answers, M, l

LEMMA MergeAnswers ==
    ASSUME SearchBounds, SearchTypeOK
    PROVE  /\ Shortened(Ranked(Merged), search.limit) \in Seq(Chunks)
           /\ Answers(Shortened(Ranked(Merged), search.limit))
<1> DEFINE best == SelectInSeq(Ranked(Merged), HasEvidence)
<1>1. Shortened(Ranked(Merged), search.limit) =
        IF best <= search.limit THEN FirstOf(Ranked(Merged), search.limit)
        ELSE Ranked(ToSet(SubSeq(Ranked(Merged), 1, search.limit - 1))
                      \cup {Ranked(Merged)[best]})
  BY DEF Shortened
<1>2. CASE best <= search.limit
  BY <1>1, <1>2, FirstAnswers
<1>3. CASE ~(best <= search.limit)
  BY <1>1, <1>3, KeptAnswers
<1> QED
  BY <1>2, <1>3

-----------------------------------------------------------------------------
(* The invariant *)

\* The snapshot that the paths are of is one the search has seen published.
SnapshotsInOrder ==
    search.since <= search.before /\ search.before <= published.indexed

\* What is still to be shown is of that snapshot.
LeftIsSeen ==
    /\ search.step = "expand" => search.todo \subseteq published.nodes[search.before]
    /\ search.step = "chunks" => /\ search.todo \subseteq published.nodes[search.before]
                                 /\ search.todo \subseteq DOMAIN search.found

\* Evidence is of the graphs that were published since the search began.
EvidenceIsSeen ==
    /\ search.step = "baseline" => search.evidence = {}
    /\ \A e \in search.evidence :
          /\ search.since <= e.revision /\ e.revision <= published.indexed
          /\ e.node \in published.nodes[e.revision]
          /\ ~e.named => /\ e.revision = search.before
                         /\ search.step \in {"chunks", "merge", "done"}

Answered == search.step = "done" => Answers(search.results)

SearchInv ==
    SearchTypeOK /\ SnapshotsInOrder /\ LeftIsSeen /\ EvidenceIsSeen /\ Answered

LEMMA AnswersStays ==
    ASSUME search'.evidence = search.evidence, search'.semantic = search.semantic,
           search'.lexical = search.lexical, search'.limit = search.limit,
           NEW results, Answers(results)
    PROVE  Answers(results)'
<1>1. \A c : Structural(c)' = Structural(c)
  BY DEF Structural
<1>2. \A c : Normalized(search.semantic.scores, c)' = Normalized(search.semantic.scores, c)
  BY DEF Normalized
<1>3. \A c : Normalized(search.lexical.scores, c)' = Normalized(search.lexical.scores, c)
  BY DEF Normalized
<1>4. \A c : Hybrid(c)' = Hybrid(c)
  BY <1>1, <1>2, <1>3 DEF Hybrid
<1>5. \A c, d : RanksAbove(c, d)' = RanksAbove(c, d)
  BY <1>4 DEF RanksAbove
<1>6. Merged' = Merged /\ \A c : HasEvidence(c)' = HasEvidence(c)
  BY DEF Merged, Baseline, HasEvidence
<1> QED
  BY <1>5, <1>6 DEF Answers

LEMMA SearchBegins == ASSUME SearchBounds, SearchInit PROVE SearchInv
<1>1. PICK l \in Limits :
        search = [step |-> "baseline", limit |-> l, semantic |-> NotRead, lexical |-> NotRead,
                  since |-> 0, before |-> 0, seeds |-> {}, found |-> <<>>, todo |-> {},
                  evidence |-> {}, results |-> <<>>]
  BY DEF SearchInit
<1>2. <<>> \in Partial
  <2>1. <<>> \in [{} -> Scores]
    OBVIOUS
  <2> QED
    BY <2>1 DEF Partial
<1>3. NotRead \in Component
  BY <1>2 DEF NotRead, Component
<1>4. search \in Search
  <2>1. <<>> \in Seq(Chunks)
    OBVIOUS
  <2> QED
    BY <1>1, <1>2, <1>3, <2>1 DEF Search, SearchStep, SearchBounds
<1>5. published \in [content : 0 .. MaxEdits, indexed : 0 .. MaxEdits,
                     nodes : [0 .. MaxEdits -> SUBSET Chunks]]
  BY DEF SearchInit, SearchBounds
<1>6. published.indexed <= published.content /\ published.indexed = 0 /\ stock \subseteq Chunks
  BY DEF SearchInit
<1> QED
  BY <1>1, <1>4, <1>5, <1>6
     DEF SearchInv, SearchTypeOK, SnapshotsInOrder, LeftIsSeen, EvidenceIsSeen, Answered

\* The search does not move on while an edit or a publication happens.
LEMMA IndexSteps ==
    ASSUME SearchBounds, SearchInv,
           (\E c \in Chunks, kept \in SUBSET Chunks : EditDocument(FileOf[c], kept))
             \/ PublishGraph
    PROVE  SearchInv'
<1> USE DEF SearchInv
<1>1. /\ search' = search /\ search.step \notin {"done", "refused", "unavailable"}
      /\ published'.indexed \in 0 .. MaxEdits /\ published.indexed <= published'.indexed
      /\ \A r \in 0 .. published.indexed : published'.nodes[r] = published.nodes[r]
      /\ SearchTypeOK'
  <2>1. ASSUME NEW c \in Chunks, NEW kept \in SUBSET Chunks, EditDocument(FileOf[c], kept)
        PROVE  <1>1!:
    <3>1. published' = [published EXCEPT !.content = @ + 1] /\ published.content < MaxEdits
      BY <2>1 DEF EditDocument
    <3>2. stock' \subseteq Chunks
      BY <2>1 DEF EditDocument, SearchTypeOK
    <3>3. search' = search /\ search.step \notin {"done", "refused", "unavailable"}
      BY <2>1 DEF EditDocument
    <3> QED
      BY <3>1, <3>2, <3>3 DEF SearchTypeOK, SearchBounds
  <2>2. CASE PublishGraph
    <3>1. /\ published' = [published EXCEPT !.indexed = published.content,
                                            !.nodes[published.content] = stock]
          /\ stock' = stock /\ published.indexed # published.content
      BY <2>2 DEF PublishGraph, Current
    <3>2. search' = search /\ search.step \notin {"done", "refused", "unavailable"}
      BY <2>2 DEF PublishGraph
    <3>3. /\ published.content \in 0 .. MaxEdits /\ published.indexed \in 0 .. MaxEdits
          /\ published.indexed < published.content
          /\ published.nodes \in [0 .. MaxEdits -> SUBSET Chunks] /\ stock \in SUBSET Chunks
      BY <3>1 DEF SearchTypeOK, SearchBounds
    <3>4. /\ published'.content = published.content /\ published'.indexed = published.content
          /\ published'.nodes = [published.nodes EXCEPT ![published.content] = stock]
          /\ published' \in [content : 0 .. MaxEdits, indexed : 0 .. MaxEdits,
                             nodes : [0 .. MaxEdits -> SUBSET Chunks]]
      BY <3>1, <3>3 DEF SearchTypeOK
    <3>5. \A r \in 0 .. published.indexed :
             r \in 0 .. MaxEdits /\ r # published.content
      BY <3>3 DEF SearchBounds
    <3>6. \A r \in 0 .. published.indexed : published'.nodes[r] = published.nodes[r]
      BY <3>3, <3>4, <3>5
    <3>7. SearchTypeOK'
      BY <3>1, <3>2, <3>3, <3>4 DEF SearchTypeOK
    <3> QED
      BY <3>2, <3>3, <3>4, <3>6, <3>7
  <2> QED
    BY <2>1, <2>2
<1>2. SnapshotsInOrder'
  BY <1>1 DEF SnapshotsInOrder, SearchTypeOK, Search
<1>3. LeftIsSeen'
  BY <1>1 DEF LeftIsSeen, SnapshotsInOrder, SearchTypeOK, Search
<1>4. EvidenceIsSeen'
  BY <1>1 DEF EvidenceIsSeen, SearchTypeOK, Search, Evidence
<1>5. Answered'
  BY <1>1 DEF Answered
<1> QED
  BY <1>1, <1>2, <1>3, <1>4, <1>5

LEMMA TopIsPartial ==
    ASSUME NEW scores \in Partial
    PROVE  Top(scores) \in Partial
<1>1. scores \in [DOMAIN scores -> Scores] /\ DOMAIN scores \subseteq Chunks
  BY PartialScores
<1> DEFINE better(c) == {d \in DOMAIN scores : scores[d] > scores[c]
                                               \/ (scores[d] = scores[c] /\ d < c)}
           S == {c \in DOMAIN scores : Cardinality(better(c)) < 3 * search.limit}
<1>2. Top(scores) = [c \in S |-> scores[c]]
  BY DEF Top, Restrict
<1>3. S \subseteq DOMAIN scores
  OBVIOUS
<1> HIDE DEF S
<1>4. S \in SUBSET Chunks /\ [c \in S |-> scores[c]] \in [S -> Scores]
  BY <1>1, <1>3
<1> QED
  BY <1>2, <1>4 DEF Partial

LEMMA BaselineSteps ==
    ASSUME SearchBounds, SearchInv,
           (\E scores \in Rankings : ReadSemantic(scores) \/ ReadLexical(scores))
             \/ NoQueryVector \/ TakeSnapshot
    PROVE  SearchInv'
<1> USE DEF SearchInv
<1>1. search.step = "baseline" /\ stock' = stock /\ published' = published
      /\ search'.evidence = search.evidence
  BY DEF ReadSemantic, ReadLexical, NoQueryVector, TakeSnapshot, SearchTypeOK, Search
<1>2. /\ search' \in Search /\ search'.step \notin {"expand", "chunks", "done"}
      /\ \/ search'.since = search.since /\ search'.before = search.before
         \/ search'.since = published.indexed /\ search'.before = published.indexed
  <2>1. ASSUME NEW scores \in Rankings, ReadSemantic(scores) \/ ReadLexical(scores)
        PROVE  <1>2!:
    <3>1. [read |-> TRUE, scores |-> Top(scores)] \in Component
      <4>1. scores \in Partial
        BY RankingsBound
      <4> QED
        BY <4>1, TopIsPartial DEF Component
    <3>2. CASE ReadSemantic(scores)
      BY <3>1, <3>2 DEF ReadSemantic, SearchTypeOK, Search
    <3>3. CASE ReadLexical(scores)
      BY <3>1, <3>3 DEF ReadLexical, SearchTypeOK, Search
    <3> QED
      BY <2>1, <3>2, <3>3
  <2>2. CASE NoQueryVector
    BY <2>2 DEF NoQueryVector, SearchTypeOK, Search, SearchStep
  <2>3. CASE TakeSnapshot
    BY <2>3 DEF TakeSnapshot, SearchTypeOK, Search, SearchStep, Current
  <2> QED
    BY <2>1, <2>2, <2>3
<1>3. SearchTypeOK'
  BY <1>1, <1>2 DEF SearchTypeOK
<1>4. SnapshotsInOrder'
  BY <1>1, <1>2 DEF SnapshotsInOrder, SearchTypeOK
<1>5. LeftIsSeen' /\ EvidenceIsSeen' /\ Answered'
  BY <1>1, <1>2 DEF LeftIsSeen, EvidenceIsSeen, Answered
<1> QED
  BY <1>3, <1>4, <1>5

LEMMA StructuralSteps ==
    ASSUME SearchBounds, SearchInv,
           (\E named, exact \in SUBSET Chunks : FindSeeds(named, exact))
             \/ (\E node \in Chunks : ShowSeed(node)) \/ BeginTraversal
             \/ (\E found \in Rankings : EndTraversal(found))
    PROVE  SearchInv'
<1> USE DEF SearchInv
<1>1. ASSUME NEW named \in SUBSET Chunks, NEW exact \in SUBSET Chunks, FindSeeds(named, exact)
      PROVE  SearchInv'
  <2> DEFINE seeds == IF named # {} THEN named ELSE InBaseline
  <2>1. /\ search.step = "seeds" /\ stock' = stock /\ published' = published
        /\ exact \subseteq named /\ named \subseteq Projected
        /\ search' = IF ~Unchanged \/ seeds = {} THEN [search EXCEPT !.step = "merge"]
                     ELSE [search EXCEPT !.step = "expand", !.seeds = seeds, !.todo = exact]
    BY <1>1 DEF FindSeeds
  <2>2. seeds \in SUBSET Chunks
    <3>1. Projected \subseteq Chunks
      BY DEF Projected, SearchTypeOK
    <3> QED
      BY <3>1 DEF InBaseline
  <2>3. Unchanged => Projected = published.nodes[search.before]
    BY DEF Unchanged, Current, Projected
  <2> HIDE DEF seeds
  <2>4. search' \in Search /\ search'.step \in {"merge", "expand"}
    BY <2>1, <2>2 DEF SearchTypeOK, Search, SearchStep
  <2>5. /\ search'.since = search.since /\ search'.before = search.before
        /\ search'.evidence = search.evidence
        /\ search'.step = "expand" => search'.todo \subseteq published.nodes[search.before]
    BY <2>1, <2>3 DEF SearchTypeOK, Search
  <2>6. SearchTypeOK' /\ SnapshotsInOrder'
    BY <2>1, <2>4, <2>5 DEF SearchTypeOK, SnapshotsInOrder
  <2>7. LeftIsSeen' /\ EvidenceIsSeen' /\ Answered'
    BY <2>1, <2>4, <2>5 DEF LeftIsSeen, EvidenceIsSeen, Answered
  <2> QED
    BY <2>6, <2>7
<1>2. ASSUME NEW node \in Chunks, ShowSeed(node) PROVE SearchInv'
  <2> DEFINE new == Shows(node, TRUE, 0, {node} \cap stock)
             shown == search.evidence \cup new
  <2>1. /\ search.step = "expand" /\ node \in search.todo
        /\ stock' = stock /\ published' = published
        /\ search' = [search EXCEPT !.todo = @ \ {node}, !.evidence = shown,
                        !.step = IF Cardinality(shown) = StructuralLimit THEN "merge" ELSE @]
    BY <1>2 DEF ShowSeed
  <2>2. \A e \in new : /\ e \in Evidence /\ e.node = node /\ e.named
                       /\ e.revision = search.before
    <3>1. 0 \in Scores /\ search.before \in 0 .. MaxEdits
      BY DEF Scores, SearchBounds, SearchTypeOK, Search
    <3>2. \A c \in {node} \cap stock :
             [chunk |-> c, node |-> node, named |-> TRUE, score |-> 0,
              revision |-> search.before] \in Evidence
      BY <3>1 DEF Evidence
    <3> QED
      BY <3>2 DEF Shows
  <2> HIDE DEF new
  <2>3. shown \subseteq Evidence
    BY <2>2 DEF SearchTypeOK, Search
  <2> DEFINE next == IF Cardinality(shown) = StructuralLimit THEN "merge" ELSE search.step
  <2>4. next \in {"merge", "expand"}
    BY <2>1
  <2>5. search' = [search EXCEPT !.todo = search.todo \ {node}, !.evidence = shown, !.step = next]
    BY <2>1
  <2> HIDE DEF next
  <2>6. /\ search' \in Search /\ search'.step = next /\ search'.evidence = search.evidence \cup new
        /\ search'.since = search.since /\ search'.before = search.before
        /\ search'.todo \subseteq search.todo
    BY <2>3, <2>4, <2>5 DEF SearchTypeOK, Search, SearchStep
  <2>7. SearchTypeOK' /\ SnapshotsInOrder'
    BY <2>1, <2>6 DEF SearchTypeOK, SnapshotsInOrder
  <2>8. LeftIsSeen' /\ Answered'
    BY <2>1, <2>4, <2>6 DEF LeftIsSeen, Answered
  <2>9. EvidenceIsSeen'
    <3>1. node \in published.nodes[search.before]
      BY <2>1 DEF LeftIsSeen
    <3>2. search.before \in Int /\ search.since \in Int /\ published.indexed \in Int
      BY DEF SearchTypeOK, Search
    <3>3. \A e \in new : /\ search.since <= e.revision /\ e.revision <= published.indexed
                         /\ e.node \in published.nodes[e.revision]
      BY <2>2, <3>1 DEF SnapshotsInOrder
    <3>4. \A e \in search.evidence : e.named
      BY <2>1 DEF EvidenceIsSeen
    <3> QED
      BY <2>1, <2>2, <2>4, <2>6, <3>3, <3>4 DEF EvidenceIsSeen
  <2> QED
    BY <2>7, <2>8, <2>9
<1>3. CASE BeginTraversal
  <2>1. /\ search.step = "expand" /\ search.todo = {} /\ stock' = stock /\ published' = published
        /\ search' = IF Current /\ search.seeds \subseteq Projected
                       THEN [search EXCEPT !.step = "paths", !.before = published.content]
                       ELSE [search EXCEPT !.step = "refused"]
    BY <1>3 DEF BeginTraversal
  <2>2. /\ search' \in Search /\ search'.step \in {"paths", "refused"}
        /\ search'.since = search.since /\ search'.evidence = search.evidence
        /\ search'.before \in {search.before, published.indexed}
    BY <2>1 DEF SearchTypeOK, Search, SearchStep, Current
  <2>3. SearchTypeOK' /\ SnapshotsInOrder'
    <3>1. search.since \in Int /\ search.before \in Int /\ published.indexed \in Int
      BY DEF SearchTypeOK, Search
    <3>2. search.since <= search'.before /\ search'.before <= published.indexed
      BY <2>2, <3>1 DEF SnapshotsInOrder
    <3> QED
      BY <2>1, <2>2, <3>2 DEF SearchTypeOK, SnapshotsInOrder
  <2>4. LeftIsSeen' /\ Answered' /\ EvidenceIsSeen'
    BY <2>1, <2>2 DEF LeftIsSeen, Answered, EvidenceIsSeen
  <2> QED
    BY <2>3, <2>4
<1>4. ASSUME NEW found \in Rankings, EndTraversal(found) PROVE SearchInv'
  <2>1. /\ search.step = "paths" /\ stock' = stock /\ published' = published
        /\ DOMAIN found \subseteq Projected
        /\ search' = IF Unchanged
                       THEN [search EXCEPT !.step = "chunks", !.found = found,
                                           !.todo = DOMAIN found]
                       ELSE [search EXCEPT !.step = "refused"]
    BY <1>4 DEF EndTraversal
  <2>2. found \in Partial /\ DOMAIN found \in SUBSET Chunks
    BY RankingsBound, PartialScores
  <2>3. Unchanged => Projected = published.nodes[search.before]
    BY DEF Unchanged, Current, Projected
  <2>4. /\ search' \in Search /\ search'.step \in {"chunks", "refused"}
        /\ search'.since = search.since /\ search'.evidence = search.evidence
        /\ search'.before = search.before
        /\ search'.step = "chunks" => /\ search'.todo \subseteq published.nodes[search.before]
                                      /\ search'.todo = DOMAIN search'.found
    BY <2>1, <2>2, <2>3 DEF SearchTypeOK, Search, SearchStep
  <2>5. SearchTypeOK' /\ SnapshotsInOrder'
    BY <2>1, <2>4 DEF SearchTypeOK, SnapshotsInOrder
  <2>6. LeftIsSeen' /\ Answered' /\ EvidenceIsSeen'
    BY <2>1, <2>4 DEF LeftIsSeen, Answered, EvidenceIsSeen
  <2> QED
    BY <2>5, <2>6
<1> QED
  BY <1>1, <1>2, <1>3, <1>4

LEMMA ChunkSteps ==
    ASSUME SearchBounds, SearchInv,
           (\E node \in Chunks, chunks \in SUBSET Chunks : ShowFound(node, chunks))
             \/ AllShown
    PROVE  SearchInv'
<1> USE DEF SearchInv
<1>1. ASSUME NEW node \in Chunks, NEW chunks \in SUBSET Chunks, ShowFound(node, chunks)
      PROVE  SearchInv'
  <2> DEFINE new == Shows(node, FALSE, search.found[node], chunks)
             shown == search.evidence \cup new
             next == IF Cardinality(shown) = StructuralLimit THEN "merge" ELSE search.step
  <2>1. /\ search.step = "chunks" /\ node \in search.todo
        /\ stock' = stock /\ published' = published
        /\ search' = [search EXCEPT !.todo = search.todo \ {node}, !.evidence = shown,
                                    !.step = next]
    BY <1>1 DEF ShowFound
  <2>2. search.found[node] \in Scores
    <3>1. search.found \in Partial /\ node \in DOMAIN search.found
      BY <2>1 DEF SearchTypeOK, Search, LeftIsSeen
    <3> QED
      BY <3>1, PartialScores
  <2>3. \A e \in new : e \in Evidence /\ e.node = node /\ e.revision = search.before
    <3>1. search.before \in 0 .. MaxEdits
      BY DEF SearchTypeOK, Search
    <3>2. \A c \in chunks :
             [chunk |-> c, node |-> node, named |-> FALSE, score |-> search.found[node],
              revision |-> search.before] \in Evidence
      BY <2>2, <3>1 DEF Evidence
    <3> QED
      BY <3>2 DEF Shows
  <2> HIDE DEF new
  <2>4. shown \subseteq Evidence
    BY <2>3 DEF SearchTypeOK, Search
  <2>5. next \in {"merge", "chunks"}
    BY <2>1
  <2> HIDE DEF next
  <2>6. /\ search' \in Search /\ search'.step = next /\ search'.evidence = search.evidence \cup new
        /\ search'.since = search.since /\ search'.before = search.before
        /\ search'.todo \subseteq search.todo /\ search'.found = search.found
    BY <2>1, <2>4, <2>5 DEF SearchTypeOK, Search, SearchStep
  <2>7. SearchTypeOK' /\ SnapshotsInOrder'
    BY <2>1, <2>6 DEF SearchTypeOK, SnapshotsInOrder
  <2>8. LeftIsSeen' /\ Answered'
    BY <2>1, <2>5, <2>6 DEF LeftIsSeen, Answered
  <2>9. EvidenceIsSeen'
    <3>1. node \in published.nodes[search.before]
      BY <2>1 DEF LeftIsSeen
    <3>2. \A e \in new : /\ search.since <= e.revision /\ e.revision <= published.indexed
                         /\ e.node \in published.nodes[e.revision]
      BY <2>3, <3>1 DEF SnapshotsInOrder
    <3> QED
      BY <2>1, <2>3, <2>5, <2>6, <3>2 DEF EvidenceIsSeen
  <2> QED
    BY <2>7, <2>8, <2>9
<1>2. CASE AllShown
  <2>1. /\ search.step = "chunks" /\ stock' = stock /\ published' = published
        /\ search' = [search EXCEPT !.step = "merge"]
    BY <1>2 DEF AllShown
  <2>2. /\ search' \in Search /\ search'.step = "merge" /\ search'.evidence = search.evidence
        /\ search'.since = search.since /\ search'.before = search.before
    BY <2>1 DEF SearchTypeOK, Search, SearchStep
  <2>3. SearchTypeOK' /\ SnapshotsInOrder'
    BY <2>1, <2>2 DEF SearchTypeOK, SnapshotsInOrder
  <2>4. LeftIsSeen' /\ Answered' /\ EvidenceIsSeen'
    BY <2>1, <2>2 DEF LeftIsSeen, Answered, EvidenceIsSeen
  <2> QED
    BY <2>3, <2>4
<1> QED
  BY <1>1, <1>2

LEMMA MergeStep == ASSUME SearchBounds, SearchInv, Merge PROVE SearchInv'
<1> USE DEF SearchInv
<1>1. PICK results : results = Shortened(Ranked(Merged), search.limit)
  OBVIOUS
<1>2. results \in Seq(Chunks) /\ Answers(results)
  BY <1>1, MergeAnswers
<1>3. /\ search.step = "merge" /\ stock' = stock /\ published' = published
      /\ search' = [search EXCEPT !.step = "done", !.results = results]
  BY <1>1 DEF Merge
<1>4. /\ search' \in Search /\ search'.step = "done" /\ search'.results = results
      /\ search'.evidence = search.evidence /\ search'.semantic = search.semantic
      /\ search'.lexical = search.lexical /\ search'.limit = search.limit
      /\ search'.since = search.since /\ search'.before = search.before
  BY <1>2, <1>3 DEF SearchTypeOK, Search, SearchStep
<1>5. Answers(results)'
  BY <1>2, <1>4, AnswersStays
<1>6. SearchTypeOK' /\ SnapshotsInOrder'
  BY <1>3, <1>4 DEF SearchTypeOK, SnapshotsInOrder
<1>7. LeftIsSeen' /\ EvidenceIsSeen'
  BY <1>3, <1>4 DEF LeftIsSeen, EvidenceIsSeen
<1>8. Answered'
  BY <1>4, <1>5 DEF Answered
<1> QED
  BY <1>6, <1>7, <1>8

LEMMA SearchInvKept ==
    ASSUME SearchBounds, SearchInv, [SearchNext]_searchVars PROVE SearchInv'
<1>1. CASE UNCHANGED searchVars
  <2>1. stock' = stock /\ published' = published /\ search' = search
    BY <1>1 DEF searchVars
  <2>2. SearchTypeOK' /\ SnapshotsInOrder' /\ LeftIsSeen' /\ EvidenceIsSeen'
    BY <2>1 DEF SearchInv, SearchTypeOK, SnapshotsInOrder, LeftIsSeen, EvidenceIsSeen
  <2>3. Answered'
    <3> SUFFICES ASSUME search.step = "done" PROVE Answers(search.results)'
      BY <2>1 DEF Answered
    <3>1. PICK results : results = search.results
      OBVIOUS
    <3>2. Answers(results)
      BY <3>1 DEF SearchInv, Answered
    <3>3. Answers(results)'
      BY <2>1, <3>2, AnswersStays
    <3> QED
      BY <2>1, <3>1, <3>3
  <2> QED
    BY <2>2, <2>3 DEF SearchInv
<1>2. CASE SearchNext
  BY <1>2, IndexSteps, BaselineSteps, StructuralSteps, ChunkSteps, MergeStep DEF SearchNext
<1> QED
  BY <1>1, <1>2

LEMMA SearchShown == ASSUME SearchInv PROVE SearchShowsStructure
BY DEF SearchInv, Answered, Answers, EvidenceIsSeen, SearchShowsStructure

\* A hybrid search keeps to its types, its snapshots and its index.
THEOREM SearchTypesHold == SearchSpec => []SearchTypeOK
<1>1. SearchInit => SearchInv
  BY SearchBegins, SearchBounds
<1>2. SearchInv /\ [SearchNext]_searchVars => SearchInv'
  BY SearchInvKept, SearchBounds
<1>3. SearchInv => SearchTypeOK
  BY DEF SearchInv
<1> QED
  BY <1>1, <1>2, <1>3, PTL DEF SearchSpec

\* Whatever is edited and published between the reads of a hybrid search,
\* the answer of hybrid_search_inner is the best of what it found, keeps a
\* structural result when there is one, and shows evidence of graphs that
\* were current since it began only.
THEOREM SearchesShowStructure == SearchSpec => []SearchShowsStructure
<1>1. SearchInit => SearchInv
  BY SearchBegins, SearchBounds
<1>2. SearchInv /\ [SearchNext]_searchVars => SearchInv'
  BY SearchInvKept, SearchBounds
<1>3. SearchInv => SearchShowsStructure
  BY SearchShown
<1> QED
  BY <1>1, <1>2, <1>3, PTL DEF SearchSpec

-----------------------------------------------------------------------------
(* Totals *)

\* The total of numbers is what adding one after another gives.
LEMMA TotalSums ==
    ASSUME NEW n \in Nat, NEW f \in [1 .. n -> Nat]
    PROVE  \E sum \in [0 .. n -> Nat] :
              /\ sum[0] = 0 /\ \A k \in 1 .. n : sum[k] = sum[k - 1] + f[k]
              /\ Total(f) = sum[n]
<1>1. f \in Seq(Nat) /\ Len(f) = n
  BY SeqDef, LenProperties
<1> DEFINE step == [k \in 1 .. n |-> [v \in Nat |-> v + f[k]]]
<1>2. step \in [1 .. n -> [Nat -> Nat]]
  OBVIOUS
<1>3. PICK sum \in [0 .. n -> Nat] :
         sum[0] = 0 /\ \A k \in 1 .. n : sum[k] = step[k][sum[k - 1]]
  <2> DEFINE base == 0
             V == Nat
             d == n
  <2>1. base \in V /\ d \in Nat
    OBVIOUS
  <2>2. step \in [1 .. d -> [V -> V]]
    BY <1>2
  <2> HIDE DEF step, base, V, d
  <2>3. \E sum \in [0 .. d -> V] :
           sum[0] = base /\ \A k \in 1 .. d : sum[k] = step[k][sum[k - 1]]
    BY <2>1, <2>2, Recursion
  <2> QED
    BY <2>3 DEF base, V, d
<1>4. ASSUME NEW k \in 1 .. n PROVE sum[k] = sum[k - 1] + f[k]
  <2>1. k - 1 \in 0 .. n
    OBVIOUS
  <2>2. sum[k - 1] \in Nat
    BY <2>1
  <2> QED
    BY <1>3, <2>2
<1> DEFINE Recursive(g) == g = [k \in 0 .. Len(f) |-> IF k = 0 THEN 0 ELSE g[k - 1] + f[k]]
<1>5. Recursive(sum)
  <2>1. sum = [k \in 0 .. n |-> sum[k]]
    OBVIOUS
  <2>2. ASSUME NEW k \in 0 .. n PROVE sum[k] = IF k = 0 THEN 0 ELSE sum[k - 1] + f[k]
    BY <1>3, <1>4
  <2> QED
    BY <1>1, <2>1, <2>2
<1>6. \A g : Recursive(g) => g[n] = sum[n]
  <2> SUFFICES ASSUME NEW g, Recursive(g) PROVE g[n] = sum[n]
    OBVIOUS
  <2> DEFINE Same == {k \in 0 .. n : g[k] = sum[k]}
  <2>1. \A k \in 0 .. n : g[k] = IF k = 0 THEN 0 ELSE g[k - 1] + f[k]
    BY <1>1
  <2>2. 0 \in Same
    BY <1>3, <2>1
  <2>3. \A k \in 0 .. n : k < n /\ k \in Same => k + 1 \in Same
    <3> TAKE k \in 0 .. n
    <3> HAVE k < n /\ k \in Same
    <3>1. k + 1 \in 1 .. n /\ (k + 1) - 1 = k /\ k + 1 \in 0 .. n /\ k + 1 # 0
      OBVIOUS
    <3>2. g[k + 1] = g[k] + f[k + 1]
      BY <2>1, <3>1
    <3>3. sum[k + 1] = sum[k] + f[k + 1]
      BY <3>1, <1>4
    <3> QED
      BY <3>1, <3>2, <3>3
  <2> HIDE DEF Same
  <2>4. \A k \in 0 .. n : k \in Same
    BY <2>2, <2>3, InductionUpTo
  <2>5. n \in 0 .. n
    OBVIOUS
  <2> QED
    BY <2>4, <2>5 DEF Same
<1>7. Total(f) = (CHOOSE g : Recursive(g))[n]
  BY <1>1 DEF Total
<1> HIDE DEF Recursive
<1>8. Recursive(CHOOSE g : Recursive(g))
  BY <1>5
<1>9. Total(f) = sum[n]
  BY <1>6, <1>7, <1>8
<1> QED
  BY <1>3, <1>4, <1>9

LEMMA TotalOne ==
    ASSUME NEW n \in Nat, NEW f \in [1 .. n -> Nat], NEW h \in [1 .. n + 1 -> Nat],
           \A k \in 1 .. n : h[k] = f[k]
    PROVE  Total(f) \in Nat /\ Total(h) = Total(f) + h[n + 1]
<1>1. PICK a \in [0 .. n -> Nat] :
         /\ a[0] = 0 /\ \A k \in 1 .. n : a[k] = a[k - 1] + f[k]
         /\ Total(f) = a[n]
  BY TotalSums
<1>2. PICK b \in [0 .. n + 1 -> Nat] :
         /\ b[0] = 0 /\ \A k \in 1 .. n + 1 : b[k] = b[k - 1] + h[k]
         /\ Total(h) = b[n + 1]
  <2>1. n + 1 \in Nat
    OBVIOUS
  <2> QED
    BY <2>1, TotalSums
<1> DEFINE Same == {k \in 0 .. n : a[k] = b[k]}
<1>3. 0 \in Same
  BY <1>1, <1>2
<1>4. \A k \in 0 .. n : k < n /\ k \in Same => k + 1 \in Same
  <2> TAKE k \in 0 .. n
  <2> HAVE k < n /\ k \in Same
  <2>1. k + 1 \in 1 .. n /\ (k + 1) - 1 = k /\ k + 1 \in 1 .. n + 1
    OBVIOUS
  <2>2. a[k + 1] = a[k] + f[k + 1] /\ b[k + 1] = b[k] + h[k + 1] /\ h[k + 1] = f[k + 1]
    BY <1>1, <1>2, <2>1
  <2> QED
    BY <2>1, <2>2
<1> HIDE DEF Same
<1>5. \A k \in 0 .. n : k \in Same
  BY <1>3, <1>4, InductionUpTo
<1>6. a[n] = b[n]
  <2>1. n \in 0 .. n
    OBVIOUS
  <2> QED
    BY <1>5, <2>1 DEF Same
<1>7. n + 1 \in 1 .. n + 1 /\ (n + 1) - 1 = n /\ n \in 0 .. n
  OBVIOUS
<1>8. b[n + 1] = b[n] + h[n + 1]
  BY <1>2, <1>7
<1> QED
  BY <1>1, <1>2, <1>6, <1>7, <1>8

LEMMA TotalNothing ==
    ASSUME NEW f \in [1 .. 0 -> Nat]
    PROVE  Total(f) = 0
<1>1. PICK sum \in [0 .. 0 -> Nat] : sum[0] = 0 /\ Total(f) = sum[0]
  BY TotalSums
<1> QED
  BY <1>1

-----------------------------------------------------------------------------
(* Items and what they cost *)

Item == {c \in Candidate : c.from <= c.to}

LEMMA ItemSize ==
    ASSUME NEW i \in Item
    PROVE  /\ Size(i) \in Nat /\ Size(i) >= 1
           /\ i.id \in Nat /\ i.from \in Nat /\ i.to \in Nat /\ i.priority \in 0 .. 3
           /\ i.score \in Nat /\ i.structural \in BOOLEAN /\ i.from <= i.to
BY DEF Item, Candidate, Size

LEMMA CostIs ==
    ASSUME NEW items \in Seq(Item)
    PROVE  Cost(items) \in Nat
<1> DEFINE n == Len(items)
           f == [i \in DOMAIN items |-> Size(items[i])]
<1>1. n \in Nat /\ DOMAIN items = 1 .. n /\ \A i \in 1 .. n : items[i] \in Item
  BY LenProperties, ElementOfSeq
<1>2. f \in [1 .. n -> Nat]
  BY <1>1, ItemSize
<1> HIDE DEF f, n
<1>3. Total(f) \in Nat
  <2>1. PICK sum \in [0 .. n -> Nat] : Total(f) = sum[n]
    BY <1>1, <1>2, TotalSums
  <2> QED
    BY <1>1, <2>1
<1> QED
  BY <1>3 DEF Cost, f

LEMMA CostMore ==
    ASSUME NEW items \in Seq(Item), NEW i \in Item
    PROVE  Cost(Append(items, i)) = Cost(items) + Size(i)
<1> DEFINE n == Len(items)
           t == Append(items, i)
           f == [k \in DOMAIN items |-> Size(items[k])]
           h == [k \in DOMAIN t |-> Size(t[k])]
<1>1. n \in Nat /\ DOMAIN items = 1 .. n /\ \A k \in 1 .. n : items[k] \in Item
  BY LenProperties, ElementOfSeq
<1>2. /\ t \in Seq(Item) /\ Len(t) = n + 1 /\ t[n + 1] = i
      /\ \A k \in 1 .. n : t[k] = items[k]
  BY AppendProperties
<1> HIDE DEF t
<1>3. DOMAIN t = 1 .. n + 1 /\ \A k \in 1 .. n + 1 : t[k] \in Item
  BY <1>2, LenProperties, ElementOfSeq
<1>4. f \in [1 .. n -> Nat] /\ h \in [1 .. n + 1 -> Nat]
  BY <1>1, <1>3, ItemSize
<1>5. n + 1 \in 1 .. n + 1 /\ \A k \in 1 .. n : k \in 1 .. n + 1
  BY <1>1
<1>6. h[n + 1] = Size(i) /\ \A k \in 1 .. n : h[k] = f[k]
  BY <1>1, <1>2, <1>3, <1>5
<1> HIDE DEF f, h, n
<1>7. Total(h) = Total(f) + h[n + 1]
  BY <1>1, <1>4, <1>6, TotalOne
<1> QED
  BY <1>6, <1>7 DEF Cost, f, h, t

LEMMA CostNothing == Cost(<<>>) = 0
<1>1. [i \in DOMAIN <<>> |-> Size(<<>>[i])] \in [1 .. 0 -> Nat]
  <2>1. DOMAIN <<>> = {} /\ 1 .. 0 = {}
    OBVIOUS
  <2> QED
    BY <2>1
<1> QED
  BY <1>1, TotalNothing DEF Cost

-----------------------------------------------------------------------------
(* Orders *)

Distinct(S) == \A c, d \in S : c.id = d.id => c = d

LEMMA AheadOrders ==
    ASSUME NEW c \in Item, NEW d \in Item, NEW e \in Item
    PROVE  /\ ~Ahead(c, c)
           /\ Ahead(c, d) => ~Ahead(d, c)
           /\ c.id # d.id => Ahead(c, d) \/ Ahead(d, c)
           /\ Ahead(c, d) /\ Ahead(d, e) => Ahead(c, e)
BY ItemSize DEF Ahead

LEMMA RequiredOrders ==
    ASSUME NEW c \in Item, NEW d \in Item, NEW e \in Item
    PROVE  /\ ~RequiredFirst(c, c)
           /\ RequiredFirst(c, d) => ~RequiredFirst(d, c)
           /\ c.id # d.id => RequiredFirst(c, d) \/ RequiredFirst(d, c)
           /\ RequiredFirst(c, d) /\ RequiredFirst(d, e) => RequiredFirst(c, e)
<1>1. c.priority \in Int /\ d.priority \in Int /\ e.priority \in Int
  BY ItemSize
<1> QED
  BY <1>1, AheadOrders DEF RequiredFirst

\* Products of positive numbers
LEMMA Scaled ==
    ASSUME NEW x \in Int, NEW y \in Int, NEW k \in Nat, k >= 1
    PROVE  /\ x * k \in Int /\ y * k \in Int
           /\ x > y <=> x * k > y * k
           /\ x = y <=> x * k = y * k
<1>1. x * k \in Int /\ y * k \in Int
  OBVIOUS
<1>2. x > y => x * k > y * k
  OBVIOUS
<1>3. y > x => y * k > x * k
  OBVIOUS
<1>4. x = y => x * k = y * k
  OBVIOUS
<1>5. x > y \/ x = y \/ y > x
  OBVIOUS
<1> QED
  BY <1>1, <1>2, <1>3, <1>4, <1>5

\* Of a over p, b over q and c over r
LEMMA Ratios ==
    ASSUME NEW a \in Nat, NEW b \in Nat, NEW c \in Nat,
           NEW p \in Nat, NEW q \in Nat, NEW r \in Nat, p >= 1, q >= 1, r >= 1,
           a * q >= b * p, b * r >= c * q
    PROVE  /\ a * r >= c * p
           /\ a * r = c * p => a * q = b * p /\ b * r = c * q
<1> DEFINE x == a * q
           y == b * p
           u == b * r
           v == c * q
           m == a * r
           n == c * p
<1>1. x \in Int /\ y \in Int /\ u \in Int /\ v \in Int /\ m \in Int /\ n \in Int
  OBVIOUS
<1>2. x * r = m * q /\ y * r = u * p /\ v * p = n * q
  OBVIOUS
<1>3. x >= y /\ u >= v
  OBVIOUS
<1> HIDE DEF x, y, u, v, m, n
<1>4. /\ x * r \in Int /\ y * r \in Int /\ u * p \in Int /\ v * p \in Int
      /\ m * q \in Int /\ n * q \in Int
  BY <1>1
<1>5. x * r >= y * r /\ (x * r = y * r => x = y)
  BY <1>1, <1>3, Scaled
<1>6. u * p >= v * p /\ (u * p = v * p => u = v)
  BY <1>1, <1>3, Scaled
<1>7. m * q >= n * q
  BY <1>2, <1>4, <1>5, <1>6
<1>8. m >= n
  BY <1>1, <1>7, Scaled
<1>9. ASSUME m = n PROVE x = y /\ u = v
  <2>1. m * q = n * q
    BY <1>9
  <2> QED
    BY <2>1, <1>2, <1>4, <1>5, <1>6
<1> QED
  BY <1>8, <1>9 DEF x, y, u, v, m, n

LEMMA WorthOrders ==
    ASSUME NEW c \in Item, NEW d \in Item, NEW e \in Item
    PROVE  /\ ~Worthier(c, c)
           /\ Worthier(c, d) => ~Worthier(d, c)
           /\ c.id # d.id => Worthier(c, d) \/ Worthier(d, c)
           /\ Worthier(c, d) /\ Worthier(d, e) => Worthier(c, e)
<1>1. ASSUME NEW x \in Item, NEW y \in Item
      PROVE  /\ x.score * Size(y) \in Int /\ x.score \in Nat
             /\ Size(x) \in Nat /\ Size(x) >= 1
  BY ItemSize
<1>2. /\ ~Worthier(c, c)
      /\ Worthier(c, d) => ~Worthier(d, c)
      /\ c.id # d.id => Worthier(c, d) \/ Worthier(d, c)
  <2> DEFINE left == c.score * Size(d)
             right == d.score * Size(c)
  <2>1. left \in Int /\ right \in Int
    BY <1>1
  <2>2. /\ Worthier(c, d) <=> left > right \/ (left = right /\ Ahead(c, d))
        /\ Worthier(d, c) <=> right > left \/ (right = left /\ Ahead(d, c))
    BY DEF Worthier
  <2> HIDE DEF left, right
  <2>3. ~Worthier(c, c)
    <3>1. c.score * Size(c) \in Int
      BY <1>1
    <3> QED
      BY <3>1, AheadOrders DEF Worthier
  <2> QED
    BY <2>1, <2>2, <2>3, AheadOrders
<1>3. ASSUME Worthier(c, d), Worthier(d, e) PROVE Worthier(c, e)
  <2>1. /\ c.score * Size(d) \in Int /\ d.score * Size(c) \in Int
        /\ d.score * Size(e) \in Int /\ e.score * Size(d) \in Int
        /\ c.score * Size(e) \in Int /\ e.score * Size(c) \in Int
    BY <1>1
  <2>2. c.score * Size(d) >= d.score * Size(c) /\ d.score * Size(e) >= e.score * Size(d)
    BY <1>3, <2>1 DEF Worthier
  <2>3. /\ c.score * Size(e) >= e.score * Size(c)
        /\ c.score * Size(e) = e.score * Size(c) =>
              /\ c.score * Size(d) = d.score * Size(c)
              /\ d.score * Size(e) = e.score * Size(d)
    <3>1. /\ c.score \in Nat /\ d.score \in Nat /\ e.score \in Nat
          /\ Size(c) \in Nat /\ Size(d) \in Nat /\ Size(e) \in Nat
          /\ Size(c) >= 1 /\ Size(d) >= 1 /\ Size(e) >= 1
      BY <1>1
    <3> DEFINE x == c.score
               y == d.score
               z == e.score
               p == Size(c)
               q == Size(d)
               r == Size(e)
    <3>2. /\ x \in Nat /\ y \in Nat /\ z \in Nat /\ p \in Nat /\ q \in Nat /\ r \in Nat
          /\ p >= 1 /\ q >= 1 /\ r >= 1 /\ x * q >= y * p /\ y * r >= z * q
      BY <3>1, <2>2
    <3> HIDE DEF x, y, z, p, q, r
    <3>3. x * r >= z * p /\ (x * r = z * p => x * q = y * p /\ y * r = z * q)
      BY <3>2, Ratios
    <3> QED
      BY <3>3 DEF x, y, z, p, q, r
  <2>4. CASE c.score * Size(e) > e.score * Size(c)
    BY <2>4 DEF Worthier
  <2>5. CASE c.score * Size(e) = e.score * Size(c)
    <3>1. Ahead(c, d) /\ Ahead(d, e)
      BY <2>1, <2>3, <2>5, <1>3 DEF Worthier
    <3> QED
      BY <3>1, <2>5, AheadOrders DEF Worthier
  <2> QED
    BY <2>1, <2>3, <2>4, <2>5
<1> QED
  BY <1>2, <1>3

LEMMA CandidatesOrdered ==
    ASSUME NEW S \in SUBSET Item, Distinct(S)
    PROVE  /\ StrictOrder([c \in S |-> {d \in S : RequiredFirst(d, c)}])
           /\ StrictOrder([c \in S |-> {d \in S : Worthier(d, c)}])
<1>1. \A c, d \in S : c = d \/ c.id # d.id
  BY DEF Distinct
<1>2. StrictOrder([c \in S |-> {d \in S : RequiredFirst(d, c)}])
  <2> DEFINE ahead == [c \in S |-> {d \in S : RequiredFirst(d, c)}]
  <2>1. ASSUME NEW x \in S, NEW y \in S
        PROVE  /\ ahead[x] \subseteq S /\ x \notin ahead[x]
               /\ x = y \/ x \in ahead[y] \/ y \in ahead[x]
               /\ x \in ahead[y] => ahead[x] \subseteq ahead[y]
    BY <1>1, RequiredOrders
  <2> QED
    BY <2>1 DEF StrictOrder
<1>3. StrictOrder([c \in S |-> {d \in S : Worthier(d, c)}])
  <2> DEFINE ahead == [c \in S |-> {d \in S : Worthier(d, c)}]
  <2>1. ASSUME NEW x \in S, NEW y \in S
        PROVE  /\ ahead[x] \subseteq S /\ x \notin ahead[x]
               /\ x = y \/ x \in ahead[y] \/ y \in ahead[x]
               /\ x \in ahead[y] => ahead[x] \subseteq ahead[y]
    BY <1>1, WorthOrders
  <2> QED
    BY <2>1 DEF StrictOrder
<1> QED
  BY <1>2, <1>3

\* In a finite set something is first, and something last.
LEMMA SomeFirst ==
    ASSUME NEW S \in SUBSET Item, Distinct(S), IsFiniteSet(S), S # {}
    PROVE  /\ \E x \in S : \A d \in S : ~RequiredFirst(d, x)
           /\ \E x \in S : \A d \in S : ~Worthier(d, x)
<1>1. ASSUME NEW ahead, StrictOrder(ahead), DOMAIN ahead = S
      PROVE  \E x \in S : \A d \in S : d \notin ahead[x]
  <2> DEFINE n == Cardinality(S)
  <2>1. n \in Nat /\ n # 0
    BY FS_CardinalityType, FS_EmptySet
  <2>2. 0 \in 0 .. n - 1
    BY <2>1
  <2>3. PICK x \in S : Cardinality(ahead[x]) = 0
    BY <1>1, <2>2, Ranks
  <2>4. ahead[x] \subseteq S
    BY <1>1 DEF StrictOrder
  <2>5. ahead[x] = {}
    BY <2>3, <2>4, FS_Subset, FS_EmptySet
  <2> QED
    BY <2>5
<1>2. \E x \in S : \A d \in S : ~RequiredFirst(d, x)
  <2> DEFINE ahead == [c \in S |-> {d \in S : RequiredFirst(d, c)}]
  <2>1. StrictOrder(ahead) /\ DOMAIN ahead = S
    BY CandidatesOrdered
  <2>2. \A x \in S, d \in S : RequiredFirst(d, x) => d \in ahead[x]
    OBVIOUS
  <2> HIDE DEF ahead
  <2>3. \E x \in S : \A d \in S : d \notin ahead[x]
    BY <1>1, <2>1
  <2> QED
    BY <2>2, <2>3
<1>3. \E x \in S : \A d \in S : ~Worthier(d, x)
  <2> DEFINE ahead == [c \in S |-> {d \in S : Worthier(d, c)}]
  <2>1. StrictOrder(ahead) /\ DOMAIN ahead = S
    BY CandidatesOrdered
  <2>2. \A x \in S, d \in S : Worthier(d, x) => d \in ahead[x]
    OBVIOUS
  <2> HIDE DEF ahead
  <2>3. \E x \in S : \A d \in S : d \notin ahead[x]
    BY <1>1, <2>1
  <2> QED
    BY <2>2, <2>3
<1> QED
  BY <1>2, <1>3

LEMMA SomeLast ==
    ASSUME NEW S \in SUBSET Item, Distinct(S), IsFiniteSet(S), S # {}
    PROVE  \E x \in S : \A d \in S : ~RequiredFirst(x, d)
<1> DEFINE ahead == [c \in S |-> {d \in S : RequiredFirst(d, c)}]
           n == Cardinality(S)
<1>1. StrictOrder(ahead) /\ DOMAIN ahead = S
  BY CandidatesOrdered
<1>2. \A x \in S, d \in S : RequiredFirst(x, d) => x \in ahead[d]
  OBVIOUS
<1> HIDE DEF ahead
<1>3. n \in Nat /\ n # 0
  BY FS_CardinalityType, FS_EmptySet
<1>4. n - 1 \in 0 .. n - 1
  BY <1>3
<1>5. PICK x \in S : Cardinality(ahead[x]) = n - 1
  BY <1>1, <1>4, Ranks
<1>6. ASSUME NEW d \in S, x \in ahead[d] PROVE FALSE
  <2>1. Cardinality(ahead[x]) < Cardinality(ahead[d])
    BY <1>1, <1>6, Ranks
  <2>2. Cardinality(ahead[d]) \in 0 .. n - 1
    BY <1>1, Ranks
  <2> QED
    BY <1>3, <1>5, <2>1, <2>2
<1> QED
  BY <1>2, <1>6

-----------------------------------------------------------------------------
(* The bounded pool *)

\* What is required at least as much as c, c among it
NeededBefore(c, S) == {d \in S : d.priority < 3 /\ ~RequiredFirst(c, d)}

\* A required source stays in the bounded pool unless there are too many.
LEMMA RequiredRetained ==
    ASSUME NEW S \in SUBSET Item, Distinct(S), IsFiniteSet(S), NEW limit \in Nat,
           NEW c \in S, c.priority < 3, ~(Cardinality(NeededBefore(c, S)) > limit)
    PROVE  c \in Retained(S, limit)
<1> DEFINE before == {d \in S : RequiredFirst(d, c)}
           kept == {x \in S : Cardinality({d \in S : RequiredFirst(d, x)}) < limit}
           free == {x \in kept : x.priority = 3}
           structural == {x \in S : x.structural}
<1>1. NeededBefore(c, S) = before \cup {c}
  <2>1. ASSUME NEW d \in S
        PROVE  d \in NeededBefore(c, S) <=> d \in before \cup {c}
    <3>1. d.priority \in Int /\ c.priority \in Int
      BY ItemSize
    <3>2. RequiredFirst(d, c) => d.priority < 3
      BY <3>1 DEF RequiredFirst
    <3>3. d = c \/ RequiredFirst(d, c) \/ RequiredFirst(c, d)
      BY RequiredOrders DEF Distinct
    <3>4. ~RequiredFirst(c, c) /\ (RequiredFirst(d, c) => ~RequiredFirst(c, d))
      BY RequiredOrders
    <3> QED
      BY <3>2, <3>3, <3>4 DEF NeededBefore
  <2> QED
    BY <2>1 DEF NeededBefore
<1>2. IsFiniteSet(before) /\ Cardinality(before) \in Nat /\ c \notin before
  <2>1. IsFiniteSet(before)
    BY FS_Subset
  <2>2. c \notin before
    BY RequiredOrders
  <2> QED
    BY <2>1, <2>2, FS_CardinalityType
<1>3. Cardinality(before \cup {c}) = Cardinality(before) + 1
  BY <1>2, FS_AddElement
<1>4. Cardinality(before) < limit
  BY <1>1, <1>2, <1>3
<1>5. c \in kept
  BY <1>4
<1>6. c \notin free
  BY ItemSize
<1> HIDE DEF kept, free, structural
<1>7. CASE free = {} \/ structural = {} \/ structural \cap kept # {}
  BY <1>5, <1>7 DEF Retained, kept, free, structural
<1>8. CASE ~(free = {} \/ structural = {} \/ structural \cap kept # {})
  <2> DEFINE last == CHOOSE x \in free : \A d \in free : ~RequiredFirst(x, d)
             best == CHOOSE x \in structural : \A d \in structural : ~RequiredFirst(d, x)
  <2>1. Retained(S, limit) = (kept \ {last}) \cup {best}
    BY <1>8 DEF Retained, kept, free, structural
  <2>2. last \in free
    <3>1. IsFiniteSet(free) /\ free \in SUBSET Item /\ Distinct(free)
      <4>1. free \in SUBSET S
        BY DEF free, kept
      <4> QED
        BY <4>1, FS_Subset DEF Distinct
    <3>2. \E x \in free : \A d \in free : ~RequiredFirst(x, d)
      BY <3>1, <1>8, SomeLast
    <3> QED
      BY <3>2
  <2>3. c # last
    BY <2>2, <1>6
  <2> QED
    BY <2>1, <2>3, <1>5
<1> QED
  BY <1>7, <1>8

LEMMA RetainedKeeps ==
    ASSUME NEW S \in SUBSET Item, Distinct(S), IsFiniteSet(S), NEW limit \in Nat
    PROVE  Retained(S, limit) \in SUBSET S
<1> DEFINE kept == {x \in S : Cardinality({d \in S : RequiredFirst(d, x)}) < limit}
           free == {x \in kept : x.priority = 3}
           structural == {x \in S : x.structural}
<1>1. kept \subseteq S /\ structural \subseteq S
  OBVIOUS
<1> HIDE DEF kept, free, structural
<1>2. CASE free = {} \/ structural = {} \/ structural \cap kept # {}
  BY <1>1, <1>2 DEF Retained, kept, free, structural
<1>3. CASE ~(free = {} \/ structural = {} \/ structural \cap kept # {})
  <2> DEFINE last == CHOOSE x \in free : \A d \in free : ~RequiredFirst(x, d)
             best == CHOOSE x \in structural : \A d \in structural : ~RequiredFirst(d, x)
  <2>1. Retained(S, limit) = (kept \ {last}) \cup {best}
    BY <1>3 DEF Retained, kept, free, structural
  <2>2. best \in structural
    <3>1. IsFiniteSet(structural) /\ structural \in SUBSET Item /\ Distinct(structural)
      BY <1>1, FS_Subset DEF Distinct
    <3>2. \E x \in structural : \A d \in structural : ~RequiredFirst(d, x)
      BY <3>1, <1>3, SomeFirst
    <3> QED
      BY <3>2
  <2> QED
    BY <1>1, <2>1, <2>2
<1> QED
  BY <1>2, <1>3

-----------------------------------------------------------------------------
(* One source is added *)

\* All or a part of a source
Part(i, c) ==
    /\ i \in Item /\ i.id = c.id /\ i.priority = c.priority /\ i.structural = c.structural
    /\ i.kind = c.kind /\ i.from = c.from

LEMMA PrefixIs ==
    ASSUME NEW c \in Item, NEW items \in Seq(Item), NEW available \in Int
    PROVE  LET result == AddPrefix(c, items, available)
           IN  \/ result = items /\ (Size(c) > MaxItemTokens \/ available <= 0)
               \/ \E i \in Item : /\ Part(i, c) /\ Size(i) <= available
                                  /\ result = Append(items, i)
                                  /\ i = c \/ Size(i) = available
<1>1. MaxItemTokens \in Nat
  BY PacketBounds
<1>2. Size(c) \in Nat /\ Size(c) >= 1
  BY ItemSize
<1>3. CASE Size(c) <= MaxItemTokens /\ Size(c) > available /\ available > 0
  <2> DEFINE i == [c EXCEPT !.to = c.from + available - 1]
  <2>1. i \in Item /\ Part(i, c) /\ Size(i) = available
    <3> DEFINE end == c.from + available - 1
    <3>1. c.from \in Nat /\ end \in Nat /\ end >= c.from /\ end - c.from + 1 = available
      BY <1>3, ItemSize
    <3> HIDE DEF end
    <3>2. c \in Candidate
      BY DEF Item
    <3> DEFINE j == [c EXCEPT !.to = end]
    <3>3. /\ j \in Candidate /\ j.from = c.from /\ j.to = end /\ j.id = c.id
          /\ j.priority = c.priority /\ j.structural = c.structural /\ j.kind = c.kind
      BY <3>1, <3>2 DEF Candidate
    <3> HIDE DEF j
    <3>4. j \in Item /\ Part(j, c) /\ Size(j) = available
      BY <3>1, <3>3 DEF Item, Part, Size
    <3> QED
      BY <3>4 DEF j, end
  <2>2. AddPrefix(c, items, available) = Append(items, i)
    BY <1>3 DEF AddPrefix
  <2> HIDE DEF i
  <2>3. Size(i) <= available
    BY <2>1
  <2> QED
    BY <2>1, <2>2, <2>3
<1>4. CASE Size(c) <= MaxItemTokens /\ Size(c) <= available
  <2>1. AddPrefix(c, items, available) = Append(items, c)
    BY <1>2, <1>4 DEF AddPrefix, AddWhole
  <2>2. Part(c, c)
    BY DEF Part
  <2> QED
    BY <2>1, <2>2, <1>4
<1>5. CASE Size(c) > MaxItemTokens \/ (Size(c) > available /\ available <= 0)
  <2>1. AddPrefix(c, items, available) = items
    BY <1>1, <1>2, <1>5 DEF AddPrefix, AddWhole
  <2> QED
    BY <2>1, <1>5
<1> QED
  BY <1>1, <1>2, <1>3, <1>4, <1>5

LEMMA WholeIs ==
    ASSUME NEW c \in Item, NEW items \in Seq(Item), NEW available \in Int
    PROVE  LET result == AddWhole(c, items, available)
           IN  \/ result = items
               \/ Size(c) <= available /\ result = Append(items, c)
BY DEF AddWhole

Passes == {"required", "shares", "rest"}

\* What a pass makes of one source: nothing, or one more item that has room.
LEMMA AddIs ==
    ASSUME NEW pass \in Passes, NEW c \in Item, NEW items \in Seq(Item), NEW budget \in Int
    PROVE  LET result == Add(pass, c, items, budget)
           IN  /\ result \in Seq(Item)
               /\ \/ result = items
                  \/ \E i \in Item :
                        /\ Part(i, c) /\ Size(i) <= budget - Cost(items)
                        /\ result = Append(items, i)
                        /\ pass # "required" => i = c /\ ~Taken(c, items)
<1> DEFINE available == budget - Cost(items)
           result == Add(pass, c, items, budget)
<1>1. available \in Int
  BY CostIs
<1>2. \/ result = items
      \/ \E i \in Item : /\ Part(i, c) /\ Size(i) <= available
                         /\ result = Append(items, i)
                         /\ pass # "required" => i = c /\ ~Taken(c, items)
  <2> HIDE DEF available
  <2>1. CASE pass = "required"
    <3>1. result = IF Redundant(c, ToSet(items)) THEN items ELSE AddPrefix(c, items, available)
      BY <2>1 DEF Add, AddRequired, available
    <3> HIDE DEF result
    <3>2. \/ AddPrefix(c, items, available) = items
          \/ \E i \in Item : /\ Part(i, c) /\ Size(i) <= available
                             /\ AddPrefix(c, items, available) = Append(items, i)
      BY <1>1, PrefixIs
    <3> QED
      BY <2>1, <3>1, <3>2
  <2>2. CASE pass # "required"
    <3>1. \/ result = items
          \/ ~Taken(c, items) /\ result = AddWhole(c, items, available)
      <4>1. CASE pass = "shares"
        BY <4>1 DEF Add, AddWithinShare, Open, available
      <4>2. CASE pass = "rest"
        BY <4>2 DEF Add, AddWithinBudget, Open, available
      <4> QED
        BY <2>2, <4>1, <4>2 DEF Passes
    <3>2. \/ AddWhole(c, items, available) = items
          \/ Size(c) <= available /\ AddWhole(c, items, available) = Append(items, c)
      BY <1>1, WholeIs
    <3>3. Part(c, c)
      BY DEF Part
    <3> HIDE DEF result
    <3> QED
      BY <2>2, <3>1, <3>2, <3>3
  <2> QED
    BY <2>1, <2>2
<1> HIDE DEF result
<1>3. result \in Seq(Item)
  BY <1>2, AppendProperties
<1> QED
  BY <1>2, <1>3 DEF result

Passing(pass, order, items, budget, d) ==
    CHOOSE g : g = [k \in 0 .. d |-> IF k = 0 THEN items
                       ELSE Add(pass, order[k], g[k - 1], budget)]

\* The items after each source, in V.
StepByStep(pass, order, items, budget, V, d) ==
    \E after \in [0 .. d -> V] :
       /\ after[0] = items
       /\ \A k \in 1 .. d : after[k] = Add(pass, order[k], after[k - 1], budget)
       /\ after[d] = Passing(pass, order, items, budget, d)[d]

LEMMA AddAllIs ==
    ASSUME NEW pass, NEW order, NEW items, NEW budget, NEW V, NEW d \in Nat,
           items \in V, \A k \in 1 .. d : \A v \in V : Add(pass, order[k], v, budget) \in V
    PROVE  StepByStep(pass, order, items, budget, V, d)
<1> DEFINE step == [k \in 1 .. d |-> [v \in V |-> Add(pass, order[k], v, budget)]]
           Recursive(g) == g = [k \in 0 .. d |-> IF k = 0 THEN items
                                   ELSE Add(pass, order[k], g[k - 1], budget)]
<1>1. step \in [1 .. d -> [V -> V]]
  OBVIOUS
<1> HIDE DEF step
<1>2. PICK f \in [0 .. d -> V] : f[0] = items /\ \A k \in 1 .. d : f[k] = step[k][f[k - 1]]
  BY <1>1, Recursion
<1>3. ASSUME NEW k \in 1 .. d
      PROVE  k - 1 \in 0 .. d /\ f[k] = Add(pass, order[k], f[k - 1], budget)
  <2>1. k - 1 \in 0 .. d
    OBVIOUS
  <2>2. f[k - 1] \in V
    BY <2>1
  <2> QED
    BY <1>2, <2>1, <2>2 DEF step
<1>4. \E g : Recursive(g)
  <2>1. f = [k \in 0 .. d |-> f[k]]
    OBVIOUS
  <2>2. \A k \in 0 .. d : k = 0 \/ k \in 1 .. d
    OBVIOUS
  <2>3. \A k \in 0 .. d : f[k] = IF k = 0 THEN items ELSE Add(pass, order[k], f[k - 1], budget)
    BY <1>2, <1>3, <2>2
  <2>4. Recursive(f)
    BY <2>1, <2>3
  <2> QED
    BY <2>4
<1> DEFINE g == CHOOSE g : Recursive(g)
<1>5. g[d] = Passing(pass, order, items, budget, d)[d]
  BY DEF Passing
<1>6. Recursive(g)
  BY <1>4
<1>7. /\ g = [k \in 0 .. d |-> g[k]]
      /\ \A k \in 0 .. d : g[k] = IF k = 0 THEN items ELSE Add(pass, order[k], g[k - 1], budget)
  BY <1>6
<1> HIDE DEF Recursive, g
<1> DEFINE Typed == {k \in 0 .. d : g[k] \in V}
<1>8. 0 \in Typed
  <2>1. 0 \in 0 .. d
    OBVIOUS
  <2>2. g[0] = items
    BY <1>7, <2>1
  <2> QED
    BY <2>1, <2>2
<1>9. \A k \in 0 .. d : k < d /\ k \in Typed => k + 1 \in Typed
  <2> TAKE k \in 0 .. d
  <2> HAVE k < d /\ k \in Typed
  <2>1. k + 1 \in 1 .. d /\ (k + 1) - 1 = k /\ k + 1 \in 0 .. d /\ k + 1 # 0
    OBVIOUS
  <2>2. g[k + 1] = Add(pass, order[k + 1], g[k], budget)
    BY <1>7, <2>1
  <2> QED
    BY <2>1, <2>2
<1> HIDE DEF Typed
<1>10. \A k \in 0 .. d : k \in Typed
  BY <1>8, <1>9, InductionUpTo
<1>11. g \in [0 .. d -> V]
  BY <1>7, <1>10 DEF Typed
<1>12. g[0] = items /\ \A k \in 1 .. d : g[k] = Add(pass, order[k], g[k - 1], budget)
  <2>1. 0 \in 0 .. d /\ \A k \in 1 .. d : k \in 0 .. d /\ k # 0
    OBVIOUS
  <2> QED
    BY <1>7, <2>1
<1> QED
  BY <1>5, <1>11, <1>12 DEF StepByStep

AddsInSteps(pass, order, items, budget, d) ==
    /\ StepByStep(pass, order, items, budget, Seq(Item), d)
    /\ AddAll(pass, order, items, budget) = Passing(pass, order, items, budget, d)[d]

\* A pass adds one source after another.
LEMMA AddAllAdds ==
    ASSUME NEW pass \in Passes, NEW order \in Seq(Item), NEW items \in Seq(Item),
           NEW budget \in Int
    PROVE  AddsInSteps(pass, order, items, budget, Len(order))
<1> DEFINE V == Seq(Item)
           d == Len(order)
<1>1. d \in Nat /\ \A k \in 1 .. d : order[k] \in Item
  BY LenProperties, ElementOfSeq
<1>2. \A k \in 1 .. d : \A v \in V : Add(pass, order[k], v, budget) \in V
  BY <1>1, AddIs
<1>3. items \in V
  OBVIOUS
<1> HIDE DEF V, d
<1>4. StepByStep(pass, order, items, budget, V, d)
  BY <1>1, <1>2, <1>3, AddAllIs
<1>5. AddAll(pass, order, items, budget) = Passing(pass, order, items, budget, d)[d]
  BY DEF AddAll, Passing, d
<1> QED
  BY <1>4, <1>5 DEF V, d, AddsInSteps

LEMMA StepsAdd ==
    ASSUME NEW pass, NEW order, NEW items, NEW budget, NEW d,
           AddsInSteps(pass, order, items, budget, d)
    PROVE  \E after \in [0 .. d -> Seq(Item)] :
              /\ after[0] = items
              /\ \A k \in 1 .. d : after[k] = Add(pass, order[k], after[k - 1], budget)
              /\ AddAll(pass, order, items, budget) = after[d]
BY DEF AddsInSteps, StepByStep

-----------------------------------------------------------------------------
(* What every pass keeps *)

\* A required source is in the packet, or can never be, or has lost its room to
\* others of "done" that are required at least as much.
Settled(c, items, done, budget) ==
    \/ Size(c) > MaxItemTokens \/ c \in ToSet(items)
    \/ Redundant(c, {i \in ToSet(items) : i.id # c.id})
    \/ /\ Cost(items) >= budget
       /\ \A i \in ToSet(items) : \E d \in done : ~RequiredFirst(c, d) /\ d.id = i.id

\* The items are of the sources "given", and those of "done" are settled.
Packs(items, given, done, budget) ==
    /\ items \in Seq(Item) /\ Cost(items) <= budget
    /\ \A i, j \in 1 .. Len(items) : items[i].id = items[j].id => i = j
    /\ \A i \in ToSet(items) :
          /\ \E c \in given : c.id = i.id
          /\ i \in given \/ i.priority < 3 \/ i.structural
    /\ \A c \in done : Settled(c, items, done, budget)

LEMMA ItemsOf ==
    ASSUME NEW S, NEW items \in Seq(S)
    PROVE  /\ Len(items) \in Nat /\ DOMAIN items = 1 .. Len(items)
           /\ ToSet(items) \subseteq S
           /\ \A k \in 1 .. Len(items) : items[k] \in ToSet(items)
           /\ \A i \in ToSet(items) : \E k \in 1 .. Len(items) : i = items[k]
BY LenProperties, ElementOfSeq DEF ToSet

LEMMA ItemsMore ==
    ASSUME NEW S, NEW items \in Seq(S), NEW i \in S
    PROVE  LET t == Append(items, i)
           IN  /\ t \in Seq(S) /\ Len(t) = Len(items) + 1
               /\ ToSet(t) = ToSet(items) \cup {i}
               /\ t[Len(items) + 1] = i /\ \A k \in 1 .. Len(items) : t[k] = items[k]
<1> DEFINE t == Append(items, i)
<1>1. /\ t \in Seq(S) /\ Len(t) = Len(items) + 1
      /\ t[Len(items) + 1] = i /\ \A k \in 1 .. Len(items) : t[k] = items[k]
  BY AppendProperties
<1> HIDE DEF t
<1>2. Len(items) \in Nat /\ DOMAIN items = 1 .. Len(items) /\ DOMAIN t = 1 .. Len(items) + 1
  BY <1>1, ItemsOf
<1>3. 1 .. Len(items) + 1 = (1 .. Len(items)) \cup {Len(items) + 1}
  BY <1>2
<1>4. ToSet(t) = {t[k] : k \in 1 .. Len(items)} \cup {t[Len(items) + 1]}
  BY <1>2, <1>3 DEF ToSet
<1>5. {t[k] : k \in 1 .. Len(items)} = ToSet(items)
  BY <1>1, <1>2 DEF ToSet
<1> QED
  BY <1>1, <1>4, <1>5 DEF t

LEMMA RedundantStill ==
    ASSUME NEW c, NEW present, NEW more, present \subseteq more, Redundant(c, present)
    PROVE  Redundant(c, more)
BY DEF Redundant

LEMMA NothingPacked ==
    ASSUME NEW budget \in Nat
    PROVE  Packs(<<>>, {}, {}, budget)
<1>1. <<>> \in Seq(Item) /\ Len(<<>>) = 0 /\ ToSet(<<>>) = {} /\ 1 .. 0 = {}
  BY DEF ToSet
<1> QED
  BY <1>1, CostNothing DEF Packs

\* One more item, where there is room
LEMMA PacksMore ==
    ASSUME NEW given, NEW done, NEW budget \in Nat, NEW items,
           Packs(items, given, done, budget),
           NEW c \in Item, NEW i \in Item, Part(i, c), Size(i) <= budget - Cost(items),
           \A j \in ToSet(items) : j.id # c.id,
           i = c \/ c.priority < 3 \/ c.structural
    PROVE  Packs(Append(items, i), given \cup {c}, done, budget)
<1> DEFINE t == Append(items, i)
           n == Len(items)
<1>1. items \in Seq(Item) /\ Cost(items) <= budget /\ Cost(items) \in Nat
  BY CostIs DEF Packs
<1>2. Size(i) \in Nat /\ Size(i) >= 1 /\ i.id = c.id /\ i.priority = c.priority
      /\ i.structural = c.structural
  BY ItemSize DEF Part
<1>3. /\ t \in Seq(Item) /\ Len(t) = n + 1 /\ ToSet(t) = ToSet(items) \cup {i}
      /\ t[n + 1] = i /\ \A k \in 1 .. n : t[k] = items[k]
  BY <1>1, ItemsMore
<1>4. Cost(t) = Cost(items) + Size(i)
  BY <1>1, CostMore
<1>5. n \in Nat /\ \A k \in 1 .. n : items[k] \in ToSet(items)
  BY <1>1, ItemsOf
<1> HIDE DEF t, n
<1>6. Cost(t) <= budget
  BY <1>1, <1>2, <1>4
<1>7. ASSUME NEW k \in 1 .. Len(t), NEW l \in 1 .. Len(t), t[k].id = t[l].id PROVE k = l
  <2>1. \A m \in 1 .. Len(t) : m = n + 1 \/ m \in 1 .. n
    BY <1>3, <1>5
  <2>2. \A m \in 1 .. n : t[m].id # t[n + 1].id
    BY <1>2, <1>3, <1>5
  <2>3. CASE k \in 1 .. n /\ l \in 1 .. n
    <3>1. \A a, b \in 1 .. n : items[a].id = items[b].id => a = b
      BY DEF Packs, n
    <3> QED
      BY <3>1, <2>3, <1>3, <1>7
  <2> QED
    BY <2>1, <2>2, <2>3, <1>7
<1>8. ASSUME NEW j \in ToSet(t)
      PROVE  /\ \E x \in given \cup {c} : x.id = j.id
             /\ j \in given \cup {c} \/ j.priority < 3 \/ j.structural
  <2>1. CASE j \in ToSet(items)
    BY <2>1 DEF Packs
  <2>2. CASE j = i
    BY <2>2, <1>2
  <2> QED
    BY <2>1, <2>2, <1>3
<1>9. ASSUME NEW x \in done PROVE Settled(x, t, done, budget)
  <2>1. Settled(x, items, done, budget)
    BY DEF Packs
  <2>2. ~(Cost(items) >= budget)
    BY <1>1, <1>2
  <2>3. {j \in ToSet(items) : j.id # x.id} \subseteq {j \in ToSet(t) : j.id # x.id}
    BY <1>3
  <2>4. \/ Size(x) > MaxItemTokens \/ x \in ToSet(items)
        \/ Redundant(x, {j \in ToSet(items) : j.id # x.id})
    BY <2>1, <2>2 DEF Settled
  <2> QED
    BY <2>3, <2>4, <1>3, RedundantStill DEF Settled
<1> QED
  BY <1>3, <1>6, <1>7, <1>8, <1>9 DEF Packs, t

LEMMA PacksGiven ==
    ASSUME NEW given, NEW more, NEW done, NEW budget, NEW items,
           Packs(items, given, done, budget), given \subseteq more
    PROVE  Packs(items, more, done, budget)
BY DEF Packs

\* The next of the required sources
LEMMA PacksRequired ==
    ASSUME NEW done \in SUBSET Item, NEW budget \in Nat, NEW items,
           Packs(items, done, done, budget),
           NEW c \in Item, c.priority < 3, \A d \in done : d.id # c.id /\ RequiredFirst(d, c)
    PROVE  Packs(Add("required", c, items, budget), done \cup {c}, done \cup {c}, budget)
<1> DEFINE more == done \cup {c}
           result == Add("required", c, items, budget)
           available == budget - Cost(items)
<1>1. items \in Seq(Item) /\ Cost(items) <= budget /\ Cost(items) \in Nat
  BY CostIs DEF Packs
<1>2. available \in Int
  BY <1>1
<1>3. result = IF Redundant(c, ToSet(items)) THEN items ELSE AddPrefix(c, items, available)
  BY DEF Add, AddRequired
<1>4. \A i \in ToSet(items) : i.id # c.id
  BY DEF Packs
<1>5. \A i \in ToSet(items) : \E d \in done : ~RequiredFirst(c, d) /\ d.id = i.id
  <2> TAKE i \in ToSet(items)
  <2>1. PICK d \in done : d.id = i.id
    BY DEF Packs
  <2>2. ~RequiredFirst(c, d)
    BY <2>1, RequiredOrders
  <2> QED
    BY <2>1, <2>2
<1>6. ~RequiredFirst(c, c)
  BY RequiredOrders
<1> HIDE DEF available, result
<1>7. ASSUME NEW t, Packs(t, more, done, budget), Settled(c, t, more, budget)
      PROVE  Packs(t, more, more, budget)
  <2>1. ASSUME NEW x \in done PROVE Settled(x, t, more, budget)
    <3>1. Settled(x, t, done, budget)
      BY <1>7 DEF Packs
    <3> QED
      BY <3>1 DEF Settled
  <2> QED
    BY <2>1, <1>7 DEF Packs
<1>8. Packs(items, more, done, budget)
  BY PacksGiven
<1>9. CASE Redundant(c, ToSet(items))
  <2>1. {i \in ToSet(items) : i.id # c.id} = ToSet(items)
    BY <1>4
  <2>2. Settled(c, items, more, budget)
    BY <2>1, <1>9 DEF Settled
  <2> QED
    BY <2>2, <1>3, <1>7, <1>8, <1>9 DEF result
<1>10. CASE ~Redundant(c, ToSet(items))
  <2>1. result = AddPrefix(c, items, available)
    BY <1>3, <1>10
  <2>2. CASE result = items /\ (Size(c) > MaxItemTokens \/ available <= 0)
    <3>1. available <= 0 => Cost(items) >= budget
      BY <1>1 DEF available
    <3>2. Settled(c, items, more, budget)
      BY <3>1, <2>2, <1>5 DEF Settled
    <3> QED
      BY <3>2, <2>2, <1>7, <1>8 DEF result
  <2>3. ASSUME NEW i \in Item, Part(i, c), Size(i) <= available,
               result = Append(items, i), i = c \/ Size(i) = available
        PROVE  Packs(result, more, more, budget)
    <3>1. Packs(result, more, done, budget)
      BY <2>3, <1>4, PacksMore DEF available
    <3>2. ToSet(result) = ToSet(items) \cup {i} /\ Cost(result) = Cost(items) + Size(i)
      BY <1>1, <2>3, ItemsMore, CostMore
    <3>3. CASE i = c
      BY <3>1, <3>2, <3>3, <1>7 DEF Settled
    <3>4. CASE Size(i) = available
      <4>1. Cost(result) >= budget
        BY <3>2, <3>4, <1>1 DEF available
      <4>2. i.id = c.id
        BY <2>3 DEF Part
      <4>3. \A j \in ToSet(result) : \E d \in more : ~RequiredFirst(c, d) /\ d.id = j.id
        BY <3>2, <4>2, <1>5, <1>6
      <4> QED
        BY <3>1, <4>1, <4>3, <1>7 DEF Settled
    <3> QED
      BY <2>3, <3>3, <3>4
  <2>4. \/ result = items /\ (Size(c) > MaxItemTokens \/ available <= 0)
        \/ \E i \in Item : /\ Part(i, c) /\ Size(i) <= available /\ result = Append(items, i)
                           /\ i = c \/ Size(i) = available
    BY <1>1, <1>2, <2>1, PrefixIs
  <2> QED
    BY <2>2, <2>3, <2>4 DEF result
<1> QED
  BY <1>9, <1>10

-----------------------------------------------------------------------------
(* build_context_packet *)

\* The required sources come first, those that are required most before others.
LEMMA RequiredPacked ==
    ASSUME NEW needed \in SUBSET Item, Distinct(needed), IsFiniteSet(needed),
           \A c \in needed : c.priority < 3, NEW budget \in Nat
    PROVE  LET order == InOrder([c \in needed |-> {d \in needed : RequiredFirst(d, c)}])
               items == AddAll("required", order, <<>>, budget)
           IN  Packs(items, needed, needed, budget)
<1> DEFINE ahead == [c \in needed |-> {d \in needed : RequiredFirst(d, c)}]
           order == InOrder(ahead)
           n == Cardinality(needed)
<1>1. StrictOrder(ahead) /\ DOMAIN ahead = needed
  BY CandidatesOrdered
<1>2. \A c, d \in needed : d \in ahead[c] => RequiredFirst(d, c)
  OBVIOUS
<1> HIDE DEF ahead
<1>3. /\ n \in Nat /\ Len(order) = n /\ order \in Seq(needed)
      /\ \A c \in needed : \E k \in 1 .. n : order[k] = c
      /\ \A k, l \in 1 .. n : order[k] = order[l] => k = l
      /\ \A k, l \in 1 .. n : k < l <=> order[k] \in ahead[order[l]]
  BY <1>1, Arranged
<1>4. \A k \in 1 .. n : order[k] \in needed /\ order[k] \in Item
  BY <1>3, ElementOfSeq
<1> HIDE DEF order, n
<1>5. PICK after \in [0 .. n -> Seq(Item)] :
         /\ after[0] = <<>>
         /\ \A k \in 1 .. n : after[k] = Add("required", order[k], after[k - 1], budget)
         /\ AddAll("required", order, <<>>, budget) = after[n]
  <2>1. order \in Seq(Item)
    BY <1>3
  <2>2. <<>> \in Seq(Item) /\ "required" \in Passes /\ budget \in Int
    BY DEF Passes
  <2>3. AddsInSteps("required", order, <<>>, budget, Len(order))
    BY <2>1, <2>2, AddAllAdds
  <2>4. AddsInSteps("required", order, <<>>, budget, n)
    BY <2>3, <1>3
  <2> QED
    BY <2>4, StepsAdd
<1> DEFINE done(k) == {order[l] : l \in 1 .. k}
           Good == {k \in 0 .. n : Packs(after[k], done(k), done(k), budget)}
<1>6. 0 \in Good
  <2>1. done(0) = {} /\ 0 \in 0 .. n
    BY <1>3
  <2> HIDE DEF done
  <2> QED
    BY <2>1, <1>5, NothingPacked
<1>7. \A k \in 0 .. n : k < n /\ k \in Good => k + 1 \in Good
  <2> TAKE k \in 0 .. n
  <2> HAVE k < n /\ k \in Good
  <2>1. k + 1 \in 1 .. n /\ (k + 1) - 1 = k /\ k + 1 \in 0 .. n
    BY <1>3
  <2> DEFINE c == order[k + 1]
  <2>2. c \in Item /\ c \in needed /\ c.priority < 3
    BY <1>4, <2>1
  <2>3. after[k + 1] = Add("required", c, after[k], budget)
    BY <1>5, <2>1
  <2>4. done(k) \in SUBSET Item
    BY <1>3, <1>4
  <2>5. \A d \in done(k) : d.id # c.id /\ RequiredFirst(d, c)
    <3> TAKE d \in done(k)
    <3>1. PICK l \in 1 .. k : d = order[l]
      OBVIOUS
    <3>2. l \in 1 .. n /\ l < k + 1 /\ l # k + 1
      <4>1. n \in Int /\ k \in Int /\ l \in Int /\ 1 <= l /\ l <= k /\ k < n
        BY <3>1, <1>3
      <4> QED
        BY <4>1
    <3>3. d \in needed /\ d # c /\ d \in ahead[c]
      BY <3>1, <3>2, <2>1, <1>3, <1>4
    <3> QED
      BY <3>3, <2>2, <1>2 DEF Distinct
  <2>6. done(k + 1) = done(k) \cup {c}
    <3>1. 1 .. k + 1 = (1 .. k) \cup {k + 1}
      BY <2>1
    <3> QED
      BY <3>1
  <2>7. Packs(after[k], done(k), done(k), budget)
    OBVIOUS
  <2> HIDE DEF done, c
  <2>8. Packs(after[k + 1], done(k + 1), done(k + 1), budget)
    BY <2>2, <2>3, <2>4, <2>5, <2>6, <2>7, PacksRequired
  <2> QED
    BY <2>1, <2>8
<1> HIDE DEF Good
<1>8. \A k \in 0 .. n : k \in Good
  BY <1>3, <1>6, <1>7, InductionUpTo
<1>9. n \in 0 .. n /\ done(n) = needed
  BY <1>3, <1>4
<1> HIDE DEF done
<1>10. Packs(after[n], needed, needed, budget)
  BY <1>8, <1>9 DEF Good
<1> QED
  BY <1>5, <1>10 DEF order, ahead

\* The other passes add whole sources that are not there yet.
LEMMA RestPacked ==
    ASSUME NEW S \in SUBSET Item, NEW order \in Seq(S), NEW pass \in {"shares", "rest"},
           NEW budget \in Nat, NEW items, NEW done, Packs(items, S, done, budget)
    PROVE  Packs(AddAll(pass, order, items, budget), S, done, budget)
<1> DEFINE n == Len(order)
<1>1. n \in Nat /\ \A k \in 1 .. n : order[k] \in S /\ order[k] \in Item
  BY LenProperties, ElementOfSeq
<1>2. items \in Seq(Item) /\ order \in Seq(Item) /\ pass \in Passes /\ budget \in Int
  BY DEF Packs, Passes
<1>3. PICK after \in [0 .. n -> Seq(Item)] :
         /\ after[0] = items
         /\ \A k \in 1 .. n : after[k] = Add(pass, order[k], after[k - 1], budget)
         /\ AddAll(pass, order, items, budget) = after[n]
  <2> HIDE DEF n
  <2>1. AddsInSteps(pass, order, items, budget, Len(order))
    BY <1>2, AddAllAdds
  <2>2. AddsInSteps(pass, order, items, budget, n)
    BY <2>1 DEF n
  <2> QED
    BY <2>2, StepsAdd
<1> HIDE DEF n
<1> DEFINE Good == {k \in 0 .. n : Packs(after[k], S, done, budget)}
<1>4. 0 \in Good
  BY <1>1, <1>3
<1>5. \A k \in 0 .. n : k < n /\ k \in Good => k + 1 \in Good
  <2> TAKE k \in 0 .. n
  <2> HAVE k < n /\ k \in Good
  <2>1. k + 1 \in 1 .. n /\ (k + 1) - 1 = k /\ k + 1 \in 0 .. n
    BY <1>1
  <2> DEFINE c == order[k + 1]
             before == after[k]
  <2>2. c \in Item /\ c \in S
    BY <1>1, <2>1
  <2>3. after[k + 1] = Add(pass, c, before, budget)
    BY <1>3, <2>1
  <2>4. Packs(before, S, done, budget) /\ before \in Seq(Item)
    BY DEF Packs
  <2> HIDE DEF c, before
  <2>5. Packs(Add(pass, c, before, budget), S, done, budget)
    <3>1. \/ Add(pass, c, before, budget) = before
          \/ \E i \in Item :
                /\ Part(i, c) /\ Size(i) <= budget - Cost(before)
                /\ Add(pass, c, before, budget) = Append(before, i)
                /\ pass # "required" => i = c /\ ~Taken(c, before)
      BY <1>2, <2>2, <2>4, AddIs
    <3>2. CASE Add(pass, c, before, budget) = before
      BY <3>2, <2>4
    <3>3. ASSUME NEW i \in Item, Part(i, c), Size(i) <= budget - Cost(before),
                 Add(pass, c, before, budget) = Append(before, i), i = c, ~Taken(c, before)
          PROVE  Packs(Add(pass, c, before, budget), S, done, budget)
      <4>1. \A j \in ToSet(before) : j.id # c.id
        BY <3>3 DEF Taken
      <4>2. S \cup {c} = S
        BY <2>2
      <4>3. Packs(Append(before, i), S \cup {c}, done, budget)
        BY <3>3, <4>1, <2>2, <2>4, PacksMore
      <4> QED
        BY <3>3, <4>2, <4>3
    <3> QED
      BY <3>1, <3>2, <3>3
  <2> QED
    BY <2>1, <2>3, <2>5
<1> HIDE DEF Good
<1>6. \A k \in 0 .. n : k \in Good
  BY <1>1, <1>4, <1>5, InductionUpTo
<1>7. Packs(after[n], S, done, budget)
  BY <1>1, <1>6 DEF Good
<1> QED
  BY <1>3, <1>7

LEMMA SharesAreNumbers ==
    ASSUME NEW items \in Seq(Item), NEW budget \in Nat
    PROVE  Cap("structural", budget) - SpentOn("structural", items) \in Int
<1>1. Cap("structural", budget) \in Int
  <2>1. Share["structural"] \in 0 .. 100
    BY PacketBounds DEF Category
  <2> DEFINE s == Share["structural"]
             x == budget * s
  <2>2. s \in 0 .. 100
    BY <2>1
  <2> HIDE DEF s
  <2>3. x \in Nat
    BY <2>2
  <2> HIDE DEF x
  <2>4. x \div 100 \in Int
    BY <2>3
  <2> QED
    BY <2>4 DEF Cap, x, s
<1>2. SpentOn("structural", items) \in Nat
  <2> DEFINE n == Len(items)
             f == [i \in DOMAIN items |->
                      IF CategoryOf(items[i]) = "structural" THEN Size(items[i]) ELSE 0]
  <2>1. n \in Nat /\ DOMAIN items = 1 .. n /\ \A i \in 1 .. n : items[i] \in Item
    BY LenProperties, ElementOfSeq
  <2>2. f \in [1 .. n -> Nat]
    BY <2>1, ItemSize
  <2> HIDE DEF f, n
  <2>3. PICK sum \in [0 .. n -> Nat] : Total(f) = sum[n]
    BY <2>1, <2>2, TotalSums
  <2>4. Total(f) \in Nat
    BY <2>1, <2>3
  <2> QED
    BY <2>4 DEF SpentOn, f
<1> QED
  BY <1>1, <1>2

\* The one structural source that gets its share, in part if need be
LEMMA StructuralPacked ==
    ASSUME NEW S \in SUBSET Item, Distinct(S), IsFiniteSet(S), NEW budget \in Nat,
           NEW items, NEW done, Packs(items, S, done, budget)
    PROVE  Packs(AddStructural(S, items, budget), S, done, budget)
<1> DEFINE open == {c \in S : c.structural /\ Open(c, items)}
           left == budget - Cost(items)
           share == Cap("structural", budget) - SpentOn("structural", items)
           available == IF share < left THEN share ELSE left
           best == CHOOSE c \in open : \A d \in open : ~Worthier(d, c)
<1>1. AddStructural(S, items, budget) = IF open = {} THEN items ELSE AddPrefix(best, items, available)
  BY DEF AddStructural
<1>2. items \in Seq(Item) /\ Cost(items) \in Nat
  BY CostIs DEF Packs
<1>3. left \in Int /\ share \in Int
  BY <1>2, SharesAreNumbers
<1>4. ASSUME open # {}
      PROVE  best \in S /\ best \in Item /\ best.structural /\ ~Taken(best, items)
  <2>1. open \in SUBSET Item /\ IsFiniteSet(open) /\ Distinct(open) /\ open \subseteq S
    BY FS_Subset DEF Distinct
  <2>2. \E c \in open : \A d \in open : ~Worthier(d, c)
    <3> HIDE DEF open
    <3> QED
      BY <2>1, <1>4, SomeFirst
  <2>3. best \in open
    BY <2>2
  <2> QED
    BY <2>3 DEF Open
<1> HIDE DEF open, left, share, best
<1>5. available \in Int /\ available <= left
  BY <1>3
<1> HIDE DEF available
<1>6. CASE open = {}
  BY <1>1, <1>6
<1>7. CASE open # {}
  <2>1. AddStructural(S, items, budget) = AddPrefix(best, items, available)
    BY <1>1, <1>7
  <2>2. \/ AddPrefix(best, items, available) = items
        \/ \E i \in Item : /\ Part(i, best) /\ Size(i) <= available
                           /\ AddPrefix(best, items, available) = Append(items, i)
    BY <1>2, <1>4, <1>5, <1>7, PrefixIs
  <2>3. ASSUME NEW i \in Item, Part(i, best), Size(i) <= available
        PROVE  Packs(Append(items, i), S, done, budget)
    <3>1. Size(i) <= budget - Cost(items)
      BY <2>3, <1>2, <1>5, ItemSize DEF left
    <3>2. \A j \in ToSet(items) : j.id # best.id
      BY <1>4, <1>7 DEF Taken
    <3>3. S \cup {best} = S
      BY <1>4, <1>7
    <3>4. Packs(Append(items, i), S \cup {best}, done, budget)
      BY <1>4, <1>7, <2>3, <3>1, <3>2, PacksMore
    <3> QED
      BY <3>3, <3>4
  <2> QED
    BY <2>1, <2>2, <2>3
<1> QED
  BY <1>6, <1>7

LEMMA OrdinaryPacks ==
    ASSUME NEW S \in SUBSET Item, Distinct(S), IsFiniteSet(S), NEW budget \in Nat
    PROVE  Packs(Ordinary(S, budget), S, {c \in S : c.priority < 3}, budget)
<1> DEFINE needed == {c \in S : c.priority < 3}
           required == InOrder([c \in needed |-> {d \in needed : RequiredFirst(d, c)}])
           order == InOrder([c \in S |-> {d \in S : Worthier(d, c)}])
           first == AddAll("required", required, <<>>, budget)
           second == AddStructural(S, first, budget)
           third == AddAll("shares", order, second, budget)
<1>1. Ordinary(S, budget) = AddAll("rest", order, third, budget)
  BY DEF Ordinary
<1>2. /\ needed \in SUBSET Item /\ Distinct(needed) /\ IsFiniteSet(needed) /\ needed \subseteq S
      /\ \A c \in needed : c.priority < 3
  BY FS_Subset DEF Distinct
<1>3. order \in Seq(S)
  <2> DEFINE ahead == [c \in S |-> {d \in S : Worthier(d, c)}]
  <2>1. StrictOrder(ahead) /\ DOMAIN ahead = S
    BY CandidatesOrdered
  <2> HIDE DEF ahead
  <2>2. InOrder(ahead) \in Seq(S)
    BY <2>1, Arranged
  <2> QED
    BY <2>2 DEF ahead
<1> HIDE DEF needed
<1>4. Packs(first, needed, needed, budget)
  BY <1>2, RequiredPacked
<1> HIDE DEF required, order, first
<1>5. Packs(first, S, needed, budget)
  BY <1>2, <1>4, PacksGiven
<1>6. Packs(second, S, needed, budget)
  BY <1>5, StructuralPacked
<1> HIDE DEF second
<1>7. Packs(third, S, needed, budget)
  BY <1>3, <1>6, RestPacked
<1> HIDE DEF third
<1>8. Packs(AddAll("rest", order, third, budget), S, needed, budget)
  BY <1>3, <1>7, RestPacked
<1> QED
  BY <1>1, <1>8 DEF needed

-----------------------------------------------------------------------------
(* append_experience_context *)

\* Experiences that fit the room and repeat no event, of the items or of each other
Chosen(selected, items, room) ==
    /\ selected \in Seq(Histories) /\ HistoryCost(selected) \in Nat
    /\ HistoryCost(selected) <= room
    /\ MembersOf(selected) \cap EventsOf(items) = {}
    /\ \A g, h \in ToSet(selected) : g # h => g.members \cap h.members = {}

LEMMA HistoryTotal ==
    ASSUME NEW selected \in Seq(Histories)
    PROVE  HistoryCost(selected) \in Nat
<1> DEFINE n == Len(selected)
           f == [k \in DOMAIN selected |-> selected[k].tokens]
<1>1. n \in Nat /\ DOMAIN selected = 1 .. n /\ \A k \in 1 .. n : selected[k] \in Histories
  BY LenProperties, ElementOfSeq
<1>2. \A k \in 1 .. n : selected[k].tokens \in Nat
  BY <1>1, PacketBounds DEF History
<1>3. f \in [1 .. n -> Nat]
  BY <1>1, <1>2
<1> HIDE DEF f, n
<1>4. Total(f) \in Nat
  <2>1. PICK sum \in [0 .. n -> Nat] : Total(f) = sum[n]
    BY <1>1, <1>3, TotalSums
  <2> QED
    BY <1>1, <2>1
<1> QED
  BY <1>4 DEF HistoryCost, f

LEMMA HistoryMore ==
    ASSUME NEW selected \in Seq(Histories), NEW g \in Histories
    PROVE  HistoryCost(Append(selected, g)) = HistoryCost(selected) + g.tokens
<1> DEFINE n == Len(selected)
           t == Append(selected, g)
           f == [k \in DOMAIN selected |-> selected[k].tokens]
           h == [k \in DOMAIN t |-> t[k].tokens]
<1>1. n \in Nat /\ DOMAIN selected = 1 .. n /\ \A k \in 1 .. n : selected[k] \in Histories
  BY LenProperties, ElementOfSeq
<1>2. /\ t \in Seq(Histories) /\ Len(t) = n + 1 /\ t[n + 1] = g
      /\ \A k \in 1 .. n : t[k] = selected[k]
  BY AppendProperties
<1> HIDE DEF t
<1>3. DOMAIN t = 1 .. n + 1 /\ \A k \in 1 .. n + 1 : t[k] \in Histories
  BY <1>2, LenProperties, ElementOfSeq
<1>4. \A x \in Histories : x.tokens \in Nat
  BY PacketBounds DEF History
<1>5. f \in [1 .. n -> Nat] /\ h \in [1 .. n + 1 -> Nat]
  BY <1>1, <1>3, <1>4
<1>6. n + 1 \in 1 .. n + 1 /\ \A k \in 1 .. n : k \in 1 .. n + 1
  BY <1>1
<1>7. h[n + 1] = g.tokens /\ \A k \in 1 .. n : h[k] = f[k]
  BY <1>1, <1>2, <1>3, <1>6
<1> HIDE DEF f, h, n
<1>8. Total(h) = Total(f) + h[n + 1]
  BY <1>1, <1>5, <1>7, TotalOne
<1> QED
  BY <1>7, <1>8 DEF HistoryCost, f, h, t

LEMMA NothingChosen ==
    ASSUME NEW items, NEW room \in Nat
    PROVE  Chosen(<<>>, items, room)
<1>1. <<>> \in Seq(Histories) /\ ToSet(<<>>) = {} /\ DOMAIN <<>> = {}
  BY DEF ToSet
<1>2. HistoryCost(<<>>) = 0
  <2> DEFINE f == [k \in DOMAIN <<>> |-> <<>>[k].tokens]
  <2>1. DOMAIN <<>> = 1 .. 0 /\ 1 .. 0 = {}
    OBVIOUS
  <2>2. f \in [1 .. 0 -> Nat]
    BY <2>1
  <2> HIDE DEF f
  <2>3. Total(f) = 0
    BY <2>2, TotalNothing
  <2> QED
    BY <2>3 DEF HistoryCost, f
<1> QED
  BY <1>1, <1>2 DEF Chosen, MembersOf

LEMMA ChosenMore ==
    ASSUME NEW selected, NEW items, NEW room \in Int, NEW h \in Histories,
           Chosen(selected, items, room)
    PROVE  Chosen(AddHistory(h, items, selected, room), items, room)
<1> DEFINE t == Append(selected, h)
<1>1. CASE Repeats(h, items, selected) \/ h.tokens > room - HistoryCost(selected)
  BY <1>1 DEF AddHistory
<1>2. CASE ~(Repeats(h, items, selected) \/ h.tokens > room - HistoryCost(selected))
  <2>1. AddHistory(h, items, selected, room) = t
    BY <1>2 DEF AddHistory
  <2>2. selected \in Seq(Histories) /\ HistoryCost(selected) \in Nat
    BY DEF Chosen
  <2>3. h.tokens \in Nat
    BY PacketBounds DEF History
  <2>4. t \in Seq(Histories) /\ ToSet(t) = ToSet(selected) \cup {h}
    BY <2>2, ItemsMore
  <2>5. HistoryCost(t) = HistoryCost(selected) + h.tokens
    BY <2>2, HistoryMore
  <2> HIDE DEF t
  <2>6. HistoryCost(t) \in Nat /\ HistoryCost(t) <= room
    BY <2>2, <2>3, <2>5, <1>2
  <2>7. h.members \cap EventsOf(items) = {} /\ h.members \cap MembersOf(selected) = {}
    BY <1>2 DEF Repeats, UsedEvents
  <2>8. MembersOf(t) = MembersOf(selected) \cup h.members
    BY <2>4 DEF MembersOf
  <2>9. \A g \in ToSet(selected) : g.members \cap h.members = {}
    BY <2>7 DEF MembersOf
  <2>10. \A g, k \in ToSet(t) : g # k => g.members \cap k.members = {}
    BY <2>4, <2>9 DEF Chosen
  <2>11. MembersOf(t) \cap EventsOf(items) = {}
    BY <2>7, <2>8 DEF Chosen
  <2> QED
    BY <2>1, <2>4, <2>6, <2>10, <2>11 DEF Chosen
<1> QED
  BY <1>1, <1>2

Choosing(order, items, room, base, d) ==
    CHOOSE g : g = [k \in 0 .. d |-> IF k = 0 THEN base
                       ELSE AddHistory(order[k], items, g[k - 1], room)]

\* One experience after another stays in V.
LEMMA ChoosingStays ==
    ASSUME NEW d \in Nat, NEW order, NEW items, NEW room, NEW V, NEW base \in V,
           \A k \in 1 .. d : \A v \in V : AddHistory(order[k], items, v, room) \in V
    PROVE  Choosing(order, items, room, base, d)[d] \in V
<1> DEFINE step == [k \in 1 .. d |-> [v \in V |-> AddHistory(order[k], items, v, room)]]
           Recursive(g) == g = [k \in 0 .. d |-> IF k = 0 THEN base
                                   ELSE AddHistory(order[k], items, g[k - 1], room)]
<1>1. step \in [1 .. d -> [V -> V]]
  OBVIOUS
<1> HIDE DEF step
<1>2. PICK f \in [0 .. d -> V] : f[0] = base /\ \A k \in 1 .. d : f[k] = step[k][f[k - 1]]
  BY <1>1, Recursion
<1>3. ASSUME NEW k \in 1 .. d
      PROVE  k - 1 \in 0 .. d /\ f[k] = AddHistory(order[k], items, f[k - 1], room)
  <2>1. k - 1 \in 0 .. d
    OBVIOUS
  <2>2. f[k - 1] \in V
    BY <2>1
  <2> QED
    BY <1>2, <2>1, <2>2 DEF step
<1>4. \E g : Recursive(g)
  <2>1. f = [k \in 0 .. d |-> f[k]]
    OBVIOUS
  <2>2. \A k \in 0 .. d : k = 0 \/ k \in 1 .. d
    OBVIOUS
  <2>3. \A k \in 0 .. d : f[k] = IF k = 0 THEN base ELSE AddHistory(order[k], items, f[k - 1], room)
    BY <1>2, <1>3, <2>2
  <2>4. Recursive(f)
    BY <2>1, <2>3
  <2> QED
    BY <2>4
<1> DEFINE g == CHOOSE g : Recursive(g)
<1>5. g[d] = Choosing(order, items, room, base, d)[d]
  BY DEF Choosing
<1>6. Recursive(g)
  BY <1>4
<1>7. \A k \in 0 .. d : g[k] = IF k = 0 THEN base ELSE AddHistory(order[k], items, g[k - 1], room)
  BY <1>6
<1> HIDE DEF Recursive, g
<1> DEFINE Typed == {k \in 0 .. d : g[k] \in V}
<1>8. 0 \in Typed
  <2>1. 0 \in 0 .. d
    OBVIOUS
  <2>2. g[0] = base
    BY <1>7, <2>1
  <2> QED
    BY <2>1, <2>2
<1>9. \A k \in 0 .. d : k < d /\ k \in Typed => k + 1 \in Typed
  <2> TAKE k \in 0 .. d
  <2> HAVE k < d /\ k \in Typed
  <2>1. k + 1 \in 1 .. d /\ (k + 1) - 1 = k /\ k + 1 \in 0 .. d /\ k + 1 # 0
    OBVIOUS
  <2>2. g[k + 1] = AddHistory(order[k + 1], items, g[k], room)
    BY <1>7, <2>1
  <2> QED
    BY <2>1, <2>2
<1> HIDE DEF Typed
<1>10. \A k \in 0 .. d : k \in Typed
  BY <1>8, <1>9, InductionUpTo
<1>11. d \in 0 .. d
  OBVIOUS
<1> QED
  BY <1>5, <1>10, <1>11 DEF Typed

\* One experience after another leaves a choice.
LEMMA ChoosingIs ==
    ASSUME NEW d \in Nat, NEW order, \A k \in 1 .. d : order[k] \in Histories,
           NEW items, NEW room \in Nat
    PROVE  Chosen(Choosing(order, items, room, <<>>, d)[d], items, room)
<1> DEFINE V == {s \in Seq(Histories) : Chosen(s, items, room)}
<1>1. <<>> \in V
  BY NothingChosen DEF Chosen
<1>2. \A k \in 1 .. d : \A v \in V : AddHistory(order[k], items, v, room) \in V
  <2> TAKE k \in 1 .. d
  <2> TAKE v \in V
  <2>1. Chosen(AddHistory(order[k], items, v, room), items, room)
    BY ChosenMore
  <2> QED
    BY <2>1 DEF Chosen
<1>3. \A s \in V : Chosen(s, items, room)
  OBVIOUS
<1> HIDE DEF V
<1>4. Choosing(order, items, room, <<>>, d)[d] \in V
  BY <1>1, <1>2, ChoosingStays
<1> QED
  BY <1>3, <1>4

\* What a search for experiences selects has room beside the items.
LEMMA SelectedChosen ==
    ASSUME history \in SUBSET Histories, IsFiniteSet(history), NEW budget \in Nat, NEW items,
           Cost(items) \in Nat, Cost(items) <= budget
    PROVE  \E room \in 0 .. budget - Cost(items) :
              /\ room <= HistoryTokens
              /\ Chosen(Selected(items, budget), items, room)
<1> DEFINE left == budget - Cost(items)
           room == IF HistoryTokens < left THEN HistoryTokens ELSE left
           ahead == [h \in history |-> {g \in history : g.id < h.id}]
           order == InOrder(ahead)
<1>1. room \in 0 .. left /\ room <= HistoryTokens /\ room \in Nat
  BY PacketBounds
<1>2. StrictOrder(ahead) /\ DOMAIN ahead = history
  <2>1. \A g, h \in history : g.id \in Nat /\ (g.id = h.id => g = h)
    BY PacketBounds DEF History
  <2> QED
    BY <2>1 DEF StrictOrder
<1> HIDE DEF room, ahead
<1>3. order \in Seq(history)
  BY <1>2, Arranged
<1>4. Len(order) \in Nat /\ \A k \in 1 .. Len(order) : order[k] \in history /\ order[k] \in Histories
  BY <1>3, LenProperties, ElementOfSeq
<1>5. Selected(items, budget) = Choosing(order, items, room, <<>>, Len(order))[Len(order)]
  BY DEF Selected, Choosing, order, ahead, room
<1> HIDE DEF order
<1>6. Chosen(Selected(items, budget), items, room)
  BY <1>1, <1>4, <1>5, ChoosingIs
<1> QED
  BY <1>1, <1>6

-----------------------------------------------------------------------------
(* The packet *)

\* What RequiredFillTheBudget says of a packet that is done
Served(found, limit, budget, items, selected) ==
    /\ Cost(items) + HistoryCost(selected) <= budget
    /\ HistoryCost(selected) <= HistoryTokens
    /\ \A i, j \in DOMAIN items : items[i].id = items[j].id => i = j
    /\ \A i \in DOMAIN items :
          items[i] \in found \/ items[i].priority < 3 \/ items[i].structural
    /\ MembersOf(selected) \cap EventsOf(items) = {}
    /\ \A g, h \in ToSet(selected) : g # h => g.members \cap h.members = {}
    /\ \A c \in found : c.priority < 3 /\ ~Whole(c, items) =>
          \/ Cardinality(NeededBefore(c, found)) > limit
          \/ /\ \A i \in DOMAIN items : \E d \in NeededBefore(c, found) : d.id = items[i].id
             /\ Cost(items) + HistoryTokens >= budget

Required(S) == {c \in S : c.priority < 3}

\* The items are packed from the bounded pool.
Packed(items, found, limit, budget) ==
    Packs(items, Retained(found, limit), Required(Retained(found, limit)), budget)

LEMMA BoundedPacked ==
    ASSUME NEW found \in SUBSET Item, Distinct(found), IsFiniteSet(found),
           NEW limit \in Nat, NEW budget \in Nat
    PROVE  Packed(Ordinary(Retained(found, limit), budget), found, limit, budget)
<1> DEFINE S == Retained(found, limit)
<1>1. S \in SUBSET found
  BY RetainedKeeps
<1> HIDE DEF S
<1>2. S \in SUBSET Item /\ Distinct(S) /\ IsFiniteSet(S)
  BY <1>1, FS_Subset DEF Distinct
<1>3. Packs(Ordinary(S, budget), S, Required(S), budget)
  BY <1>2, OrdinaryPacks DEF Required
<1> QED
  BY <1>3 DEF Packed, S

\* Within a budget that spares at most HistoryTokens, a packet is served.
LEMMA PackedServed ==
    ASSUME NEW found \in SUBSET Item, Distinct(found), IsFiniteSet(found),
           NEW limit \in Nat, NEW budget \in Nat, NEW own \in Nat, NEW items, NEW selected,
           NEW room \in Nat, Packed(items, found, limit, own), Chosen(selected, items, room),
           room <= HistoryTokens, Cost(items) + HistoryCost(selected) <= budget,
           own + HistoryTokens >= budget
    PROVE  Served(found, limit, budget, items, selected)
<1> DEFINE S == Retained(found, limit)
<1>1. S \in SUBSET found
  BY RetainedKeeps
<1>2. Packs(items, S, Required(S), own)
  BY DEF Packed
<1>3. \A c \in found : c.priority < 3 /\ ~(Cardinality(NeededBefore(c, found)) > limit)
        => c \in Required(S)
  BY RequiredRetained DEF Required
<1> HIDE DEF S
<1>4. items \in Seq(Item) /\ DOMAIN items = 1 .. Len(items)
      /\ \A k \in 1 .. Len(items) : items[k] \in ToSet(items)
  BY <1>2, ItemsOf DEF Packs
<1>5. HistoryCost(selected) <= HistoryTokens
  <2>1. HistoryTokens \in Nat
    BY PacketBounds
  <2>2. HistoryCost(selected) \in Nat /\ HistoryCost(selected) <= room
    BY DEF Chosen
  <2> QED
    BY <2>1, <2>2
<1>6. \A i \in DOMAIN items : items[i] \in found \/ items[i].priority < 3 \/ items[i].structural
  BY <1>1, <1>2, <1>4 DEF Packs
<1>7. \A i, j \in DOMAIN items : items[i].id = items[j].id => i = j
  BY <1>2, <1>4 DEF Packs
<1>8. ASSUME NEW c \in found, c.priority < 3, ~Whole(c, items),
             ~(Cardinality(NeededBefore(c, found)) > limit)
      PROVE  /\ \A i \in DOMAIN items : \E d \in NeededBefore(c, found) : d.id = items[i].id
             /\ Cost(items) + HistoryTokens >= budget
  <2>1. Settled(c, items, Required(S), own)
    BY <1>2, <1>3, <1>8 DEF Packs
  <2>2. /\ Cost(items) >= own
        /\ \A i \in ToSet(items) : \E d \in Required(S) : ~RequiredFirst(c, d) /\ d.id = i.id
    BY <2>1, <1>8 DEF Settled, Whole
  <2>3. ASSUME NEW i \in DOMAIN items
        PROVE  \E d \in NeededBefore(c, found) : d.id = items[i].id
    <3>1. PICK d \in Required(S) : ~RequiredFirst(c, d) /\ d.id = items[i].id
      BY <2>2, <1>4, <2>3
    <3>2. d \in NeededBefore(c, found)
      BY <3>1, <1>1 DEF NeededBefore, Required
    <3> QED
      BY <3>1, <3>2
  <2>4. Cost(items) + HistoryTokens >= budget
    <3>1. Cost(items) \in Nat /\ HistoryTokens \in Nat
      BY <1>4, CostIs, PacketBounds
    <3> QED
      BY <2>2, <3>1
  <2> QED
    BY <2>3, <2>4
<1>9. /\ MembersOf(selected) \cap EventsOf(items) = {}
      /\ \A g, h \in ToSet(selected) : g # h => g.members \cap h.members = {}
  BY DEF Chosen
<1> QED
  BY <1>5, <1>6, <1>7, <1>8, <1>9 DEF Served

\* The identities in the pool are distinct.  Until experiences are searched for
\* the items are packed within the whole budget, and after a reservation within
\* what it leaves, at most HistoryTokens less.
PacketInv ==
    /\ PacketTypeOK
    /\ IsFiniteSet(pool) /\ Distinct(pool) /\ IsFiniteSet(history)
    /\ packet.step \in {"filled", "exhausted"} =>
          Packed(packet.items, pool, asked.limit, asked.budget)
    /\ packet.step = "exhausted" => packet.selected = <<>>
    /\ packet.step = "reserved" =>
          /\ HistoryCost(packet.selected) \in 0 .. asked.budget
          /\ HistoryCost(packet.selected) <= HistoryTokens
    /\ packet.step = "refilled" =>
          \E own \in 0 .. asked.budget :
             /\ Packed(packet.items, pool, asked.limit, own)
             /\ own + HistoryTokens >= asked.budget
    /\ packet.step = "done" =>
          Served(pool, asked.limit, asked.budget, packet.items, packet.selected)

LEMMA PacketStarts == PacketInit => PacketInv
<1> SUFFICES ASSUME PacketInit PROVE PacketInv
  OBVIOUS
<1>1. packet.step = "gather" /\ packet \in [step : Step, items : Seq(Candidate), selected : Seq(Histories)]
  BY DEF PacketInit, Empty, Step
<1> QED
  BY <1>1, FS_EmptySet DEF PacketInit, PacketInv, PacketTypeOK, Distinct

LEMMA PoolItems ==
    ASSUME PacketInv
    PROVE  /\ pool \in SUBSET Item /\ Distinct(pool) /\ IsFiniteSet(pool)
           /\ asked.limit \in Nat /\ asked.budget \in Nat
           /\ history \in SUBSET Histories /\ IsFiniteSet(history)
BY PacketBounds DEF PacketInv, PacketTypeOK, Item

LEMMA RoomIsANumber == HistoryTokens \in Nat
BY PacketBounds

LEMMA OfferKeeps ==
    ASSUME PacketInv, NEW c \in Candidates, Offer(c)
    PROVE  PacketInv'
<1>1. IsFiniteSet(pool')
  BY FS_AddElement DEF PacketInv, Offer
<1>2. Distinct(pool')
  BY DEF PacketInv, Offer, Distinct
<1>3. packet.step = "gather" /\ packet' = packet /\ asked' = asked /\ history' = history
      /\ pool' = pool \cup {c}
  BY DEF Offer
<1>4. PacketTypeOK'
  BY <1>3 DEF PacketInv, PacketTypeOK
<1> QED
  BY <1>1, <1>2, <1>3, <1>4 DEF PacketInv

LEMMA HistoryKeeps ==
    ASSUME PacketInv, NEW h \in Histories, Recall(h) \/ Dispute(h)
    PROVE  PacketInv'
<1>1. /\ packet' = packet /\ asked' = asked /\ pool' = pool
      /\ history' = history \cup {h} \/ history' = history \ {h}
  BY DEF Recall, Dispute
<1>2. IsFiniteSet(history')
  BY <1>1, FS_AddElement, FS_RemoveElement DEF PacketInv
<1>3. PacketTypeOK'
  BY <1>1 DEF PacketInv, PacketTypeOK
<1> QED
  BY <1>1, <1>2, <1>3 DEF PacketInv

LEMMA ItemsTyped ==
    ASSUME NEW items, NEW given, NEW done, NEW budget, Packs(items, given, done, budget)
    PROVE  items \in Seq(Candidate) /\ Cost(items) \in Nat /\ Cost(items) <= budget
<1>1. items \in Seq(Item)
  BY DEF Packs
<1>2. Item \subseteq Candidate
  BY DEF Item
<1>3. items \in Seq(Candidate)
  <2>1. Len(items) \in Nat /\ items \in [1 .. Len(items) -> Item]
    BY <1>1, LenProperties
  <2>2. items \in [1 .. Len(items) -> Candidate]
    BY <1>2, <2>1
  <2> QED
    BY <2>1, <2>2, SeqDef
<1> QED
  BY <1>1, <1>3, CostIs DEF Packs

LEMMA FillKeeps ==
    ASSUME PacketInv, Fill
    PROVE  PacketInv'
<1> DEFINE items == Ordinary(Retained(pool, asked.limit), asked.budget)
<1>1. Packed(items, pool, asked.limit, asked.budget)
  BY PoolItems, BoundedPacked
<1> HIDE DEF items
<1>2. /\ packet' = [step |-> "filled", selected |-> <<>>, items |-> items]
      /\ pool' = pool /\ history' = history /\ asked' = asked
  BY DEF Fill, items
<1>3. packet'.step = "filled" /\ packet'.items = items
  BY <1>2
<1>4. items \in Seq(Candidate)
  BY <1>1, ItemsTyped DEF Packed
<1>5. packet' \in [step : Step, items : Seq(Candidate), selected : Seq(Histories)]
  BY <1>2, <1>4 DEF Step
<1>6. PacketTypeOK'
  BY <1>2, <1>5 DEF PacketInv, PacketTypeOK
<1> QED
  BY <1>1, <1>2, <1>3, <1>6 DEF PacketInv

LEMMA SupplementKeeps ==
    ASSUME PacketInv, Supplement
    PROVE  PacketInv'
<1> DEFINE selected == Selected(packet.items, asked.budget)
<1>1. Packed(packet.items, pool, asked.limit, asked.budget)
  BY DEF PacketInv, Supplement
<1>2. Cost(packet.items) \in Nat /\ Cost(packet.items) <= asked.budget
  BY <1>1, ItemsTyped DEF Packed
<1>3. PICK room \in 0 .. asked.budget - Cost(packet.items) :
         room <= HistoryTokens /\ Chosen(selected, packet.items, room)
  BY <1>2, PoolItems, SelectedChosen
<1> HIDE DEF selected
<1>4. selected \in Seq(Histories) /\ HistoryCost(selected) \in Nat /\ HistoryCost(selected) <= room
  BY <1>3 DEF Chosen
<1>5. /\ pool' = pool /\ history' = history /\ asked' = asked
      /\ \/ packet' = [packet EXCEPT !.selected = selected, !.step = "done"]
         \/ /\ packet' = [packet EXCEPT !.selected = selected, !.step = "exhausted"]
            /\ selected = <<>>
  BY DEF Supplement, selected
<1>6. packet \in [step : Step, items : Seq(Candidate), selected : Seq(Histories)]
  BY DEF PacketInv, PacketTypeOK
<1>7. packet' \in [step : Step, items : Seq(Candidate), selected : Seq(Histories)]
  BY <1>4, <1>5, <1>6 DEF Step
<1>8. PacketTypeOK'
  BY <1>5, <1>7 DEF PacketInv, PacketTypeOK
<1>9. /\ packet'.items = packet.items /\ packet'.selected = selected
      /\ packet'.step = "done" \/ (packet'.step = "exhausted" /\ selected = <<>>)
  BY <1>5, <1>6
<1>10. Served(pool, asked.limit, asked.budget, packet.items, selected)
  <2>1. room \in Nat /\ Cost(packet.items) + HistoryCost(selected) <= asked.budget
    BY <1>2, <1>3, <1>4, PoolItems
  <2>2. asked.budget \in Nat /\ asked.budget + HistoryTokens >= asked.budget
    BY PoolItems, RoomIsANumber
  <2> QED
    BY <1>1, <1>3, <2>1, <2>2, PoolItems, PackedServed
<1> QED
  BY <1>1, <1>5, <1>8, <1>9, <1>10 DEF PacketInv

LEMMA ReserveKeeps ==
    ASSUME PacketInv, Reserve
    PROVE  PacketInv'
<1> DEFINE selected == Selected(<<>>, asked.budget)
<1>1. /\ Packed(packet.items, pool, asked.limit, asked.budget)
      /\ packet.selected = <<>> /\ packet.step = "exhausted"
  BY DEF PacketInv, Reserve
<1>2. PICK room \in 0 .. asked.budget - Cost(<<>>) :
         room <= HistoryTokens /\ Chosen(selected, <<>>, room)
  BY CostNothing, PoolItems, SelectedChosen
<1> HIDE DEF selected
<1>3. selected \in Seq(Histories) /\ HistoryCost(selected) \in 0 .. asked.budget
      /\ HistoryCost(selected) <= HistoryTokens
  <2>1. HistoryTokens \in Nat /\ asked.budget \in Nat /\ Cost(<<>>) = 0
    BY CostNothing, PoolItems, RoomIsANumber
  <2>2. room \in 0 .. asked.budget /\ room <= HistoryTokens
    BY <1>2, <2>1
  <2>3. selected \in Seq(Histories) /\ HistoryCost(selected) \in Nat /\ HistoryCost(selected) <= room
    BY <1>2 DEF Chosen
  <2> QED
    BY <2>1, <2>2, <2>3
<1>4. /\ pool' = pool /\ history' = history /\ asked' = asked
      /\ \/ packet' = [packet EXCEPT !.step = "done"]
         \/ packet' = [packet EXCEPT !.selected = selected, !.step = "reserved"]
  BY DEF Reserve, selected
<1>5. packet \in [step : Step, items : Seq(Candidate), selected : Seq(Histories)]
  BY DEF PacketInv, PacketTypeOK
<1>6. packet' \in [step : Step, items : Seq(Candidate), selected : Seq(Histories)]
  BY <1>3, <1>4, <1>5 DEF Step
<1>7. PacketTypeOK'
  BY <1>4, <1>6 DEF PacketInv, PacketTypeOK
<1>8. /\ packet'.items = packet.items
      /\ \/ packet'.step = "done" /\ packet'.selected = <<>>
         \/ packet'.step = "reserved" /\ packet'.selected = selected
  BY <1>1, <1>4, <1>5
<1>9. Served(pool, asked.limit, asked.budget, packet.items, <<>>)
  <2>1. Chosen(<<>>, packet.items, 0) /\ HistoryCost(<<>>) = 0
    <3>1. Chosen(<<>>, packet.items, 0)
      BY NothingChosen
    <3> QED
      BY <3>1 DEF Chosen
  <2>2. Cost(packet.items) \in Nat /\ Cost(packet.items) <= asked.budget
    BY <1>1, ItemsTyped DEF Packed
  <2>3. 0 \in Nat /\ 0 <= HistoryTokens /\ Cost(packet.items) + HistoryCost(<<>>) <= asked.budget
    BY <2>1, <2>2, PacketBounds
  <2>4. asked.budget \in Nat /\ asked.budget + HistoryTokens >= asked.budget
    BY PoolItems, RoomIsANumber
  <2> QED
    BY <1>1, <2>1, <2>3, <2>4, PoolItems, PackedServed
<1> QED
  BY <1>3, <1>4, <1>7, <1>8, <1>9 DEF PacketInv

LEMMA RefillKeeps ==
    ASSUME PacketInv, Refill
    PROVE  PacketInv'
<1> DEFINE own == asked.budget - HistoryCost(packet.selected)
           items == Ordinary(Retained(pool, asked.limit), own)
<1>1. own \in 0 .. asked.budget /\ own \in Nat /\ own + HistoryTokens >= asked.budget
  <2>1. asked.budget \in Nat /\ HistoryTokens \in Nat
    BY PoolItems, RoomIsANumber
  <2>2. /\ HistoryCost(packet.selected) \in 0 .. asked.budget
        /\ HistoryCost(packet.selected) <= HistoryTokens
    BY DEF PacketInv, Refill
  <2> QED
    BY <2>1, <2>2
<1>2. /\ pool' = pool /\ history' = history /\ asked' = asked
      /\ packet' = [packet EXCEPT !.step = "refilled", !.items = items]
  BY DEF Refill, Unreserved
<1> HIDE DEF own
<1>3. Packed(items, pool, asked.limit, own)
  BY <1>1, PoolItems, BoundedPacked
<1> HIDE DEF items
<1>4. items \in Seq(Candidate)
  BY <1>3, ItemsTyped DEF Packed
<1>5. packet \in [step : Step, items : Seq(Candidate), selected : Seq(Histories)]
  BY DEF PacketInv, PacketTypeOK
<1>6. packet' \in [step : Step, items : Seq(Candidate), selected : Seq(Histories)]
  BY <1>2, <1>4, <1>5 DEF Step
<1>7. PacketTypeOK'
  BY <1>2, <1>6 DEF PacketInv, PacketTypeOK
<1>8. packet'.items = items /\ packet'.step = "refilled"
  BY <1>2, <1>5
<1> QED
  BY <1>1, <1>2, <1>3, <1>7, <1>8 DEF PacketInv

LEMMA AgainKeeps ==
    ASSUME PacketInv, SupplementAgain
    PROVE  PacketInv'
<1> DEFINE selected == Selected(packet.items, asked.budget)
<1>1. PICK own \in 0 .. asked.budget :
         Packed(packet.items, pool, asked.limit, own) /\ own + HistoryTokens >= asked.budget
  BY DEF PacketInv, SupplementAgain
<1>2. Cost(packet.items) \in Nat /\ Cost(packet.items) <= asked.budget /\ own \in Nat
  <2>1. Cost(packet.items) \in Nat /\ Cost(packet.items) <= own
    BY <1>1, ItemsTyped DEF Packed
  <2> QED
    BY <1>1, <2>1, PoolItems
<1>3. PICK room \in 0 .. asked.budget - Cost(packet.items) :
         room <= HistoryTokens /\ Chosen(selected, packet.items, room)
  BY <1>2, PoolItems, SelectedChosen
<1> HIDE DEF selected
<1>4. selected \in Seq(Histories) /\ HistoryCost(selected) \in Nat /\ HistoryCost(selected) <= room
  BY <1>3 DEF Chosen
<1>5. /\ pool' = pool /\ history' = history /\ asked' = asked
      /\ packet' = [packet EXCEPT !.step = "done", !.selected = selected]
  BY DEF SupplementAgain, selected
<1>6. packet \in [step : Step, items : Seq(Candidate), selected : Seq(Histories)]
  BY DEF PacketInv, PacketTypeOK
<1>7. packet' \in [step : Step, items : Seq(Candidate), selected : Seq(Histories)]
  BY <1>4, <1>5, <1>6 DEF Step
<1>8. PacketTypeOK'
  BY <1>5, <1>7 DEF PacketInv, PacketTypeOK
<1>9. packet'.items = packet.items /\ packet'.selected = selected /\ packet'.step = "done"
  BY <1>5, <1>6
<1>10. Served(pool, asked.limit, asked.budget, packet.items, selected)
  <2>1. room \in Nat /\ Cost(packet.items) + HistoryCost(selected) <= asked.budget
    BY <1>2, <1>3, <1>4, PoolItems
  <2> QED
    BY <1>1, <1>2, <1>3, <2>1, PoolItems, PackedServed
<1> QED
  BY <1>5, <1>8, <1>9, <1>10 DEF PacketInv

LEMMA PacketInductive == PacketInv /\ [PacketNext]_packetVars => PacketInv'
<1> SUFFICES ASSUME PacketInv, [PacketNext]_packetVars PROVE PacketInv'
  OBVIOUS
<1>1. CASE UNCHANGED packetVars
  BY <1>1 DEF packetVars, PacketInv, PacketTypeOK
<1>2. CASE \E c \in Candidates : Offer(c)
  BY <1>2, OfferKeeps
<1>3. CASE \E h \in Histories : Recall(h) \/ Dispute(h)
  BY <1>3, HistoryKeeps
<1>4. CASE Fill
  BY <1>4, FillKeeps
<1>5. CASE Supplement
  BY <1>5, SupplementKeeps
<1>6. CASE Reserve
  BY <1>6, ReserveKeeps
<1>7. CASE Refill
  BY <1>7, RefillKeeps
<1>8. CASE SupplementAgain
  BY <1>8, AgainKeeps
<1> QED
  BY <1>1, <1>2, <1>3, <1>4, <1>5, <1>6, <1>7, <1>8 DEF PacketNext

LEMMA PacketInvHolds == PacketSpec => []PacketInv
BY PacketStarts, PacketInductive, PTL DEF PacketSpec

\* The pool holds candidates, the packet parts of candidates and experiences:
\* what build_context_packet and append_experience_context pass on.
THEOREM PacketTypesHold == PacketSpec => []PacketTypeOK
<1>1. PacketInv => PacketTypeOK
  BY DEF PacketInv
<1> QED
  BY <1>1, PacketInvHolds, PTL

\* For every candidate, experience, budget and limit, and however experiences are
\* accepted and disputed between the searches: a packet that is done keeps its
\* budgets, repeats no source and no event, and a required source that is missing
\* or cut was one too many for the pool, or lost to required sources that fill the
\* budget but for HistoryTokens (retain_bounded_candidates, build_context_packet,
\* append_experience_context).
THEOREM RequiredFillBudgets == PacketSpec => []RequiredFillTheBudget
<1>1. PacketInv => RequiredFillTheBudget
  BY DEF PacketInv, Served, RequiredFillTheBudget, LostToRequired, RequiredBefore, NeededBefore
<1> QED
  BY <1>1, PacketInvHolds, PTL
=============================================================================
