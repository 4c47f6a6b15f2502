------------------------- MODULE StructuralTraversal -------------------------
(***************************************************************************)
(* A bounded walk over the structural graph: StructuralService::traverse    *)
(* and the impact analysis, one edge after the other.                      *)
(*                                                                         *)
(* The graph does not change while it is walked.  It does change in the     *)
(* program, where every step is a query of its own, but an answer is given  *)
(* only when it describes one snapshot: GraphReads!ServedIsOneSnapshot.   *)
(* Confidences, and the order of impacts by them, are functions of the      *)
(* paths and left out.                                                     *)
(***************************************************************************)
EXTENDS Integers, Sequences, SequencesExt, Ordering

CONSTANTS
    Nodes,        \* graph nodes, numbered in the order of their stable keys
    Files,        \* those that stand for files
    Edges,        \* relationships there may be, see Edge
    NodeLimits, EdgeLimits, Depths  \* what requests may bound, all positive

EdgeTypes == {"calls", "contains"}
\* key: the place in the order by type and relationship key
Edge == [key : Nat, from : Nodes, to : Nodes, type : EdgeTypes]

ASSUME GraphBounds ==
    /\ Nodes \subseteq Nat /\ Files \subseteq Nodes /\ Edges \subseteq Edge
    /\ IsFiniteSet(Nodes) /\ IsFiniteSet(Edges)
    /\ \A e, f \in Edges : e.key = f.key => e = f
    /\ NodeLimits \cup EdgeLimits \cup Depths \subseteq Nat \ {0}

WalkRequest ==
    [kind : {"traverse", "impact"}, seeds : SUBSET Nodes, types : SUBSET EdgeTypes,
     outgoing : BOOLEAN, incoming : BOOLEAN,
     nodes : NodeLimits, edges : EdgeLimits, depth : Depths]

\* Some direction is always given; impact follows dependents.
WalkRequests ==
    {r \in WalkRequest :
        /\ r.seeds # {} /\ r.types # {} /\ (r.outgoing \/ r.incoming)
        /\ r.kind = "impact" => r.types = {"calls"} /\ r.incoming /\ ~r.outgoing}

VARIABLES
    stored,   \* the edges of the graph
    bounds,   \* the request
    walk      \* how far its walk is

walkVars == <<stored, bounds, walk>>

\* nodes: from a seed to the node reached, edges: one less
WalkPaths == [nodes : Seq(Nodes), edges : Seq(Edges)]
WalkStep == {"load", "walk", "done", "refused"}

Walk ==
    [step : WalkStep, queue : Seq(WalkPaths), seen : SUBSET Nodes, found : Seq(WalkPaths),
     edges : SUBSET Edges, used : Nat, truncated : BOOLEAN,
     current : WalkPaths, left : Seq(Edges)]

WalkTypeOK == stored \subseteq Edges /\ bounds \in WalkRequests /\ walk \in Walk

Nowhere == [nodes |-> <<>>, edges |-> <<>>]

WalkInit ==
    /\ stored \in SUBSET Edges /\ bounds \in WalkRequests
    /\ walk = [step |-> "load", queue |-> <<>>, seen |-> {}, found |-> <<>>,
               edges |-> {}, used |-> 0, truncated |-> FALSE,
               current |-> Nowhere, left |-> <<>>]

-----------------------------------------------------------------------------
(* adjacent_edges, and the two queries of the impact analysis *)

InKeyOrder(edges) == InOrder([e \in edges |-> {f \in edges : f.key < e.key}])
Other(e, n) == IF e.from = n THEN e.to ELSE e.from

\* A file that is changed changes what it contains.
Contained(n, depth) ==
    {e \in stored : /\ bounds.kind = "impact" /\ depth = 0 /\ n \in Files
                    /\ e.from = n /\ e.type = "contains"}

Adjacent(n, depth) ==
    Contained(n, depth) \cup
        {e \in stored : /\ e.type \in bounds.types
                        /\ (bounds.outgoing /\ e.from = n) \/ (bounds.incoming /\ e.to = n)}

\* load_seed_nodes
LoadSeeds ==
    /\ walk.step = "load"
    /\ LET seeds == InOrder([n \in bounds.seeds |-> {m \in bounds.seeds : m < n}])
           paths == [i \in DOMAIN seeds |-> [nodes |-> <<seeds[i]>>, edges |-> <<>>]]
       IN  walk' = IF Len(seeds) > bounds.nodes
                     THEN [walk EXCEPT !.step = "refused"]
                     ELSE [walk EXCEPT !.step = "walk", !.queue = paths,
                                       !.seen = bounds.seeds]
    /\ UNCHANGED <<stored, bounds>>

-----------------------------------------------------------------------------
(* traverse_with_snapshot and impact_from_seed_nodes *)

\* An edge that is met again counts again in an impact analysis only.
Traversed == IF bounds.kind = "impact" THEN walk.used ELSE Cardinality(walk.edges)
NoRoom == Len(walk.found) = bounds.nodes

PushedInFront(queue, path) == <<path>> \o queue \* mutated: depth first
Pushed(queue, path) == Append(queue, path)

Expand ==
    /\ walk.step = "walk" /\ walk.left = <<>> /\ walk.queue # <<>>
    /\ LET path == Head(walk.queue)
           others == Tail(walk.queue)
           depth == Len(path.edges)
           remaining == bounds.edges - Traversed
           adjacent == InKeyOrder(Adjacent(Last(path.nodes), depth))
           cut == Len(adjacent) > remaining
       IN  walk' =
             IF depth >= bounds.depth
               THEN [walk EXCEPT !.queue = others]
             ELSE IF remaining = 0 \/ NoRoom
               THEN [walk EXCEPT !.step = "done", !.truncated = TRUE]
             ELSE [walk EXCEPT !.queue = others, !.current = path,
                      !.left = IF cut THEN SubSeq(adjacent, 1, remaining) ELSE adjacent,
                      !.truncated = @ \/ cut]
    /\ UNCHANGED <<stored, bounds>>

Follow ==
    /\ walk.step = "walk" /\ walk.left # <<>>
    /\ LET edge == Head(walk.left)
           node == Other(edge, Last(walk.current.nodes))
           path == [nodes |-> Append(walk.current.nodes, node),
                    edges |-> Append(walk.current.edges, edge)]
           met == [walk EXCEPT !.left = Tail(@), !.used = @ + 1, !.edges = @ \cup {edge}]
           new == [met EXCEPT !.seen = @ \cup {node}, !.found = Append(@, path)]
           last == Len(new.found) = bounds.nodes
           \* traverse leaves the last node out of the queue
           queue == IF last /\ bounds.kind = "traverse" THEN walk.queue
                    ELSE Pushed(walk.queue, path)
       IN  walk' =
             IF node \in walk.seen THEN met
             ELSE IF ~last THEN [new EXCEPT !.queue = queue]
             ELSE [new EXCEPT !.queue = queue, !.left = <<>>,
                              !.truncated = new.left # <<>> \/ queue # <<>>]
    /\ UNCHANGED <<stored, bounds>>

EndWalk ==
    /\ walk.step = "walk" /\ walk.left = <<>> /\ walk.queue = <<>>
    /\ walk' = [walk EXCEPT !.step = "done"]
    /\ UNCHANGED <<stored, bounds>>

WalkNext == LoadSeeds \/ Expand \/ Follow \/ EndWalk

WalkSpec == WalkInit /\ [][WalkNext]_walkVars

-----------------------------------------------------------------------------
(* Properties *)

\* What is at most so many edges away from a seed.
Near[k \in 0 .. bounds.depth] ==
    IF k = 0 THEN bounds.seeds
    ELSE Near[k - 1] \cup
         UNION {{Other(e, n) : e \in Adjacent(n, IF n \in bounds.seeds THEN 0 ELSE k - 1)} :
                n \in Near[k - 1]}

Ends(found) == {Last(found[i].nodes) : i \in DOMAIN found}

\* Edges that are met twice, limits that cut a node's edges and the walk itself,
\* nodes that are already known: every path is a walk from a seed along stored
\* edges, no node is found twice, the bounds are kept; when the walk met neither
\* its node limit nor an edge limit that it tells of, exactly what is near enough
\* was found, each by a shortest path; and an impact analysis that met its node
\* limit calls its answer truncated.  (A traversal that met its node limit need
\* not, whatever it left out: of such an answer the last part says nothing.)
FindsWhatIsNear ==
    walk.step = "done" =>
        LET found == walk.found
        IN  /\ \A i \in DOMAIN found :
                  LET p == found[i] IN
                  /\ p.nodes[1] \in bounds.seeds /\ Len(p.edges) \in 1 .. bounds.depth
                  /\ Len(p.nodes) = Len(p.edges) + 1
                  /\ \A j \in DOMAIN p.edges :
                        /\ p.edges[j] \in Adjacent(p.nodes[j], j - 1) \cap walk.edges
                        /\ p.nodes[j + 1] = Other(p.edges[j], p.nodes[j])
            /\ \A i, j \in DOMAIN found :
                  Last(found[i].nodes) = Last(found[j].nodes) => i = j
            /\ Ends(found) \cap bounds.seeds = {}
            /\ Len(found) <= bounds.nodes /\ Cardinality(walk.edges) <= bounds.edges
            /\ ~walk.truncated /\ ~NoRoom =>
                  /\ Ends(found) = Near[bounds.depth] \ bounds.seeds
                  /\ \A i \in DOMAIN found :
                        Last(found[i].nodes) \notin Near[Len(found[i].edges) - 1]
            /\ bounds.kind = "impact" /\ NoRoom => walk.truncated
=============================================================================
