----------------------------- MODULE HybridSearch -----------------------------
(***************************************************************************)
(* One hybrid search: a semantic and a lexical query in either order, the   *)
(* structural reads that start from what they found, and the fusion of the *)
(* three.  Meanwhile documents are edited and the graph is published.      *)
(*                                                                         *)
(* A structural read is two steps: the snapshot before, and the snapshot    *)
(* after with the answer, which is one of the graph of that snapshot, see   *)
(* GraphReads!ServedIsOneSnapshot; StructuralTraversal is the walk.  The  *)
(* chunks of the nodes are read afterwards, whatever the graph is by then.  *)
(*                                                                         *)
(* Data abstraction.  What a query is near to, what it names and what the   *)
(* graph relates to it is chosen when it is read.  A symbol and the chunk   *)
(* around it have one name.  Scores are whole numbers; a component's        *)
(* scores are normalised to 0 .. Unit.                                     *)
(***************************************************************************)
EXTENDS Integers, Sequences, SequencesExt, Ordering

CONSTANTS
    Chunks,        \* numbered in the order of their identities
    FileOf,        \* the file of each
    Limits,        \* result limits of requests, positive
    Unit,          \* a normalised score of one
    Weights,       \* retrieval weights: semantic, lexical, structural
    StructuralLimit, \* retrieval.structural.candidate_limit
    Rankings,      \* scores of chunks that a query may have
    MaxEdits       \* bound: edits of documents

ASSUME SearchBounds ==
    /\ Chunks \subseteq Nat /\ IsFiniteSet(Chunks) /\ Limits \subseteq Nat \ {0}
    /\ Unit \in Nat \ {0} /\ StructuralLimit \in Nat \ {0} /\ MaxEdits \in Nat
    /\ DOMAIN FileOf = Chunks
    /\ Weights \in [{"semantic", "lexical", "structural"} -> Nat]

VARIABLES
    stock,     \* the chunks of the index
    published, \* the graph: its revision, the documents', and its projections
    search     \* one search

searchVars == <<stock, published, search>>

Scores == 0 .. Unit

\* What stands for a chunk's structural evidence: a node, found on a path or
\* as a seed that the query names, and the revision of the snapshot.
Evidence == [chunk : Chunks, node : Chunks, named : BOOLEAN, score : Scores,
             revision : 0 .. MaxEdits]
SearchStep ==
    {"baseline", "snapshot", "seeds", "expand", "paths", "chunks", "merge",
     "done", "refused", "unavailable"}

Partial == UNION {[s -> Scores] : s \in SUBSET Chunks}
NotRead == [read |-> FALSE, scores |-> <<>>]
Component == [read : BOOLEAN, scores : Partial]
Search == [step : SearchStep, limit : Limits, semantic : Component, lexical : Component,
           since : 0 .. MaxEdits, before : 0 .. MaxEdits, seeds : SUBSET Chunks,
           found : Partial, todo : SUBSET Chunks, evidence : SUBSET Evidence,
           results : Seq(Chunks)]

ASSUME RankingsBound == Rankings \subseteq Partial

SearchTypeOK ==
    /\ stock \subseteq Chunks
    /\ published \in [content : 0 .. MaxEdits, indexed : 0 .. MaxEdits,
                       nodes : [0 .. MaxEdits -> SUBSET Chunks]]
    /\ published.indexed <= published.content
    /\ search \in Search

SearchInit ==
    /\ stock = Chunks
    /\ published = [content |-> 0, indexed |-> 0,
                  nodes |-> [r \in 0 .. MaxEdits |-> IF r = 0 THEN Chunks ELSE {}]]
    /\ search \in [step : {"baseline"}, limit : Limits, semantic : {NotRead},
                   lexical : {NotRead}, since : {0}, before : {0}, seeds : {{}},
                   found : {<<>>}, todo : {{}}, evidence : {{}}, results : {<<>>}]

Current == published.indexed = published.content
Projected == published.nodes[published.indexed]

-----------------------------------------------------------------------------
(* The index beside the search *)

\* A document is reconciled: its chunks are replaced, and the graph is behind.
EditDocument(file, kept) ==
    /\ published.content < MaxEdits
    /\ search.step \notin {"done", "refused", "unavailable"}
    /\ \A c \in kept : FileOf[c] = file
    /\ stock' = {c \in stock : FileOf[c] # file} \cup kept
    /\ published' = [published EXCEPT !.content = @ + 1]
    /\ UNCHANGED search

PublishGraph ==
    /\ ~Current /\ search.step \notin {"done", "refused", "unavailable"}
    /\ published' = [published EXCEPT !.indexed = published.content,
                                      !.nodes[published.content] = stock]
    /\ UNCHANGED <<stock, search>>

-----------------------------------------------------------------------------
(* semantic_search_inner and lexical_search_inner, joined *)

\* The best of the candidates, three for each result asked for.
Top(scores) ==
    LET better(c) == {d \in DOMAIN scores : scores[d] > scores[c]
                                            \/ (scores[d] = scores[c] /\ d < c)}
    IN  Restrict(scores, {c \in DOMAIN scores : Cardinality(better(c)) < 3 * search.limit})

ReadSemantic(scores) ==
    /\ search.step = "baseline" /\ ~search.semantic.read
    /\ DOMAIN scores \subseteq stock
    /\ search' = [search EXCEPT !.semantic = [read |-> TRUE, scores |-> Top(scores)]]
    /\ UNCHANGED <<stock, published>>

ReadLexical(scores) ==
    /\ search.step = "baseline" /\ ~search.lexical.read
    /\ DOMAIN scores \subseteq stock
    /\ search' = [search EXCEPT !.lexical = [read |-> TRUE, scores |-> Top(scores)]]
    /\ UNCHANGED <<stock, published>>

\* query_vector: the query is too long, or the provider fails; the lexical
\* search that ran beside it is in vain.
NoQueryVector ==
    /\ search.step = "baseline" /\ ~search.semantic.read /\ search.lexical.read
    /\ search' = [search EXCEPT !.step = "unavailable"]
    /\ UNCHANGED <<stock, published>>

Baseline == DOMAIN search.semantic.scores \cup DOMAIN search.lexical.scores

-----------------------------------------------------------------------------
(* structural_search *)

\* seed_query; a graph that cannot be read now is done without.
TakeSnapshot ==
    /\ search.step = "baseline" /\ search.semantic.read /\ search.lexical.read
    /\ search' = IF Current THEN [search EXCEPT !.step = "seeds", !.before = published.content,
                                                !.since = published.content]
                 ELSE [search EXCEPT !.step = "merge"]
    /\ UNCHANGED <<stock, published>>

Unchanged == Current /\ published.content = search.before

Shows(node, named, score, chunks) ==
    {[chunk |-> c, node |-> node, named |-> named, score |-> score,
      revision |-> search.before] : c \in chunks}

\* The nodes of the baseline chunks, no more than the limit of nodes.
InBaseline ==
    {c \in Baseline \cap Projected :
        Cardinality({d \in Baseline \cap Projected : d < c}) < StructuralLimit}

\* What the query names, or what the baseline chunks are about; of the named,
\* those it spells out are shown themselves.
FindSeeds(named, exact) ==
    /\ search.step = "seeds"
    /\ named \subseteq Projected /\ Cardinality(named) <= StructuralLimit
    /\ exact \subseteq named
    /\ LET seeds == IF named # {} THEN named ELSE InBaseline
       IN  search' =
             IF ~Unchanged \/ seeds = {} THEN [search EXCEPT !.step = "merge"]
             ELSE [search EXCEPT !.step = "expand", !.seeds = seeds, !.todo = exact]
    /\ UNCHANGED <<stock, published>>

\* code_candidates_for_node: the chunk of a symbol, if it is still there.
ShowSeed(node) ==
    /\ search.step = "expand" /\ node \in search.todo
    /\ LET shown == search.evidence \cup Shows(node, TRUE, 0, {node} \cap stock)
       IN  search' = [search EXCEPT !.todo = @ \ {node}, !.evidence = shown,
                        !.step = IF Cardinality(shown) = StructuralLimit THEN "merge" ELSE @]
    /\ UNCHANGED <<stock, published>>

\* traverse, or impact_from_nodes: the same checks again, and no way back.
BeginTraversal ==
    /\ search.step = "expand" /\ search.todo = {}
    /\ search' = IF Current /\ search.seeds \subseteq Projected
                   THEN [search EXCEPT !.step = "paths", !.before = published.content]
                   ELSE [search EXCEPT !.step = "refused"]
    /\ UNCHANGED <<stock, published>>

EndTraversal(found) ==
    /\ search.step = "paths"
    /\ DOMAIN found \subseteq Projected \ search.seeds
    /\ Cardinality(DOMAIN found) <= StructuralLimit
    /\ search' = IF Unchanged
                   THEN [search EXCEPT !.step = "chunks", !.found = found, !.todo = DOMAIN found]
                   ELSE [search EXCEPT !.step = "refused"]
    /\ UNCHANGED <<stock, published>>

\* The chunks of the node's file, as far as the limit of candidates allows.
ShowFound(node, chunks) ==
    /\ search.step = "chunks" /\ node \in search.todo
    /\ LET beside == {c \in stock : FileOf[c] = FileOf[node]}
           room == StructuralLimit - Cardinality(search.evidence)
           shown == search.evidence \cup Shows(node, FALSE, search.found[node], chunks)
       IN  /\ chunks \subseteq beside
           /\ Cardinality(chunks) = IF Cardinality(beside) < room
                                      THEN Cardinality(beside) ELSE room
           /\ node \in beside => node \in chunks
           /\ search' = [search EXCEPT !.todo = @ \ {node}, !.evidence = shown,
                           !.step = IF Cardinality(shown) = StructuralLimit THEN "merge" ELSE @]
    /\ UNCHANGED <<stock, published>>

AllShown ==
    /\ search.step = "chunks" /\ search.todo = {}
    /\ search' = [search EXCEPT !.step = "merge"]
    /\ UNCHANGED <<stock, published>>

-----------------------------------------------------------------------------
(* The fusion: normalized_component_scores, the sum, retain_structural_result *)

Normalized(scores, c) ==
    LET low == CHOOSE s \in Range(scores) : \A t \in Range(scores) : s <= t
        high == CHOOSE s \in Range(scores) : \A t \in Range(scores) : s >= t
    IN  IF c \notin DOMAIN scores THEN 0
        ELSE IF low = high THEN Unit
        ELSE ((scores[c] - low) * Unit) \div (high - low)

Structural(c) ==
    LET scores == {e.score : e \in {e \in search.evidence : e.chunk = c}}
    IN  IF scores = {} THEN 0 ELSE CHOOSE s \in scores : \A t \in scores : s >= t

Hybrid(c) ==
    Normalized(search.semantic.scores, c) * Weights["semantic"]
    + Normalized(search.lexical.scores, c) * Weights["lexical"]
    + Structural(c) * Weights["structural"]

RanksAbove(c, d) == Hybrid(c) > Hybrid(d) \/ (Hybrid(c) = Hybrid(d) /\ c < d)
Ranked(chunks) == InOrder([c \in chunks |-> {d \in chunks : RanksAbove(d, c)}])

HasEvidence(c) == \E e \in search.evidence : e.chunk = c
Merged == Baseline \cup {e.chunk : e \in search.evidence}

FirstOf(ranked, limit) ==
    SubSeq(ranked, 1, IF Len(ranked) < limit THEN Len(ranked) ELSE limit)

CutOff(ranked, limit) == FirstOf(ranked, limit) \* mutated

\* The best structural result takes the last place when it would be cut off.
Shortened(ranked, limit) ==
    LET shown == FirstOf(ranked, limit)
        best == SelectInSeq(ranked, HasEvidence)
    IN  IF best <= limit THEN shown
        ELSE Ranked(ToSet(SubSeq(ranked, 1, limit - 1)) \cup {ranked[best]})

Merge ==
    /\ search.step = "merge"
    /\ search' = [search EXCEPT !.step = "done",
                                !.results = Shortened(Ranked(Merged), search.limit)]
    /\ UNCHANGED <<stock, published>>

SearchNext ==
    \/ \E c \in Chunks, kept \in SUBSET Chunks : EditDocument(FileOf[c], kept)
    \/ PublishGraph
    \/ \E scores \in Rankings : ReadSemantic(scores) \/ ReadLexical(scores)
    \/ \E found \in Rankings : EndTraversal(found)
    \/ NoQueryVector \/ TakeSnapshot \/ BeginTraversal \/ AllShown \/ Merge
    \/ \E named, exact \in SUBSET Chunks : FindSeeds(named, exact)
    \/ \E node \in Chunks : ShowSeed(node)
    \/ \E node \in Chunks, chunks \in SUBSET Chunks : ShowFound(node, chunks)

SearchSpec == SearchInit /\ [][SearchNext]_searchVars

-----------------------------------------------------------------------------
(* Properties *)

\* Whatever is edited and published between its reads, an answered search
\* lists as many distinct chunks as it found and was asked for, best first; one
\* of them is a structural result when there is any, at the cost of the last
\* place only; and the evidence it gives for a node is of a graph that had the
\* node and was current after the search began, all paths in one snapshot.
SearchShowsStructure ==
    search.step = "done" =>
        LET results == search.results evidence == search.evidence
            ahead(c) == {d \in Merged : RanksAbove(d, c)}
        IN  /\ Len(results) = IF Cardinality(Merged) < search.limit
                                THEN Cardinality(Merged) ELSE search.limit
            /\ \A i \in 1 .. Len(results) - 1 : RanksAbove(results[i], results[i + 1])
            /\ evidence # {} => \E i \in DOMAIN results : HasEvidence(results[i])
            /\ \A c \in Merged :
                  Cardinality(ahead(c)) < search.limit - 1 => c \in ToSet(results)
            /\ \A e \in evidence :
                  e.revision >= search.since /\ e.node \in published.nodes[e.revision]
            /\ \A e, f \in evidence : ~e.named /\ ~f.named => e.revision = f.revision
=============================================================================
