-------------------------- MODULE DocumentIndexing --------------------------
(***************************************************************************)
(* One document's way into the index: reconcile_file_inner with the         *)
(* segmentation of its chunks, the batches sent to the embedding provider,  *)
(* the smaller segments that are tried when the provider refuses them, and  *)
(* the rows that are stored.  Between two steps the file may be edited, the *)
(* provider may be served differently, and the program restarted, with      *)
(* another configuration or not.                                           *)
(*                                                                         *)
(* The path's lock admits one reconciliation at a time.                    *)
(*                                                                         *)
(* Data abstraction.  A character is one token; its value says what kind    *)
(* of boundary follows it.  A vector is what it was made from.  A limit of  *)
(* 0 is no limit.  The analysis is a constant; the graph, and the content   *)
(* revision that outdates it, are GraphPublication's.                      *)
(***************************************************************************)
EXTENDS Ordering, Sequences, SequencesExt

CONSTANTS
    Analyses,     \* what an analyzer makes of a version: its logical chunks
    Configs,      \* configurations, see Config
    Servings,     \* what the provider is able to do
    MaxDepth,     \* MAX_CAPACITY_RETRY_DEPTH
    MaxAttempts,  \* MAX_ADAPTIVE_SEGMENTATION_ATTEMPTS
    MaxTurns      \* bound: edits, servings and restarts

Analyzers == DOMAIN Analyses
Versions == DOMAIN Analyses[CHOOSE a \in Analyzers : TRUE]
NoVersion == 0

\* The keys of a version's chunks differ: disambiguate_duplicate_keys.
Chunk == [key : Nat, text : Seq(Nat)]
\* What the identity of a segmentation stands for.
Policy == [limit : Nat, reserved : Nat, overlap : Nat, prefix : Nat]
Config == [analyzer : Analyzers, space : Nat, dimension : Nat, input : Nat, batch : Nat,
           items : Nat \ {0}, reserved : Nat, overlap : Nat, prefix : Nat]
\* The largest input and batch, and the length of its vectors
Capacity == [input : Nat, batch : Nat, dimension : Nat \ {0}]

ASSUME IndexingBounds ==
    /\ Configs \subseteq Config /\ Servings \subseteq Capacity
    /\ \A a \in Analyzers : DOMAIN Analyses[a] = Versions
    /\ Versions \subseteq Nat \ {NoVersion}
    /\ \A a \in Analyzers, v \in Versions :
          /\ Analyses[a][v] \in Seq(Chunk)
          /\ \A c, d \in ToSet(Analyses[a][v]) : c.key = d.key => c = d
    /\ {MaxDepth, MaxAttempts, MaxTurns} \subseteq Nat

VARIABLES
    file,      \* its version
    config, served,
    document,  \* the row and its chunks
    indexing,  \* the reconciliation
    turns      \* of events beside it

indexVars == <<file, config, served, document, indexing, turns>>

IndexSteps == {"idle", "segment", "embed", "store", "unchanged", "updated", "removed", "failed"}
Ended == {"idle", "unchanged", "updated", "removed", "failed"}

NoDocument == [version |-> NoVersion, rows |-> <<>>]
Exists == document.version # NoVersion

IndexTypeOK ==
    /\ file \in Versions \cup {NoVersion} /\ config \in Configs /\ served \in Servings
    /\ turns \in 0 .. MaxTurns
    /\ Exists => document.policy \in Policy /\ document.version \in Versions
    /\ indexing.step \in IndexSteps /\ indexing.limit \in Nat
    /\ indexing.attempts \in 0 .. MaxAttempts

NotIndexing == [step |-> "idle", version |-> NoVersion, limit |-> 0, attempts |-> 0,
         queue |-> <<>>, vectors |-> <<>>]

IndexInit ==
    /\ file \in Versions /\ config \in Configs /\ served \in Servings
    /\ document = NoDocument /\ indexing = NotIndexing /\ turns = 0

-----------------------------------------------------------------------------
(* segmenter.rs *)

Least(a, b) == IF a < b THEN a ELSE b
PolicyOf(limit) == [limit |-> limit, reserved |-> config.reserved,
                    overlap |-> config.overlap, prefix |-> config.prefix]

Budget(policy) == policy.limit - policy.reserved
Oversized(text, policy) == policy.limit # 0 /\ Len(text) + policy.prefix > Budget(policy)

\* The furthest end that fits, moved back to the strongest of the boundaries in
\* its second half, the last of them.
EndOf(text, policy, start) ==
    LET furthest == Least(Len(text), start + Budget(policy) - policy.prefix)
        near == {p \in start + 1 .. furthest :
                    p >= start + (furthest - start) \div 2 /\ text[p] % 4 > 0}
    IN  IF furthest = Len(text) \/ near = {} THEN furthest
        ELSE CHOOSE p \in near : \A q \in near :
                text[p] % 4 > text[q] % 4 \/ (text[p] % 4 = text[q] % 4 /\ p >= q)

\* From where the next segment repeats the end of this one.
StartAfter(policy, start, end) ==
    LET overlap == Least(policy.overlap, (Budget(policy) - policy.prefix) \div 4)
    IN  IF end - overlap > start THEN end - overlap ELSE start + 1

\* Of the segments that begin one after another, those up to the one that ends
\* the text.
RangesFrom(begin, text, policy) ==
    LET ends(n) == EndOf(text, policy, begin[n]) = Len(text)
        last == CHOOSE n \in 0 .. Len(text) : ends(n) /\ \A m \in 0 .. n - 1 : ~ends(m)
    IN  [i \in 1 .. last + 1 |->
            [start |-> begin[i - 1], end |-> EndOf(text, policy, begin[i - 1])]]

\* split_chunk
Ranges(text, policy) ==
    LET begin[n \in 0 .. Len(text)] ==
            IF n = 0 THEN 0
            ELSE StartAfter(policy, begin[n - 1], EndOf(text, policy, begin[n - 1]))
    IN  RangesFrom(begin, text, policy)

Cut(chunk, ranges) ==
    [i \in DOMAIN ranges |->
        [key |-> <<chunk.key, i>>,
         text |-> SubSeq(chunk.text, ranges[i].start + 1, ranges[i].end)]]

\* A chunk that fits is its own segment, part 0.
SegmentsOf(chunk, policy) ==
    IF ~Oversized(chunk.text, policy)
      THEN <<[key |-> <<chunk.key, 0>>, text |-> chunk.text]>>
      ELSE Cut(chunk, Ranges(chunk.text, policy))

Segments(analyzer, version, policy) ==
    LET chunks == Analyses[analyzer][version]
        first[n \in 0 .. Len(chunks)] ==
            IF n = 0 THEN <<>> ELSE first[n - 1] \o SegmentsOf(chunks[n], policy)
    IN  first[Len(chunks)]

\* Nothing is left of the budget, or nothing besides the prefix.
CannotSegment(version, policy) ==
    /\ policy.limit # 0
    /\ \/ Budget(policy) <= 0
       \/ /\ Budget(policy) <= policy.prefix
          /\ \E i \in DOMAIN Analyses[config.analyzer][version] :
                Oversized(Analyses[config.analyzer][version][i].text, policy)

-----------------------------------------------------------------------------
(* What is compared with the stored document *)

InitialLimit ==
    LET batch == IF config.batch = 0 THEN 0 ELSE config.batch + config.reserved
    IN  IF config.input = 0 \/ batch = 0 THEN config.input + batch
        ELSE Least(config.input, batch)

TreeCompatible(policy) ==
    Exists /\ document.analyzer = config.analyzer /\ document.policy = policy

\* document_embeddings_compatible
EmbeddingsCompatible ==
    LET vectors == {document.rows[k].vector : k \in DOMAIN document.rows}
    IN  /\ \A v \in vectors : v.space = config.space
                              /\ (config.dimension # 0 => v.dimension = config.dimension)
        /\ \A v, w \in vectors : v.dimension = w.dimension

SameText(segment, policy) == \* mutated: whatever space its vector is of
    /\ TreeCompatible(policy) /\ segment.key \in DOMAIN document.rows
    /\ document.rows[segment.key].text = segment.text

Keeps(segment, policy) ==
    /\ TreeCompatible(policy) /\ EmbeddingsCompatible
    /\ segment.key \in DOMAIN document.rows
    /\ document.rows[segment.key].text = segment.text

\* The segments at these places, in their order
At(segments, places) ==
    LET order == InOrder([i \in places |-> {j \in places : j < i}])
    IN  [k \in DOMAIN order |-> segments[order[k]]]
NotKept(segments, policy) ==
    At(segments, {i \in DOMAIN segments : ~Keeps(segments[i], policy)})

Policied == PolicyOf(indexing.limit)
All == Segments(config.analyzer, indexing.version, Policied)
Changed == NotKept(All, Policied)

-----------------------------------------------------------------------------
(* batcher.rs *)

Tokens(segment) == Len(segment.text) + config.prefix
TokensOf(segments, indices) ==
    FoldLeft(LAMBDA sum, i : sum + Tokens(segments[i]), 0, indices)

TooLargeToPlan(segment) ==
    \/ config.input # 0 /\ Tokens(segment) > config.input - config.reserved
    \/ config.batch # 0 /\ Tokens(segment) > config.batch

\* plan_batches: in order, as many as the items and the tokens allow
Planned(segments, batches, i) ==
    LET batch == Last(batches)
        full == \/ Len(batch) = config.items
                \/ config.batch # 0
                   /\ TokensOf(segments, batch) + Tokens(segments[i]) > config.batch
    IN  IF batches = <<>> \/ full THEN Append(batches, <<i>>)
        ELSE [batches EXCEPT ![Len(batches)] = Append(@, i)]

Batches(segments) ==
    LET first[n \in 0 .. Len(segments)] ==
            IF n = 0 THEN <<>> ELSE Planned(segments, first[n - 1], n)
    IN  first[Len(segments)]

\* Smaller segments, once more, as long as they can be made smaller.
Reduced(measured) ==
    LET usable == IF indexing.limit = 0 THEN measured ELSE indexing.limit - config.reserved
        next == Least(Least(usable - 1, measured - 1), usable \div 2)
    IN  IF indexing.attempts = MaxAttempts \/ next <= 0
          THEN [indexing EXCEPT !.step = "failed"]
          ELSE [indexing EXCEPT !.step = "segment", !.attempts = @ + 1,
                   !.limit = config.reserved + next, !.queue = <<>>, !.vectors = <<>>]

-----------------------------------------------------------------------------
(* reconcile_file_inner *)

\* The file is gone, or nothing about it has changed and the graph is not
\* behind; or it is analyzed.
Begin(graphBehind) ==
    /\ indexing.step \in Ended
    /\ LET policy == PolicyOf(InitialLimit)
           same == TreeCompatible(policy) /\ EmbeddingsCompatible /\ document.version = file
           begun == [NotIndexing EXCEPT !.version = file, !.limit = InitialLimit]
       IN  indexing' =
             IF file = NoVersion THEN [NotIndexing EXCEPT !.step = "removed"]
             ELSE IF same /\ ~graphBehind THEN [begun EXCEPT !.step = "unchanged"]
             ELSE [begun EXCEPT !.step = "segment"]
    /\ document' = IF file = NoVersion THEN NoDocument ELSE document
    /\ UNCHANGED <<file, config, served, turns>>

Queueing(batches) ==
    [indexing EXCEPT !.step = "embed",
        !.queue = [i \in DOMAIN batches |-> [indices |-> batches[i], depth |-> 0]]]

\* The first segment that is too large for a request decides, or all are queued.
SegmentedAs(segments) ==
    LET large == {i \in DOMAIN segments : TooLargeToPlan(segments[i])}
    IN  IF large = {} THEN Queueing(Batches(segments))
        ELSE Reduced(Tokens(segments[CHOOSE i \in large : \A j \in large : i <= j]))

Segment ==
    /\ indexing.step = "segment"
    /\ indexing' = IF CannotSegment(indexing.version, Policied)
                     THEN [indexing EXCEPT !.step = "failed"]
                     ELSE SegmentedAs(Changed)
    /\ UNCHANGED <<file, config, served, document, turns>>

\* What the provider makes of a text
Vector(text) == [text |-> text, space |-> config.space, dimension |-> served.dimension]

Accepts(segments, indices) ==
    /\ TokensOf(segments, indices) <= served.batch
    /\ \A i \in ToSet(indices) : Tokens(segments[i]) <= served.input

\* A batch that is too large is halved, the halves come first.
EmbeddedAs(segments, batch) ==
    LET size == Len(batch.indices)
        half(from, to) ==
            [indices |-> SubSeq(batch.indices, from, to), depth |-> batch.depth + 1]
        answered == [i \in DOMAIN indexing.vectors \cup ToSet(batch.indices) |->
                        IF i \in ToSet(batch.indices) THEN Vector(segments[i].text)
                        ELSE indexing.vectors[i]]
    IN  IF Accepts(segments, batch.indices)
          THEN [indexing EXCEPT !.queue = Tail(@), !.vectors = answered]
        ELSE IF batch.depth >= MaxDepth THEN [indexing EXCEPT !.step = "failed"]
        ELSE IF size = 1 THEN Reduced(Tokens(segments[batch.indices[1]]))
        ELSE [indexing EXCEPT
                 !.queue = <<half(1, size \div 2), half(size \div 2 + 1, size)>> \o Tail(@)]

\* One request
Embed ==
    /\ indexing.step = "embed" /\ indexing.queue # <<>>
    /\ indexing' = EmbeddedAs(Changed, Head(indexing.queue))
    /\ UNCHANGED <<file, config, served, document, turns>>

\* The provider does not answer, or its answer is invalid: a wrong model, count,
\* index or dimension.
ProviderFails ==
    /\ indexing.step = "embed" /\ indexing.queue # <<>>
    /\ indexing' = [indexing EXCEPT !.step = "failed"]
    /\ UNCHANGED <<file, config, served, document, turns>>

\* validate_vectors
ValidVectors(vectors) ==
    /\ \A i \in DOMAIN vectors : config.dimension # 0 => vectors[i].dimension = config.dimension
    /\ \A i, j \in DOMAIN vectors : vectors[i].dimension = vectors[j].dimension

Validate ==
    /\ indexing.step = "embed" /\ indexing.queue = <<>>
    /\ indexing' = [indexing EXCEPT
                      !.step = IF ValidVectors(indexing.vectors) THEN "store" ELSE "failed"]
    /\ UNCHANGED <<file, config, served, document, turns>>

\* A row that is kept keeps its vector.
Row(key, changed) ==
    LET places == {i \in DOMAIN changed : changed[i].key = key}
        i == CHOOSE i \in places : TRUE
    IN  IF places = {} THEN document.rows[key]
        ELSE [text |-> changed[i].text, vector |-> indexing.vectors[i]]
Rows(segments, changed) ==
    [k \in {s.key : s \in ToSet(segments)} |-> Row(k, changed)]

\* apply_document_reconciliation: the rows of another tree are deleted, as are
\* those of keys that are gone.
Store ==
    /\ indexing.step = "store"
    /\ IF file # indexing.version
         THEN indexing' = [indexing EXCEPT !.step = "failed"] /\ UNCHANGED document
         ELSE /\ indexing' = [indexing EXCEPT !.step = "updated"]
              /\ document' = [version |-> file, analyzer |-> config.analyzer,
                              policy |-> Policied, rows |-> Rows(All, Changed)]
    /\ UNCHANGED <<file, config, served, turns>>

-----------------------------------------------------------------------------
(* What happens meanwhile *)

Edit(version) ==
    /\ file # version /\ file' = version
    /\ UNCHANGED <<config, served, document, indexing>>

ServeAs(serving) ==
    /\ served # serving /\ served' = serving
    /\ UNCHANGED <<file, config, document, indexing>>

Restart(c) ==
    /\ config' = c /\ indexing' = NotIndexing
    /\ UNCHANGED <<file, served, document>>

IndexNext ==
    \/ \E behind \in BOOLEAN : Begin(behind)
    \/ Segment \/ Embed \/ ProviderFails \/ Validate \/ Store
    \/ /\ turns < MaxTurns /\ turns' = turns + 1
       /\ \/ \E version \in Versions \cup {NoVersion} : Edit(version)
          \/ \E serving \in Servings : ServeAs(serving)
          \/ \E c \in Configs : Restart(c)

IndexSpec == IndexInit /\ [][IndexNext]_indexVars

-----------------------------------------------------------------------------
(* Properties *)

Cover(ranges, text, policy) ==
    /\ ranges[1].start = 0 /\ Last(ranges).end = Len(text)
    /\ \A i \in DOMAIN ranges :
          /\ ranges[i].end - ranges[i].start + policy.prefix \in 1 .. Budget(policy)
          /\ i > 1 => /\ ranges[i].start <= ranges[i - 1].end
                      /\ ranges[i - 1].end - ranges[i].start <= policy.overlap
                      /\ ranges[i].start > ranges[i - 1].start
                      /\ ranges[i].end > ranges[i - 1].end

Covers(text, policy) == Cover(Ranges(text, policy), text, policy)

\* Batches refused, halved and sent again, segments made smaller, runs that
\* failed half way, restarts with another model, limit or analyzer: a stored
\* document has the segments of one version under one policy, no row is left
\* of any other; every logical chunk is covered within the budget; every row
\* has the vector of its own text, and all vectors are of one space.  A run that
\* ends well has stored the version it read in the configured space; one that
\* finds nothing to do has found vectors of one length.
IndexedAsRead ==
    /\ Exists =>
          LET rows == document.rows
              segments == Segments(document.analyzer, document.version, document.policy)
          IN  /\ DOMAIN rows = {s.key : s \in ToSet(segments)}
              /\ \A s \in ToSet(segments) : rows[s.key].text = s.text
              /\ \A c \in ToSet(Analyses[document.analyzer][document.version]) :
                    Oversized(c.text, document.policy) => Covers(c.text, document.policy)
              /\ \A k, l \in DOMAIN rows : /\ rows[k].vector.text = rows[k].text
                                           /\ rows[k].vector.space = rows[l].vector.space
    /\ indexing.step \in {"unchanged", "updated"} =>
          /\ document.version = indexing.version
          /\ \A k \in DOMAIN document.rows : document.rows[k].vector.space = config.space
    /\ indexing.step = "unchanged" =>
          \A k, l \in DOMAIN document.rows :
             document.rows[k].vector.dimension = document.rows[l].vector.dimension
=============================================================================
