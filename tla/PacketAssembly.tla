---------------------------- MODULE PacketAssembly ----------------------------
(***************************************************************************)
(* A context packet: which candidates get into it, in which order, at what  *)
(* cost, and how a matching experience finds room.                         *)
(*                                                                         *)
(* The pool grows one source at a time, as sources are found; then the     *)
(* packet is filled, and the experiences are searched for whatever room it  *)
(* has left.  When they all fail for want of room, room is reserved, the    *)
(* packet is filled again and the search repeated: three searches, between *)
(* which experiences are accepted and disputed.                            *)
(*                                                                         *)
(* Data abstraction.  A content is an interval of units, of one token each; *)
(* contents of one file overlap as their intervals do, and a prefix that    *)
(* fits n tokens has n units.  A score is a whole number; structural        *)
(* evidence and a structural score are one flag.                           *)
(***************************************************************************)
EXTENDS Ordering, Sequences, SequencesExt

CONSTANTS
    Candidates,    \* what sources can offer, see Candidate
    Histories,     \* experiences that match the failure, see History
    Budgets,       \* token budgets of requests
    PoolLimits,    \* context.candidate_pool_limit
    HistoryTokens, \* context.experience.token_budget
    Share,         \* context.budget, in percent of the packet's budget
    MaxItemTokens, \* MAX_CONTEXT_ITEM_BYTES
    MaxOffers      \* bound: candidates of one pool

Category == {"code", "structural", "memory", "event", "state"}

\* priority 0: the task, 1: the checkpoint, 2: a pin; 3: nothing requires it.
Candidate ==
    [id : Nat, kind : {"code", "memory", "event", "state"}, from : Nat, to : Nat,
     priority : 0 .. 3, structural : BOOLEAN, score : Nat]

\* members: the events that the experience is made of
History == [id : Nat, tokens : Nat, members : SUBSET Nat]

ASSUME PacketBounds ==
    /\ Candidates \subseteq Candidate /\ \A c \in Candidates : c.from <= c.to
    /\ Histories \subseteq History /\ \A g, h \in Histories : g.id = h.id => g = h
    /\ Budgets \cup PoolLimits \cup {HistoryTokens, MaxItemTokens, MaxOffers} \subseteq Nat
    /\ Share \in [Category -> 0 .. 100]

VARIABLES
    pool,      \* candidates so far, with distinct identities
    history,   \* experiences that a search finds now
    asked,     \* the budgets of the request
    packet     \* the packet and how far it is

packetVars == <<pool, history, asked, packet>>

Step == {"gather", "filled", "exhausted", "reserved", "refilled", "done"}
Empty == [step |-> "gather", items |-> <<>>, selected |-> <<>>]

PacketTypeOK ==
    /\ pool \subseteq Candidates /\ history \subseteq Histories
    /\ asked \in [budget : Budgets, limit : PoolLimits]
    /\ packet \in [step : Step, items : Seq(Candidate), selected : Seq(Histories)]

PacketInit ==
    /\ pool = {} /\ history = {} /\ packet = Empty
    /\ asked \in [budget : Budgets, limit : PoolLimits]

\* insert_candidate: an identity is one candidate, however often it is found.
Offer(c) ==
    /\ packet.step = "gather" /\ Cardinality(pool) < MaxOffers
    /\ \A d \in pool : d.id # c.id
    /\ c.priority = 1 => history = {}
    /\ pool' = pool \cup {c}
    /\ UNCHANGED <<history, asked, packet>>

\* An experience is accepted; a resume, the only request with a checkpoint,
\* looks for none.
Recall(h) ==
    /\ h \notin history /\ packet.step # "done"
    /\ \A c \in pool : c.priority # 1
    /\ history' = history \cup {h}
    /\ UNCHANGED <<pool, asked, packet>>

\* An experience is disputed.
Dispute(h) ==
    /\ h \in history /\ packet.step \notin {"gather", "done"}
    /\ history' = history \ {h}
    /\ UNCHANGED <<pool, asked, packet>>

-----------------------------------------------------------------------------
(* Orders of candidates *)

Size(c) == c.to - c.from + 1

\* candidate_order
Ahead(c, d) == c.score > d.score \/ (c.score = d.score /\ c.id < d.id)

\* candidate_value: score per token
Worthier(c, d) ==
    LET left == c.score * Size(d) right == d.score * Size(c)
    IN  left > right \/ (left = right /\ Ahead(c, d))

RequiredFirst(c, d) ==
    c.priority < d.priority \/ (c.priority = d.priority /\ Ahead(c, d))

-----------------------------------------------------------------------------
(* retain_bounded_candidates *)

\* mutated: the bound keeps the best, required or not
BestOf(candidates, limit) ==
    {c \in candidates : Cardinality({d \in candidates : Ahead(d, c)}) < limit}

\* The last of the bounded that nothing requires makes room for structure.
Retained(candidates, limit) ==
    LET kept == {c \in candidates : Cardinality({d \in candidates : RequiredFirst(d, c)}) < limit}
        free == {c \in kept : c.priority = 3}
        structural == {c \in candidates : c.structural}
    IN  IF free = {} \/ structural = {} \/ structural \cap kept # {} THEN kept
        ELSE (kept \ {CHOOSE c \in free : \A d \in free : ~RequiredFirst(c, d)})
                \cup {CHOOSE c \in structural : \A d \in structural : ~RequiredFirst(d, c)}

-----------------------------------------------------------------------------
(* build_context_packet *)

CategoryOf(c) ==
    CASE c.kind = "code" /\ c.structural -> "structural"
      [] c.kind = "code" /\ ~c.structural -> "code"
      [] OTHER -> c.kind

\* One after another
Total(sizes) ==
    LET sum[n \in 0 .. Len(sizes)] == IF n = 0 THEN 0 ELSE sum[n - 1] + sizes[n]
    IN  sum[Len(sizes)]

\* An item is a candidate with the part of its content that was taken.
Cost(items) == Total([i \in DOMAIN items |-> Size(items[i])])
SpentOn(category, items) ==
    Total([i \in DOMAIN items |-> IF CategoryOf(items[i]) = category THEN Size(items[i]) ELSE 0])
Taken(c, items) == \E i \in ToSet(items) : i.id = c.id

\* Code that contains, or is contained in, code of the packet.
Redundant(c, present) ==
    c.kind = "code" /\ \E i \in present :
        /\ i.kind = "code"
        /\ \/ i.from <= c.from /\ c.to <= i.to
           \/ c.from <= i.from /\ i.to <= c.to

\* context_item_for_budget, and record_selected_item
AddWhole(c, items, available) ==
    IF Size(c) <= MaxItemTokens /\ Size(c) <= available THEN Append(items, c) ELSE items

AddPrefix(c, items, available) ==
    IF Size(c) <= MaxItemTokens /\ Size(c) > available /\ available > 0
    THEN Append(items, [c EXCEPT !.to = c.from + available - 1])
    ELSE AddWhole(c, items, available)

Cap(category, budget) == (budget * Share[category]) \div 100

Open(c, items) == ~Taken(c, items) /\ ~Redundant(c, ToSet(items))

AddRequired(c, items, budget) ==
    IF Redundant(c, ToSet(items)) THEN items ELSE AddPrefix(c, items, budget - Cost(items))

\* The worthiest
AddStructural(candidates, items, budget) ==
    LET open == {c \in candidates : c.structural /\ Open(c, items)}
        left == budget - Cost(items)
        share == Cap("structural", budget) - SpentOn("structural", items)
    IN  IF open = {} THEN items
        ELSE AddPrefix(CHOOSE c \in open : \A d \in open : ~Worthier(d, c), items,
                       IF share < left THEN share ELSE left)

AddWithinShare(c, items, budget) ==
    IF ~Open(c, items) \/ SpentOn(CategoryOf(c), items) + Size(c) > Cap(CategoryOf(c), budget)
    THEN items ELSE AddWhole(c, items, budget - Cost(items))

AddWithinBudget(c, items, budget) ==
    IF ~Open(c, items) THEN items ELSE AddWhole(c, items, budget - Cost(items))

\* What each pass makes of a candidate
Add(pass, c, items, budget) ==
    CASE pass = "required" -> AddRequired(c, items, budget)
      [] pass = "shares" -> AddWithinShare(c, items, budget)
      [] pass = "rest" -> AddWithinBudget(c, items, budget)

\* One pass over candidates in an order
AddAll(pass, order, items, budget) ==
    LET after[n \in 0 .. Len(order)] ==
            IF n = 0 THEN items ELSE Add(pass, order[n], after[n - 1], budget)
    IN  after[Len(order)]

Ordinary(candidates, budget) ==
    LET needed == {c \in candidates : c.priority < 3}
        required == InOrder([c \in needed |-> {d \in needed : RequiredFirst(d, c)}])
        order == InOrder([c \in candidates |-> {d \in candidates : Worthier(d, c)}])
        first == AddAll("required", required, <<>>, budget)
        second == AddStructural(candidates, first, budget)
    IN  AddAll("rest", order, AddAll("shares", order, second, budget), budget)

-----------------------------------------------------------------------------
(* append_experience_context and assemble_context_packet *)

EventsOf(items) == {i.id : i \in {i \in ToSet(items) : i.kind = "event"}}
HistoryCost(selected) == Total([i \in DOMAIN selected |-> selected[i].tokens])
MembersOf(selected) == UNION {h.members : h \in ToSet(selected)}

UsedEvents(items, selected) == EventsOf(items) \cup MembersOf(selected)

Repeats(h, items, selected) == h.members \cap UsedEvents(items, selected) # {}

AddHistory(h, items, selected, room) ==
    IF Repeats(h, items, selected) \/ h.tokens > room - HistoryCost(selected)
    THEN selected ELSE Append(selected, h)

\* Experiences are ranked by their evidence; here by their identity.
Selected(items, budget) ==
    LET left == budget - Cost(items)
        room == IF HistoryTokens < left THEN HistoryTokens ELSE left
        order == InOrder([h \in history |-> {g \in history : g.id < h.id}])
        after[n \in 0 .. Len(order)] ==
            IF n = 0 THEN <<>> ELSE AddHistory(order[n], items, after[n - 1], room)
    IN  after[Len(order)]

Fill ==
    /\ packet.step = "gather"
    /\ packet' = [step |-> "filled", selected |-> <<>>,
                   items |-> Ordinary(Retained(pool, asked.limit), asked.budget)]
    /\ UNCHANGED <<pool, history, asked>>

\* BudgetExhausted: what was found was too large, and no repetition.
Supplement ==
    /\ packet.step = "filled"
    /\ \E selected \in {Selected(packet.items, asked.budget)} :
          LET tooLarge == selected = <<>> /\ history # {}
                  /\ \A h \in history : h.members \cap EventsOf(packet.items) = {}
          IN  packet' = [packet EXCEPT !.selected = selected,
                            !.step = IF tooLarge THEN "exhausted" ELSE "done"]
    /\ UNCHANGED <<pool, history, asked>>

Reserve ==
    /\ packet.step = "exhausted"
    /\ \E selected \in {Selected(<<>>, asked.budget)} :
          packet' = IF selected = <<>> THEN [packet EXCEPT !.step = "done"]
                    ELSE [packet EXCEPT !.selected = selected, !.step = "reserved"]
    /\ UNCHANGED <<pool, history, asked>>

Unreserved == asked.budget - HistoryCost(packet.selected)

Refill ==
    /\ packet.step = "reserved"
    /\ packet' = [packet EXCEPT !.step = "refilled",
                      !.items = Ordinary(Retained(pool, asked.limit), Unreserved)]
    /\ UNCHANGED <<pool, history, asked>>

SupplementAgain ==
    /\ packet.step = "refilled"
    /\ packet' = [packet EXCEPT !.step = "done",
                      !.selected = Selected(packet.items, asked.budget)]
    /\ UNCHANGED <<pool, history, asked>>

PacketNext ==
    \/ \E c \in Candidates : Offer(c)
    \/ \E h \in Histories : Recall(h) \/ Dispute(h)
    \/ Fill \/ Supplement \/ Reserve \/ Refill \/ SupplementAgain

PacketSpec == PacketInit /\ [][PacketNext]_packetVars

-----------------------------------------------------------------------------
(* Properties *)

\* The packet has all of it, or code around it, or could never take it.
Whole(c, items) ==
    \/ c \in ToSet(items) \/ Size(c) > MaxItemTokens
    \/ Redundant(c, {i \in ToSet(items) : i.id # c.id})

RequiredBefore(c) == {d \in pool : d.priority < 3 /\ ~RequiredFirst(c, d)}

\* The items are required sources of at least c's priority, c itself perhaps
\* cut, and they fill the budget but for the tokens spared.
LostToRequired(c, items, spared) ==
    /\ \A i \in DOMAIN items : \E d \in RequiredBefore(c) : d.id = items[i].id
    /\ Cost(items) + spared >= asked.budget

\* Whatever is required, structural, shared out, filled up, reserved and
\* refilled, and whatever the later searches find: the packet stays within its
\* budget, the experiences within theirs, only what is required or the one
\* structural source is cut, and no source is in it twice.  An event speaks
\* once, for itself or through one experience.  And a required source that is
\* missing or cut was one too many for the bounded pool, or the items are all
\* required at least as much as it is and fill the budget, except for what may
\* have been reserved for experiences.  (A reservation does cut what is
\* required: see RequiredNeverDisplaced.)
RequiredFillTheBudget ==
    packet.step = "done" =>
        LET items == packet.items
            selected == packet.selected
        IN  /\ Cost(items) + HistoryCost(selected) <= asked.budget
            /\ HistoryCost(selected) <= HistoryTokens
            /\ \A i, j \in DOMAIN items : items[i].id = items[j].id => i = j
            /\ \A i \in DOMAIN items :
                  items[i] \in pool \/ items[i].priority < 3 \/ items[i].structural
            /\ MembersOf(selected) \cap EventsOf(items) = {}
            /\ \A g, h \in ToSet(selected) : g # h => g.members \cap h.members = {}
            /\ \A c \in pool : c.priority < 3 /\ ~Whole(c, items) =>
                  \/ Cardinality(RequiredBefore(c)) > asked.limit
                  \/ LostToRequired(c, items, HistoryTokens)

\* D074: "required task/state, current Event, and pinned evidence are never
\* displaced" by an experience.  What is required and found no place lost it to
\* what is required at least as much, and to nothing else.
RequiredNeverDisplaced ==
    packet.step = "done" =>
        \A c \in pool : c.priority < 3 /\ ~Whole(c, packet.items) =>
            \/ Cardinality(RequiredBefore(c)) > asked.limit
            \/ LostToRequired(c, packet.items, 0)
=============================================================================
