---------------------------- MODULE ServicesProofs ----------------------------
(***************************************************************************)
(* Theorems about the services that keep no index: the working set, the     *)
(* import of captured test runs, the trust of memories, the reviews of      *)
(* experiences, and episodes with the experience each may end in, for any   *)
(* callers, rows, events, keys, builds, contents and bounds.               *)
(***************************************************************************)
EXTENDS WorkingSet, TestImport, MemoryReview, ExperienceReview, EpisodeLedger, Foundations

-----------------------------------------------------------------------------
(* The working set *)

\* Identities of rows grow, and no row has one that was not given yet.
RowsNumbered ==
    /\ lastRow \in Nat /\ DOMAIN entry = Sources
    /\ \A s \in Sources : entry[s] = NoRow \/ entry[s].id \in 1 .. lastRow

PinsCounted ==
    /\ IsFiniteSet(pins) /\ crowded \in BOOLEAN
    /\ ~crowded => Cardinality(pins) <= MaxItems

GuardedHaveRows ==
    /\ guarded \subseteq pins /\ guarded \subseteq Sources
    /\ \A s \in guarded : entry[s] # NoRow

\* What a caller has read names rows that were there; a deletion that is
\* decided names no guarded row, not even one that was guarded meanwhile.
CallKnows(a) ==
    /\ agent[a].step \in {"read", "swap"} => agent[a].source \in Sources
    /\ agent[a].step = "pins" => \A s \in Sources : agent[a].seen[s].id \in 0 .. lastRow
    /\ agent[a].step = "delete" =>
          /\ \A s \in Sources : \A i \in Nat : <<s, i>> \in agent[a].rows => i <= lastRow
          /\ ~crowded => \A s \in guarded : <<s, entry[s].id>> \notin agent[a].rows

SetInv ==
    /\ RowsNumbered /\ PinsCounted /\ GuardedHaveRows
    /\ DOMAIN agent = Agents /\ \A a \in Agents : CallKnows(a)

\* What every step does to rows: a guarded row is an old one, or a new one.
RowsMove ==
    /\ lastRow' \in Nat /\ lastRow' >= lastRow
    /\ crowded => crowded'
    /\ \A s \in guarded' :
          \/ s \in guarded /\ entry'[s].id = entry[s].id
          \/ entry'[s].id \in Nat /\ entry'[s].id > lastRow

LEMMA Bounds == MaxItems \in Nat
BY SetBounds

-----------------------------------------------------------------------------
LEMMA CallStays ==
    ASSUME SetInv, RowsMove, guarded' \subseteq Sources, NEW b \in Agents, agent'[b] = agent[b]
    PROVE  CallKnows(b)'
<1>1. CallKnows(b) /\ lastRow \in Nat /\ lastRow' \in Nat /\ lastRow' >= lastRow
  BY DEF SetInv, RowsNumbered, RowsMove
<1>2. ASSUME agent[b].step = "delete", ~crowded', NEW s \in guarded'
      PROVE  <<s, entry'[s].id>> \notin agent[b].rows
  <2>1. ~crowded
    BY <1>2 DEF RowsMove
  <2>2. CASE s \in guarded /\ entry'[s].id = entry[s].id
    BY <1>1, <1>2, <2>1, <2>2 DEF CallKnows
  <2>3. CASE entry'[s].id \in Nat /\ entry'[s].id > lastRow
    BY <1>1, <1>2, <2>3 DEF CallKnows
  <2> QED
    BY <2>2, <2>3 DEF RowsMove
<1>3. agent[b].step = "delete" =>
         \A s \in Sources : \A i \in Nat : <<s, i>> \in agent[b].rows => i <= lastRow'
  BY <1>1 DEF CallKnows
<1>4. agent[b].step = "pins" => \A s \in Sources : agent[b].seen[s].id \in 0 .. lastRow'
  BY <1>1 DEF CallKnows
<1> QED
  BY <1>1, <1>2, <1>3, <1>4 DEF CallKnows

\* Steps that leave the rows and the pins alone and move one caller.
LEMMA OneCall ==
    ASSUME SetInv, UNCHANGED <<entry, lastRow, guarded, pins, crowded>>,
           NEW a \in Agents, NEW call, agent' = [agent EXCEPT ![a] = call],
           agent'[a] = call => CallKnows(a)'
    PROVE  SetInv'
<1>1. RowsNumbered' /\ PinsCounted' /\ GuardedHaveRows'
  BY DEF SetInv, RowsNumbered, PinsCounted, GuardedHaveRows
<1>2. RowsMove
  BY DEF RowsMove, SetInv, RowsNumbered
<1>3. DOMAIN agent' = Agents /\ agent'[a] = call
      /\ \A b \in Agents \ {a} : agent'[b] = agent[b]
  BY DEF SetInv
<1>4. guarded' \subseteq Sources
  BY DEF SetInv, GuardedHaveRows
<1>5. \A b \in Agents : CallKnows(b)'
  BY <1>2, <1>3, <1>4, CallStays
<1> QED
  BY <1>1, <1>3, <1>5 DEF SetInv

LEMMA OneCallAsks ==
    ASSUME SetInv, UNCHANGED <<entry, lastRow, guarded, pins, crowded>>,
           NEW a \in Agents, NEW call, agent' = [agent EXCEPT ![a] = call],
           call.step \notin {"pins", "delete"},
           call.step \in {"read", "swap"} => call.source \in Sources
    PROVE  SetInv'
BY OneCall DEF CallKnows

\* A pinned row is not decided to go: it has not to be fresh, and only pinned
\* rows may come before it.
LEMMA PinnedStay ==
    ASSUME NEW pinned, IsFiniteSet(pinned), Cardinality(pinned) <= MaxItems,
           NEW seen, NEW now, NEW s \in pinned
    PROVE  s \notin Pruned(seen, pinned, now)
<1> DEFINE rows == {x \in Sources : seen[x] # NoRow}
           stays == {x \in rows : Stays(x, seen, pinned, now)}
           ahead == {t \in stays \ {s} : Before(t, s, seen, pinned, now)}
           over == {x \in stays :
              Cardinality({t \in stays \ {x} : Before(t, x, seen, pinned, now)}) >= MaxItems}
<1>1. ahead \subseteq pinned \ {s}
  <2> SUFFICES ASSUME NEW t, Before(t, s, seen, pinned, now) PROVE t \in pinned
    OBVIOUS
  <2> DEFINE key(x) == <<IF x \in pinned THEN 1 ELSE 0, Decayed(seen[x], now), seen[x].at,
                         MaxRowIds - seen[x].id>>
  <2>1. PICK i \in 1 .. 4 : /\ key(t)[i] > key(s)[i]
                            /\ \A j \in 1 .. i - 1 : key(t)[j] = key(s)[j]
    BY DEF Before
  <2>2. key(s)[1] = 1 /\ key(t)[1] = IF t \in pinned THEN 1 ELSE 0
    OBVIOUS
  <2> HIDE DEF key
  <2>3. CASE i = 1
    BY <2>1, <2>2, <2>3
  <2>4. CASE i # 1
    <3>1. 1 \in 1 .. i - 1
      BY <2>4
    <3> QED
      BY <2>1, <2>2, <3>1
  <2> QED
    BY <2>3, <2>4
<1>2. Cardinality(pinned \ {s}) = Cardinality(pinned) - 1 /\ IsFiniteSet(pinned \ {s})
  BY FS_RemoveElement
<1>3. Cardinality(ahead) <= Cardinality(pinned \ {s}) /\ IsFiniteSet(ahead)
  BY <1>1, <1>2, FS_Subset
<1>4. Cardinality(ahead) \in Nat /\ Cardinality(pinned) \in Nat
  BY <1>3, FS_CardinalityType
<1>5. ~(Cardinality(ahead) >= MaxItems)
  BY <1>2, <1>3, <1>4, Bounds
<1>6. s \notin over
  BY <1>5
<1>7. s \notin rows \ stays
  BY DEF Stays
<1> QED
  BY <1>6, <1>7 DEF Pruned

-----------------------------------------------------------------------------
(* The operations *)

LEMMA CallsStep ==
    ASSUME SetInv, NEW a \in Agents,
           \/ \E s \in Sources : Activate(a, s) \/ AskPin(a, s)
           \/ Inspect(a) \/ ReadRow(a) \/ ReadEntries(a)
    PROVE  SetInv'
<1>1. ASSUME NEW s \in Sources, Activate(a, s)
      PROVE  SetInv'
  <2> DEFINE call == [step |-> "read", source |-> s, now |-> clock, left |-> MaxRetries]
  <2>1. agent' = [agent EXCEPT ![a] = call] /\ UNCHANGED <<entry, lastRow, guarded, pins, crowded>>
    BY <1>1 DEF Activate, rowState
  <2>2. call.step = "read" /\ call.source = s
    OBVIOUS
  <2> HIDE DEF call
  <2> QED
    BY <2>1, <2>2, OneCallAsks
<1>2. ASSUME NEW s \in Sources, AskPin(a, s)
      PROVE  SetInv'
  <2> DEFINE call == [step |-> "pin", source |-> s]
  <2>1. agent' = [agent EXCEPT ![a] = call] /\ UNCHANGED <<entry, lastRow, guarded, pins, crowded>>
    BY <1>2 DEF AskPin, rowState
  <2>2. call.step = "pin"
    OBVIOUS
  <2> HIDE DEF call
  <2> QED
    BY <2>1, <2>2, OneCallAsks
<1>3. CASE Inspect(a)
  <2> DEFINE call == [step |-> "entries"]
  <2>1. agent' = [agent EXCEPT ![a] = call] /\ UNCHANGED <<entry, lastRow, guarded, pins, crowded>>
    BY <1>3 DEF Inspect, rowState
  <2>2. call.step = "entries"
    OBVIOUS
  <2> HIDE DEF call
  <2> QED
    BY <2>1, <2>2, OneCallAsks
<1>4. CASE ReadRow(a)
  <2>1. agent[a].source \in Sources
    BY <1>4 DEF ReadRow, SetInv, CallKnows
  <2> DEFINE call == IF agent[a].left = 0 THEN Sleeping
                     ELSE [step |-> "swap", source |-> agent[a].source, now |-> agent[a].now,
                           left |-> agent[a].left - 1, row |-> entry[agent[a].source]]
  <2>2. agent' = [agent EXCEPT ![a] = call] /\ UNCHANGED <<entry, lastRow, guarded, pins, crowded>>
    BY <1>4 DEF ReadRow, rowState
  <2>3. call.step \in {"idle", "swap"} /\ (call.step = "swap" => call.source \in Sources)
    BY <2>1 DEF Sleeping
  <2> HIDE DEF call
  <2> QED
    BY <2>2, <2>3, OneCallAsks
<1>5. CASE ReadEntries(a)
  <2> DEFINE call == [step |-> "pins", seen |-> entry, now |-> clock]
  <2>1. agent' = [agent EXCEPT ![a] = call] /\ UNCHANGED <<entry, lastRow, guarded, pins, crowded>>
    BY <1>5 DEF ReadEntries, rowState
  <2>2. \A s \in Sources : entry[s].id \in 0 .. lastRow
    BY DEF SetInv, RowsNumbered, NoRow
  <2>3. call.step = "pins" /\ call.seen = entry
    OBVIOUS
  <2> HIDE DEF call
  <2> QED
    BY <2>1, <2>2, <2>3, OneCall DEF CallKnows
<1> QED
  BY <1>1, <1>2, <1>3, <1>4, <1>5

LEMMA ReadPinsStep ==
    ASSUME SetInv, NEW a \in Agents, ReadPins(a)
    PROVE  SetInv'
<1> DEFINE seen == agent[a].seen
           doomed == Pruned(seen, pins, agent[a].now)
           gone == {<<s, seen[s].id>> : s \in doomed}
           call == IF doomed = {} THEN Sleeping ELSE [step |-> "delete", rows |-> gone]
<1>1. agent' = [agent EXCEPT ![a] = call] /\ UNCHANGED <<entry, lastRow, guarded, pins, crowded>>
  BY DEF ReadPins, rowState
<1>2. \A s \in Sources : seen[s].id \in 0 .. lastRow
  BY DEF ReadPins, SetInv, CallKnows
<1>3. \A s \in Sources : \A i \in Nat : <<s, i>> \in gone => i <= lastRow
  BY <1>2 DEF SetInv, RowsNumbered
<1>4. ~crowded => \A s \in guarded : s \notin doomed
  BY PinnedStay DEF SetInv, PinsCounted, GuardedHaveRows
<1>5. ~crowded => \A s \in guarded : <<s, entry[s].id>> \notin gone
  BY <1>4
<1>6. call.step \in {"idle", "delete"} /\ (call.step = "delete" => call.rows = gone)
  BY DEF Sleeping
<1> HIDE DEF seen, doomed, gone, call
<1> QED
  BY <1>1, <1>3, <1>5, <1>6, OneCall DEF CallKnows

LEMMA SwapStep ==
    ASSUME SetInv, NEW a \in Agents, SwapRow(a)
    PROVE  SetInv' /\ RowsMove /\ (\A s \in guarded : entry'[s] # NoRow)
<1> DEFINE s == agent[a].source
           row == agent[a].row
           new == Activated(row, agent[a].now)
<1>1. s \in Sources
  BY DEF SwapRow, SetInv, CallKnows
<1>2. lastRow \in Nat /\ DOMAIN entry = Sources
  BY DEF SetInv, RowsNumbered
<1>3. CASE /\ AsSeen(s, row)
           /\ entry' = [entry EXCEPT ![s] = new]
           /\ lastRow' = IF row = NoRow THEN lastRow + 1 ELSE lastRow
           /\ guarded' = IF row = NoRow /\ s \in pins THEN guarded \cup {s} ELSE guarded
           /\ agent' = [agent EXCEPT ![a] = [step |-> "entries"]]
           /\ UNCHANGED <<pins, crowded>>
  <2>1. /\ new.id = IF row = NoRow THEN lastRow + 1 ELSE row.id
        /\ entry[s] = row
        /\ row # NoRow => row.id \in 1 .. lastRow
    BY <1>1, <1>3 DEF Activated, AsSeen, SetInv, RowsNumbered
  <2>2. new.id \in 1 .. lastRow' /\ lastRow' \in Nat /\ lastRow' >= lastRow
    BY <1>2, <1>3, <2>1
  <2>3. new # NoRow
    BY <2>2 DEF NoRow
  <2> HIDE DEF new
  <2>4. entry'[s] = new /\ (\A t \in Sources \ {s} : entry'[t] = entry[t]) /\ DOMAIN entry' = Sources
    BY <1>1, <1>2, <1>3
  <2>5. RowsNumbered'
    <3> SUFFICES ASSUME NEW t \in Sources
                 PROVE  entry'[t] = NoRow \/ entry'[t].id \in 1 .. lastRow'
      BY <2>2, <2>4 DEF RowsNumbered
    <3>1. CASE t = s
      BY <2>2, <2>4, <3>1
    <3>2. CASE t # s
      BY <1>2, <2>2, <2>4, <3>2 DEF SetInv, RowsNumbered
    <3> QED
      BY <3>1, <3>2
  <2>6. GuardedHaveRows'
    BY <1>1, <1>3, <2>3, <2>4 DEF SetInv, GuardedHaveRows
  <2>7. PinsCounted'
    BY <1>3 DEF SetInv, PinsCounted
  <2>8. RowsMove
    <3> SUFFICES ASSUME NEW t \in guarded'
                 PROVE  \/ t \in guarded /\ entry'[t].id = entry[t].id
                        \/ entry'[t].id \in Nat /\ entry'[t].id > lastRow
      BY <1>3, <2>2 DEF RowsMove
    <3>1. CASE t # s
      BY <1>3, <2>4, <3>1 DEF SetInv, GuardedHaveRows
    <3>2. CASE t = s /\ row = NoRow
      BY <1>2, <2>1, <2>4, <3>2
    <3>3. CASE t = s /\ row # NoRow
      BY <1>3, <2>1, <2>4, <3>3
    <3> QED
      BY <3>1, <3>2, <3>3
  <2>9. DOMAIN agent' = Agents /\ agent'[a] = [step |-> "entries"]
        /\ \A b \in Agents \ {a} : agent'[b] = agent[b]
    BY <1>3 DEF SetInv
  <2>10. \A b \in Agents : CallKnows(b)'
    <3> SUFFICES ASSUME NEW b \in Agents PROVE CallKnows(b)'
      OBVIOUS
    <3>1. CASE b = a
      BY <2>9, <3>1 DEF CallKnows
    <3>2. CASE b # a
      BY <2>6, <2>8, <2>9, <3>2, CallStays DEF GuardedHaveRows
    <3> QED
      BY <3>1, <3>2
  <2>11. \A t \in guarded : entry'[t] # NoRow
    BY <2>3, <2>4 DEF SetInv, GuardedHaveRows
  <2> QED
    BY <2>5, <2>6, <2>7, <2>8, <2>9, <2>10, <2>11 DEF SetInv
<1>4. CASE /\ agent' = [agent EXCEPT ![a] = [step |-> "read", source |-> s,
                        now |-> agent[a].now, left |-> agent[a].left]]
           /\ UNCHANGED <<entry, lastRow, guarded, pins, crowded>>
  <2>1. SetInv'
    <3> DEFINE call == [step |-> "read", source |-> s, now |-> agent[a].now,
                        left |-> agent[a].left]
    <3>1. call.step = "read" /\ call.source = s
      OBVIOUS
    <3>2. agent' = [agent EXCEPT ![a] = call]
      BY <1>4
    <3> HIDE DEF call, s
    <3> QED
      BY <1>1, <1>4, <3>1, <3>2, OneCall DEF CallKnows
  <2>2. RowsMove /\ \A t \in guarded : entry'[t] # NoRow
    BY <1>2, <1>4 DEF RowsMove, SetInv, GuardedHaveRows
  <2> QED
    BY <2>1, <2>2
<1> QED
  BY <1>3, <1>4 DEF SwapRow, rowState

LEMMA DeleteStep ==
    ASSUME SetInv, NEW a \in Agents, DeleteRows(a)
    PROVE  SetInv' /\ RowsMove /\ (~crowded => \A s \in guarded : entry'[s] # NoRow)
<1> DEFINE gone == ById(agent[a].rows)
<1>1. /\ entry' = [s \in Sources |-> IF s \in gone THEN NoRow ELSE entry[s]]
      /\ guarded' = guarded \ gone
      /\ agent' = [agent EXCEPT ![a] = Sleeping]
      /\ UNCHANGED <<lastRow, pins, crowded>>
  BY DEF DeleteRows
<1>2. ~crowded => guarded \cap gone = {}
  BY DEF DeleteRows, SetInv, CallKnows, ById
<1> HIDE DEF gone
<1>3. RowsNumbered'
  BY <1>1 DEF SetInv, RowsNumbered
<1>4. PinsCounted'
  BY <1>1 DEF SetInv, PinsCounted
<1>5. GuardedHaveRows'
  BY <1>1 DEF SetInv, GuardedHaveRows
<1>6. RowsMove
  BY <1>1 DEF RowsMove, SetInv, RowsNumbered, GuardedHaveRows
<1>7. DOMAIN agent' = Agents /\ agent'[a] = Sleeping
      /\ \A b \in Agents \ {a} : agent'[b] = agent[b]
  BY <1>1 DEF SetInv
<1>8. \A b \in Agents : CallKnows(b)'
  <2> SUFFICES ASSUME NEW b \in Agents PROVE CallKnows(b)'
    OBVIOUS
  <2>1. CASE b = a
    BY <1>7, <2>1 DEF CallKnows, Sleeping
  <2>2. CASE b # a
    BY <1>5, <1>6, <1>7, <2>2, CallStays DEF GuardedHaveRows
  <2> QED
    BY <2>1, <2>2
<1>9. ~crowded => \A s \in guarded : entry'[s] # NoRow
  BY <1>1, <1>2 DEF SetInv, GuardedHaveRows
<1> QED
  BY <1>3, <1>4, <1>5, <1>6, <1>7, <1>8, <1>9 DEF SetInv

LEMMA InsertPinStep ==
    ASSUME SetInv, NEW a \in Agents, InsertPin(a)
    PROVE  SetInv'
<1> DEFINE s == agent[a].source
<1>1. /\ pins' = pins \cup {s}
      /\ crowded' = (crowded \/ Cardinality(pins') > MaxItems)
      /\ agent' = [agent EXCEPT ![a] = Sleeping]
      /\ UNCHANGED <<entry, lastRow, guarded>>
  BY DEF InsertPin, rowState
<1> HIDE DEF s
<1>2. IsFiniteSet(pins')
  BY <1>1, FS_AddElement DEF SetInv, PinsCounted
<1>3. Cardinality(pins') \in Nat
  BY <1>2, FS_CardinalityType
<1>4. PinsCounted'
  <2>1. crowded' \in BOOLEAN
    BY <1>1 DEF SetInv, PinsCounted
  <2>2. ~crowded' => ~(Cardinality(pins') > MaxItems)
    BY <1>1
  <2>3. ~crowded' => Cardinality(pins') <= MaxItems
    BY <1>3, <2>2, Bounds
  <2> QED
    BY <1>2, <2>1, <2>3 DEF PinsCounted
<1>5. RowsNumbered' /\ GuardedHaveRows'
  BY <1>1 DEF SetInv, RowsNumbered, GuardedHaveRows
<1>6. RowsMove
  <2>1. crowded => crowded'
    BY <1>1, Zenon
  <2>2. lastRow' \in Nat /\ lastRow' >= lastRow
    BY <1>1 DEF SetInv, RowsNumbered
  <2>3. \A t \in guarded' : t \in guarded /\ entry'[t].id = entry[t].id
    BY <1>1
  <2> QED
    BY <2>1, <2>2, <2>3 DEF RowsMove
<1>7. DOMAIN agent' = Agents /\ agent'[a] = Sleeping
      /\ \A b \in Agents \ {a} : agent'[b] = agent[b]
  BY <1>1 DEF SetInv
<1>8. \A b \in Agents : CallKnows(b)'
  <2> SUFFICES ASSUME NEW b \in Agents PROVE CallKnows(b)'
    OBVIOUS
  <2>1. CASE b = a
    BY <1>7, <2>1 DEF CallKnows, Sleeping
  <2>2. CASE b # a
    BY <1>5, <1>6, <1>7, <2>2, CallStays DEF GuardedHaveRows
  <2> QED
    BY <2>1, <2>2
<1> QED
  BY <1>4, <1>5, <1>7, <1>8 DEF SetInv

LEMMA UnpinStep ==
    ASSUME SetInv, NEW s \in Sources, Unpin(s)
    PROVE  SetInv'
<1>1. /\ s \in pins /\ pins' = pins \ {s} /\ guarded' = guarded \ {s}
      /\ UNCHANGED <<entry, lastRow, agent, crowded>>
  BY DEF Unpin
<1>2. PinsCounted'
  <2>1. IsFiniteSet(pins') /\ Cardinality(pins') = Cardinality(pins) - 1
    BY <1>1, FS_RemoveElement DEF SetInv, PinsCounted
  <2>2. Cardinality(pins) \in Nat
    BY FS_CardinalityType DEF SetInv, PinsCounted
  <2> QED
    BY <1>1, <2>1, <2>2, Bounds DEF SetInv, PinsCounted
<1>3. RowsNumbered' /\ GuardedHaveRows'
  BY <1>1 DEF SetInv, RowsNumbered, GuardedHaveRows
<1>4. RowsMove
  BY <1>1 DEF RowsMove, SetInv, RowsNumbered
<1>5. \A b \in Agents : CallKnows(b)'
  BY <1>1, <1>3, <1>4, CallStays DEF GuardedHaveRows
<1> QED
  BY <1>1, <1>2, <1>3, <1>5 DEF SetInv

LEMMA SetInvInit == SetInit => SetInv
<1> SUFFICES ASSUME SetInit PROVE SetInv
  OBVIOUS
<1>1. RowsNumbered /\ GuardedHaveRows
  BY DEF SetInit, RowsNumbered, GuardedHaveRows
<1>2. PinsCounted
  <2>1. pins = {} /\ crowded = FALSE
    BY DEF SetInit
  <2>2. IsFiniteSet(pins) /\ Cardinality(pins) = 0
    BY <2>1, FS_EmptySet
  <2>3. crowded \in BOOLEAN
    BY <2>1
  <2>4. Cardinality(pins) <= MaxItems
    BY <2>2, Bounds
  <2> QED
    BY <2>2, <2>3, <2>4 DEF PinsCounted
<1>3. DOMAIN agent = Agents /\ \A a \in Agents : CallKnows(a)
  BY DEF SetInit, CallKnows, Sleeping
<1> QED
  BY <1>1, <1>2, <1>3 DEF SetInv

\* One step keeps the invariant, and guarded rows unless too much is pinned.
LEMMA SetInvStep ==
    ASSUME SetInv, [SetNext]_setVars
    PROVE  SetInv' /\ (~crowded => \A s \in guarded : s \in pins' => entry'[s] # NoRow)
<1>1. CASE UNCHANGED <<entry, lastRow, guarded, pins, crowded, agent>>
  BY <1>1 DEF SetInv, RowsNumbered, PinsCounted, GuardedHaveRows, CallKnows
<1>2. CASE UNCHANGED entry /\ SetInv'
  BY <1>2 DEF SetInv, GuardedHaveRows
<1>3. CASE \E s \in Sources : Unpin(s)
  BY <1>2, <1>3, UnpinStep DEF Unpin
<1>4. ASSUME NEW a \in Agents,
             \/ \E s \in Sources : Activate(a, s) \/ AskPin(a, s)
             \/ ReadRow(a) \/ SwapRow(a) \/ Inspect(a) \/ ReadEntries(a) \/ ReadPins(a)
             \/ DeleteRows(a) \/ InsertPin(a)
      PROVE  SetInv' /\ (~crowded => \A s \in guarded : s \in pins' => entry'[s] # NoRow)
  <2>1. CASE \/ \E s \in Sources : Activate(a, s) \/ AskPin(a, s)
             \/ Inspect(a) \/ ReadRow(a) \/ ReadEntries(a)
    <3>1. UNCHANGED entry
      BY <2>1 DEF Activate, AskPin, Inspect, ReadRow, ReadEntries, rowState
    <3> QED
      BY <1>2, <2>1, <3>1, CallsStep
  <2>2. CASE ReadPins(a)
    BY <1>2, <2>2, ReadPinsStep DEF ReadPins, rowState
  <2>3. CASE InsertPin(a)
    BY <1>2, <2>3, InsertPinStep DEF InsertPin, rowState
  <2>4. CASE SwapRow(a)
    BY <2>4, SwapStep
  <2>5. CASE DeleteRows(a)
    BY <2>5, DeleteStep
  <2> QED
    BY <1>4, <2>1, <2>2, <2>3, <2>4, <2>5
<1>5. CASE Pass
  BY <1>1, <1>5 DEF Pass, rowState
<1> QED
  BY <1>1, <1>3, <1>4, <1>5 DEF SetNext, setVars

\* D022: a pin that was there before its row protects the row from every
\* pruning, for any number of callers of prune_session, in any order of their
\* reads, swaps and deletions.
THEOREM PinsProtect == SetSpec => PinsProtectRows
<1>1. SetInit => SetInv
  BY SetInvInit
<1>2. SetInv /\ [SetNext]_setVars => SetInv'
  BY SetInvStep
<1>3. SetInv /\ [SetNext]_setVars
        => [~crowded => \A s \in guarded : s \in pins' => entry'[s] # NoRow]_setVars
  BY SetInvStep
<1> QED
  BY <1>1, <1>2, <1>3, PTL DEF SetSpec, PinsProtectRows

\* Every activation writes what the activations before it have made of the row.
LEMMA IncrementsStay == NoIncrementLost /\ [SetNext]_setVars => NoIncrementLost'
<1> SUFFICES ASSUME NoIncrementLost, [SetNext]_setVars PROVE NoIncrementLost'
  OBVIOUS
<1> USE DEF NoIncrementLost
<1>1. CASE UNCHANGED <<entry, merged>>
  BY <1>1
<1>2. ASSUME NEW a \in Agents, SwapRow(a) PROVE NoIncrementLost'
  <2> DEFINE s == agent[a].source
  <2>1. CASE AsSeen(s, agent[a].row)
    BY <1>2, <2>1 DEF SwapRow, AsSeen
  <2>2. CASE ~AsSeen(s, agent[a].row)
    BY <1>2, <2>2 DEF SwapRow, rowState
  <2> QED
    BY <2>1, <2>2
<1>3. ASSUME NEW a \in Agents, DeleteRows(a) PROVE NoIncrementLost'
  BY <1>3 DEF DeleteRows
<1> QED
  BY <1>1, <1>2, <1>3 DEF SetNext, Pass, Unpin, Activate, AskPin, ReadRow, Inspect,
     ReadEntries, ReadPins, InsertPin, rowState, setVars

\* D022: no increment of activate_source is lost, for any number of callers.
THEOREM IncrementsKept == SetSpec => []NoIncrementLost
<1>1. SetInit => NoIncrementLost
  BY DEF SetInit, NoIncrementLost
<1> QED
  BY <1>1, IncrementsStay, PTL DEF SetSpec

-----------------------------------------------------------------------------
(* The working set: types *)

\* What a call remembers as far as a swap or a pin writes it
Asking == [step : {"read"}, source : Sources, now : 0 .. MaxTicks, left : Nat]
Swapping == [step : {"swap"}, source : Sources, now : 0 .. MaxTicks, left : Nat, row : SetRow]
Pinning == [step : {"pin"}, source : Sources]

CallTyped(a) ==
    /\ agent[a].step \in {"idle", "read", "swap", "entries", "pins", "delete", "pin"}
    /\ agent[a].step = "read" => agent[a] \in Asking
    /\ agent[a].step = "swap" => agent[a] \in Swapping
    /\ agent[a].step = "pin" => agent[a] \in Pinning

SetTypes ==
    /\ entry \in [Sources -> SetRow] /\ lastRow \in 0 .. MaxRowIds
    /\ pins \subseteq Sources /\ guarded \subseteq pins
    /\ clock \in 0 .. MaxTicks /\ crowded \in BOOLEAN
    /\ merged = entry
    /\ DOMAIN agent = Agents /\ \A a \in Agents : CallTyped(a)

LEMMA SetNumbers ==
    /\ Increment \in Nat /\ MaxScore \in Nat /\ MaxRetries \in Nat
    /\ MaxRowIds \in Nat /\ MaxTicks \in Nat
BY SetBounds

\* A number that is halved again and again stays in a set closed under halving.
LEMMA Halvings ==
    ASSUME NEW d \in Nat, NEW V, NEW base \in V, \A v \in V : v \div 2 \in V, NEW age \in 0 .. d
    PROVE  (CHOOSE h : h = [n \in 0 .. d |-> IF n = 0 THEN base ELSE h[n - 1] \div 2])[age] \in V
<1> DEFINE step == [k \in 1 .. d |-> [v \in V |-> v \div 2]]
           Recursive(h) == h = [n \in 0 .. d |-> IF n = 0 THEN base ELSE h[n - 1] \div 2]
<1>1. step \in [1 .. d -> [V -> V]]
  OBVIOUS
<1> HIDE DEF step
<1>2. PICK f \in [0 .. d -> V] : f[0] = base /\ \A k \in 1 .. d : f[k] = step[k][f[k - 1]]
  BY <1>1, Recursion
<1>3. \E h : Recursive(h)
  <2>1. ASSUME NEW k \in 1 .. d PROVE f[k] = f[k - 1] \div 2
    <3>1. k - 1 \in 0 .. d
      OBVIOUS
    <3>2. f[k - 1] \in V
      BY <3>1
    <3> QED
      BY <1>2, <3>2 DEF step
  <2>2. \A k \in 0 .. d : k = 0 \/ k \in 1 .. d
    OBVIOUS
  <2>3. \A k \in 0 .. d : f[k] = IF k = 0 THEN base ELSE f[k - 1] \div 2
    BY <1>2, <2>1, <2>2
  <2>4. f = [k \in 0 .. d |-> f[k]]
    OBVIOUS
  <2>5. Recursive(f)
    BY <2>3, <2>4
  <2> QED
    BY <2>5
<1> DEFINE h == CHOOSE h : Recursive(h)
<1>4. Recursive(h)
  BY <1>3
<1>5. \A n \in 0 .. d : h[n] = IF n = 0 THEN base ELSE h[n - 1] \div 2
  BY <1>4
<1> SUFFICES h[age] \in V
  OBVIOUS
<1> HIDE DEF Recursive, h
<1> DEFINE Typed == {n \in 0 .. d : h[n] \in V}
<1>6. 0 \in Typed
  <2>1. 0 \in 0 .. d
    OBVIOUS
  <2> QED
    BY <1>5, <2>1
<1>7. \A n \in 0 .. d : n < d /\ n \in Typed => n + 1 \in Typed
  <2> TAKE n \in 0 .. d
  <2> HAVE n < d /\ n \in Typed
  <2>1. n + 1 \in 0 .. d /\ n + 1 # 0 /\ (n + 1) - 1 = n
    OBVIOUS
  <2>2. h[n + 1] = h[n] \div 2
    BY <1>5, <2>1
  <2> QED
    BY <2>1, <2>2
<1> HIDE DEF Typed
<1>8. \A n \in 0 .. d : n \in Typed
  BY <1>6, <1>7, InductionUpTo
<1> QED
  BY <1>8 DEF Typed

LEMMA DecayedIs ==
    ASSUME NEW row \in SetRow, NEW now \in 0 .. MaxTicks
    PROVE  Decayed(row, now) \in 0 .. MaxScore
<1> DEFINE V == 0 .. MaxScore
           d == MaxTicks
           base == row.score
           age == IF now > row.at THEN now - row.at ELSE 0
<1>1. d \in Nat /\ base \in V /\ row.at \in 0 .. d
  BY SetNumbers DEF SetRow
<1>2. \A v \in V : v \div 2 \in V
  BY SetNumbers
<1>3. age \in 0 .. d
  BY <1>1
<1>4. Decayed(row, now)
        = (CHOOSE h : h = [n \in 0 .. d |-> IF n = 0 THEN base ELSE h[n - 1] \div 2])[age]
  BY DEF Decayed
<1> HIDE DEF age, V, d, base
<1> QED
  BY <1>1, <1>2, <1>3, <1>4, Halvings DEF V

LEMMA ActivatedIs ==
    ASSUME NEW row \in SetRow, NEW now \in 0 .. MaxTicks, lastRow \in 0 .. MaxRowIds,
           row = NoRow => lastRow < MaxRowIds
    PROVE  Activated(row, now) \in SetRow
<1> DEFINE score == IF row = NoRow THEN 0 ELSE Decayed(row, now)
           id == IF row = NoRow THEN lastRow + 1 ELSE row.id
<1>1. score \in 0 .. MaxScore
  BY DecayedIs, SetNumbers
<1>2. id \in 0 .. MaxRowIds
  BY SetNumbers DEF SetRow
<1>3. Activated(row, now) = [id |-> id, at |-> now, score |-> Raised(score)]
  BY DEF Activated
<1> HIDE DEF score, id
<1>4. Raised(score) \in 0 .. MaxScore
  BY <1>1, SetNumbers DEF Raised
<1> QED
  BY <1>2, <1>3, <1>4 DEF SetRow

LEMMA NoRowTyped == NoRow \in SetRow
BY SetNumbers DEF NoRow, SetRow

\* One call moves to what it may remember, the others stay.
LEMMA OneCallTyped ==
    ASSUME SetTypes, NEW a \in Agents, NEW c, agent' = [agent EXCEPT ![a] = c],
           \/ c.step \in {"idle", "entries", "pins", "delete"}
           \/ c \in Asking \cup Swapping \cup Pinning
    PROVE  DOMAIN agent' = Agents /\ \A b \in Agents : CallTyped(b)'
<1>1. DOMAIN agent' = Agents
  BY DEF SetTypes
<1>2. agent'[a] = c /\ \A b \in Agents : b # a => agent'[b] = agent[b]
  BY DEF SetTypes
<1>3. CallTyped(a)'
  BY <1>2 DEF CallTyped, Asking, Swapping, Pinning
<1>4. ASSUME NEW b \in Agents, b # a PROVE CallTyped(b)'
  BY <1>2, <1>4 DEF SetTypes, CallTyped
<1> QED
  BY <1>1, <1>3, <1>4

LEMMA SwapTyped ==
    ASSUME SetTypes, NEW a \in Agents, SwapRow(a)
    PROVE  SetTypes'
<1> DEFINE s == agent[a].source
           row == agent[a].row
           now == agent[a].now
<1>1. s \in Sources /\ row \in SetRow /\ now \in 0 .. MaxTicks /\ agent[a].left \in Nat
  BY DEF SwapRow, SetTypes, CallTyped, Swapping
<1>2. row = NoRow => lastRow < MaxRowIds
  BY DEF SwapRow
<1>3. UNCHANGED <<pins, clock, crowded>>
  BY DEF SwapRow
<1>4. CASE AsSeen(s, row)
  <2>1. /\ entry' = [entry EXCEPT ![s] = Activated(row, now)]
        /\ merged' = [merged EXCEPT ![s] = Activated(merged[s], now)]
        /\ lastRow' = IF row = NoRow THEN lastRow + 1 ELSE lastRow
        /\ guarded' = IF row = NoRow /\ s \in pins THEN guarded \cup {s} ELSE guarded
        /\ agent' = [agent EXCEPT ![a] = [step |-> "entries"]]
    BY <1>4 DEF SwapRow
  <2>2. Activated(row, now) \in SetRow
    BY <1>1, <1>2, ActivatedIs DEF SetTypes
  <2>3. entry' \in [Sources -> SetRow] /\ merged' = entry'
    BY <1>4, <2>1, <2>2 DEF SetTypes, AsSeen
  <2>4. lastRow' \in 0 .. MaxRowIds
    BY <1>2, <2>1, SetNumbers DEF SetTypes
  <2>5. guarded' \subseteq pins
    BY <2>1 DEF SetTypes
  <2>6. DOMAIN agent' = Agents /\ \A b \in Agents : CallTyped(b)'
    <3> DEFINE c == [step |-> "entries"]
    <3>1. c.step = "entries" /\ agent' = [agent EXCEPT ![a] = c]
      BY <2>1
    <3> HIDE DEF c
    <3> QED
      BY <3>1, OneCallTyped
  <2> QED
    BY <1>3, <2>3, <2>4, <2>5, <2>6 DEF SetTypes
<1>5. CASE ~AsSeen(s, row)
  <2> DEFINE c == [step |-> "read", source |-> s, now |-> now, left |-> agent[a].left]
  <2>1. UNCHANGED <<entry, lastRow, merged, guarded>> /\ agent' = [agent EXCEPT ![a] = c]
    BY <1>5 DEF SwapRow, rowState
  <2>2. c \in Asking
    BY <1>1 DEF Asking
  <2> HIDE DEF c
  <2>3. DOMAIN agent' = Agents /\ \A b \in Agents : CallTyped(b)'
    BY <2>1, <2>2, OneCallTyped
  <2> QED
    BY <1>3, <2>1, <2>3 DEF SetTypes
<1> QED
  BY <1>4, <1>5

LEMMA DeleteTyped ==
    ASSUME SetTypes, NEW a \in Agents, DeleteRows(a)
    PROVE  SetTypes'
<1> DEFINE gone == ById(agent[a].rows)
<1>1. /\ entry' = [s \in Sources |-> IF s \in gone THEN NoRow ELSE entry[s]]
      /\ merged' = [s \in Sources |-> IF s \in gone THEN NoRow ELSE merged[s]]
      /\ guarded' = guarded \ gone
      /\ agent' = [agent EXCEPT ![a] = Sleeping]
      /\ UNCHANGED <<lastRow, pins, clock, crowded>>
  BY DEF DeleteRows
<1>2. Sleeping.step = "idle"
  BY DEF Sleeping
<1>3. DOMAIN agent' = Agents /\ \A b \in Agents : CallTyped(b)'
  BY <1>1, <1>2, OneCallTyped
<1> HIDE DEF gone
<1>4. entry' \in [Sources -> SetRow] /\ merged' = entry'
  BY <1>1, NoRowTyped DEF SetTypes
<1> QED
  BY <1>1, <1>3, <1>4 DEF SetTypes

\* The calls that write no row and no pin
LEMMA AsksTyped ==
    ASSUME SetTypes, NEW a \in Agents,
           \/ \E s \in Sources : Activate(a, s) \/ AskPin(a, s)
           \/ ReadRow(a) \/ Inspect(a) \/ ReadEntries(a) \/ ReadPins(a)
    PROVE  SetTypes'
<1>1. UNCHANGED <<entry, lastRow, merged, guarded, pins, clock, crowded>>
  BY DEF Activate, AskPin, ReadRow, Inspect, ReadEntries, ReadPins, rowState
<1>2. SUFFICES \E c : /\ agent' = [agent EXCEPT ![a] = c]
                      /\ \/ c.step \in {"idle", "entries", "pins", "delete"}
                         \/ c \in Asking \cup Swapping \cup Pinning
  <2>1. PICK c : /\ agent' = [agent EXCEPT ![a] = c]
                 /\ \/ c.step \in {"idle", "entries", "pins", "delete"}
                    \/ c \in Asking \cup Swapping \cup Pinning
    BY <1>2
  <2>2. DOMAIN agent' = Agents /\ \A b \in Agents : CallTyped(b)'
    BY <2>1, OneCallTyped
  <2> QED
    BY <1>1, <2>2 DEF SetTypes
<1>3. ASSUME NEW s \in Sources, Activate(a, s)
      PROVE  \E c \in Asking : agent' = [agent EXCEPT ![a] = c]
  <2> DEFINE c == [step |-> "read", source |-> s, now |-> clock, left |-> MaxRetries]
  <2>1. c \in Asking
    BY SetNumbers DEF Asking, SetTypes
  <2>2. agent' = [agent EXCEPT ![a] = c]
    BY <1>3 DEF Activate
  <2> QED
    BY <2>1, <2>2
<1>4. ASSUME NEW s \in Sources, AskPin(a, s)
      PROVE  \E c \in Pinning : agent' = [agent EXCEPT ![a] = c]
  <2> DEFINE c == [step |-> "pin", source |-> s]
  <2>1. c \in Pinning
    BY DEF Pinning
  <2>2. agent' = [agent EXCEPT ![a] = c]
    BY <1>4 DEF AskPin
  <2> QED
    BY <2>1, <2>2
<1>5. ASSUME ReadRow(a)
      PROVE  \E c : agent' = [agent EXCEPT ![a] = c] /\ (c.step = "idle" \/ c \in Swapping)
  <2>1. agent[a] \in Asking
    BY <1>5 DEF ReadRow, SetTypes, CallTyped
  <2>2. CASE agent[a].left = 0
    <3>1. agent' = [agent EXCEPT ![a] = Sleeping] /\ Sleeping.step = "idle"
      BY <1>5, <2>2 DEF ReadRow, Sleeping
    <3> QED
      BY <3>1
  <2>3. CASE agent[a].left # 0
    <3> DEFINE c == [step |-> "swap", source |-> agent[a].source, now |-> agent[a].now,
                     left |-> agent[a].left - 1, row |-> entry[agent[a].source]]
    <3>1. agent[a].left - 1 \in Nat /\ entry[agent[a].source] \in SetRow
      BY <2>1, <2>3 DEF Asking, SetTypes
    <3>2. c \in Swapping
      BY <2>1, <3>1 DEF Asking, Swapping
    <3>3. agent' = [agent EXCEPT ![a] = c]
      BY <1>5, <2>3 DEF ReadRow
    <3> QED
      BY <3>2, <3>3
  <2> QED
    BY <2>2, <2>3
<1>6. ASSUME Inspect(a)
      PROVE  \E c : agent' = [agent EXCEPT ![a] = c] /\ c.step = "entries"
  <2> DEFINE c == [step |-> "entries"]
  <2>1. agent' = [agent EXCEPT ![a] = c] /\ c.step = "entries"
    BY <1>6 DEF Inspect
  <2> HIDE DEF c
  <2> QED
    BY <2>1
<1>7. ASSUME ReadEntries(a)
      PROVE  \E c : agent' = [agent EXCEPT ![a] = c] /\ c.step = "pins"
  <2> DEFINE c == [step |-> "pins", seen |-> entry, now |-> clock]
  <2>1. agent' = [agent EXCEPT ![a] = c] /\ c.step = "pins"
    BY <1>7 DEF ReadEntries
  <2> HIDE DEF c
  <2> QED
    BY <2>1
<1>8. ASSUME ReadPins(a)
      PROVE  \E c : agent' = [agent EXCEPT ![a] = c] /\ c.step \in {"idle", "delete"}
  <2> DEFINE doomed == Pruned(agent[a].seen, pins, agent[a].now)
             rows == {<<s, agent[a].seen[s].id>> : s \in doomed}
  <2>1. agent' = [agent EXCEPT ![a] = IF doomed = {} THEN Sleeping
                                      ELSE [step |-> "delete", rows |-> rows]]
    BY <1>8 DEF ReadPins
  <2> HIDE DEF doomed, rows
  <2> DEFINE c == IF doomed = {} THEN Sleeping ELSE [step |-> "delete", rows |-> rows]
  <2>2. c.step \in {"idle", "delete"}
    BY DEF Sleeping
  <2> QED
    BY <2>1, <2>2
<1> QED
  BY <1>3, <1>4, <1>5, <1>6, <1>7, <1>8

LEMMA SetTypesInit == SetInit => SetTypes
<1> SUFFICES ASSUME SetInit PROVE SetTypes
  OBVIOUS
<1>1. \A a \in Agents : CallTyped(a)
  BY DEF SetInit, CallTyped, Sleeping
<1>2. entry \in [Sources -> SetRow] /\ merged = entry /\ DOMAIN agent = Agents
  BY NoRowTyped DEF SetInit
<1>3. lastRow \in 0 .. MaxRowIds /\ clock \in 0 .. MaxTicks
  BY SetNumbers DEF SetInit
<1>4. pins \subseteq Sources /\ guarded \subseteq pins /\ crowded \in BOOLEAN
  BY DEF SetInit
<1> QED
  BY <1>1, <1>2, <1>3, <1>4 DEF SetTypes

LEMMA SetTypesStep == SetTypes /\ [SetNext]_setVars => SetTypes'
<1> SUFFICES ASSUME SetTypes, [SetNext]_setVars PROVE SetTypes'
  OBVIOUS
<1>1. CASE UNCHANGED <<entry, lastRow, merged, agent, crowded>>
           /\ pins' \subseteq Sources /\ guarded' \subseteq pins' /\ clock' \in 0 .. MaxTicks
  BY <1>1 DEF SetTypes, CallTyped
<1>2. CASE UNCHANGED setVars
  BY <1>1, <1>2 DEF setVars, SetTypes
<1>3. CASE Pass
  <2>1. clock' \in 0 .. MaxTicks
    BY <1>3, SetNumbers DEF Pass, SetTypes
  <2> QED
    BY <1>1, <1>3, <2>1 DEF Pass, rowState, SetTypes
<1>4. CASE \E s \in Sources : Unpin(s)
  BY <1>1, <1>4 DEF Unpin, SetTypes
<1>5. ASSUME NEW a \in Agents, InsertPin(a) PROVE SetTypes'
  <2>1. /\ UNCHANGED <<entry, lastRow, merged, guarded, clock>>
        /\ pins' = pins \cup {agent[a].source}
        /\ crowded' = (crowded \/ Cardinality(pins') > MaxItems)
        /\ agent' = [agent EXCEPT ![a] = Sleeping]
    BY <1>5 DEF InsertPin, rowState
  <2>2. agent[a].source \in Sources
    BY <1>5 DEF InsertPin, SetTypes, CallTyped, Pinning
  <2>3. Sleeping.step = "idle"
    BY DEF Sleeping
  <2>4. DOMAIN agent' = Agents /\ \A b \in Agents : CallTyped(b)'
    BY <2>1, <2>3, OneCallTyped
  <2>5. crowded' \in BOOLEAN
    BY <2>1 DEF SetTypes
  <2> QED
    BY <2>1, <2>2, <2>4, <2>5 DEF SetTypes
<1> QED
  BY <1>2, <1>3, <1>4, <1>5, AsksTyped, SwapTyped, DeleteTyped DEF SetNext

\* Rows, scores, pins and calls keep their types: a score is never above
\* max_activation_score, however it is decayed and raised.
THEOREM SetTypesHold == SetSpec => []SetTypeOK
<1>1. SetTypes => SetTypeOK
  BY DEF SetTypes, SetTypeOK, CallTyped
<1> QED
  BY <1>1, SetTypesInit, SetTypesStep, PTL DEF SetSpec

-----------------------------------------------------------------------------
(* Imports of test runs *)

Numbered ==
    /\ registered \in BOOLEAN
    /\ runEvents \in Seq(RunEvent)
    /\ imports \subseteq [request : Request, event : 1 .. Len(runEvents)]
    /\ told \subseteq [request : Request, event : Nat]
    /\ ~registered => imports = {}

Same(x, y) == x.request.run = y.request.run \/ x.request.key = y.request.key

\* The receipts identify requests, by run and by key, and describe the events;
\* every event of a run has one; and what was told is a receipt.
ReceiptsIdentify == \A x, y \in imports : Same(x, y) => x = y
ReceiptsDescribe ==
    \A x \in imports :
        runEvents[x.event] = [run |-> x.request.run, content |-> x.request.content]
RunsHaveReceipts ==
    \A i \in 1 .. Len(runEvents) :
        runEvents[i].run # NoRun => \E x \in imports : x.event = i
ToldReceipts == registered => told \subseteq imports
ToldOnce == \A t, u \in told : Same(t, u) => t = u

ImportInv ==
    /\ Numbered /\ ReceiptsIdentify /\ ReceiptsDescribe /\ RunsHaveReceipts
    /\ ToldReceipts /\ ToldOnce

-----------------------------------------------------------------------------
\* A sequence has as many places as elements.
LEMMA PlacesCount ==
    ASSUME NEW n \in Nat
    PROVE  IsFiniteSet(1 .. n) /\ Cardinality(1 .. n) = n
<1>1. 1 \in Int /\ n \in Int
  OBVIOUS
<1>2. IsFiniteSet(1 .. n) /\ Cardinality(1 .. n) = IF 1 > n THEN 0 ELSE n - 1 + 1
  BY <1>1, FS_Interval
<1> QED
  BY <1>2

\* A new event takes the next place and moves no other.
LEMMA NextPlace ==
    ASSUME runEvents \in Seq(RunEvent), NEW run \in Runs \cup {NoRun},
           NEW content \in Bundles, Ingress(run, content)
    PROVE  /\ runEvents' \in Seq(RunEvent)
           /\ Len(runEvents') = Len(runEvents) + 1
           /\ \A i \in 1 .. Len(runEvents) : runEvents'[i] = runEvents[i]
           /\ runEvents'[Len(runEvents) + 1] = [run |-> run, content |-> content]
           /\ Cardinality(DOMAIN runEvents) = Len(runEvents)
<1> DEFINE n == Len(runEvents)
           e == [run |-> run, content |-> content]
<1>1. n \in Nat /\ DOMAIN runEvents = 1 .. n
  OBVIOUS
<1>2. Cardinality(DOMAIN runEvents) = n
  BY <1>1, PlacesCount
<1>3. runEvents' = [i \in 1 .. n + 1 |-> IF i \in 1 .. n THEN runEvents[i] ELSE e]
  BY <1>1, <1>2 DEF Ingress
<1>4. e \in RunEvent
  BY DEF RunEvent
<1>5. \A i \in 1 .. n : runEvents[i] \in RunEvent
  OBVIOUS
<1> QED
  BY <1>1, <1>2, <1>3, <1>4, <1>5

LEMMA ImportInvInit == ImportInit => ImportInv
<1> SUFFICES ASSUME ImportInit PROVE ImportInv
  OBVIOUS
<1> USE DEF ImportInit
<1>1. Numbered
  BY DEF Numbered
<1>2. ReceiptsIdentify /\ ReceiptsDescribe /\ ToldReceipts /\ ToldOnce
  BY DEF ReceiptsIdentify, ReceiptsDescribe, ToldReceipts, ToldOnce
<1>3. RunsHaveReceipts
  BY DEF RunsHaveReceipts
<1> QED
  BY <1>1, <1>2, <1>3 DEF ImportInv

\* What a request is told is its receipt.
LEMMA TellingReceipts ==
    ASSUME ImportInv, Numbered', ReceiptsIdentify', imports \subseteq imports', registered' = registered,
           NEW q, NEW i, [request |-> q, event |-> i] \in imports', Tells(q, i), registered
    PROVE  ToldReceipts' /\ ToldOnce'
<1>1. told' \subseteq imports'
  BY DEF ImportInv, ToldReceipts, Tells
<1>2. ToldReceipts'
  BY <1>1 DEF ToldReceipts
<1>3. ToldOnce'
  BY <1>1 DEF ToldOnce, ReceiptsIdentify
<1> QED
  BY <1>2, <1>3

LEMMA ReimportStep ==
    ASSUME ImportInv, NEW q \in Request, Reimport(q)
    PROVE  ImportInv'
<1>1. PICK x \in Foreseen(q) : Agrees(x, q) /\ Tells(q, x.event)
  BY DEF Reimport
<1>2. UNCHANGED <<registered, runEvents, imports>>
  BY DEF Reimport
<1>3. x \in imports /\ x.request = q /\ x = [request |-> q, event |-> x.event] /\ x.event \in Nat
  <2>1. x \in imports /\ x.request = q
    BY <1>1 DEF Foreseen, Agrees
  <2>2. x \in [request : Request, event : 1 .. Len(runEvents)]
    BY <2>1 DEF ImportInv, Numbered
  <2> QED
    BY <2>1, <2>2
<1>4. Numbered'
  BY <1>1, <1>2, <1>3 DEF ImportInv, Numbered, Tells
<1>5. ReceiptsIdentify' /\ ReceiptsDescribe' /\ RunsHaveReceipts'
  BY <1>2 DEF ImportInv, ReceiptsIdentify, ReceiptsDescribe, RunsHaveReceipts
<1>6. ToldReceipts' /\ ToldOnce'
  <2>1. registered
    BY <1>3 DEF ImportInv, Numbered
  <2>2. [request |-> q, event |-> x.event] \in imports'
    BY <1>2, <1>3
  <2>3. imports \subseteq imports' /\ registered' = registered
    BY <1>2
  <2>4. Tells(q, x.event)
    BY <1>1
  <2> QED
    BY <1>4, <1>5, <2>1, <2>2, <2>3, <2>4, TellingReceipts
<1> QED
  BY <1>4, <1>5, <1>6 DEF ImportInv

LEMMA ImportStep ==
    ASSUME ImportInv, NEW q \in Request, Import(q)
    PROVE  ImportInv'
<1> DEFINE n == Len(runEvents)
           new == [request |-> q, event |-> n + 1]
<1>1. q.run \in Runs /\ q.content \in Bundles
  BY DEF Request
<1>2. runEvents \in Seq(RunEvent) /\ n \in Nat
  BY DEF ImportInv, Numbered
<1>3. Ingress(q.run, q.content)
  BY DEF Import
<1>4. /\ runEvents' \in Seq(RunEvent) /\ Len(runEvents') = n + 1
      /\ \A i \in 1 .. n : runEvents'[i] = runEvents[i]
      /\ runEvents'[n + 1] = [run |-> q.run, content |-> q.content]
      /\ Cardinality(DOMAIN runEvents) = n
  BY <1>1, <1>2, <1>3, NextPlace
<1>5. /\ registered /\ UNCHANGED registered /\ Foreseen(q) = {}
      /\ \A x \in imports : x.request.key # q.key
      /\ imports' = imports \cup {new} /\ Tells(q, n + 1)
  BY <1>4 DEF Import
<1>6. \A x \in imports : ~Same(x, new) /\ ~Same(new, x)
  BY <1>5 DEF Same, Foreseen
<1>7. \A x \in imports : x.event \in 1 .. n /\ x.request \in Request
  BY DEF ImportInv, Numbered
<1>8. Numbered'
  <2>1. imports' \subseteq [request : Request, event : 1 .. Len(runEvents')]
    <3>1. imports \subseteq [request : Request, event : 1 .. n + 1]
      BY <1>2 DEF ImportInv, Numbered
    <3>2. new \in [request : Request, event : 1 .. n + 1]
      BY <1>2
    <3> QED
      BY <1>4, <1>5, <3>1, <3>2
  <2>2. told' \subseteq [request : Request, event : Nat]
    BY <1>2, <1>5 DEF ImportInv, Numbered, Tells
  <2> QED
    BY <1>4, <1>5, <2>1, <2>2 DEF ImportInv, Numbered
<1>9. ReceiptsIdentify'
  BY <1>5, <1>6 DEF ImportInv, ReceiptsIdentify
<1>10. ReceiptsDescribe'
  <2> SUFFICES ASSUME NEW x \in imports'
               PROVE  runEvents'[x.event] = [run |-> x.request.run, content |-> x.request.content]
    BY DEF ReceiptsDescribe
  <2>1. CASE x \in imports
    BY <1>4, <1>7, <2>1 DEF ImportInv, ReceiptsDescribe
  <2>2. CASE x = new
    BY <1>4, <2>2
  <2> QED
    BY <1>5, <2>1, <2>2
<1>11. RunsHaveReceipts'
  <2> SUFFICES ASSUME NEW i \in 1 .. n + 1, runEvents'[i].run # NoRun
               PROVE  \E x \in imports' : x.event = i
    BY <1>4 DEF RunsHaveReceipts
  <2>1. CASE i \in 1 .. n
    BY <1>4, <1>5, <2>1 DEF ImportInv, RunsHaveReceipts
  <2>2. CASE i = n + 1
    <3>1. new \in imports' /\ new.event = n + 1
      BY <1>5
    <3> QED
      BY <2>2, <3>1
  <2> QED
    BY <1>2, <2>1, <2>2
<1>12. ToldReceipts' /\ ToldOnce'
  BY <1>5, <1>8, <1>9, TellingReceipts
<1> QED
  BY <1>8, <1>9, <1>10, <1>11, <1>12 DEF ImportInv

LEMMA NoteStep ==
    ASSUME ImportInv, NEW content \in Bundles, Note(content)
    PROVE  ImportInv'
<1> DEFINE n == Len(runEvents)
<1>1. runEvents \in Seq(RunEvent) /\ n \in Nat
  BY DEF ImportInv, Numbered
<1>2. Ingress(NoRun, content) /\ UNCHANGED <<registered, imports, told>>
  BY DEF Note
<1>3. /\ runEvents' \in Seq(RunEvent) /\ Len(runEvents') = n + 1
      /\ \A i \in 1 .. n : runEvents'[i] = runEvents[i]
      /\ runEvents'[n + 1] = [run |-> NoRun, content |-> content]
  BY <1>1, <1>2, NextPlace
<1>4. Numbered'
  BY <1>1, <1>2, <1>3 DEF ImportInv, Numbered
<1>5. \A x \in imports : x.event \in 1 .. n
  BY DEF ImportInv, Numbered
<1>6. ReceiptsDescribe'
  BY <1>2, <1>3, <1>5 DEF ImportInv, ReceiptsDescribe
<1>7. RunsHaveReceipts'
  <2> SUFFICES ASSUME NEW i \in 1 .. n + 1, runEvents'[i].run # NoRun
               PROVE  \E x \in imports' : x.event = i
    BY <1>3 DEF RunsHaveReceipts
  <2>1. CASE i \in 1 .. n
    BY <1>2, <1>3, <2>1 DEF ImportInv, RunsHaveReceipts
  <2>2. CASE i = n + 1
    BY <1>3, <2>2
  <2> QED
    BY <1>1, <2>1, <2>2
<1>8. ReceiptsIdentify' /\ ToldReceipts' /\ ToldOnce'
  BY <1>2 DEF ImportInv, ReceiptsIdentify, ToldReceipts, ToldOnce
<1> QED
  BY <1>4, <1>6, <1>7, <1>8 DEF ImportInv

LEMMA WorkspaceGoesStep == ImportInv /\ WorkspaceGoes => ImportInv'
<1> SUFFICES ASSUME ImportInv, WorkspaceGoes PROVE ImportInv'
  OBVIOUS
<1>1. registered' = FALSE /\ runEvents' = <<>> /\ imports' = {} /\ told' = told
  BY DEF WorkspaceGoes
<1>2. Numbered'
  <2>1. runEvents' \in Seq(RunEvent)
    BY <1>1
  <2>2. told' \subseteq [request : Request, event : Nat]
    BY <1>1 DEF ImportInv, Numbered
  <2> QED
    BY <1>1, <2>1, <2>2, Zenon DEF Numbered
<1>3. ReceiptsIdentify' /\ ReceiptsDescribe' /\ RunsHaveReceipts'
  BY <1>1 DEF ReceiptsIdentify, ReceiptsDescribe, RunsHaveReceipts
<1>4. ToldReceipts' /\ ToldOnce'
  BY <1>1 DEF ImportInv, ToldReceipts, ToldOnce
<1> QED
  BY <1>2, <1>3, <1>4 DEF ImportInv

LEMMA ImportInvStep == ImportInv /\ [ImportNext]_importVars => ImportInv'
<1> SUFFICES ASSUME ImportInv, [ImportNext]_importVars PROVE ImportInv'
  OBVIOUS
<1>1. CASE \E q \in Request : Reimport(q) \/ Import(q)
  BY <1>1, ReimportStep, ImportStep
<1>2. CASE \E content \in Bundles : Note(content)
  BY <1>2, NoteStep
<1>3. CASE WorkspaceGoes
  BY <1>3, WorkspaceGoesStep
<1>4. CASE UNCHANGED importVars
  BY <1>4 DEF importVars, ImportInv, Numbered, ReceiptsIdentify, ReceiptsDescribe,
              RunsHaveReceipts, ToldReceipts, ToldOnce
<1> QED
  BY <1>1, <1>2, <1>3, <1>4 DEF ImportNext

LEMMA RunsFollow == ImportInv => RunsAreEvidenceOnce
<1> SUFFICES ASSUME ImportInv PROVE RunsAreEvidenceOnce
  OBVIOUS
<1>1. \A t, u \in told :
         (t.request.run = u.request.run \/ t.request.key = u.request.key) => t = u
  BY DEF ImportInv, ToldOnce, Same
<1>2. ASSUME registered, NEW t \in told
      PROVE  runEvents[t.event] = [run |-> t.request.run, content |-> t.request.content]
  BY <1>2 DEF ImportInv, ToldReceipts, ReceiptsDescribe
<1>3. ASSUME NEW i \in DOMAIN runEvents, NEW j \in DOMAIN runEvents,
             runEvents[i].run = runEvents[j].run, runEvents[i].run # NoRun
      PROVE  i = j
  <2>1. i \in 1 .. Len(runEvents) /\ j \in 1 .. Len(runEvents)
    BY DEF ImportInv, Numbered
  <2>2. PICK x \in imports, y \in imports : x.event = i /\ y.event = j
    BY <1>3, <2>1 DEF ImportInv, RunsHaveReceipts
  <2>3. x.request.run = y.request.run
    <3>1. /\ runEvents[x.event] = [run |-> x.request.run, content |-> x.request.content]
          /\ runEvents[y.event] = [run |-> y.request.run, content |-> y.request.content]
      BY DEF ImportInv, ReceiptsDescribe
    <3>2. runEvents[i].run = x.request.run /\ runEvents[j].run = y.request.run
      BY <2>2, <3>1
    <3> QED
      BY <1>3, <3>2
  <2>4. x = y
    BY <2>3 DEF ImportInv, ReceiptsIdentify, Same
  <2> QED
    BY <2>2, <2>4
<1> QED
  BY <1>1, <1>2, <1>3 DEF RunsAreEvidenceOnce

-----------------------------------------------------------------------------
\* A captured run is evidence once, for any number of requests, repeats under
\* the same or other keys, and lost answers: deliver of import_test_evidence.
THEOREM RunsImportOnce == ImportSpec => []RunsAreEvidenceOnce
<1>1. ImportSpec => []ImportInv
  BY ImportInvInit, ImportInvStep, PTL DEF ImportSpec
<1> QED
  BY <1>1, RunsFollow, PTL

\* There are never more events than places, and answers name places.
PlacesKept ==
    /\ Len(runEvents) <= MaxRunEvents
    /\ told \subseteq [request : Request, event : Place]

LEMMA PlacesStay == ImportInv /\ PlacesKept /\ [ImportNext]_importVars => PlacesKept'
<1> SUFFICES ASSUME ImportInv, PlacesKept, [ImportNext]_importVars PROVE PlacesKept'
  OBVIOUS
<1> DEFINE n == Len(runEvents)
<1>1. /\ runEvents \in Seq(RunEvent) /\ n \in Nat /\ MaxRunEvents \in Nat
      /\ \A x \in imports : x.event \in 1 .. n
  BY MatchingAreOwners DEF ImportInv, Numbered
<1>2. ASSUME NEW run \in Runs \cup {NoRun}, NEW content \in Bundles, Ingress(run, content)
      PROVE  Len(runEvents') = n + 1 /\ n + 1 <= MaxRunEvents /\ Cardinality(DOMAIN runEvents) = n
  <2>1. Len(runEvents') = n + 1 /\ Cardinality(DOMAIN runEvents) = n
    BY <1>1, <1>2, NextPlace
  <2>2. Cardinality(DOMAIN runEvents) < MaxRunEvents
    BY <1>2 DEF Ingress
  <2> QED
    BY <1>1, <2>1, <2>2
<1>3. ASSUME NEW q \in Request, NEW i \in Place, Tells(q, i)
      PROVE  told' \subseteq [request : Request, event : Place]
  BY <1>3 DEF PlacesKept, Tells
<1>4. ASSUME NEW q \in Request, Reimport(q) PROVE PlacesKept'
  <2>1. PICK x \in imports : Tells(q, x.event)
    BY <1>4 DEF Reimport, Foreseen
  <2>2. x.event \in Place
    BY <1>1 DEF PlacesKept, Place
  <2> QED
    BY <1>3, <1>4, <2>1, <2>2 DEF Reimport, PlacesKept
<1>5. ASSUME NEW q \in Request, Import(q) PROVE PlacesKept'
  <2>1. q.run \in Runs /\ q.content \in Bundles /\ Ingress(q.run, q.content)
    BY <1>5 DEF Import, Request
  <2>2. Len(runEvents') = n + 1 /\ n + 1 <= MaxRunEvents /\ Cardinality(DOMAIN runEvents) = n
    BY <1>2, <2>1
  <2>3. n + 1 \in Place /\ Tells(q, n + 1) /\ registered' = registered
    BY <1>1, <1>5, <2>2 DEF Place, Import
  <2> QED
    BY <1>3, <2>2, <2>3 DEF PlacesKept
<1>6. ASSUME NEW content \in Bundles, Note(content) PROVE PlacesKept'
  BY <1>2, <1>6 DEF Note, PlacesKept
<1>7. CASE WorkspaceGoes
  <2>1. Len(runEvents') = 0 /\ registered' = FALSE /\ told' = told
    BY <1>7 DEF WorkspaceGoes
  <2> QED
    BY <1>1, <2>1 DEF PlacesKept
<1>8. CASE UNCHANGED importVars
  BY <1>8 DEF importVars, PlacesKept
<1> QED
  BY <1>4, <1>5, <1>6, <1>7, <1>8 DEF ImportNext

\* The variables of the import keep their types, and no answer names an event
\* beyond the last place.
THEOREM ImportTypesHold == ImportSpec => []ImportTypeOK
<1>1. ImportInit => ImportInv /\ PlacesKept
  <2>1. ImportInit => PlacesKept
    BY MatchingAreOwners DEF ImportInit, PlacesKept
  <2> QED
    BY <2>1, ImportInvInit
<1>2. ImportInv /\ PlacesKept /\ [ImportNext]_importVars => (ImportInv /\ PlacesKept)'
  BY ImportInvStep, PlacesStay
<1>3. ImportInv /\ PlacesKept => ImportTypeOK
  <2> SUFFICES ASSUME ImportInv, PlacesKept PROVE ImportTypeOK
    OBVIOUS
  <2>1. /\ runEvents \in Seq(RunEvent) /\ DOMAIN runEvents = 1 .. Len(runEvents)
        /\ imports \subseteq [request : Request, event : 1 .. Len(runEvents)]
    BY DEF ImportInv, Numbered
  <2>2. 1 .. Len(runEvents) \subseteq Place
    BY <2>1, MatchingAreOwners DEF PlacesKept, Place
  <2>3. \A i \in DOMAIN runEvents : runEvents[i] \in RunEvent
    BY <2>1
  <2>4. registered \in BOOLEAN
    BY DEF ImportInv, Numbered
  <2>5. imports \subseteq [request : Request, event : DOMAIN runEvents] /\ DOMAIN runEvents \subseteq Place
    BY <2>1, <2>2, Zenon
  <2>6. told \subseteq [request : Request, event : Place]
    BY DEF PlacesKept
  <2> QED
    BY <2>3, <2>4, <2>5, <2>6, Zenon DEF ImportTypeOK
<1> QED
  BY <1>1, <1>2, <1>3, PTL DEF ImportSpec

-----------------------------------------------------------------------------
(* Trust of memories: types *)

VerdictCalls == [step : {"verdict"}, asks : Verdict]
ReplacementCalls == [step : {"check", "chain", "replace", "overtaken"}, asks : Replacement]
MemoryCalls == {AtRest} \cup VerdictCalls \cup ReplacementCalls

MemoryTypes ==
    /\ memory \in [Memories -> [origin : Origins, trust : Trust]]
    /\ verdicts \in Seq(Verdict) /\ Len(verdicts) <= MaxVerdicts
    /\ replacedBy \subseteq Replacement
    /\ curator \in [Curators -> MemoryCalls]

\* A commit leaves a caller what it asks for, and takes it at most from the
\* decision to the refusal.
LEMMA SnapshotLost ==
    ASSUME NEW call \in MemoryCalls
    PROVE  /\ LosesSnapshot(call) \in MemoryCalls
           /\ LosesSnapshot(call).step # "replace"
           /\ LosesSnapshot(call).step \in {"check", "chain", "overtaken"} =>
                 /\ call.step \in {"check", "chain", "replace", "overtaken"}
                 /\ LosesSnapshot(call).asks = call.asks
           /\ LosesSnapshot(call).step \in {"check", "chain"} => call = LosesSnapshot(call)
  <1>1. CASE call = AtRest
    BY <1>1 DEF AtRest, LosesSnapshot, MemoryCalls
  <1>2. CASE call \in VerdictCalls
    BY <1>2 DEF VerdictCalls, LosesSnapshot, MemoryCalls
  <1>3. CASE call \in ReplacementCalls
    <2>1. CASE call.step = "replace"
      BY <1>3, <2>1 DEF ReplacementCalls, LosesSnapshot, MemoryCalls
    <2>2. CASE call.step # "replace"
      BY <1>3, <2>2 DEF ReplacementCalls, LosesSnapshot, MemoryCalls
    <2> QED BY <2>1, <2>2
  <1> QED BY <1>1, <1>2, <1>3 DEF MemoryCalls

LEMMA CallsByStep ==
    ASSUME NEW call \in MemoryCalls
    PROVE  /\ call.step = "verdict" => call \in VerdictCalls
           /\ call.step \in {"check", "chain", "replace", "overtaken"} =>
                 call \in ReplacementCalls
  BY DEF MemoryCalls, VerdictCalls, ReplacementCalls, AtRest

\* Every commit makes the callers step as SnapshotLost says, but for the one
\* that commits.
LEMMA CommitCalls ==
    ASSUME MemoryTypes, NEW c
    PROVE  /\ CommitBy(c) \in [Curators -> MemoryCalls]
           /\ CommitOutside \in [Curators -> MemoryCalls]
  <1>1. \A d \in Curators : curator[d] \in MemoryCalls
    BY DEF MemoryTypes
  <1>2. AtRest \in MemoryCalls
    BY DEF MemoryCalls
  <1>3. \A d \in Curators : LosesSnapshot(curator[d]) \in MemoryCalls
    BY <1>1, SnapshotLost
  <1> QED BY <1>2, <1>3 DEF CommitBy, CommitOutside

LEMMA MemoryTypesStep == MemoryTypes /\ [MemoryNext]_memoryVars => MemoryTypes'
  <1> SUFFICES ASSUME MemoryTypes, [MemoryNext]_memoryVars
               PROVE  MemoryTypes'
    OBVIOUS
  <1> USE MemoryBounds
  <1>g. ASSUME NEW c \in Curators, NEW call \in MemoryCalls, GoesTo(c, call)
        PROVE  MemoryTypes'
    BY <1>g DEF GoesTo, MemoryTypes
  <1>0. AtRest \in MemoryCalls
    BY DEF MemoryCalls
  <1>1. ASSUME NEW m \in Memories, NEW origin \in Origins, RecordMemory(m, origin)
        PROVE  MemoryTypes'
    <2>1. memory' \in [Memories -> [origin : Origins, trust : Trust]]
      BY <1>1 DEF MemoryTypes, RecordMemory, Origins, Trust
    <2>2. curator' \in [Curators -> MemoryCalls]
      BY <1>1, CommitCalls DEF RecordMemory
    <2> QED BY <1>1, <2>1, <2>2 DEF MemoryTypes, RecordMemory
  <1>2. ASSUME NEW c \in Curators, NEW m \in Memories, NEW new \in Trust \ {"unreviewed"},
               ReadTrust(c, m, new)
        PROVE  MemoryTypes'
    <2>1. memory[m].trust \in Trust
      BY DEF MemoryTypes
    <2>2. [step |-> "verdict",
           asks |-> [memory |-> m, previous |-> memory[m].trust, new |-> new]] \in MemoryCalls
      BY <2>1 DEF MemoryCalls, VerdictCalls, Verdict
    <2> QED BY <1>2, <2>2, <1>g DEF ReadTrust
  <1>3. ASSUME NEW c \in Curators, NEW r \in Replacement, CheckReplaced(c, r)
        PROVE  MemoryTypes'
    <2>1. [step |-> "check", asks |-> r] \in MemoryCalls
      BY DEF MemoryCalls, ReplacementCalls
    <2> QED BY <1>3, <2>1, <1>g DEF CheckReplaced
  <1>4. ASSUME NEW c \in Curators, ApplyVerdict(c)
        PROVE  MemoryTypes'
    <2> DEFINE v == curator[c].asks
    <2>1. v \in Verdict
      BY <1>4, CallsByStep DEF ApplyVerdict, MemoryTypes, VerdictCalls
    <2>2. CASE /\ Len(verdicts) < MaxVerdicts
               /\ memory' = [memory EXCEPT ![v.memory].trust = v.new]
               /\ verdicts' = Append(verdicts, v)
               /\ curator' = CommitBy(c)
               /\ UNCHANGED replacedBy
      <3>1. v.memory \in Memories /\ v.new \in Trust
        BY <2>1 DEF Verdict
      <3>2. memory' \in [Memories -> [origin : Origins, trust : Trust]]
        BY <2>2, <3>1 DEF MemoryTypes
      <3>3. verdicts' \in Seq(Verdict) /\ Len(verdicts') <= MaxVerdicts
        <4> HIDE DEF v
        <4> QED BY <2>1, <2>2 DEF MemoryTypes
      <3>4. curator' \in [Curators -> MemoryCalls]
        BY <2>2, CommitCalls
      <3> QED BY <2>2, <3>2, <3>3, <3>4 DEF MemoryTypes
    <2>3. CASE GoesTo(c, AtRest)
      BY <2>3, <1>0, <1>g
    <2> QED BY <1>4, <2>2, <2>3 DEF ApplyVerdict
  <1>5. ASSUME NEW c \in Curators, CheckReplacing(c)
        PROVE  MemoryTypes'
    <2>1. curator[c] \in ReplacementCalls
      BY <1>5, CallsByStep DEF CheckReplacing, MemoryTypes
    <2>2. [curator[c] EXCEPT !.step = "chain"] \in MemoryCalls
      BY <2>1 DEF ReplacementCalls, MemoryCalls
    <2> QED BY <1>5, <1>0, <2>2, <1>g DEF CheckReplacing
  <1>6. ASSUME NEW c \in Curators, ReadChain(c)
        PROVE  MemoryTypes'
    <2>1. curator[c] \in ReplacementCalls
      BY <1>6, CallsByStep DEF ReadChain, MemoryTypes
    <2>2. [curator[c] EXCEPT !.step = "replace"] \in MemoryCalls
      BY <2>1 DEF ReplacementCalls, MemoryCalls
    <2> QED BY <1>6, <1>0, <2>2, <1>g DEF ReadChain
  <1>7. ASSUME NEW c \in Curators, Replace(c)
        PROVE  MemoryTypes'
    <2>1. curator[c].asks \in Replacement
      BY <1>7, CallsByStep DEF Replace, MemoryTypes, ReplacementCalls
    <2>2. CASE /\ replacedBy' = replacedBy \cup {curator[c].asks}
               /\ curator' = CommitBy(c)
               /\ UNCHANGED <<memory, verdicts>>
      BY <2>1, <2>2, CommitCalls DEF MemoryTypes
    <2>3. CASE GoesTo(c, AtRest)
      BY <2>3, <1>0, <1>g
    <2> QED BY <1>7, <2>2, <2>3 DEF Replace
  <1>8. ASSUME NEW c \in Curators, LoseReplacement(c)
        PROVE  MemoryTypes'
    BY <1>8, <1>0, <1>g DEF LoseReplacement
  <1>9. CASE UNCHANGED memoryVars
    BY <1>9 DEF memoryVars, MemoryTypes
  <1> QED
    BY <1>1, <1>2, <1>3, <1>4, <1>5, <1>6, <1>7, <1>8, <1>9 DEF MemoryNext

LEMMA MemoryTypesStart == MemoryInit => MemoryTypes
  <1> SUFFICES ASSUME MemoryInit PROVE MemoryTypes
    OBVIOUS
  <1>1. memory \in [Memories -> [origin : Origins, trust : Trust]]
    BY DEF MemoryInit, Origins, Trust
  <1>2. verdicts \in Seq(Verdict) /\ Len(verdicts) <= MaxVerdicts
    BY MemoryBounds DEF MemoryInit
  <1>3. curator \in [Curators -> MemoryCalls]
    BY DEF MemoryInit, MemoryCalls
  <1> QED BY <1>1, <1>2, <1>3 DEF MemoryTypes, MemoryInit

\* What the run checks of the types follows from the exact records.
THEOREM MemoryTypesHold == MemorySpec => []MemoryTypeOK
  <1>1. MemoryTypes => MemoryTypeOK
    <2> SUFFICES ASSUME MemoryTypes, NEW c \in Curators
                 PROVE  \/ curator[c] = AtRest
                        \/ curator[c].step = "verdict" /\ curator[c].asks \in Verdict
                        \/ curator[c].step \in {"check", "chain", "replace", "overtaken"}
                              /\ curator[c].asks \in Replacement
      BY DEF MemoryTypes, MemoryTypeOK
    <2>1. curator[c] \in MemoryCalls
      BY DEF MemoryTypes
    <2>2. CASE curator[c] \in VerdictCalls
      BY <2>2 DEF VerdictCalls
    <2>3. CASE curator[c] \in ReplacementCalls
      BY <2>3 DEF ReplacementCalls
    <2> QED BY <2>1, <2>2, <2>3 DEF MemoryCalls
  <1> QED BY <1>1, MemoryTypesStart, MemoryTypesStep, PTL DEF MemorySpec

-----------------------------------------------------------------------------
(* Trust of memories: the reviews are the history of the trust *)

LEMMA AppendedVerdict ==
    ASSUME MemoryTypes, NEW v \in Verdict, verdicts' = Append(verdicts, v)
    PROVE  /\ Len(verdicts') = Len(verdicts) + 1
           /\ verdicts'[Len(verdicts) + 1] = v
           /\ \A i \in 1 .. Len(verdicts) : verdicts'[i] = verdicts[i]
           /\ \A m : VerdictsOn(m)' = IF v.memory = m THEN VerdictsOn(m) \cup {Len(verdicts) + 1}
                                      ELSE VerdictsOn(m)
  <1>1. /\ Len(verdicts') = Len(verdicts) + 1 /\ Len(verdicts) \in Nat
        /\ verdicts'[Len(verdicts) + 1] = v
        /\ \A i \in 1 .. Len(verdicts) : verdicts'[i] = verdicts[i]
    BY DEF MemoryTypes
  <1>2. 1 .. Len(verdicts') = (1 .. Len(verdicts)) \cup {Len(verdicts) + 1}
    BY <1>1
  <1> QED BY <1>1, <1>2 DEF VerdictsOn

\* What the reviews so far leave is not changed by those that follow.
LEMMA LeftStays ==
    ASSUME MemoryTypes, NEW v \in Verdict, verdicts' = Append(verdicts, v),
           NEW n \in Int, n <= Len(verdicts), NEW m, NEW trust, LeftBy(n, m, trust)
    PROVE  LeftBy(n, m, trust)'
  <1>1. Len(verdicts) \in Nat
    BY DEF MemoryTypes
  <1>2. VerdictsOn(m) \subseteq 1 .. Len(verdicts)
    BY DEF VerdictsOn
  <1>3. \A i \in VerdictsOn(m)' : i \notin VerdictsOn(m) => i = Len(verdicts) + 1
    BY AppendedVerdict
  <1>4. \A i \in VerdictsOn(m) : i \in VerdictsOn(m)' /\ verdicts'[i] = verdicts[i]
    BY <1>2, AppendedVerdict
  <1>5. CASE trust = "unreviewed" /\ \A i \in VerdictsOn(m) : i > n
    BY <1>1, <1>3, <1>5 DEF LeftBy
  <1>6. CASE \E i \in VerdictsOn(m) : /\ i <= n /\ verdicts[i].new = trust
                                      /\ \A j \in VerdictsOn(m) : j <= n => j <= i
    <2>1. PICK i \in VerdictsOn(m) : /\ i <= n /\ verdicts[i].new = trust
                                     /\ \A j \in VerdictsOn(m) : j <= n => j <= i
      BY <1>6
    <2>2. i \in VerdictsOn(m)' /\ verdicts'[i].new = trust
      BY <1>4, <2>1
    <2>3. \A j \in VerdictsOn(m)' : j <= n => j <= i
      BY <1>1, <1>2, <1>3, <2>1
    <2> QED BY <2>1, <2>2, <2>3 DEF LeftBy
  <1> QED BY <1>5, <1>6 DEF LeftBy

LEMMA LeftOfOthers ==
    ASSUME MemoryTypes, NEW v \in Verdict, verdicts' = Append(verdicts, v),
           NEW m, v.memory # m, NEW trust, LeftBy(Len(verdicts), m, trust)
    PROVE  LeftBy(Len(verdicts), m, trust)'
  <1>1. Len(verdicts) \in Nat /\ Len(verdicts)' = Len(verdicts) + 1
    BY AppendedVerdict DEF MemoryTypes
  <1>2. VerdictsOn(m)' = VerdictsOn(m) /\ VerdictsOn(m) \subseteq 1 .. Len(verdicts)
    BY AppendedVerdict DEF VerdictsOn
  <1>3. \A i \in VerdictsOn(m) : verdicts'[i] = verdicts[i]
    BY <1>2, AppendedVerdict
  <1>4. CASE trust = "unreviewed" /\ \A i \in VerdictsOn(m) : i > Len(verdicts)
    <2>1. VerdictsOn(m) = {}
      BY <1>1, <1>2, <1>4
    <2> QED BY <1>2, <1>4, <2>1 DEF LeftBy
  <1>5. CASE \E i \in VerdictsOn(m) :
                /\ i <= Len(verdicts) /\ verdicts[i].new = trust
                /\ \A j \in VerdictsOn(m) : j <= Len(verdicts) => j <= i
    <2>1. PICK i \in VerdictsOn(m) :
                /\ i <= Len(verdicts) /\ verdicts[i].new = trust
                /\ \A j \in VerdictsOn(m) : j <= Len(verdicts) => j <= i
      BY <1>5
    <2>2. i <= Len(verdicts)' /\ i \in VerdictsOn(m)' /\ verdicts'[i].new = trust
      BY <1>1, <1>2, <1>3, <2>1
    <2>3. \A j \in VerdictsOn(m)' : j <= i
      BY <1>1, <1>2, <2>1
    <2> QED BY <2>2, <2>3 DEF LeftBy
  <1> QED BY <1>4, <1>5 DEF LeftBy

HistoryOf(m) ==
    /\ memory[m].origin # "imported" => VerdictsOn(m) = {}
    /\ memory[m].origin = "imported" =>
          /\ LeftBy(Len(verdicts), m, memory[m].trust)
          /\ \A i \in VerdictsOn(m) : LeftBy(i - 1, m, verdicts[i].previous)

LEMMA ReviewedHistory ==
    ASSUME MemoryTypes, TrustFollowsReviews, NEW v \in Verdict, AsRead(v),
           memory' = [memory EXCEPT ![v.memory].trust = v.new],
           verdicts' = Append(verdicts, v), NEW m \in Memories
    PROVE  HistoryOf(m)'
  <1>0. HistoryOf(m)
    BY DEF TrustFollowsReviews, HistoryOf
  <1>1. Len(verdicts) \in Nat /\ Len(verdicts)' = Len(verdicts) + 1
    BY AppendedVerdict DEF MemoryTypes
  <1>2. VerdictsOn(m) \subseteq 1 .. Len(verdicts)
    BY DEF VerdictsOn
  <1>3. \A i \in VerdictsOn(m) : verdicts'[i] = verdicts[i]
    BY <1>2, AppendedVerdict
  <1>4. v.memory \in Memories
    BY DEF Verdict
  <1>5. memory[m].origin = "imported" =>
            \A i \in VerdictsOn(m) : LeftBy(i - 1, m, verdicts[i].previous)'
    <2> SUFFICES ASSUME memory[m].origin = "imported", NEW i \in VerdictsOn(m)
                 PROVE  LeftBy(i - 1, m, verdicts[i].previous)'
      OBVIOUS
    <2>1. PICK n \in Int : n = i - 1 /\ n <= Len(verdicts)
      BY <1>1, <1>2
    <2>2. PICK trust : trust = verdicts[i].previous
      OBVIOUS
    <2>3. LeftBy(n, m, trust)
      BY <1>0, <2>1, <2>2 DEF HistoryOf
    <2>4. LeftBy(n, m, trust)'
      BY <2>1, <2>3, LeftStays
    <2>5. verdicts[i]'.previous = trust
      BY <1>3, <2>2
    <2> QED BY <2>1, <2>4, <2>5 DEF LeftBy
  <1>6. CASE m # v.memory
    <2>1. memory'[m] = memory[m] /\ VerdictsOn(m)' = VerdictsOn(m)
      BY <1>4, <1>6, AppendedVerdict DEF MemoryTypes
    <2>2. PICK trust : trust = memory[m].trust
      OBVIOUS
    <2>3. memory[m].origin = "imported" => LeftBy(Len(verdicts), m, trust)'
      BY <1>0, <1>6, <2>2, LeftOfOthers DEF HistoryOf
    <2> QED BY <1>0, <1>3, <1>5, <2>1, <2>2, <2>3 DEF HistoryOf, LeftBy
  <1>7. CASE m = v.memory
    <2>1. /\ memory[m].origin = "imported" /\ memory[m].trust = v.previous
          /\ memory'[m].origin = "imported" /\ memory'[m].trust = v.new
      BY <1>4, <1>7 DEF MemoryTypes, AsRead
    <2>2. VerdictsOn(m)' = VerdictsOn(m) \cup {Len(verdicts) + 1}
      BY <1>7, AppendedVerdict
    <2>3. verdicts'[Len(verdicts) + 1] = v
      BY AppendedVerdict
    <2>4. LeftBy(Len(verdicts), m, v.new)'
      <3>1. Len(verdicts) + 1 \in VerdictsOn(m)'
        BY <2>2
      <3>2. \A j \in VerdictsOn(m)' : j <= Len(verdicts)' => j <= Len(verdicts) + 1
        BY <1>1
      <3> QED BY <1>1, <2>3, <3>1, <3>2 DEF LeftBy
    <2>5. PICK n \in Int : n = Len(verdicts)
      BY <1>1
    <2>6. LeftBy(n, m, v.previous)
      BY <1>0, <2>1, <2>5 DEF HistoryOf
    <2>7. \A i \in VerdictsOn(m)' : LeftBy(i - 1, m, verdicts[i].previous)'
      <3> SUFFICES ASSUME NEW i \in VerdictsOn(m)'
                   PROVE  LeftBy(i - 1, m, verdicts[i].previous)'
        OBVIOUS
      <3>1. CASE i \in VerdictsOn(m)
        BY <1>5, <2>1, <3>1
      <3>2. CASE i = Len(verdicts) + 1
        <4>1. PICK trust : trust = v.previous
          OBVIOUS
        <4>2. i - 1 = n /\ verdicts[i]'.previous = trust
          BY <1>1, <2>3, <2>5, <3>2, <4>1
        <4>3. LeftBy(n, m, trust)'
          BY <1>1, <2>5, <2>6, <4>1, LeftStays
        <4> QED BY <4>2, <4>3 DEF LeftBy
      <3> QED BY <2>2, <3>1, <3>2
    <2> QED BY <2>1, <2>4, <2>7 DEF HistoryOf, LeftBy
  <1> QED BY <1>6, <1>7

LEMMA HistoryStep ==
    MemoryTypes /\ TrustFollowsReviews /\ [MemoryNext]_memoryVars => TrustFollowsReviews'
  <1> SUFFICES ASSUME MemoryTypes, TrustFollowsReviews, [MemoryNext]_memoryVars
               PROVE  TrustFollowsReviews'
    OBVIOUS
  <1>a. TrustFollowsReviews <=> \A m \in Memories : HistoryOf(m)
    BY DEF TrustFollowsReviews, HistoryOf
  <1>b. (\A m \in Memories : HistoryOf(m)') => TrustFollowsReviews'
    BY DEF TrustFollowsReviews, HistoryOf
  <1>c. ASSUME UNCHANGED <<memory, verdicts>>
        PROVE  TrustFollowsReviews'
    <2>1. memory' = memory /\ verdicts' = verdicts
      BY <1>c
    <2>2. \A m : VerdictsOn(m)' = VerdictsOn(m)
      BY <2>1 DEF VerdictsOn
    <2> QED BY <1>b, <1>a, <2>1, <2>2 DEF HistoryOf, LeftBy
  <1>1. ASSUME NEW n \in Memories, NEW origin \in Origins, RecordMemory(n, origin)
        PROVE  TrustFollowsReviews'
    <2> SUFFICES ASSUME NEW m \in Memories PROVE HistoryOf(m)'
      BY <1>b
    <2>1. HistoryOf(m)
      BY <1>a
    <2>2. UNCHANGED verdicts
      BY <1>1 DEF RecordMemory
    <2>3. VerdictsOn(m)' = VerdictsOn(m)
      BY <2>2 DEF VerdictsOn
    <2>4. CASE m # n
      <3>1. memory'[m] = memory[m]
        BY <1>1, <2>4 DEF RecordMemory, MemoryTypes
      <3> QED BY <2>1, <2>2, <2>3, <3>1 DEF HistoryOf, LeftBy
    <2>5. CASE m = n
      <3>1. VerdictsOn(m)' = {}
        BY <1>1, <2>1, <2>3, <2>5 DEF RecordMemory, HistoryOf
      <3>2. memory'[m].origin = "imported" => memory'[m].trust = "unreviewed"
        BY <1>1, <2>5 DEF RecordMemory, MemoryTypes
      <3> QED BY <3>1, <3>2 DEF HistoryOf, LeftBy
    <2> QED BY <2>4, <2>5
  <1>2. ASSUME NEW c \in Curators, ApplyVerdict(c)
        PROVE  TrustFollowsReviews'
    <2>1. PICK v : v = curator[c].asks
      OBVIOUS
    <2>2. v \in Verdict
      BY <1>2, <2>1, CallsByStep DEF ApplyVerdict, MemoryTypes, VerdictCalls
    <2>3. CASE /\ AsRead(v)
               /\ memory' = [memory EXCEPT ![v.memory].trust = v.new]
               /\ verdicts' = Append(verdicts, v)
      BY <1>b, <2>2, <2>3, ReviewedHistory
    <2>4. CASE GoesTo(c, AtRest)
      BY <1>c, <2>4 DEF GoesTo
    <2> QED BY <1>2, <2>1, <2>3, <2>4 DEF ApplyVerdict
  <1>3. ASSUME NEW c \in Curators,
               \/ \E m \in Memories, new \in Trust \ {"unreviewed"} : ReadTrust(c, m, new)
               \/ \E r \in Replacement : CheckReplaced(c, r)
               \/ CheckReplacing(c) \/ ReadChain(c) \/ Replace(c) \/ LoseReplacement(c)
        PROVE  UNCHANGED <<memory, verdicts>>
    BY <1>3 DEF ReadTrust, CheckReplaced, CheckReplacing, ReadChain, Replace, LoseReplacement,
                GoesTo
  <1>4. CASE UNCHANGED memoryVars
    BY <1>c, <1>4 DEF memoryVars
  <1> QED BY <1>c, <1>1, <1>2, <1>3, <1>4 DEF MemoryNext

LEMMA HistoryStart == MemoryInit => TrustFollowsReviews
  BY DEF MemoryInit, TrustFollowsReviews, VerdictsOn, LeftBy

\* Reviews of the same memory that are decided at once: the one that commits
\* second has read what the first one left, or nothing is written.
THEOREM ReviewsAreTheHistory == MemorySpec => []TrustFollowsReviews
  BY MemoryTypesStart, MemoryTypesStep, HistoryStart, HistoryStep, PTL DEF MemorySpec

-----------------------------------------------------------------------------
(* Trust of memories: what replaces a memory leads to one that nothing does *)

\* Chain for a set of replacements that is named.
Reach(R, m) ==
    {x \in Memories : \A S \in SUBSET Memories :
        (\A r \in R : r.old \in S \cup {m} => r.new \in S) => x \in S}

LEMMA ChainReaches == ASSUME NEW m PROVE Chain(m) = Reach(replacedBy, m)
  BY DEF Chain, FollowsOn, Reach

LEMMA ReachIsClosed ==
    ASSUME NEW R \in SUBSET Replacement, NEW m,
           NEW r \in R, r.old \in Reach(R, m) \cup {m}
    PROVE  r.new \in Reach(R, m)
  <1> SUFFICES ASSUME NEW S \in SUBSET Memories,
                      \A q \in R : q.old \in S \cup {m} => q.new \in S
               PROVE  r.new \in S
    BY DEF Reach, Replacement
  <1>1. Reach(R, m) \subseteq S
    BY DEF Reach
  <1> QED BY <1>1

LEMMA ReachIsLeast ==
    ASSUME NEW R, NEW m, NEW S \in SUBSET Memories,
           \A r \in R : r.old \in S \cup {m} => r.new \in S
    PROVE  Reach(R, m) \subseteq S
  BY DEF Reach

LEMMA ReachIsTransitive ==
    ASSUME NEW R \in SUBSET Replacement, NEW m, NEW x \in Reach(R, m)
    PROVE  Reach(R, x) \subseteq Reach(R, m)
  <1>1. Reach(R, m) \in SUBSET Memories
    BY DEF Reach
  <1>2. \A r \in R : r.old \in Reach(R, m) \cup {x} => r.new \in Reach(R, m)
    BY ReachIsClosed
  <1> QED BY <1>1, <1>2, ReachIsLeast

LEMMA ReachGrows ==
    ASSUME NEW Q \in SUBSET Replacement, NEW R \in SUBSET Q, NEW m
    PROVE  Reach(R, m) \subseteq Reach(Q, m)
  <1>1. Reach(Q, m) \in SUBSET Memories
    BY DEF Reach
  <1>2. \A r \in R : r.old \in Reach(Q, m) \cup {m} => r.new \in Reach(Q, m)
    BY ReachIsClosed
  <1> QED BY <1>1, <1>2, ReachIsLeast

\* From m the replacements lead to a memory that none of them takes away.
Ends(R, m) == \E n \in {m} \cup Reach(R, m) : \A r \in R : r.old # n

\* One more replacement of a memory that had none, by one that does not lead
\* back to it, leaves every way an end.
LEMMA EndsStay ==
    ASSUME NEW R \in SUBSET Replacement, NEW a \in Replacement,
           \A r \in R : r.old # a.old,
           a.old # a.new, a.old \notin Reach(R, a.new),
           \A m \in Memories : Ends(R, m),
           NEW m \in Memories
    PROVE  Ends(R \cup {a}, m)
  <1> DEFINE Q == R \cup {a}
  <1>1. Q \in SUBSET Replacement /\ R \in SUBSET Q /\ a \in Q
    OBVIOUS
  <1>2. a.new \in Memories
    BY DEF Replacement
  <1>3. PICK n \in {m} \cup Reach(R, m) : \A r \in R : r.old # n
    BY DEF Ends
  <1>4. n \in {m} \cup Reach(Q, m)
    BY <1>1, <1>3, ReachGrows
  <1>5. CASE n # a.old
    BY <1>3, <1>4, <1>5 DEF Ends
  <1>6. CASE n = a.old
    <2>1. PICK k \in {a.new} \cup Reach(R, a.new) : \A r \in R : r.old # k
      BY <1>2 DEF Ends
    <2>2. k # a.old
      BY <2>1
    <2>3. a.new \in Reach(Q, m)
      BY <1>1, <1>4, <1>6, ReachIsClosed
    <2>4. Reach(R, a.new) \subseteq Reach(Q, m)
      BY <1>1, <2>3, ReachGrows, ReachIsTransitive
    <2>5. k \in Reach(Q, m)
      BY <2>1, <2>3, <2>4
    <2>6. \A r \in Q : r.old # k
      BY <2>1, <2>2
    <2> QED BY <2>5, <2>6 DEF Ends
  <1> QED BY <1>5, <1>6

\* A caller that has come past a check keeps what it has found: what replaces
\* has been trusted, and, as long as no commit came between, it does not lead
\* back to what it replaces.
Checked(c) ==
    /\ curator[c].step \in {"check", "chain", "replace"} =>
          curator[c].asks.old # curator[c].asks.new
    /\ curator[c].step \in {"chain", "replace", "overtaken"} => OnceTrusted(curator[c].asks.new)
    /\ curator[c].step = "replace" =>
          curator[c].asks.old \notin Reach(replacedBy, curator[c].asks.new)

ChainInv ==
    /\ \A r \in replacedBy : OnceTrusted(r.new)
    /\ \A m \in Memories : Ends(replacedBy, m)
    /\ \A c \in Curators : Checked(c)

\* Trust that was given once is not taken from the history.
LEMMA OnceTrustedStays ==
    ASSUME MemoryTypes, [MemoryNext]_memoryVars, NEW m \in Memories, OnceTrusted(m)
    PROVE  OnceTrusted(m)'
  <1>1. memory[m].origin = "human" => memory'[m].origin = "human"
    <2>1. ASSUME NEW n \in Memories, NEW origin \in Origins, RecordMemory(n, origin),
                 memory[m].origin = "human"
          PROVE  memory'[m].origin = "human"
      BY <2>1 DEF RecordMemory, MemoryTypes
    <2>2. ASSUME NEW c \in Curators, ApplyVerdict(c), memory[m].origin = "human"
          PROVE  memory'[m].origin = "human"
      BY <2>2 DEF ApplyVerdict, GoesTo, MemoryTypes
    <2>3. ASSUME NEW c \in Curators,
                 \/ \E n \in Memories, new \in Trust \ {"unreviewed"} : ReadTrust(c, n, new)
                 \/ \E r \in Replacement : CheckReplaced(c, r)
                 \/ CheckReplacing(c) \/ ReadChain(c) \/ Replace(c) \/ LoseReplacement(c)
          PROVE  UNCHANGED memory
      BY <2>3 DEF ReadTrust, CheckReplaced, CheckReplacing, ReadChain, Replace, LoseReplacement,
                  GoesTo
    <2> QED BY <2>1, <2>2, <2>3 DEF MemoryNext, memoryVars
  <1>2. \A i \in 1 .. Len(verdicts) : i \in 1 .. Len(verdicts)' /\ verdicts'[i] = verdicts[i]
    <2>1. ASSUME NEW c \in Curators, ApplyVerdict(c)
          PROVE  \/ UNCHANGED verdicts
                 \/ \E v \in Verdict : verdicts' = Append(verdicts, v)
      BY <2>1, CallsByStep DEF ApplyVerdict, GoesTo, MemoryTypes, VerdictCalls
    <2>2. ASSUME NEW c \in Curators,
                 \/ \E n \in Memories, new \in Trust \ {"unreviewed"} : ReadTrust(c, n, new)
                 \/ \E r \in Replacement : CheckReplaced(c, r)
                 \/ CheckReplacing(c) \/ ReadChain(c) \/ Replace(c) \/ LoseReplacement(c)
          PROVE  UNCHANGED verdicts
      BY <2>2 DEF ReadTrust, CheckReplaced, CheckReplacing, ReadChain, Replace, LoseReplacement,
                  GoesTo
    <2>3. UNCHANGED verdicts \/ \E v \in Verdict : verdicts' = Append(verdicts, v)
      BY <2>1, <2>2 DEF MemoryNext, memoryVars, RecordMemory
    <2>4. ASSUME NEW v \in Verdict, verdicts' = Append(verdicts, v)
          PROVE  \A i \in 1 .. Len(verdicts) :
                    i \in 1 .. Len(verdicts)' /\ verdicts'[i] = verdicts[i]
      BY <2>4 DEF MemoryTypes
    <2> QED BY <2>3, <2>4
  <1> QED BY <1>1, <1>2 DEF OnceTrusted

\* Who is trusted was authorised by a human or reviewed.
LEMMA TrustWasGiven ==
    ASSUME MemoryTypes, TrustFollowsReviews, NEW m \in Memories, Trusted(m)
    PROVE  OnceTrusted(m)
  <1>1. memory[m].origin \in Origins \ {"none"} /\ memory[m].trust = "trusted"
    BY DEF MemoryTypes, Trusted
  <1>2. CASE memory[m].origin = "imported"
    <2>1. LeftBy(Len(verdicts), m, "trusted")
      BY <1>1, <1>2 DEF TrustFollowsReviews
    <2> QED BY <2>1 DEF LeftBy, VerdictsOn, OnceTrusted
  <1> QED BY <1>1, <1>2 DEF Origins, OnceTrusted

\* A caller that a step leaves alone, or at most overtakes, stays checked.
LEMMA CheckedStays ==
    ASSUME MemoryTypes, [MemoryNext]_memoryVars, NEW d \in Curators, Checked(d),
           \/ curator'[d] = curator[d] /\ UNCHANGED replacedBy
           \/ curator'[d] = LosesSnapshot(curator[d])
    PROVE  Checked(d)'
  <1>1. curator[d] \in MemoryCalls
    BY DEF MemoryTypes
  <1>2. \A m \in Memories : OnceTrusted(m) => OnceTrusted(m)'
    BY OnceTrustedStays
  <1>3. curator[d].step \in {"check", "chain", "replace", "overtaken"} =>
            curator[d].asks.new \in Memories
    BY <1>1, CallsByStep DEF ReplacementCalls, Replacement
  <1>4. CASE curator'[d] = curator[d] /\ UNCHANGED replacedBy
    <2>1. curator[d].step \in {"chain", "replace", "overtaken"} =>
              OnceTrusted(curator[d].asks.new)'
      <3>1. PICK n : n = curator[d].asks.new
        OBVIOUS
      <3>2. curator[d].step \in {"chain", "replace", "overtaken"} => OnceTrusted(n)'
        BY <1>2, <1>3, <3>1 DEF Checked
      <3> QED BY <1>4, <3>1, <3>2 DEF OnceTrusted
    <2> QED BY <1>4, <2>1 DEF Checked, Reach
  <1>5. CASE curator'[d] = LosesSnapshot(curator[d])
    <2>1. /\ curator'[d].step # "replace"
          /\ curator'[d].step \in {"check", "chain"} => curator'[d] = curator[d]
          /\ curator'[d].step = "overtaken" =>
                /\ curator[d].step \in {"replace", "overtaken"}
                /\ curator'[d].asks = curator[d].asks
      BY <1>1, <1>5, SnapshotLost DEF LosesSnapshot
    <2>2. PICK n : n = curator[d].asks.new
      OBVIOUS
    <2>3. curator[d].step \in {"chain", "replace", "overtaken"} => OnceTrusted(n)'
      BY <1>2, <1>3, <2>2 DEF Checked
    <2>4. curator'[d].step \in {"chain", "overtaken"} =>
              /\ curator[d].step \in {"chain", "replace", "overtaken"}
              /\ curator'[d].asks.new = n
      BY <2>1, <2>2
    <2>5. curator'[d].step \in {"check", "chain"} => curator'[d].asks.old # curator'[d].asks.new
      BY <2>1 DEF Checked
    <2> QED BY <2>1, <2>3, <2>4, <2>5 DEF Checked, OnceTrusted
  <1> QED BY <1>4, <1>5

LEMMA ChainStart == MemoryInit => ChainInv
  <1> SUFFICES ASSUME MemoryInit PROVE ChainInv
    OBVIOUS
  <1>1. \A m \in Memories : Ends(replacedBy, m)
    BY DEF MemoryInit, Ends
  <1>2. \A c \in Curators : Checked(c)
    BY DEF MemoryInit, Checked, AtRest
  <1> QED BY <1>1, <1>2 DEF ChainInv, MemoryInit

\* A step that inserts no replacement and lets at most one caller go on.
LEMMA ChainByCaller ==
    ASSUME MemoryTypes, ChainInv, [MemoryNext]_memoryVars, UNCHANGED replacedBy,
           NEW c \in Curators, Checked(c)',
           \A d \in Curators \ {c} :
               curator'[d] = curator[d] \/ curator'[d] = LosesSnapshot(curator[d])
    PROVE  ChainInv'
  <1>1. \A r \in replacedBy' : OnceTrusted(r.new)'
    <2> SUFFICES ASSUME NEW r \in replacedBy PROVE OnceTrusted(r.new)'
      OBVIOUS
    <2>1. r.new \in Memories
      BY DEF MemoryTypes, Replacement
    <2> QED BY <2>1, OnceTrustedStays DEF ChainInv
  <1>2. \A m \in Memories : Ends(replacedBy, m)'
    BY DEF ChainInv, Ends, Reach
  <1>3. \A d \in Curators : Checked(d)'
    BY CheckedStays DEF ChainInv
  <1> QED BY <1>1, <1>2, <1>3 DEF ChainInv

LEMMA ChainStep ==
    MemoryTypes /\ TrustFollowsReviews /\ ChainInv /\ [MemoryNext]_memoryVars => ChainInv'
  <1> SUFFICES ASSUME MemoryTypes, TrustFollowsReviews, ChainInv, [MemoryNext]_memoryVars
               PROVE  ChainInv'
    OBVIOUS
  <1>a. \A d \in Curators : curator[d] \in MemoryCalls
    BY DEF MemoryTypes
  <1>g. ASSUME NEW c \in Curators, NEW call, GoesTo(c, call),
               call.step \in {"check", "chain", "replace"} => call.asks.old # call.asks.new,
               call.step \in {"chain", "replace", "overtaken"} =>
                   /\ call.asks.new \in Memories
                   /\ OnceTrusted(call.asks.new),
               call.step = "replace" => call.asks.old \notin Reach(replacedBy, call.asks.new)
        PROVE  ChainInv'
    <2>1. curator'[c] = call /\ UNCHANGED <<memory, verdicts, replacedBy>>
          /\ \A d \in Curators \ {c} : curator'[d] = curator[d]
      BY <1>g DEF GoesTo, MemoryTypes
    <2>2. PICK n : n = call.asks.new
      OBVIOUS
    <2>3. call.step \in {"chain", "replace", "overtaken"} => OnceTrusted(n)'
      BY <1>g, <2>2, OnceTrustedStays
    <2>4. Checked(c)'
      BY <1>g, <2>1, <2>2, <2>3 DEF Checked, OnceTrusted, Reach
    <2> QED BY <2>1, <2>4, ChainByCaller
  <1>0. AtRest.step = "idle"
    BY DEF AtRest
  <1>r. ASSUME NEW c \in Curators, GoesTo(c, AtRest)
        PROVE  ChainInv'
    BY <1>r, <1>0, <1>g
  <1>1. ASSUME NEW m \in Memories, NEW origin \in Origins, RecordMemory(m, origin)
        PROVE  ChainInv'
    <2>1. UNCHANGED replacedBy /\ \A d \in Curators : curator'[d] = LosesSnapshot(curator[d])
      BY <1>1 DEF RecordMemory, CommitOutside
    <2>2. CASE Curators = {}
      <3>1. \A r \in replacedBy' : OnceTrusted(r.new)'
        <4> SUFFICES ASSUME NEW r \in replacedBy PROVE OnceTrusted(r.new)'
          BY <2>1
        <4>1. r.new \in Memories
          BY DEF MemoryTypes, Replacement
        <4> QED BY <4>1, OnceTrustedStays DEF ChainInv
      <3>2. \A n \in Memories : Ends(replacedBy, n)'
        BY <2>1 DEF ChainInv, Ends, Reach
      <3> QED BY <2>2, <3>1, <3>2 DEF ChainInv
    <2>3. CASE Curators # {}
      <3>1. PICK c \in Curators : TRUE
        BY <2>3
      <3>2. Checked(c)'
        BY <2>1, CheckedStays DEF ChainInv
      <3> QED BY <2>1, <3>2, ChainByCaller
    <2> QED BY <2>2, <2>3
  <1>2. ASSUME NEW c \in Curators, NEW m \in Memories, NEW new \in Trust \ {"unreviewed"},
               ReadTrust(c, m, new)
        PROVE  ChainInv'
    <2> DEFINE call == [step |-> "verdict",
                        asks |-> [memory |-> m, previous |-> memory[m].trust, new |-> new]]
    <2>1. GoesTo(c, call) /\ call.step = "verdict"
      BY <1>2 DEF ReadTrust
    <2> HIDE DEF call
    <2> QED BY <2>1, <1>g
  <1>3. ASSUME NEW c \in Curators, NEW r \in Replacement, CheckReplaced(c, r)
        PROVE  ChainInv'
    <2> DEFINE call == [step |-> "check", asks |-> r]
    <2>1. GoesTo(c, call) /\ call.step = "check" /\ call.asks.old # call.asks.new
      BY <1>3 DEF CheckReplaced
    <2> HIDE DEF call
    <2> QED BY <2>1, <1>g
  <1>4. ASSUME NEW c \in Curators, ApplyVerdict(c)
        PROVE  ChainInv'
    <2>1. CASE GoesTo(c, AtRest)
      BY <2>1, <1>r
    <2>2. CASE curator' = CommitBy(c) /\ UNCHANGED replacedBy
      <3>1. \A d \in Curators \ {c} : curator'[d] = LosesSnapshot(curator[d])
        BY <2>2 DEF CommitBy
      <3>2. Checked(c)'
        BY <2>2, <1>0 DEF CommitBy, Checked
      <3> QED BY <2>2, <3>1, <3>2, ChainByCaller
    <2> QED BY <1>4, <2>1, <2>2 DEF ApplyVerdict
  <1>5. ASSUME NEW c \in Curators, CheckReplacing(c)
        PROVE  ChainInv'
    <2>1. CASE GoesTo(c, AtRest)
      BY <2>1, <1>r
    <2>2. CASE GoesTo(c, [curator[c] EXCEPT !.step = "chain"]) /\ Trusted(curator[c].asks.new)
      <3> DEFINE call == [curator[c] EXCEPT !.step = "chain"]
      <3>1. curator[c] \in ReplacementCalls /\ curator[c].step = "check"
        BY <1>5, <1>a, CallsByStep DEF CheckReplacing
      <3>2. call.step = "chain" /\ call.asks = curator[c].asks /\ call.asks.new \in Memories
        BY <3>1 DEF ReplacementCalls, Replacement
      <3>3. call.asks.old # call.asks.new
        BY <3>1, <3>2 DEF ChainInv, Checked
      <3>4. OnceTrusted(call.asks.new)
        BY <2>2, <3>2, TrustWasGiven
      <3>5. GoesTo(c, call)
        BY <2>2
      <3> HIDE DEF call
      <3> QED BY <3>2, <3>3, <3>4, <3>5, <1>g
    <2> QED BY <1>5, <2>1, <2>2 DEF CheckReplacing, Replaces
  <1>6. ASSUME NEW c \in Curators, ReadChain(c)
        PROVE  ChainInv'
    <2>1. CASE GoesTo(c, AtRest)
      BY <2>1, <1>r
    <2>2. CASE /\ GoesTo(c, [curator[c] EXCEPT !.step = "replace"])
               /\ curator[c].asks.old \notin Chain(curator[c].asks.new)
      <3> DEFINE call == [curator[c] EXCEPT !.step = "replace"]
      <3>1. curator[c] \in ReplacementCalls /\ curator[c].step = "chain"
        BY <1>6, <1>a, CallsByStep DEF ReadChain
      <3>2. call.step = "replace" /\ call.asks = curator[c].asks /\ call.asks.new \in Memories
        BY <3>1 DEF ReplacementCalls, Replacement
      <3>3. call.asks.old # call.asks.new /\ OnceTrusted(call.asks.new)
        BY <3>1, <3>2 DEF ChainInv, Checked
      <3>4. call.asks.old \notin Reach(replacedBy, call.asks.new)
        BY <2>2, <3>2, ChainReaches
      <3>5. GoesTo(c, call)
        BY <2>2
      <3> HIDE DEF call
      <3> QED BY <3>2, <3>3, <3>4, <3>5, <1>g
    <2> QED BY <1>6, <2>1, <2>2 DEF ReadChain
  <1>7. ASSUME NEW c \in Curators, Replace(c)
        PROVE  ChainInv'
    <2>1. PICK a : a = curator[c].asks
      OBVIOUS
    <2>2. CASE GoesTo(c, AtRest)
      BY <2>2, <1>r
    <2>3. CASE /\ ~AlreadyReplaced(a.old) /\ replacedBy' = replacedBy \cup {a}
               /\ curator' = CommitBy(c)
      <3>1. a \in Replacement /\ a.new \in Memories
        BY <1>7, <2>1, <1>a, CallsByStep DEF Replace, ReplacementCalls, Replacement
      <3>2. /\ a.old # a.new /\ OnceTrusted(a.new)
            /\ a.old \notin Reach(replacedBy, a.new)
        BY <1>7, <2>1 DEF Replace, ChainInv, Checked
      <3>3. \A r \in replacedBy' : OnceTrusted(r.new)'
        <4> SUFFICES ASSUME NEW r \in replacedBy' PROVE OnceTrusted(r.new)'
          OBVIOUS
        <4>1. r.new \in Memories /\ OnceTrusted(r.new)
          BY <2>3, <3>1, <3>2 DEF ChainInv, MemoryTypes, Replacement
        <4> QED BY <4>1, OnceTrustedStays
      <3>4. \A m \in Memories : Ends(replacedBy, m)'
        <4>1. \A r \in replacedBy : r.old # a.old
          BY <2>3 DEF AlreadyReplaced
        <4>2. \A m \in Memories : Ends(replacedBy \cup {a}, m)
          BY <3>1, <3>2, <4>1, EndsStay DEF ChainInv, MemoryTypes
        <4> QED BY <2>3, <4>2 DEF Ends, Reach
      <3>5. \A d \in Curators : Checked(d)'
        <4> SUFFICES ASSUME NEW d \in Curators PROVE Checked(d)'
          OBVIOUS
        <4>1. CASE d = c
          BY <2>3, <4>1, <1>0 DEF CommitBy, Checked
        <4>2. CASE d # c
          BY <2>3, <4>2, CheckedStays DEF CommitBy, ChainInv
        <4> QED BY <4>1, <4>2
      <3> QED BY <3>3, <3>4, <3>5 DEF ChainInv
    <2> QED BY <1>7, <2>1, <2>2, <2>3 DEF Replace
  <1>8. ASSUME NEW c \in Curators, LoseReplacement(c)
        PROVE  ChainInv'
    BY <1>8, <1>r DEF LoseReplacement
  <1>9. CASE UNCHANGED memoryVars
    <2>1. /\ memory' = memory /\ verdicts' = verdicts
          /\ replacedBy' = replacedBy /\ curator' = curator
      BY <1>9 DEF memoryVars
    <2>3. \A m \in Memories : Ends(replacedBy, m)'
      BY <2>1 DEF ChainInv, Ends, Reach
    <2>4. \A c \in Curators : Checked(c)'
      BY <2>1 DEF ChainInv, Checked, Reach, OnceTrusted
    <2>5. \A r \in replacedBy' : OnceTrusted(r.new)'
      BY <2>1 DEF ChainInv, OnceTrusted
    <2> QED BY <2>3, <2>4, <2>5 DEF ChainInv
  <1> QED
    BY <1>1, <1>2, <1>3, <1>4, <1>5, <1>6, <1>7, <1>8, <1>9 DEF MemoryNext

\* Two curators whose checks overlap close no circle: the one that inserts
\* second would have to have looked for a cycle before the first one committed.
THEOREM HiddenMemoriesLeadOn == MemorySpec => []HiddenForTrusted
  <1>1. MemoryTypes /\ ChainInv => HiddenForTrusted
    <2> SUFFICES ASSUME MemoryTypes, ChainInv, NEW m \in Memories,
                        Trusted(m), m \notin Resumable
                 PROVE  \E r \in replacedBy :
                            /\ r.old = m /\ OnceTrusted(r.new)
                            /\ \E n \in Leads(r.new) : ~AlreadyReplaced(n)
      BY DEF HiddenForTrusted
    <2>1. PICK r \in replacedBy : r.old = m
      BY DEF Resumable, AlreadyReplaced
    <2>2. OnceTrusted(r.new) /\ r.new \in Memories
      BY DEF ChainInv, MemoryTypes, Replacement
    <2>3. \E n \in Leads(r.new) : ~AlreadyReplaced(n)
      BY <2>2, ChainReaches DEF ChainInv, Ends, Leads, AlreadyReplaced
    <2> QED BY <2>1, <2>2, <2>3
  <1> QED
    BY <1>1, MemoryTypesStart, MemoryTypesStep, HistoryStart, HistoryStep, ChainStart, ChainStep,
       PTL DEF MemorySpec

-----------------------------------------------------------------------------
(* Reviews of experiences: types *)

Reviews == [step : {"append", "overtaken"}, asks : Assessment]
Proposals == [step : {"compare", "proposed"}, failures : SUBSET Failures, hits : SUBSET Lessons]
ReviewCalls == {Resting} \cup Reviews \cup Proposals

\* An experience is replaced by another one, and by nothing otherwise.
WellFormed(a) == a.kind = "superseded" => a.by \in Lessons /\ a.by # a.lesson

ReviewTypes ==
    /\ legacy \subseteq Lessons \cup Failures
    /\ writeOrder \in Seq(Lessons \cup Failures)
    /\ assessments \in Seq(Assessment) /\ Len(assessments) <= MaxReviews
    /\ reviewer \in [Reviewers -> ReviewCalls]
    /\ \A a \in Said : WellFormed(a)
    /\ \A r \in Reviewers : reviewer[r] \in Reviews => WellFormed(reviewer[r].asks)

LEMMA ReviewCallsByStep ==
    ASSUME NEW call \in ReviewCalls
    PROVE  /\ call.step \in {"append", "overtaken"} => call \in Reviews
           /\ call.step \in {"compare", "proposed"} => call \in Proposals
  BY DEF ReviewCalls, Reviews, Proposals, Resting

LEMMA ReviewLapsed ==
    ASSUME NEW call \in ReviewCalls
    PROVE  /\ Lapsed(call) \in ReviewCalls
           /\ Lapsed(call) \in Reviews => call \in Reviews /\ Lapsed(call).asks = call.asks
           /\ Lapsed(call).step \in {"compare", "proposed"} => Lapsed(call) = call
  <1>1. CASE call = Resting
    BY <1>1 DEF Resting, Lapsed, ReviewCalls, Reviews
  <1>2. CASE call \in Reviews
    <2>1. CASE call.step = "append"
      BY <1>2, <2>1 DEF Reviews, Lapsed, ReviewCalls
    <2>2. CASE call.step # "append"
      BY <1>2, <2>2 DEF Reviews, Lapsed, ReviewCalls
    <2> QED BY <2>1, <2>2
  <1>3. CASE call \in Proposals
    <2>1. Lapsed(call) = call /\ call \notin Reviews
      BY <1>3 DEF Proposals, Lapsed, Reviews
    <2> QED BY <1>3, <2>1
  <1> QED BY <1>1, <1>2, <1>3 DEF ReviewCalls

\* The assessments after one more.
LEMMA SaidGrows ==
    ASSUME NEW a \in Assessment, assessments \in Seq(Assessment),
           assessments' = Append(assessments, a)
    PROVE  Said' = Said \cup {a}
  <1>1. /\ Len(assessments) \in Nat /\ Len(assessments') = Len(assessments) + 1
        /\ assessments'[Len(assessments) + 1] = a
        /\ \A i \in 1 .. Len(assessments) : assessments'[i] = assessments[i]
    OBVIOUS
  <1>2. 1 .. Len(assessments') = (1 .. Len(assessments)) \cup {Len(assessments) + 1}
    BY <1>1
  <1> QED BY <1>1, <1>2 DEF Said

LEMMA SaidAreAssessments ==
    ASSUME ReviewTypes PROVE Said \subseteq Assessment
  BY DEF ReviewTypes, Said

\* The step of one reviewer, with no commit.
ActsAlone(r, call) ==
    /\ reviewer' = [reviewer EXCEPT ![r] = call]
    /\ UNCHANGED <<legacy, writeOrder, assessments>>

\* What AppendReview and Compare leave, stated once for the proofs below.
LEMMA AppendOrRest ==
    ASSUME ReviewTypes, NEW r \in Reviewers, AppendReview(r)
    PROVE  \E a \in Assessment :
              /\ a = reviewer[r].asks /\ WellFormed(a)
              /\ \/ ActsAlone(r, Resting)
                 \/ /\ ~Refused(a) /\ Len(assessments) < MaxReviews
                    /\ assessments' = Append(assessments, a)
                    /\ reviewer' = [AllLapsed EXCEPT ![r] = Resting]
                    /\ UNCHANGED <<legacy, writeOrder>>
  <1>1. reviewer[r] \in Reviews
    BY ReviewCallsByStep DEF AppendReview, ReviewTypes
  <1>2. reviewer[r].asks \in Assessment /\ WellFormed(reviewer[r].asks)
    BY <1>1 DEF Reviews, ReviewTypes
  <1> QED BY <1>2 DEF AppendReview, ActsAlone

LEMMA CompareActsAlone ==
    ASSUME ReviewTypes, NEW r \in Reviewers, Compare(r)
    PROVE  \E p \in Proposals :
              /\ ActsAlone(r, p) /\ p.step = "proposed"
              /\ \A x \in p.hits : IngressedAfter(p.failures, x)
  <1>1. reviewer[r] \in Proposals
    BY ReviewCallsByStep DEF Compare, ReviewTypes
  <1> DEFINE after == {x \in reviewer[r].hits : IngressedAfter(reviewer[r].failures, x)}
             p == [reviewer[r] EXCEPT !.step = "proposed", !.hits = after]
  <1>2. after \in SUBSET Lessons
    BY <1>1 DEF Proposals
  <1>3. ActsAlone(r, p)
    BY DEF Compare, ActsAlone, ReviewTypes
  <1>4. \A x \in after : IngressedAfter(reviewer[r].failures, x)
    OBVIOUS
  <1> HIDE DEF after
  <1>5. p \in Proposals /\ p.step = "proposed" /\ p.hits = after
        /\ p.failures = reviewer[r].failures
    BY <1>1, <1>2 DEF Proposals
  <1> QED BY <1>3, <1>4, <1>5

LEMMA SearchActsAlone ==
    ASSUME ReviewTypes, NEW r \in Reviewers, NEW failures \in SUBSET Failures, Search(r, failures)
    PROVE  \E p \in Proposals : ActsAlone(r, p) /\ p.step = "compare"
  <1> DEFINE hits == {x \in Lessons \cap Stored : Lifecycle(x) = "active"}
             p == [step |-> "compare", failures |-> failures, hits |-> hits]
  <1>1. hits \in SUBSET Lessons
    OBVIOUS
  <1>2. ActsAlone(r, p)
    BY DEF Search, ActsAlone
  <1> HIDE DEF hits
  <1>3. p \in Proposals /\ p.step = "compare"
    BY <1>1 DEF Proposals
  <1> QED BY <1>2, <1>3

LEMMA LapsedCalls ==
    ASSUME ReviewTypes
    PROVE  /\ AllLapsed \in [Reviewers -> ReviewCalls]
           /\ \A r \in Reviewers : AllLapsed[r] \in Reviews => WellFormed(AllLapsed[r].asks)
  BY ReviewLapsed DEF ReviewTypes, AllLapsed

LEMMA ReviewTypesStep == ReviewTypes /\ [ReviewNext]_reviewVars => ReviewTypes'
  <1> SUFFICES ASSUME ReviewTypes, [ReviewNext]_reviewVars
               PROVE  ReviewTypes'
    OBVIOUS
  <1> USE ReviewBounds
  <1>0. Resting \in ReviewCalls /\ Resting \notin Reviews
    BY DEF ReviewCalls, Reviews, Resting
  <1>g. ASSUME NEW r \in Reviewers, NEW call \in ReviewCalls, ActsAlone(r, call),
               call \in Reviews => WellFormed(call.asks)
        PROVE  ReviewTypes'
    <2>1. reviewer' \in [Reviewers -> ReviewCalls]
      BY <1>g DEF ActsAlone, ReviewTypes
    <2>2. \A s \in Reviewers : reviewer'[s] \in Reviews => WellFormed(reviewer'[s].asks)
      BY <1>g DEF ActsAlone, ReviewTypes
    <2> QED BY <1>g, <2>1, <2>2 DEF ActsAlone, ReviewTypes, Said, WellFormed
  <1>1. ASSUME NEW x \in Lessons \cup Failures, Enter(x)
        PROVE  ReviewTypes'
    <2>1. writeOrder' \in Seq(Lessons \cup Failures)
      BY <1>1 DEF Enter, ReviewTypes
    <2>2. /\ reviewer' \in [Reviewers -> ReviewCalls]
          /\ \A r \in Reviewers : reviewer'[r] \in Reviews => WellFormed(reviewer'[r].asks)
      BY <1>1, LapsedCalls DEF Enter
    <2> QED BY <1>1, <2>1, <2>2 DEF Enter, ReviewTypes, Said, WellFormed
  <1>2. ASSUME NEW r \in Reviewers, NEW a \in Reviewable, BeginReview(r, a)
        PROVE  ReviewTypes'
    <2> DEFINE call == [step |-> "append", asks |-> a]
    <2>1. a \in Assessment /\ WellFormed(a)
      BY DEF Reviewable, WellFormed, Assessment
    <2>2. call \in Reviews /\ call.asks = a
      BY <2>1 DEF Reviews
    <2>3. ActsAlone(r, call)
      BY <1>2 DEF BeginReview, ActsAlone
    <2> HIDE DEF call
    <2> QED BY <2>1, <2>2, <2>3, <1>g DEF ReviewCalls
  <1>3. ASSUME NEW r \in Reviewers, AppendReview(r)
        PROVE  ReviewTypes'
    <2>1. PICK a \in Assessment :
              /\ a = reviewer[r].asks /\ WellFormed(a)
              /\ \/ ActsAlone(r, Resting)
                 \/ /\ ~Refused(a) /\ Len(assessments) < MaxReviews
                    /\ assessments' = Append(assessments, a)
                    /\ reviewer' = [AllLapsed EXCEPT ![r] = Resting]
                    /\ UNCHANGED <<legacy, writeOrder>>
      BY <1>3, AppendOrRest
    <2>2. CASE ActsAlone(r, Resting)
      BY <2>2, <1>0, <1>g
    <2>3. CASE /\ Len(assessments) < MaxReviews
               /\ assessments' = Append(assessments, a)
               /\ reviewer' = [AllLapsed EXCEPT ![r] = Resting]
               /\ UNCHANGED <<legacy, writeOrder>>
      <3>1. assessments' \in Seq(Assessment) /\ Len(assessments') <= MaxReviews
        BY <2>3 DEF ReviewTypes
      <3>2. Said' = Said \cup {a}
        BY <2>3, SaidGrows DEF ReviewTypes
      <3>3. \A b \in Said' : WellFormed(b)
        BY <2>1, <3>2 DEF ReviewTypes
      <3>4. /\ reviewer' \in [Reviewers -> ReviewCalls]
            /\ \A s \in Reviewers : reviewer'[s] \in Reviews => WellFormed(reviewer'[s].asks)
        BY <2>3, <1>0, LapsedCalls
      <3> QED BY <2>3, <3>1, <3>3, <3>4 DEF ReviewTypes, WellFormed
    <2> QED BY <2>1, <2>2, <2>3
  <1>4. ASSUME NEW r \in Reviewers, LoseReview(r) \/ ForgetProposal(r)
        PROVE  ReviewTypes'
    BY <1>4, <1>0, <1>g DEF LoseReview, ForgetProposal, ActsAlone
  <1>5. ASSUME NEW r \in Reviewers, NEW p \in Proposals, ActsAlone(r, p)
        PROVE  ReviewTypes'
    <2>1. p \in ReviewCalls /\ p \notin Reviews
      BY DEF ReviewCalls, Reviews, Proposals
    <2> QED BY <1>5, <2>1, <1>g
  <1>6. CASE UNCHANGED reviewVars
    BY <1>6 DEF reviewVars, ReviewTypes, Said, WellFormed
  <1> QED
    BY <1>1, <1>2, <1>3, <1>4, <1>5, <1>6, SearchActsAlone, CompareActsAlone DEF ReviewNext

LEMMA ReviewTypesStart == ReviewInit => ReviewTypes
  <1> SUFFICES ASSUME ReviewInit PROVE ReviewTypes
    OBVIOUS
  <1>1. /\ legacy \subseteq Lessons \cup Failures /\ writeOrder \in Seq(Lessons \cup Failures)
        /\ assessments \in Seq(Assessment) /\ Len(assessments) <= MaxReviews
    BY ReviewBounds DEF ReviewInit
  <1>2. Said = {}
    BY DEF ReviewInit, Said
  <1>3. reviewer \in [Reviewers -> ReviewCalls]
    BY DEF ReviewInit, ReviewCalls
  <1>4. \A r \in Reviewers : reviewer[r] \notin Reviews
    BY DEF ReviewInit, Reviews, Resting
  <1> QED BY <1>1, <1>2, <1>3, <1>4 DEF ReviewTypes

\* What the run checks of the types follows from the exact records.
THEOREM ReviewTypesHold == ReviewSpec => []ReviewTypeOK
  <1>1. ReviewTypes => ReviewTypeOK
    <2> SUFFICES ASSUME ReviewTypes, NEW r \in Reviewers
                 PROVE  \/ reviewer[r] = Resting
                        \/ /\ reviewer[r].step \in {"append", "overtaken"}
                           /\ reviewer[r].asks \in Assessment
                        \/ /\ reviewer[r].step \in {"compare", "proposed"}
                           /\ reviewer[r].hits \subseteq Lessons
                           /\ reviewer[r].failures \subseteq Failures
      BY DEF ReviewTypes, ReviewTypeOK
    <2>1. reviewer[r] \in ReviewCalls
      BY DEF ReviewTypes
    <2>2. CASE reviewer[r] \in Reviews
      BY <2>2 DEF Reviews
    <2>3. CASE reviewer[r] \in Proposals
      BY <2>3 DEF Proposals
    <2> QED BY <2>1, <2>2, <2>3 DEF ReviewCalls
  <1> QED BY <1>1, ReviewTypesStart, ReviewTypesStep, PTL DEF ReviewSpec

-----------------------------------------------------------------------------
(* Reviews of experiences: replacements end *)

\* Successors for a set of replacements that is named.
Heirs(P, x) ==
    {y \in Lessons : \A S \in SUBSET Lessons :
        x \in S /\ (\A p \in P : p[1] \in S => p[2] \in S) => y \in S}

LEMMA SuccessorsAreHeirs ==
    ASSUME NEW x PROVE Successors(x) = Heirs(Replacements, x)
  BY DEF Successors, Heirs

LEMMA HeirsAreClosed ==
    ASSUME NEW P \in SUBSET (Lessons \X Lessons), NEW x,
           NEW p \in P, p[1] \in Heirs(P, x)
    PROVE  p[2] \in Heirs(P, x)
  <1> SUFFICES ASSUME NEW S \in SUBSET Lessons, x \in S,
                      \A q \in P : q[1] \in S => q[2] \in S
               PROVE  p[2] \in S
    BY DEF Heirs
  <1>1. p[1] \in S
    BY DEF Heirs
  <1> QED BY <1>1

LEMMA HeirsAreLeast ==
    ASSUME NEW P, NEW S \in SUBSET Lessons, NEW x \in S,
           \A p \in P : p[1] \in S => p[2] \in S
    PROVE  Heirs(P, x) \subseteq S
  BY DEF Heirs

LEMMA OwnHeir == ASSUME NEW P, NEW x \in Lessons PROVE x \in Heirs(P, x)
  BY DEF Heirs

LEMMA HeirsAreTransitive ==
    ASSUME NEW P \in SUBSET (Lessons \X Lessons), NEW x, NEW y \in Heirs(P, x)
    PROVE  Heirs(P, y) \subseteq Heirs(P, x)
  <1>1. Heirs(P, x) \in SUBSET Lessons
    BY DEF Heirs
  <1>2. \A p \in P : p[1] \in Heirs(P, x) => p[2] \in Heirs(P, x)
    BY HeirsAreClosed
  <1> QED BY <1>1, <1>2, HeirsAreLeast

\* No replacement is reached from the one it leads to.
NoWayBack(P) == \A p \in P : p[1] \notin Heirs(P, p[2])

\* A pair whose first is not among the heirs of its second closes no circle.
LEMMA NoWayBackStays ==
    ASSUME NEW P \in SUBSET (Lessons \X Lessons), NoWayBack(P),
           NEW old \in Lessons, NEW new \in Lessons, old \notin Heirs(P, new)
    PROVE  NoWayBack(P \cup {<<old, new>>})
  <1> DEFINE Q == P \cup {<<old, new>>}
  <1>1. \A x \in Lessons : old \notin Heirs(P, x) => Heirs(Q, x) \subseteq Heirs(P, x)
    <2> SUFFICES ASSUME NEW x \in Lessons, old \notin Heirs(P, x)
                 PROVE  Heirs(Q, x) \subseteq Heirs(P, x)
      OBVIOUS
    <2>1. Heirs(P, x) \in SUBSET Lessons /\ x \in Heirs(P, x)
      BY OwnHeir DEF Heirs
    <2>2. \A p \in Q : p[1] \in Heirs(P, x) => p[2] \in Heirs(P, x)
      BY HeirsAreClosed
    <2> QED BY <2>1, <2>2, HeirsAreLeast
  <1>2. \A x \in Lessons : Heirs(Q, x) \subseteq Heirs(P, x) \cup Heirs(P, new)
    <2> SUFFICES ASSUME NEW x \in Lessons
                 PROVE  Heirs(Q, x) \subseteq Heirs(P, x) \cup Heirs(P, new)
      OBVIOUS
    <2> DEFINE S == Heirs(P, x) \cup Heirs(P, new)
    <2>1. S \in SUBSET Lessons /\ x \in S
      BY OwnHeir DEF Heirs
    <2>2. \A p \in P : p[1] \in S => p[2] \in S
      BY HeirsAreClosed
    <2>3. new \in S
      BY OwnHeir
    <2>4. \A p \in Q : p[1] \in S => p[2] \in S
      <3> HIDE DEF S
      <3> QED BY <2>2, <2>3
    <2>5. Heirs(Q, x) \subseteq S
      <3> HIDE DEF S, Q
      <3> QED BY <2>1, <2>4, HeirsAreLeast
    <2> QED BY <2>5
  <1>3. ASSUME NEW p \in Q
        PROVE  p[1] \notin Heirs(Q, p[2])
    <2>1. CASE p = <<old, new>>
      BY <1>1, <2>1
    <2>2. CASE p \in P
      <3>1. p[1] \in Lessons /\ p[2] \in Lessons /\ p[1] \notin Heirs(P, p[2])
        BY <2>2 DEF NoWayBack
      <3>2. CASE old \notin Heirs(P, p[2])
        BY <1>1, <3>1, <3>2
      <3>3. CASE old \in Heirs(P, p[2])
        <4>1. p[1] \notin Heirs(P, new)
          <5> SUFFICES ASSUME p[1] \in Heirs(P, new) PROVE FALSE
            OBVIOUS
          <5>1. p[2] \in Heirs(P, new)
            BY <2>2, HeirsAreClosed
          <5> QED BY <3>3, <5>1, HeirsAreTransitive
        <4> QED BY <1>2, <3>1, <4>1
      <3> QED BY <3>2, <3>3
    <2> QED BY <2>1, <2>2
  <1> QED BY <1>3 DEF NoWayBack

LEMMA ReplacementsAreLessons ==
    ASSUME ReviewTypes PROVE Replacements \in SUBSET (Lessons \X Lessons)
  <1>1. \A b \in Said : b.kind = "superseded" => b.lesson \in Lessons /\ b.by \in Lessons
    BY SaidAreAssessments DEF ReviewTypes, WellFormed, Assessment
  <1> QED BY <1>1 DEF Replacements

EndsInv ==
    /\ \A p, q \in Replacements : p[1] = q[1] => p = q
    /\ NoWayBack(Replacements)

LEMMA EndsStep == ReviewTypes /\ EndsInv /\ [ReviewNext]_reviewVars => EndsInv'
  <1> SUFFICES ASSUME ReviewTypes, EndsInv, [ReviewNext]_reviewVars
               PROVE  EndsInv'
    OBVIOUS
  <1>c. ASSUME UNCHANGED assessments
        PROVE  EndsInv'
    BY <1>c DEF EndsInv, NoWayBack, Heirs, Replacements, Said
  <1>1. ASSUME NEW r \in Reviewers, AppendReview(r)
        PROVE  EndsInv'
    <2>1. PICK a \in Assessment :
              /\ a = reviewer[r].asks /\ WellFormed(a)
              /\ \/ ActsAlone(r, Resting)
                 \/ /\ ~Refused(a) /\ Len(assessments) < MaxReviews
                    /\ assessments' = Append(assessments, a)
                    /\ reviewer' = [AllLapsed EXCEPT ![r] = Resting]
                    /\ UNCHANGED <<legacy, writeOrder>>
      BY <1>1, AppendOrRest
    <2>2. CASE ActsAlone(r, Resting)
      BY <2>2, <1>c DEF ActsAlone
    <2>3. CASE ~Refused(a) /\ assessments' = Append(assessments, a)
      <3>1. Said' = Said \cup {a}
        BY <2>3, SaidGrows DEF ReviewTypes
      <3>2. CASE a.kind # "superseded"
        <4>1. Replacements' = Replacements
          BY <3>1, <3>2 DEF Replacements
        <4> QED BY <4>1 DEF EndsInv, NoWayBack, Heirs
      <3>3. CASE a.kind = "superseded"
        <4>1. Replacements' = Replacements \cup {<<a.lesson, a.by>>}
          BY <3>1, <3>3 DEF Replacements
        <4>2. a.lesson \in Lessons /\ a.by \in Lessons
          BY <2>1, <3>3 DEF Assessment, WellFormed
        <4>3. /\ a.lesson \notin Heirs(Replacements, a.by)
              /\ \A p \in Replacements : p[1] # a.lesson
          BY <2>3, <3>3, SuccessorsAreHeirs DEF Refused, ClosesCycle
        <4>4. NoWayBack(Replacements \cup {<<a.lesson, a.by>>})
          BY <4>2, <4>3, ReplacementsAreLessons, NoWayBackStays DEF EndsInv
        <4>5. NoWayBack(Replacements)'
          BY <4>1, <4>4 DEF NoWayBack, Heirs
        <4>6. (\A p, q \in Replacements : p[1] = q[1] => p = q)'
          BY <4>1, <4>3 DEF EndsInv
        <4> QED BY <4>5, <4>6 DEF EndsInv
      <3> QED BY <3>2, <3>3
    <2> QED BY <2>1, <2>2, <2>3
  <1>2. CASE UNCHANGED reviewVars
    BY <1>2, <1>c DEF reviewVars
  <1> QED
    BY <1>c, <1>1, <1>2 DEF ReviewNext, Enter, BeginReview, LoseReview, Search, Compare,
                            ForgetProposal

LEMMA EndsStart == ReviewInit => EndsInv
  <1> SUFFICES ASSUME ReviewInit PROVE EndsInv
    OBVIOUS
  <1>1. Replacements = {}
    BY DEF ReviewInit, Replacements, Said
  <1> QED BY <1>1 DEF EndsInv, NoWayBack

\* Reviewers who replace experiences at once: whoever commits second is refused
\* when the two rows together would lead back.
THEOREM ReplacementsHaveAnEnd == ReviewSpec => []ReplacementsEnd
  <1>1. EndsInv => ReplacementsEnd
    BY SuccessorsAreHeirs DEF EndsInv, NoWayBack, ReplacementsEnd
  <1> QED
    BY <1>1, ReviewTypesStart, ReviewTypesStep, EndsStart, EndsStep, PTL DEF ReviewSpec

-----------------------------------------------------------------------------
(* Reviews of experiences: verdicts stay *)

\* Lifecycle for a set of kinds that is named.
LifecycleOf(K) ==
    CASE "superseded" \in K -> "superseded"
      [] "superseded" \notin K /\ "refuted" \in K -> "refuted"
      [] K \cap {"superseded", "refuted"} = {} /\ "disputed" \in K -> "disputed"
      [] OTHER -> "active"

LEMMA SeverityOfKinds ==
    ASSUME NEW K
    PROVE  /\ "superseded" \in K => Severity(LifecycleOf(K)) = 3
           /\ "superseded" \notin K /\ "refuted" \in K => Severity(LifecycleOf(K)) = 2
           /\ K \cap {"superseded", "refuted"} = {} /\ "disputed" \in K =>
                 Severity(LifecycleOf(K)) = 1
           /\ K \cap {"superseded", "refuted", "disputed"} = {} => Severity(LifecycleOf(K)) = 0
  <1>1. "superseded" \in K => LifecycleOf(K) = "superseded"
    BY DEF LifecycleOf
  <1>2. "superseded" \notin K /\ "refuted" \in K => LifecycleOf(K) = "refuted"
    BY DEF LifecycleOf
  <1>3. K \cap {"superseded", "refuted"} = {} /\ "disputed" \in K => LifecycleOf(K) = "disputed"
    BY DEF LifecycleOf
  <1>4. K \cap {"superseded", "refuted", "disputed"} = {} => LifecycleOf(K) = "active"
    BY DEF LifecycleOf
  <1>5. /\ Severity("superseded") = 3 /\ Severity("refuted") = 2
        /\ Severity("disputed") = 1 /\ Severity("active") = 0
    BY DEF Severity
  <1> QED BY <1>1, <1>2, <1>3, <1>4, <1>5

\* More verdicts, no less severe.
LEMMA SeverityGrows ==
    ASSUME NEW K, NEW M, K \subseteq M
    PROVE  Severity(LifecycleOf(M)) >= Severity(LifecycleOf(K))
  <1>1. \A L : Severity(LifecycleOf(L)) \in {0, 1, 2, 3}
    BY SeverityOfKinds
  <1>2. CASE "superseded" \in M
    BY <1>1, <1>2, SeverityOfKinds
  <1>3. CASE "superseded" \notin M /\ "refuted" \in M
    BY <1>1, <1>3, SeverityOfKinds
  <1>4. CASE M \cap {"superseded", "refuted"} = {}
    BY <1>1, <1>4, SeverityOfKinds
  <1> QED BY <1>2, <1>3, <1>4

LEMMA SaidIsKept ==
    ASSUME ReviewTypes, [ReviewNext]_reviewVars PROVE Said \subseteq Said'
  <1>1. ASSUME NEW r \in Reviewers, AppendReview(r)
        PROVE  Said \subseteq Said'
    <2>1. \/ UNCHANGED assessments
          \/ \E a \in Assessment : assessments' = Append(assessments, a)
      BY <1>1, AppendOrRest DEF ActsAlone
    <2>2. UNCHANGED assessments => Said' = Said
      BY DEF Said
    <2> QED BY <2>1, <2>2, SaidGrows DEF ReviewTypes
  <1>2. ASSUME UNCHANGED assessments
        PROVE  Said \subseteq Said'
    BY <1>2 DEF Said
  <1> QED
    BY <1>1, <1>2 DEF ReviewNext, Enter, BeginReview, LoseReview, Search, Compare,
                      ForgetProposal, reviewVars

\* The order in which reviews commit does not matter: a confirmation takes
\* nothing back.
THEOREM NegativeVerdictsStay == ReviewSpec => VerdictsStay
  <1>1. ASSUME ReviewTypes, [ReviewNext]_reviewVars
        PROVE  \A x \in Lessons : Severity(Lifecycle(x)') >= Severity(Lifecycle(x))
    <2> SUFFICES ASSUME NEW x \in Lessons
                 PROVE  Severity(Lifecycle(x)') >= Severity(Lifecycle(x))
      OBVIOUS
    <2>1. Kind(x) \subseteq Kind(x)'
      BY <1>1, SaidIsKept DEF Kind
    <2>2. Lifecycle(x) = LifecycleOf(Kind(x)) /\ Lifecycle(x)' = LifecycleOf(Kind(x)')
      BY DEF Lifecycle, LifecycleOf
    <2> QED BY <2>1, <2>2, SeverityGrows
  <1> QED BY <1>1, ReviewTypesStart, ReviewTypesStep, PTL DEF ReviewSpec, VerdictsStay

-----------------------------------------------------------------------------
(* Reviews of experiences: disputes are recurrences *)

\* x is before f in the order of writes.
CameBefore(x, f) ==
    \E i, j \in 1 .. Len(writeOrder) : i < j /\ writeOrder[i] = x /\ writeOrder[j] = f

LEMMA PlaceInOrder ==
    ASSUME ReviewTypes, NEW x \in Ordered
    PROVE  Position(x) \in 1 .. Len(writeOrder) /\ writeOrder[Position(x)] = x
  <1>1. \E i \in 1 .. Len(writeOrder) : writeOrder[i] = x
    BY DEF Ordered
  <1> QED BY <1>1 DEF Position

LEMMA IngressIsLater ==
    ASSUME ReviewTypes, NEW failures, NEW x, IngressedAfter(failures, x), NEW f \in failures
    PROVE  CameBefore(x, f)
  <1>1. x \in Ordered /\ f \in Ordered /\ Position(f) > Position(x)
    BY DEF IngressedAfter
  <1>2. /\ Position(x) \in 1 .. Len(writeOrder) /\ writeOrder[Position(x)] = x
        /\ Position(f) \in 1 .. Len(writeOrder) /\ writeOrder[Position(f)] = f
    BY <1>1, PlaceInOrder
  <1> QED BY <1>1, <1>2 DEF CameBefore

LEMMA OrderIsKept ==
    ASSUME ReviewTypes, [ReviewNext]_reviewVars, NEW x, NEW f, CameBefore(x, f)
    PROVE  CameBefore(x, f)'
  <1>1. \/ UNCHANGED writeOrder
        \/ \E y \in Lessons \cup Failures : writeOrder' = Append(writeOrder, y)
    BY DEF ReviewNext, Enter, BeginReview, AppendReview, LoseReview, Search, Compare,
           ForgetProposal, reviewVars
  <1>2. \A i \in 1 .. Len(writeOrder) :
            i \in 1 .. Len(writeOrder)' /\ writeOrder'[i] = writeOrder[i]
    BY <1>1 DEF ReviewTypes
  <1> QED BY <1>2 DEF CameBefore

RecurrenceInv ==
    \A r \in Reviewers : reviewer[r].step = "proposed" =>
        \A x \in reviewer[r].hits : \A f \in reviewer[r].failures : CameBefore(x, f)

LEMMA RecurrenceStep ==
    ReviewTypes /\ RecurrenceInv /\ [ReviewNext]_reviewVars => RecurrenceInv'
  <1> SUFFICES ASSUME ReviewTypes, RecurrenceInv, [ReviewNext]_reviewVars,
                      NEW s \in Reviewers, reviewer'[s].step = "proposed",
                      NEW x \in reviewer'[s].hits, NEW f \in reviewer'[s].failures
               PROVE  CameBefore(x, f)'
    BY DEF RecurrenceInv
  <1>0. Resting.step = "idle"
    BY DEF Resting
  <1>k. ASSUME reviewer'[s] = reviewer[s]
        PROVE  CameBefore(x, f)'
    BY <1>k, OrderIsKept DEF RecurrenceInv
  <1>1. ASSUME NEW r \in Reviewers, NEW call, ActsAlone(r, call), call.step # "proposed"
        PROVE  CameBefore(x, f)'
    BY <1>1, <1>k DEF ActsAlone, ReviewTypes
  <1>2. ASSUME NEW y \in Lessons \cup Failures, Enter(y)
        PROVE  CameBefore(x, f)'
    <2>1. reviewer'[s] = Lapsed(reviewer[s]) /\ reviewer[s] \in ReviewCalls
      BY <1>2 DEF Enter, AllLapsed, ReviewTypes
    <2> QED BY <2>1, <1>k, ReviewLapsed
  <1>3. ASSUME NEW r \in Reviewers, AppendReview(r)
        PROVE  CameBefore(x, f)'
    <2>1. CASE ActsAlone(r, Resting)
      BY <2>1, <1>0, <1>1
    <2>2. CASE reviewer' = [AllLapsed EXCEPT ![r] = Resting]
      <3>1. s # r
        BY <2>2, <1>0 DEF AllLapsed
      <3>2. reviewer'[s] = Lapsed(reviewer[s]) /\ reviewer[s] \in ReviewCalls
        BY <2>2, <3>1 DEF AllLapsed, ReviewTypes
      <3> QED BY <3>2, <1>k, ReviewLapsed
    <2> QED BY <1>3, <2>1, <2>2, AppendOrRest
  <1>4. ASSUME NEW r \in Reviewers, NEW a \in Reviewable, BeginReview(r, a)
        PROVE  CameBefore(x, f)'
    <2>1. ActsAlone(r, [step |-> "append", asks |-> a])
      BY <1>4 DEF BeginReview, ActsAlone
    <2> QED BY <2>1, <1>1
  <1>5. ASSUME NEW r \in Reviewers, LoseReview(r) \/ ForgetProposal(r)
        PROVE  CameBefore(x, f)'
    <2>1. ActsAlone(r, Resting)
      BY <1>5 DEF LoseReview, ForgetProposal, ActsAlone
    <2> QED BY <2>1, <1>0, <1>1
  <1>6. ASSUME NEW r \in Reviewers, NEW failures \in SUBSET Failures, Search(r, failures)
        PROVE  CameBefore(x, f)'
    BY <1>6, <1>1, SearchActsAlone
  <1>7. ASSUME NEW r \in Reviewers, Compare(r)
        PROVE  CameBefore(x, f)'
    <2>1. PICK p \in Proposals :
              /\ ActsAlone(r, p) /\ p.step = "proposed"
              /\ \A y \in p.hits : IngressedAfter(p.failures, y)
      BY <1>7, CompareActsAlone
    <2>2. CASE s # r
      BY <2>1, <2>2, <1>k DEF ActsAlone, ReviewTypes
    <2>3. CASE s = r
      <3>1. reviewer'[s] = p
        BY <2>1, <2>3 DEF ActsAlone, ReviewTypes
      <3>2. CameBefore(x, f)
        BY <2>1, <3>1, IngressIsLater
      <3> QED BY <3>2, OrderIsKept
    <2> QED BY <2>2, <2>3
  <1>8. CASE UNCHANGED reviewVars
    BY <1>8, <1>k DEF reviewVars
  <1> QED
    BY <1>2, <1>3, <1>4, <1>5, <1>6, <1>7, <1>8 DEF ReviewNext

LEMMA RecurrenceStart == ReviewInit => RecurrenceInv
  BY DEF ReviewInit, RecurrenceInv, Resting

\* Entries made between the reads of a proposal do not make it wrong.
THEOREM ProposedDisputesAreRecurrences == ReviewSpec => []DisputesAreRecurrences
  <1>1. RecurrenceInv => DisputesAreRecurrences
    BY DEF RecurrenceInv, DisputesAreRecurrences, CameBefore
  <1> QED
    BY <1>1, ReviewTypesStart, ReviewTypesStep, RecurrenceStart, RecurrenceStep,
       PTL DEF ReviewSpec

-----------------------------------------------------------------------------
(* Episodes: what callers do *)

Steps == {"idle", "write", "stale", "preview", "identify", "insert", "answered"}
Prepared == {"preview", "identify", "insert"}

\* The proposal x is made of an episode that has ended, as it is.
Settled(x) ==
    /\ x.episode \in Episodes
    /\ episode[x.episode].status \in Terminal
    /\ x = Proposal(x.episode, x.build)

CallsFormed ==
    \A w \in Writers :
        /\ writer[w].step \in Steps
        /\ writer[w].step \in {"write", "preview"} =>
              writer[w] = [step |-> writer[w].step, asks |-> writer[w].asks]

\* What a caller has previewed is still what its episode says when it inserts.
PreparedSettled ==
    \A w \in Writers : \A x :
        writer[w].step \in Prepared /\ writer[w].asks = x => Settled(x)
AcceptedSettled == \A x \in accepted : Settled(x)
AcceptedOnce == \A x, y \in accepted : x.episode = y.episode => x = y

LedgerInv ==
    /\ DOMAIN episode = Episodes /\ DOMAIN writer = Writers
    /\ CallsFormed /\ PreparedSettled /\ AcceptedSettled /\ AcceptedOnce

\* What a step may do to an episode that has ended: nothing.
EndedKept == \A e \in Episodes : episode[e].status \in Terminal => episode'[e] = episode[e]

\* What a caller's operation may become while others commit.
CallKept(v) ==
    \/ writer'[v] = writer[v]
    \/ writer[v].step = "write" /\ writer'[v].step = "stale"

-----------------------------------------------------------------------------
LEMMA SettledKept ==
    ASSUME EndedKept, NEW x, Settled(x)
    PROVE  Settled(x)'
BY DEF EndedKept, Settled, Proposal

LEMMA OvertakenKept ==
    ASSUME CallsFormed, NEW v \in Writers, writer'[v] = Overtaken(writer[v])
    PROVE  CallKept(v)
<1>1. CASE writer[v].step = "write"
  <2>1. writer[v] = [step |-> "write", asks |-> writer[v].asks]
    BY <1>1 DEF CallsFormed
  <2>2. [writer[v] EXCEPT !.step = "stale"].step = "stale"
    BY <2>1
  <2> QED
    BY <1>1, <2>2 DEF Overtaken, CallKept
<1>2. CASE writer[v].step # "write"
  BY <1>2 DEF Overtaken, CallKept
<1> QED
  BY <1>1, <1>2

\* A step that accepts nothing keeps the invariant if it keeps ended episodes,
\* and every caller but at most one keeps its operation.
LEMMA NothingAccepted ==
    ASSUME LedgerInv, EndedKept, DOMAIN episode' = Episodes, DOMAIN writer' = Writers,
           accepted' = accepted, NEW S,
           \A v \in Writers \ S : CallKept(v),
           \A w \in S : /\ writer'[w].step \in Steps
                        /\ writer'[w].step \in {"write", "preview"} =>
                              writer'[w] = [step |-> writer'[w].step, asks |-> writer'[w].asks]
                        /\ writer'[w].step \in Prepared => Settled(writer'[w].asks)
    PROVE  LedgerInv'
<1>1. CallsFormed'
  <2> SUFFICES ASSUME NEW v \in Writers
               PROVE  /\ writer'[v].step \in Steps
                      /\ writer'[v].step \in {"write", "preview"} =>
                            writer'[v] = [step |-> writer'[v].step, asks |-> writer'[v].asks]
    BY DEF CallsFormed
  <2>1. CASE v \in S
    BY <2>1
  <2>2. CASE writer'[v] = writer[v]
    BY <2>2 DEF LedgerInv, CallsFormed
  <2>3. CASE writer'[v].step = "stale"
    BY <2>3 DEF Steps
  <2> QED
    BY <2>1, <2>2, <2>3 DEF CallKept
<1>2. PreparedSettled'
  <2> SUFFICES ASSUME NEW v \in Writers, NEW x,
                      writer'[v].step \in Prepared, writer'[v].asks = x
               PROVE  Settled(x)'
    BY DEF PreparedSettled
  <2>1. CASE v \in S
    BY <2>1, SettledKept
  <2>2. CASE writer'[v] = writer[v]
    <3>1. Settled(x)
      BY <2>2 DEF LedgerInv, PreparedSettled
    <3> QED
      BY <3>1, SettledKept
  <2>3. CASE writer'[v].step = "stale"
    BY <2>3 DEF Prepared
  <2> QED
    BY <2>1, <2>2, <2>3 DEF CallKept
<1>3. AcceptedSettled'
  BY SettledKept DEF LedgerInv, AcceptedSettled
<1>4. AcceptedOnce'
  BY DEF LedgerInv, AcceptedOnce
<1> QED
  BY <1>1, <1>2, <1>3, <1>4 DEF LedgerInv

\* ... in particular when only w's operation changes.
LEMMA OneCallMoves ==
    ASSUME LedgerInv, UNCHANGED <<episode, accepted>>, NEW w \in Writers, NEW call,
           writer' = [writer EXCEPT ![w] = call],
           call.step \in Steps,
           call.step \in {"write", "preview"} => call = [step |-> call.step, asks |-> call.asks],
           call.step \in Prepared => Settled(call.asks)
    PROVE  LedgerInv'
<1>1. DOMAIN writer' = Writers /\ DOMAIN episode' = Episodes
  BY DEF LedgerInv
<1>2. writer'[w] = call
  BY DEF LedgerInv
<1>3. \A v \in Writers \ {w} : CallKept(v)
  BY DEF LedgerInv, CallKept
<1>4. EndedKept
  BY DEF EndedKept
<1> DEFINE S == {w}
<1>5. \A u \in S : /\ writer'[u].step \in Steps
                   /\ writer'[u].step \in {"write", "preview"} =>
                         writer'[u] = [step |-> writer'[u].step, asks |-> writer'[u].asks]
                   /\ writer'[u].step \in Prepared => Settled(writer'[u].asks)
  BY <1>2
<1>6. \A v \in Writers \ S : CallKept(v)
  BY <1>3
<1> HIDE DEF S
<1> QED
  BY <1>1, <1>4, <1>5, <1>6, NothingAccepted

-----------------------------------------------------------------------------
(* The operations *)

LEMMA StartStep ==
    ASSUME LedgerInv, NEW e \in Episodes, StartEpisode(e)
    PROVE  LedgerInv'
<1> DEFINE S == {}
<1>1. DOMAIN writer' = Writers /\ DOMAIN episode' = Episodes /\ accepted' = accepted
  BY DEF StartEpisode, LedgerInv
<1>2. \A v \in Writers \ S : CallKept(v)
  BY OvertakenKept DEF StartEpisode, LedgerInv
<1>3. EndedKept
  BY DEF EndedKept, StartEpisode, LedgerInv, Terminal
<1>4. \A w \in S : FALSE
  OBVIOUS
<1> HIDE DEF S
<1> QED
  BY <1>1, <1>2, <1>3, <1>4, NothingAccepted

LEMMA RecordStep ==
    ASSUME LedgerInv, NEW x \in Facts, Record(x)
    PROVE  LedgerInv'
<1> DEFINE S == {}
<1>1. DOMAIN writer' = Writers /\ DOMAIN episode' = Episodes /\ accepted' = accepted
  BY DEF Record, LedgerInv
<1>2. \A v \in Writers \ S : CallKept(v)
  BY OvertakenKept DEF Record, LedgerInv
<1>3. EndedKept
  BY DEF EndedKept, Record
<1>4. \A w \in S : FALSE
  OBVIOUS
<1> HIDE DEF S
<1> QED
  BY <1>1, <1>2, <1>3, <1>4, NothingAccepted

LEMMA GiveUpStep ==
    ASSUME LedgerInv, NEW w \in Writers, GiveUpCall(w)
    PROVE  LedgerInv'
BY OneCallMoves DEF GiveUpCall, None, Steps, Prepared

LEMMA RefuseStep ==
    ASSUME LedgerInv, NEW w \in Writers, NEW answer, Refuse(w, answer)
    PROVE  LedgerInv'
BY OneCallMoves DEF Refuse, Answered, Steps, Prepared

LEMMA BeginStep ==
    ASSUME LedgerInv, NEW w \in Writers, NEW m, Begin(w, m)
    PROVE  LedgerInv'
<1> DEFINE call ==
       CASE Replay(m) -> [step |-> "answered", asks |-> m, answer |-> "ok"]
         [] ~Replay(m) /\ RequestsUnder(m) # {} ->
               [step |-> "answered", asks |-> m, answer |-> "conflict"]
         [] OTHER -> [step |-> "write", asks |-> m]
<1>1. writer' = [writer EXCEPT ![w] = call] /\ UNCHANGED <<episode, accepted>>
  BY DEF Begin
<1>2. \/ call = [step |-> "answered", asks |-> m, answer |-> "ok"]
      \/ call = [step |-> "answered", asks |-> m, answer |-> "conflict"]
      \/ call = [step |-> "write", asks |-> m]
  OBVIOUS
<1>3. /\ call.step \in {"answered", "write"}
      /\ call.step = "write" => call = [step |-> "write", asks |-> call.asks]
  BY <1>2
<1> HIDE DEF call
<1> QED
  BY <1>1, <1>3, OneCallMoves DEF Steps, Prepared

LEMMA WriteStep ==
    ASSUME LedgerInv, NEW w \in Writers, Write(w)
    PROVE  LedgerInv'
<1> DEFINE m == writer[w].asks
<1>1. CASE \E answer : Refuse(w, answer)
  BY <1>1, RefuseStep
<1>2. CASE /\ Updates(m)
           /\ episode' = [episode EXCEPT ![m.episode] = Mutated(m)]
           /\ writer' = Overtake(w, Answered(w, "ok"))
           /\ accepted' = accepted
  <2>1. DOMAIN writer' = Writers /\ DOMAIN episode' = Episodes
    BY <1>2 DEF LedgerInv, Overtake
  <2> DEFINE S == {w}
  <2>2. \A v \in Writers \ S : CallKept(v)
    BY <1>2, OvertakenKept DEF Overtake, LedgerInv
  <2>3. \A u \in S : writer'[u].step = "answered"
    BY <1>2 DEF Overtake, Answered
  <2>4. EndedKept
    BY <1>2 DEF EndedKept, LedgerInv, Updates, Terminal
  <2> HIDE DEF S
  <2> QED
    BY <1>2, <2>1, <2>2, <2>3, <2>4, NothingAccepted DEF Steps, Prepared
<1> QED
  BY <1>1, <1>2 DEF Write

LEMMA AskStep ==
    ASSUME LedgerInv, NEW w \in Writers, NEW e \in Episodes, NEW build,
           AskAcceptance(w, e, build)
    PROVE  LedgerInv'
<1> DEFINE p == Proposal(e, build)
<1>1. p.episode = e /\ p.build = build
  BY DEF Proposal
<1>2. Settled(p)
  BY <1>1 DEF AskAcceptance, Settled
<1>3. UNCHANGED <<episode, accepted>>
  BY DEF AskAcceptance
<1>4. CASE writer' = [writer EXCEPT ![w] = [step |-> "preview", asks |-> p]]
  <2> HIDE DEF p
  <2> QED
    BY <1>2, <1>3, <1>4, OneCallMoves DEF Steps
<1>5. CASE writer' = [writer EXCEPT ![w] = [step |-> "answered", asks |-> p, answer |-> "ok"]]
  <2> HIDE DEF p
  <2> QED
    BY <1>3, <1>5, OneCallMoves DEF Steps, Prepared
<1> QED
  BY <1>4, <1>5 DEF AskAcceptance

LEMMA PreviewStep ==
    ASSUME LedgerInv, NEW w \in Writers, Preview(w)
    PROVE  LedgerInv'
<1> DEFINE p == writer[w].asks
           call == [step |-> "identify", asks |-> p]
<1>1. writer[w].step = "preview" /\ writer[w] = [step |-> "preview", asks |-> p]
  BY DEF Preview, LedgerInv, CallsFormed
<1>2. Settled(p)
  BY <1>1 DEF LedgerInv, PreparedSettled, Prepared
<1>3. CASE writer' = [writer EXCEPT ![w].step = "identify"] /\ UNCHANGED <<episode, accepted>>
  <2>1. [writer[w] EXCEPT !.step = "identify"] = call
    BY <1>1
  <2>2. writer' = [writer EXCEPT ![w] = call]
    BY <1>3, <2>1
  <2>3. call.step = "identify" /\ call.asks = p
    OBVIOUS
  <2> HIDE DEF p, call
  <2> QED
    BY <1>2, <1>3, <2>2, <2>3, OneCallMoves DEF Steps
<1> QED
  BY <1>3, RefuseStep, GiveUpStep DEF Preview

LEMMA IdentifyStep ==
    ASSUME LedgerInv, NEW w \in Writers, Identify(w)
    PROVE  LedgerInv'
<1> DEFINE p == writer[w].asks
           call == [step |-> "insert", asks |-> p, identity |-> episode[p.episode].members]
<1>1. Settled(p)
  BY DEF Identify, LedgerInv, PreparedSettled, Prepared
<1>2. writer' = [writer EXCEPT ![w] = call] /\ UNCHANGED <<episode, accepted>>
  BY DEF Identify
<1>3. call.step = "insert" /\ call.asks = p
  OBVIOUS
<1> HIDE DEF p, call
<1> QED
  BY <1>1, <1>2, <1>3, OneCallMoves DEF Steps

LEMMA InsertStep ==
    ASSUME LedgerInv, NEW w \in Writers, Insert(w)
    PROVE  LedgerInv'
<1> DEFINE p == writer[w].asks
<1>1. CASE \E answer : Refuse(w, answer)
  BY <1>1, RefuseStep
<1>2. CASE /\ SoleOf(p)
           /\ accepted' = accepted \cup {p}
           /\ writer' = Overtake(w, Answered(w, "ok"))
           /\ episode' = episode
  <2>1. DOMAIN writer' = Writers /\ DOMAIN episode' = Episodes
    BY <1>2 DEF LedgerInv, Overtake
  <2>2. \A v \in Writers \ {w} : CallKept(v)
    BY <1>2, OvertakenKept DEF Overtake, LedgerInv
  <2>3. writer'[w].step = "answered"
    BY <1>2 DEF Overtake, Answered
  <2>4. EndedKept
    BY <1>2 DEF EndedKept
  <2>5. Settled(p)
    BY DEF Insert, LedgerInv, PreparedSettled, Prepared
  <2> HIDE DEF p
  <2>6. CallsFormed'
    BY <2>2, <2>3 DEF LedgerInv, CallsFormed, CallKept, Steps
  <2>7. PreparedSettled'
    <3> SUFFICES ASSUME NEW v \in Writers, NEW x,
                        writer'[v].step \in Prepared, writer'[v].asks = x
                 PROVE  Settled(x)'
      BY DEF PreparedSettled
    <3>1. writer'[v] = writer[v]
      BY <2>2, <2>3 DEF CallKept, Prepared
    <3>2. Settled(x)
      BY <3>1 DEF LedgerInv, PreparedSettled
    <3> QED
      BY <2>4, <3>2, SettledKept
  <2>8. AcceptedSettled'
    <3> SUFFICES ASSUME NEW x \in accepted'
                 PROVE  Settled(x)'
      BY DEF AcceptedSettled
    <3>1. Settled(x)
      BY <1>2, <2>5 DEF LedgerInv, AcceptedSettled
    <3> QED
      BY <2>4, <3>1, SettledKept
  <2>9. AcceptedOnce'
    BY <1>2 DEF LedgerInv, AcceptedOnce, SoleOf, Of
  <2> QED
    BY <2>1, <2>6, <2>7, <2>8, <2>9 DEF LedgerInv
<1> QED
  BY <1>1, <1>2 DEF Insert

-----------------------------------------------------------------------------
LEMMA LedgerInvInit == LedgerInit => LedgerInv
BY DEF LedgerInit, LedgerInv, CallsFormed, PreparedSettled, AcceptedSettled, AcceptedOnce,
       None, Steps, Prepared

LEMMA LedgerInvStep == LedgerInv /\ [LedgerNext]_ledgerVars => LedgerInv'
<1> SUFFICES ASSUME LedgerInv, [LedgerNext]_ledgerVars PROVE LedgerInv'
  OBVIOUS
<1>1. CASE \E e \in Episodes : StartEpisode(e)
  BY <1>1, StartStep
<1>2. CASE \E x \in Facts : Record(x)
  BY <1>2, RecordStep
<1>3. ASSUME NEW w \in Writers,
             \/ \E e \in Episodes : \E m \in Mutations(e) : Begin(w, m)
             \/ Write(w) \/ Busy(w) \/ Consolidate(w) \/ ForgetReply(w)
      PROVE  LedgerInv'
  <2>1. CASE \E e \in Episodes : \E m \in Mutations(e) : Begin(w, m)
    BY <2>1, BeginStep
  <2>2. CASE Write(w)
    BY <2>2, WriteStep
  <2>3. CASE Busy(w) \/ ForgetReply(w)
    BY <2>3, GiveUpStep DEF Busy, ForgetReply
  <2>4. CASE Consolidate(w)
    BY <2>4, AskStep, PreviewStep, IdentifyStep, InsertStep DEF Consolidate
  <2> QED
    BY <1>3, <2>1, <2>2, <2>3, <2>4
<1>4. CASE UNCHANGED ledgerVars
  BY <1>4 DEF ledgerVars, LedgerInv, CallsFormed, PreparedSettled, AcceptedSettled,
              AcceptedOnce, Settled, Proposal
<1> QED
  BY <1>1, <1>2, <1>3, <1>4 DEF LedgerNext

\* An episode yields one experience, made of the whole episode as it ended, for
\* any number of callers, builds, requests and races of mutate_episode with
\* insert_experience_checked.
THEOREM OneExperience == LedgerSpec => []OneExperiencePerEpisode
<1>1. LedgerInv => OneExperiencePerEpisode
  BY DEF LedgerInv, AcceptedOnce, AcceptedSettled, Settled, OneExperiencePerEpisode
<1> QED
  BY <1>1, LedgerInvInit, LedgerInvStep, PTL DEF LedgerSpec

-----------------------------------------------------------------------------
(* Types *)

MutationCalls == [step : {"write", "stale"}, asks : Mutation]
ProposalCalls == [step : {"preview", "identify"}, asks : Experience]
InsertCalls == [step : {"insert"}, asks : Experience, identity : Seq(Facts)]
Answers == [step : {"answered"}, asks : Mutation \cup Experience, answer : Reply]
Calls == {None} \cup MutationCalls \cup ProposalCalls \cup InsertCalls \cup Answers

Distinct(s) == \A i, j \in DOMAIN s : s[i] = s[j] => i = j

LedgerTypes ==
    /\ recorded \subseteq Facts
    /\ episode \in [Episodes -> EpisodeRow]
    /\ \A e \in Episodes : Len(episode[e].members) <= MaxMembers
    /\ committed \subseteq Mutation
    /\ accepted \subseteq Experience
    /\ writer \in [Writers -> Calls]

\* A caller that is about to write asks under a key that its snapshot shows to
\* be free, for a version the episode has had, and names no event twice.
Awaited(m) ==
    /\ RequestsUnder(m) = {}
    /\ Known(m.episode)
    /\ m.expected < MaxVersion /\ m.expected <= episode[m.episode].version
    /\ Distinct(m.events)

WritersAwaited == \A w \in Writers : writer[w].step = "write" => Awaited(writer[w].asks)

LEMMA CallsByKind ==
    ASSUME NEW call \in Calls
    PROVE  /\ call.step \in {"write", "stale"} => call \in MutationCalls
           /\ call.step \in {"preview", "identify"} => call \in ProposalCalls
           /\ call.step = "insert" => call \in InsertCalls
           /\ call.step = "answered" => call \in Answers
           /\ call.step \in Steps
BY DEF Calls, None, MutationCalls, ProposalCalls, InsertCalls, Answers, Steps

LEMMA OvertakenCall ==
    ASSUME NEW call \in Calls
    PROVE  /\ Overtaken(call) \in Calls
           /\ Overtaken(call).step # "write"
           /\ Overtaken(call).step \in {"insert", "answered"} => Overtaken(call) = call
<1>1. CASE call.step = "write"
  <2>1. call \in MutationCalls
    BY <1>1, CallsByKind
  <2> QED BY <1>1, <2>1 DEF MutationCalls, Overtaken, Calls
<1>2. CASE call.step # "write"
  BY <1>2 DEF Overtaken
<1> QED BY <1>1, <1>2

\* What is asked of an episode is a mutation, what is asked of its evidence is
\* not.
LEMMA MutationsAreNoExperiences == Mutation \cap Experience = {}
<1> SUFFICES ASSUME NEW x \in Mutation, x \in Experience PROVE FALSE
  OBVIOUS
<1>1. DOMAIN x = {"episode", "op", "key", "expected", "events"}
  BY DEF Mutation
<1>2. DOMAIN x = {"episode", "version", "members", "build"}
  BY DEF Experience
<1> QED BY <1>1, <1>2

LEMMA BatchesAreSequences == \A b \in Batch : b \in Seq(Facts) /\ DOMAIN b = 1 .. Len(b)
<1> SUFFICES ASSUME NEW b \in Batch
             PROVE  b \in Seq(Facts) /\ DOMAIN b = 1 .. Len(b)
  OBVIOUS
<1>1. PICK n \in 1 .. MaxMembers : b \in [1 .. n -> Facts]
  BY DEF Batch
<1>2. n \in Nat
  BY LedgerBounds
<1>3. b \in Seq(Facts)
  BY <1>1, <1>2, SeqDef
<1> QED BY <1>3, LenProperties

LEMMA EventsAreSequences ==
    ASSUME NEW m \in Mutation
    PROVE  /\ m.events \in Seq(Facts) /\ DOMAIN m.events = 1 .. Len(m.events)
           /\ Len(m.events) \in Nat
<1>1. m.events \in Batch \/ m.events = <<>>
  BY DEF Mutation
<1>2. m.events \in Seq(Facts)
  BY <1>1, BatchesAreSequences, EmptySeq
<1> QED BY <1>2, LenProperties

LEMMA MutationsAsked ==
    ASSUME LedgerTypes, NEW e \in Episodes, NEW m \in Mutations(e)
    PROVE  /\ m \in Mutation /\ m.episode = e /\ m.expected <= episode[e].version
           /\ m.expected \in Nat /\ Distinct(m.events)
<1>0. /\ episode[e].version \in 0 .. MaxVersion /\ MaxVersion \in Nat
  BY LedgerBounds DEF LedgerTypes, EpisodeRow
<1>1. CASE \E op \in {"close", "abandon"}, k \in MutationKeys, v \in 0 .. episode[e].version :
              m = Asks(e, op, k, v, <<>>)
  BY <1>0, <1>1 DEF Asks, Mutation, Operation, Distinct
<1>2. CASE \E k \in MutationKeys, v \in 0 .. episode[e].version, b \in Batch :
              m = Asks(e, "add_events", k, v, b) /\ Distinct(b)
  BY <1>0, <1>2 DEF Asks, Mutation, Operation
<1>3. m \in {Asks(e, op, k, v, <<>>) :
                op \in {"close", "abandon"}, k \in MutationKeys,
                v \in 0 .. episode[e].version}
      \/ m \in {Asks(e, "add_events", k, v, batch) :
                   k \in MutationKeys, v \in 0 .. episode[e].version,
                   batch \in {b \in Batch : /\ Elements(b) \subseteq recorded
                                           /\ Distinct(b)}}
  BY DEF Mutations, Distinct
<1> QED BY <1>1, <1>2, <1>3

\* What a request makes of an open episode.
LEMMA MutatedRow ==
    ASSUME LedgerTypes, NEW m \in Mutation, Updates(m), m.expected < MaxVersion
    PROVE  /\ Mutated(m) \in EpisodeRow
           /\ Mutated(m).version = m.expected + 1
           /\ Mutated(m).members = episode[m.episode].members \o m.events
           /\ m.op = "add_events" => Mutated(m).status = "open"
           /\ m.op # "add_events" => Mutated(m).status \in Terminal
<1>1. m.op \in Operation /\ m.episode \in Episodes /\ m.expected \in 0 .. MaxVersion
  BY DEF Mutation
<1>2. episode[m.episode].members \in Seq(Facts) /\ episode[m.episode].status = "open"
  BY <1>1 DEF LedgerTypes, EpisodeRow, Updates
<1>3. episode[m.episode].members \o m.events \in Seq(Facts)
  BY <1>2, EventsAreSequences, ConcatProperties
<1>4. m.expected + 1 \in 0 .. MaxVersion
  BY <1>1, LedgerBounds
<1> DEFINE status == CASE m.op = "close" -> "closed" [] m.op = "abandon" -> "abandoned"
                       [] OTHER -> episode[m.episode].status
<1>5. m.op = "close" => status = "closed"
  OBVIOUS
<1>6. m.op = "abandon" => status = "abandoned"
  OBVIOUS
<1>7. m.op = "add_events" => status = "open"
  BY <1>2
<1> DEFINE members == episode[m.episode].members \o m.events
<1>8. Mutated(m) = [status |-> status, version |-> m.expected + 1, members |-> members]
  BY DEF Mutated
<1>3a. members \in Seq(Facts)
  BY <1>3
<1> HIDE DEF status, members
<1>9. m.op # "add_events" => status \in Terminal
  BY <1>1, <1>5, <1>6 DEF Operation, Terminal
<1>10. status \in {"absent", "open"} \cup Terminal
  BY <1>7, <1>9
<1>11. Mutated(m) \in EpisodeRow
  BY <1>3a, <1>4, <1>8, <1>10 DEF EpisodeRow
<1>12. Mutated(m).status = status
  BY <1>8
<1>13. Mutated(m).version = m.expected + 1
  BY <1>8
<1>14. Mutated(m).members = members
  BY <1>8
<1> QED
  BY <1>7, <1>9, <1>11, <1>12, <1>13, <1>14 DEF members

\* A write that goes through.
Commits(w, m) ==
    /\ m = writer[w].asks /\ m \in Mutation /\ Awaited(m) /\ Updates(m)
    /\ Len(episode[m.episode].members) + Len(m.events) <= MaxMembers
    /\ Unowned(m.events)
    /\ episode' = [episode EXCEPT ![m.episode] = Mutated(m)]
    /\ committed' = committed \cup {m}
    /\ writer' = Overtake(w, Answered(w, "ok"))
    /\ UNCHANGED <<recorded, accepted>>

\* An insert that goes through.
Accepts(w, p) ==
    /\ p = writer[w].asks /\ p \in Experience /\ SoleOf(p)
    /\ accepted' = accepted \cup {p}
    /\ writer' = Overtake(w, Answered(w, "ok"))
    /\ UNCHANGED <<recorded, episode, committed>>

\* A step that only changes what one caller is at.
Alone(w, call) ==
    /\ writer' = [writer EXCEPT ![w] = call]
    /\ UNCHANGED <<recorded, episode, committed, accepted>>

\* Why a request is refused: it can never be carried out.
Hopeless(m) ==
    \/ RequestsUnder(m) # {}
    \/ episode[m.episode].version > m.expected
    \/ episode[m.episode].status \in Terminal
    \/ Len(episode[m.episode].members) + Len(m.events) > MaxMembers
    \/ ~Unowned(m.events)

Doomed(x) ==
    /\ x \notin committed \cup accepted
    /\ \/ x \in Mutation /\ Hopeless(x)
       \/ x \in Experience /\ Of(x.episode) # {}

\* The call of a caller that moves on without a commit.
Proper(call) ==
    /\ call \in Calls
    /\ call.step = "write" => Awaited(call.asks)
    /\ call.step = "insert" => call.identity = episode[call.asks.episode].members
    /\ call.step = "answered" /\ call.answer = "ok" => call.asks \in committed \cup accepted
    /\ call.step = "answered" /\ call.answer # "ok" => Doomed(call.asks)

Identified ==
    \A w \in Writers : writer[w].step = "insert" =>
        writer[w].identity = episode[writer[w].asks.episode].members

-----------------------------------------------------------------------------
(* What a step is *)

StepKinds ==
    \/ \E e \in Episodes : StartEpisode(e)
    \/ \E x \in Facts : Record(x)
    \/ \E w \in Writers : \E m : Commits(w, m)
    \/ \E w \in Writers : \E p : Accepts(w, p)
    \/ \E w \in Writers : \E call : Alone(w, call) /\ Proper(call)
    \/ UNCHANGED ledgerVars

LedgerPre == LedgerTypes /\ WritersAwaited /\ Identified /\ LedgerInv

LEMMA CommittedOrAccepted ==
    ASSUME LedgerTypes
    PROVE  /\ \A m \in Mutation : m \notin committed => m \notin committed \cup accepted
           /\ \A x \in Experience : x \notin accepted => x \notin committed \cup accepted
BY MutationsAreNoExperiences DEF LedgerTypes

LEMMA GivenUp ==
    ASSUME NEW w \in Writers, GiveUpCall(w)
    PROVE  Alone(w, None) /\ Proper(None)
BY DEF GiveUpCall, Alone, Proper, Calls, None

LEMMA RefusalsChangeNothing ==
    ASSUME LedgerTypes, NEW w \in Writers, NEW answer \in Reply, Refuse(w, answer),
           writer[w].asks \in Mutation \cup Experience,
           answer = "ok" => writer[w].asks \in committed \cup accepted,
           answer # "ok" => Doomed(writer[w].asks)
    PROVE  \E call : Alone(w, call) /\ Proper(call)
<1> DEFINE call == Answered(w, answer)
<1>1. Alone(w, call)
  BY DEF Refuse, Alone
<1>2. /\ call \in Answers /\ call.step = "answered" /\ call.answer = answer
      /\ call.asks = writer[w].asks
  BY DEF Answered, Answers
<1> HIDE DEF call
<1>3. Proper(call)
  BY <1>2 DEF Proper, Calls
<1> QED BY <1>1, <1>3

LEMMA BeginKind ==
    ASSUME LedgerPre, NEW w \in Writers, NEW e \in Episodes, NEW m \in Mutations(e), Begin(w, m)
    PROVE  \E call : Alone(w, call) /\ Proper(call)
<1>1. /\ m \in Mutation /\ m.episode = e /\ m.expected <= episode[e].version
      /\ m.expected \in Nat /\ Distinct(m.events)
  BY MutationsAsked DEF LedgerPre
<1>2. CASE writer' = [writer EXCEPT ![w] =
                        [step |-> "answered", asks |-> m, answer |-> "ok"]]
           /\ Replay(m)
  <2> DEFINE call == [step |-> "answered", asks |-> m, answer |-> "ok"]
  <2>1. call \in Answers /\ call.asks = m /\ call.step = "answered" /\ call.answer = "ok"
    BY <1>1 DEF Answers, Reply
  <2>2. Alone(w, call)
    BY <1>2 DEF Alone, Begin
  <2>3. m \in committed
    BY <1>2 DEF Replay, RequestsUnder
  <2> HIDE DEF call
  <2>4. Proper(call)
    BY <2>1, <2>3 DEF Proper, Calls
  <2> QED BY <2>2, <2>4
<1>3. CASE writer' = [writer EXCEPT ![w] =
                        [step |-> "answered", asks |-> m, answer |-> "conflict"]]
           /\ ~Replay(m) /\ RequestsUnder(m) # {}
  <2> DEFINE call == [step |-> "answered", asks |-> m, answer |-> "conflict"]
  <2>1. call \in Answers /\ call.asks = m /\ call.step = "answered"
        /\ call.answer = "conflict"
    BY <1>1 DEF Answers, Reply
  <2>2. Alone(w, call)
    BY <1>3 DEF Alone, Begin
  <2>3. m \notin committed \cup accepted
    BY <1>1, <1>3, CommittedOrAccepted DEF LedgerPre, Replay, RequestsUnder
  <2>4. Doomed(m)
    BY <1>1, <1>3, <2>3 DEF Doomed, Hopeless
  <2> HIDE DEF call
  <2>5. Proper(call)
    BY <2>1, <2>4 DEF Proper, Calls
  <2> QED BY <2>2, <2>5
<1>4. CASE writer' = [writer EXCEPT ![w] = [step |-> "write", asks |-> m]]
           /\ ~Replay(m) /\ RequestsUnder(m) = {}
  <2> DEFINE call == [step |-> "write", asks |-> m]
  <2>1. call \in MutationCalls /\ call.asks = m /\ call.step = "write"
    BY <1>1 DEF MutationCalls
  <2>2. Alone(w, call)
    BY <1>4 DEF Alone, Begin
  <2>3. Awaited(m)
    BY <1>1, <1>4 DEF Awaited, Begin
  <2> HIDE DEF call
  <2>5. Proper(call)
    BY <2>1, <2>3 DEF Proper, Calls
  <2> QED BY <2>2, <2>5
<1>5. \/ /\ writer' = [writer EXCEPT ![w] =
                         [step |-> "answered", asks |-> m, answer |-> "ok"]]
         /\ Replay(m)
      \/ /\ writer' = [writer EXCEPT ![w] =
                         [step |-> "answered", asks |-> m, answer |-> "conflict"]]
         /\ ~Replay(m) /\ RequestsUnder(m) # {}
      \/ /\ writer' = [writer EXCEPT ![w] = [step |-> "write", asks |-> m]]
         /\ ~Replay(m) /\ RequestsUnder(m) = {}
  <2>1. CASE Replay(m)
    BY <2>1 DEF Begin
  <2>2. CASE ~Replay(m) /\ RequestsUnder(m) # {}
    BY <2>2 DEF Begin
  <2>3. CASE ~Replay(m) /\ RequestsUnder(m) = {}
    BY <2>3 DEF Begin
  <2> QED BY <2>1, <2>2, <2>3
<1> QED BY <1>2, <1>3, <1>4, <1>5

LEMMA WriteKind ==
    ASSUME LedgerPre, NEW w \in Writers, Write(w)
    PROVE  \/ \E m : Commits(w, m)
           \/ \E call : Alone(w, call) /\ Proper(call)
<1> DEFINE m == writer[w].asks
<1>1. writer[w] \in MutationCalls /\ writer[w].step = "write"
  BY CallsByKind DEF LedgerPre, LedgerTypes, Write
<1>2. m \in Mutation
  BY <1>1 DEF MutationCalls
<1>3. Awaited(m)
  BY <1>1 DEF LedgerPre, WritersAwaited
<1>4. /\ episode[m.episode] \in EpisodeRow /\ m.expected \in 0 .. MaxVersion
      /\ m.episode \in Episodes
  BY <1>2 DEF LedgerPre, LedgerTypes, Mutation
<1>5. /\ episode[m.episode].version \in Nat /\ m.expected \in Nat
      /\ episode[m.episode].status \in {"absent", "open"} \cup Terminal
      /\ episode[m.episode].members \in Seq(Facts)
  BY <1>4, LedgerBounds DEF EpisodeRow
<1>6. Len(episode[m.episode].members) \in Nat /\ Len(m.events) \in Nat
  BY <1>2, <1>5, EventsAreSequences, LenProperties
<1>7. m \notin committed \cup accepted
  <2>1. m \notin committed
    BY <1>3 DEF Awaited, RequestsUnder
  <2> QED BY <1>2, <2>1, CommittedOrAccepted DEF LedgerPre
<1> DEFINE full == Len(episode[m.episode].members) + Len(m.events) > MaxMembers
<1>8. CASE ~Updates(m) /\ Refuse(w, "conflict")
  <2>1. \/ episode[m.episode].status # "open"
        \/ episode[m.episode].version # m.expected
    BY <1>8 DEF Updates
  <2>2. \/ episode[m.episode].status \in Terminal
        \/ episode[m.episode].version > m.expected
    <3>1. m.expected <= episode[m.episode].version /\ episode[m.episode].status # "absent"
      BY <1>3 DEF Awaited, Known
    <3> QED BY <1>5, <2>1, <3>1
  <2>4. Hopeless(m)
    BY <2>2 DEF Hopeless
  <2>5. Doomed(m)
    BY <1>2, <1>7, <2>4 DEF Doomed
  <2> QED BY <1>2, <1>8, <2>5, RefusalsChangeNothing DEF LedgerPre, Reply
<1>9. CASE Updates(m) /\ full /\ Refuse(w, "invalid")
  <2>1. Doomed(m)
    BY <1>2, <1>7, <1>9 DEF Doomed, Hopeless
  <2> QED BY <1>2, <1>9, <2>1, RefusalsChangeNothing DEF LedgerPre, Reply
<1>10. CASE Updates(m) /\ ~full /\ ~Unowned(m.events) /\ Refuse(w, "conflict")
  <2>1. Doomed(m)
    BY <1>2, <1>7, <1>10 DEF Doomed, Hopeless
  <2> QED BY <1>2, <1>10, <2>1, RefusalsChangeNothing DEF LedgerPre, Reply
<1>11. CASE /\ Updates(m) /\ ~full /\ Unowned(m.events)
            /\ episode' = [episode EXCEPT ![m.episode] = Mutated(m)]
            /\ committed' = committed \cup {m}
            /\ writer' = Overtake(w, Answered(w, "ok"))
            /\ UNCHANGED <<recorded, accepted>>
  <2>1. Len(episode[m.episode].members) + Len(m.events) <= MaxMembers
    <3> DEFINE a == Len(episode[m.episode].members)
               b == Len(m.events)
    <3>1. a \in Nat /\ b \in Nat /\ ~(a + b > MaxMembers)
      BY <1>6, <1>11
    <3> HIDE DEF a, b
    <3>2. a + b <= MaxMembers
      BY <3>1, LedgerBounds
    <3> QED BY <3>2 DEF a, b
  <2>2. Commits(w, m)
    BY <1>2, <1>3, <1>11, <2>1 DEF Commits
  <2> QED BY <2>2
<1> QED BY <1>8, <1>9, <1>10, <1>11 DEF Write

LEMMA ConsolidateKind ==
    ASSUME LedgerPre, NEW w \in Writers, Consolidate(w)
    PROVE  \/ \E p : Accepts(w, p)
           \/ \E call : Alone(w, call) /\ Proper(call)
<1> DEFINE p == writer[w].asks
<1>0. LedgerTypes
  BY DEF LedgerPre
<1>1. ASSUME NEW e \in Episodes, NEW build \in Builds, AskAcceptance(w, e, build)
      PROVE  \E call : Alone(w, call) /\ Proper(call)
  <2> DEFINE q == Proposal(e, build)
  <2>1. q \in Experience
    BY <1>0 DEF LedgerTypes, EpisodeRow, Proposal, Experience
  <2>2. CASE writer' = [writer EXCEPT ![w] = [step |-> "preview", asks |-> q]]
    <3> DEFINE call == [step |-> "preview", asks |-> q]
    <3> HIDE DEF q
    <3>1. call \in ProposalCalls /\ call.step = "preview"
      BY <2>1 DEF ProposalCalls
    <3>2. Alone(w, call)
      BY <1>1, <2>2 DEF Alone, AskAcceptance
    <3> HIDE DEF call
    <3>3. Proper(call)
      BY <3>1 DEF Proper, Calls
    <3> QED BY <3>2, <3>3
  <2>3. CASE /\ writer' = [writer EXCEPT ![w] =
                              [step |-> "answered", asks |-> q, answer |-> "ok"]]
             /\ q \in Of(e)
    <3> DEFINE call == [step |-> "answered", asks |-> q, answer |-> "ok"]
    <3> HIDE DEF q
    <3>1. call \in Answers /\ call.step = "answered" /\ call.answer = "ok" /\ call.asks = q
      BY <2>1 DEF Answers, Reply
    <3>2. Alone(w, call)
      BY <1>1, <2>3 DEF Alone, AskAcceptance
    <3> HIDE DEF call
    <3>3. Proper(call)
      BY <2>3, <3>1 DEF Proper, Calls, Of
    <3> QED BY <3>2, <3>3
  <2> QED BY <1>1, <2>2, <2>3 DEF AskAcceptance
<1>2. CASE Preview(w)
  <2>1. writer[w] \in ProposalCalls
    BY <1>0, <1>2, CallsByKind DEF LedgerTypes, Preview
  <2>2. p \in Experience
    BY <2>1 DEF ProposalCalls
  <2>3. CASE p \in Of(p.episode) /\ Refuse(w, "ok")
    BY <1>0, <2>2, <2>3, RefusalsChangeNothing DEF Of, Reply
  <2>4. CASE GiveUpCall(w)
    BY <2>4, GivenUp
  <2>5. CASE /\ writer' = [writer EXCEPT ![w].step = "identify"]
             /\ UNCHANGED <<recorded, episode, committed, accepted>>
    <3> DEFINE call == [writer[w] EXCEPT !.step = "identify"]
    <3>1. call \in ProposalCalls /\ call.step = "identify"
      BY <2>1 DEF ProposalCalls
    <3>2. Alone(w, call)
      BY <2>5 DEF Alone
    <3> HIDE DEF call
    <3>3. Proper(call)
      BY <3>1 DEF Proper, Calls
    <3> QED BY <3>2, <3>3
  <2> QED BY <1>2, <2>3, <2>4, <2>5 DEF Preview
<1>3. CASE Identify(w)
  <2>1. writer[w] \in ProposalCalls
    BY <1>0, <1>3, CallsByKind DEF LedgerTypes, Identify
  <2>2. p \in Experience
    BY <2>1 DEF ProposalCalls
  <2> DEFINE call == [step |-> "insert", asks |-> p, identity |-> episode[p.episode].members]
  <2>3. episode[p.episode].members \in Seq(Facts)
    BY <1>0, <2>2 DEF LedgerTypes, EpisodeRow, Experience
  <2>4. Alone(w, call)
    BY <1>3 DEF Identify, Alone
  <2>5. call \in InsertCalls
    BY <2>2, <2>3 DEF InsertCalls
  <2>6. call.step = "insert" /\ call.identity = episode[call.asks.episode].members
    OBVIOUS
  <2> HIDE DEF call
  <2>7. Proper(call)
    BY <2>5, <2>6 DEF Proper, Calls
  <2> QED BY <2>4, <2>7
<1>4. CASE Insert(w)
  <2>1. writer[w] \in InsertCalls /\ writer[w].step = "insert"
    BY <1>0, <1>4, CallsByKind DEF LedgerTypes, Insert
  <2>2. p \in Experience
    BY <2>1 DEF InsertCalls
  <2>3. Settled(p)
    BY <2>1 DEF LedgerPre, LedgerInv, PreparedSettled, Prepared
  <2>4. /\ p.version = episode[p.episode].version
        /\ p.members = episode[p.episode].members
    BY <2>3 DEF Settled, Proposal
  <2>5. Unchanged(w)
    BY <2>1, <2>3, <2>4 DEF Unchanged, LedgerPre, Identified, Settled
  <2>6. CASE p \in Matches(p) /\ Refuse(w, "ok")
    BY <1>0, <2>2, <2>6, RefusalsChangeNothing DEF Matches, Reply
  <2>7. CASE /\ \/ Matches(p) # {} /\ p \notin Matches(p)
                \/ Matches(p) = {} /\ ~SoleOf(p)
             /\ Refuse(w, "conflict")
    <3>1. p \notin accepted
      BY <2>7 DEF Matches
    <3>2. Of(p.episode) # {}
      <4>1. CASE Matches(p) # {}
        <5>1. PICK y \in accepted : Fingerprint(y) = Fingerprint(p)
          BY <4>1 DEF Matches
        <5>2. y.episode = p.episode
          BY <5>1 DEF Fingerprint
        <5> QED BY <5>2 DEF Of
      <4>2. CASE ~SoleOf(p)
        BY <4>2 DEF SoleOf
      <4> QED BY <2>7, <4>1, <4>2
    <3>3. Doomed(p)
      BY <1>0, <2>2, <3>1, <3>2, CommittedOrAccepted DEF Doomed
    <3> QED BY <1>0, <2>2, <2>7, <3>3, RefusalsChangeNothing DEF Reply
  <2>8. CASE /\ SoleOf(p)
             /\ accepted' = accepted \cup {p}
             /\ writer' = Overtake(w, Answered(w, "ok"))
             /\ UNCHANGED <<recorded, episode, committed>>
    BY <2>2, <2>8 DEF Accepts
  <2> QED BY <1>4, <2>5, <2>6, <2>7, <2>8 DEF Insert
<1> QED BY <1>1, <1>2, <1>3, <1>4 DEF Consolidate

LEMMA EveryStepIsOneOfThese ==
    ASSUME LedgerPre, [LedgerNext]_ledgerVars
    PROVE  StepKinds
<1>1. ASSUME NEW w \in Writers, Busy(w) \/ ForgetReply(w)
      PROVE  \E call : Alone(w, call) /\ Proper(call)
  BY <1>1, GivenUp DEF Busy, ForgetReply
<1> QED
  BY <1>1, BeginKind, WriteKind, ConsolidateKind DEF LedgerNext, StepKinds

-----------------------------------------------------------------------------
(* Calls while others commit *)

\* A commit, and a row that one statement inserts, leaves no caller about to
\* write; the other callers' operations stay as they are.
LEMMA OthersOvertaken ==
    ASSUME LedgerTypes, NEW S,
           writer' \in [Writers -> Calls],
           \A v \in Writers \ S : writer'[v] = Overtaken(writer[v]),
           \A v \in Writers \cap S : writer'[v].step = "answered"
    PROVE  /\ \A v \in Writers : writer'[v].step # "write"
           /\ \A v \in Writers : writer'[v].step = "insert" => writer'[v] = writer[v]
           /\ \A v \in Writers \ S : writer'[v].step = "answered" => writer'[v] = writer[v]
<1>1. \A v \in Writers : writer[v] \in Calls
  BY DEF LedgerTypes
<1> QED BY <1>1, OvertakenCall

LEMMA Overtook ==
    ASSUME LedgerTypes, NEW w \in Writers, writer[w].asks \in Mutation \cup Experience,
           writer' = Overtake(w, Answered(w, "ok"))
    PROVE  /\ writer' \in [Writers -> Calls]
           /\ writer'[w] = Answered(w, "ok")
           /\ writer'[w].step = "answered" /\ writer'[w].answer = "ok"
           /\ writer'[w].asks = writer[w].asks
           /\ \A v \in Writers \ {w} : writer'[v] = Overtaken(writer[v])
           /\ \A v \in Writers : writer'[v].step # "write"
           /\ \A v \in Writers : writer'[v].step = "insert" => writer'[v] = writer[v]
           /\ \A v \in Writers \ {w} : writer'[v].step = "answered" => writer'[v] = writer[v]
<1>1. Answered(w, "ok") \in Calls
  BY DEF Answered, Calls, Answers, Reply
<1>2. \A v \in Writers : Overtaken(writer[v]) \in Calls
  BY OvertakenCall DEF LedgerTypes
<1>3. writer' \in [Writers -> Calls]
  BY <1>1, <1>2 DEF Overtake
<1>4. writer'[w] = Answered(w, "ok")
  BY DEF Overtake
<1>5. \A v \in Writers \ {w} : writer'[v] = Overtaken(writer[v])
  BY DEF Overtake
<1>6. /\ writer'[w].step = "answered" /\ writer'[w].answer = "ok"
      /\ writer'[w].asks = writer[w].asks
  BY <1>4 DEF Answered
<1>7. /\ \A v \in Writers : writer'[v].step # "write"
      /\ \A v \in Writers : writer'[v].step = "insert" => writer'[v] = writer[v]
      /\ \A v \in Writers \ {w} : writer'[v].step = "answered" => writer'[v] = writer[v]
  BY <1>3, <1>5, <1>6, OthersOvertaken
<1> QED BY <1>3, <1>4, <1>5, <1>6, <1>7

LEMMA Inserted ==
    ASSUME LedgerTypes, writer' = [v \in Writers |-> Overtaken(writer[v])]
    PROVE  /\ writer' \in [Writers -> Calls]
           /\ \A v \in Writers : writer'[v].step # "write"
           /\ \A v \in Writers : writer'[v].step = "insert" => writer'[v] = writer[v]
           /\ \A v \in Writers : writer'[v].step = "answered" => writer'[v] = writer[v]
<1>1. \A v \in Writers : Overtaken(writer[v]) \in Calls
  BY OvertakenCall DEF LedgerTypes
<1>2. writer' \in [Writers -> Calls]
  BY <1>1
<1> DEFINE S == {}
<1>3. \A v \in Writers \cap S : writer'[v].step = "answered"
  OBVIOUS
<1>4. \A v \in Writers \ S : writer'[v] = Overtaken(writer[v])
  OBVIOUS
<1>5. Writers \ S = Writers
  OBVIOUS
<1> HIDE DEF S
<1> QED BY <1>2, <1>3, <1>4, <1>5, OthersOvertaken

-----------------------------------------------------------------------------
(* The row of an episode *)

LEMMA StartedRow ==
    ASSUME LedgerTypes, NEW e \in Episodes, StartEpisode(e)
    PROVE  /\ episode' \in [Episodes -> EpisodeRow]
           /\ \A f \in Episodes :
                 /\ episode'[f].version = episode[f].version
                 /\ episode'[f].members = episode[f].members
                 /\ f # e => episode'[f] = episode[f]
           /\ episode'[e].status = "open" /\ episode[e].status = "absent"
BY DEF StartEpisode, LedgerTypes, EpisodeRow

LEMMA CommittedRow ==
    ASSUME LedgerTypes, NEW w, NEW m, Commits(w, m)
    PROVE  /\ m \in Mutation /\ m.episode \in Episodes
           /\ episode' \in [Episodes -> EpisodeRow]
           /\ \A f \in Episodes \ {m.episode} : episode'[f] = episode[f]
           /\ episode[m.episode].status = "open" /\ episode[m.episode].version = m.expected
           /\ episode'[m.episode].version = m.expected + 1
           /\ episode'[m.episode].members = episode[m.episode].members \o m.events
           /\ Len(episode'[m.episode].members)
                 = Len(episode[m.episode].members) + Len(m.events)
           /\ m.op = "add_events" => episode'[m.episode].status = "open"
           /\ m.op # "add_events" => episode'[m.episode].status \in Terminal
           /\ episode[m.episode].members \in Seq(Facts) /\ m.events \in Seq(Facts)
           /\ m.expected \in Nat
<1>1. /\ m \in Mutation /\ m.episode \in Episodes /\ m.expected \in 0 .. MaxVersion
      /\ Updates(m) /\ m.expected < MaxVersion
  BY DEF Commits, Awaited, Mutation
<1>2. /\ Mutated(m) \in EpisodeRow
      /\ Mutated(m).version = m.expected + 1
      /\ Mutated(m).members = episode[m.episode].members \o m.events
      /\ m.op = "add_events" => Mutated(m).status = "open"
      /\ m.op # "add_events" => Mutated(m).status \in Terminal
  BY <1>1, MutatedRow
<1>3. episode[m.episode].members \in Seq(Facts) /\ m.events \in Seq(Facts)
  BY <1>1, EventsAreSequences DEF LedgerTypes, EpisodeRow
<1>4. /\ episode' = [episode EXCEPT ![m.episode] = Mutated(m)]
      /\ episode \in [Episodes -> EpisodeRow]
  BY DEF Commits, LedgerTypes
<1> DEFINE row == Mutated(m)
<1>5. episode'[m.episode] = row
  BY <1>1, <1>4
<1>6. /\ episode' \in [Episodes -> EpisodeRow]
      /\ \A f \in Episodes \ {m.episode} : episode'[f] = episode[f]
  BY <1>1, <1>2, <1>4
<1>7. /\ row.version = m.expected + 1
      /\ row.members = episode[m.episode].members \o m.events
      /\ m.op = "add_events" => row.status = "open"
      /\ m.op # "add_events" => row.status \in Terminal
  BY <1>2
<1> HIDE DEF row
<1>8. episode[m.episode].status = "open" /\ episode[m.episode].version = m.expected
  BY <1>1 DEF Updates
<1>9. Len(row.members) = Len(episode[m.episode].members) + Len(m.events)
  BY <1>3, <1>7, ConcatProperties
<1>10. m.expected \in Nat
  BY <1>1, LedgerBounds
<1> QED BY <1>1, <1>3, <1>5, <1>6, <1>7, <1>8, <1>9, <1>10

-----------------------------------------------------------------------------
(* Types, and what callers about to write or insert know *)

LEMMA LedgerPreInit == LedgerInit => LedgerPre
<1> SUFFICES ASSUME LedgerInit PROVE LedgerPre
  OBVIOUS
<1>1. \A w \in Writers : writer[w] = None /\ None \in Calls /\ None.step = "idle"
  BY DEF LedgerInit, None, Calls
<1>2. LedgerInv
  BY LedgerInvInit
<1>3. /\ <<>> \in Seq(Facts) /\ Len(<<>>) = 0
  BY EmptySeq
<1>4. episode \in [Episodes -> EpisodeRow]
  BY <1>3, LedgerBounds DEF LedgerInit, EpisodeRow
<1>5. \A e \in Episodes : Len(episode[e].members) <= MaxMembers
  BY <1>3, LedgerBounds DEF LedgerInit
<1>6. LedgerTypes
  BY <1>1, <1>4, <1>5 DEF LedgerInit, LedgerTypes
<1> QED BY <1>1, <1>2, <1>6 DEF LedgerPre, WritersAwaited, Identified

LEMMA LedgerPreStep == LedgerPre /\ [LedgerNext]_ledgerVars => LedgerPre'
<1> SUFFICES ASSUME LedgerPre, [LedgerNext]_ledgerVars PROVE LedgerPre'
  OBVIOUS
<1>0. LedgerTypes /\ WritersAwaited /\ Identified /\ LedgerInv /\ LedgerInv'
  BY LedgerInvStep DEF LedgerPre
<1>1. \A w \in Writers : writer[w].step = "insert" =>
         /\ writer[w].asks.episode \in Episodes
         /\ episode[writer[w].asks.episode].status \in Terminal
  BY <1>0 DEF LedgerInv, PreparedSettled, Prepared, Settled
<1>2. ASSUME NEW e \in Episodes, StartEpisode(e) PROVE LedgerPre'
  <2>1. /\ writer' \in [Writers -> Calls]
        /\ \A v \in Writers : writer'[v].step # "write"
        /\ \A v \in Writers : writer'[v].step = "insert" => writer'[v] = writer[v]
    BY <1>0, <1>2, Inserted DEF StartEpisode
  <2>2. /\ episode' \in [Episodes -> EpisodeRow]
        /\ \A f \in Episodes : episode'[f].members = episode[f].members
    BY <1>0, <1>2, StartedRow
  <2>3. LedgerTypes'
    BY <1>0, <1>2, <2>1, <2>2 DEF LedgerTypes, StartEpisode
  <2>4. WritersAwaited'
    BY <2>1 DEF WritersAwaited
  <2>5. Identified'
    BY <1>0, <1>1, <2>1, <2>2 DEF Identified
  <2> QED BY <1>0, <2>3, <2>4, <2>5 DEF LedgerPre
<1>3. ASSUME NEW x \in Facts, Record(x) PROVE LedgerPre'
  <2>1. /\ writer' \in [Writers -> Calls]
        /\ \A v \in Writers : writer'[v].step # "write"
        /\ \A v \in Writers : writer'[v].step = "insert" => writer'[v] = writer[v]
    BY <1>0, <1>3, Inserted DEF Record
  <2>2. LedgerTypes'
    BY <1>0, <1>3, <2>1 DEF LedgerTypes, Record
  <2>3. WritersAwaited'
    BY <2>1 DEF WritersAwaited
  <2>4. Identified'
    BY <1>0, <1>3, <2>1 DEF Identified, Record
  <2> QED BY <1>0, <2>2, <2>3, <2>4 DEF LedgerPre
<1>4. ASSUME NEW w \in Writers, NEW m, Commits(w, m) PROVE LedgerPre'
  <2>0. writer[w].asks \in Mutation \cup Experience
    BY <1>4 DEF Commits
  <2>1. /\ writer' \in [Writers -> Calls]
        /\ \A v \in Writers : writer'[v].step # "write"
        /\ \A v \in Writers : writer'[v].step = "insert" => writer'[v] = writer[v]
    BY <1>0, <1>4, <2>0, Overtook DEF Commits
  <2>2. /\ m \in Mutation /\ m.episode \in Episodes
        /\ episode' \in [Episodes -> EpisodeRow]
        /\ \A f \in Episodes \ {m.episode} : episode'[f] = episode[f]
        /\ Len(episode'[m.episode].members)
               = Len(episode[m.episode].members) + Len(m.events)
        /\ episode[m.episode].status = "open"
    BY <1>0, <1>4, CommittedRow
  <2>3. \A e \in Episodes : Len(episode'[e].members) <= MaxMembers
    <3>1. Len(episode'[m.episode].members) <= MaxMembers
      BY <1>4, <2>2 DEF Commits
    <3> QED BY <1>0, <2>2, <3>1 DEF LedgerTypes
  <2>4. LedgerTypes'
    BY <1>0, <1>4, <2>1, <2>2, <2>3 DEF LedgerTypes, Commits
  <2>5. WritersAwaited'
    BY <2>1 DEF WritersAwaited
  <2>6. Identified'
    BY <1>0, <1>1, <2>1, <2>2 DEF Identified, Terminal
  <2> QED BY <1>0, <2>4, <2>5, <2>6 DEF LedgerPre
<1>5. ASSUME NEW w \in Writers, NEW p, Accepts(w, p) PROVE LedgerPre'
  <2>0. writer[w].asks \in Mutation \cup Experience
    BY <1>5 DEF Accepts
  <2>1. /\ writer' \in [Writers -> Calls]
        /\ \A v \in Writers : writer'[v].step # "write"
        /\ \A v \in Writers : writer'[v].step = "insert" => writer'[v] = writer[v]
    BY <1>0, <1>5, <2>0, Overtook DEF Accepts
  <2>2. LedgerTypes'
    BY <1>0, <1>5, <2>1 DEF LedgerTypes, Accepts
  <2>3. WritersAwaited'
    BY <2>1 DEF WritersAwaited
  <2>4. Identified'
    BY <1>0, <1>5, <2>1 DEF Identified, Accepts
  <2> QED BY <1>0, <2>2, <2>3, <2>4 DEF LedgerPre
<1>6. ASSUME NEW w \in Writers, NEW call, Alone(w, call), Proper(call) PROVE LedgerPre'
  <2>1. /\ writer' = [writer EXCEPT ![w] = call]
        /\ UNCHANGED <<recorded, episode, committed, accepted>>
        /\ call \in Calls
    BY <1>6 DEF Alone, Proper
  <2>2. LedgerTypes'
    BY <1>0, <2>1 DEF LedgerTypes
  <2>3. /\ writer'[w] = call
        /\ \A v \in Writers \ {w} : writer'[v] = writer[v]
    BY <1>0, <2>1 DEF LedgerTypes
  <2>4. WritersAwaited'
    <3> SUFFICES ASSUME NEW v \in Writers, writer'[v].step = "write"
                 PROVE  Awaited(writer[v].asks)'
      BY DEF WritersAwaited
    <3>1. CASE v = w
      <4>1. Awaited(call.asks)
        BY <1>6, <2>3, <3>1 DEF Proper
      <4> QED BY <2>1, <2>3, <3>1, <4>1 DEF Awaited, RequestsUnder, Known
    <3>2. CASE v # w
      <4>1. writer'[v] = writer[v]
        BY <2>3, <3>2
      <4>2. Awaited(writer[v].asks)
        BY <1>0, <4>1 DEF WritersAwaited
      <4> QED BY <2>1, <4>1, <4>2 DEF Awaited, RequestsUnder, Known
    <3> QED BY <3>1, <3>2
  <2>5. Identified'
    <3> SUFFICES ASSUME NEW v \in Writers, writer'[v].step = "insert"
                 PROVE  writer'[v].identity = episode[writer'[v].asks.episode].members
      BY <2>1 DEF Identified
    <3>1. CASE v = w
      BY <1>6, <2>3, <3>1 DEF Proper
    <3>2. CASE v # w
      BY <1>0, <2>3, <3>2 DEF Identified
    <3> QED BY <3>1, <3>2
  <2> QED BY <1>0, <2>2, <2>4, <2>5 DEF LedgerPre
<1>7. CASE UNCHANGED ledgerVars
  BY <1>0, <1>7 DEF ledgerVars, LedgerPre, LedgerTypes, WritersAwaited, Identified,
                    Awaited, RequestsUnder, Known
<1> QED
  BY <1>2, <1>3, <1>4, <1>5, <1>6, <1>7, EveryStepIsOneOfThese DEF StepKinds

\* Episodes, requests, experiences and every call of mutate_episode and of
\* the consolidation have their types, and no episode outgrows its limit.
THEOREM LedgerTypesHold == LedgerSpec => []LedgerTypeOK
<1>1. LedgerPre => LedgerTypeOK
  <2> SUFFICES ASSUME LedgerTypes PROVE LedgerTypeOK
    BY DEF LedgerPre
  <2>1. ASSUME NEW w \in Writers
        PROVE  \/ writer[w] = None
               \/ writer[w].step \in {"write", "stale"} /\ writer[w].asks \in Mutation
               \/ /\ writer[w].step \in {"preview", "identify", "insert"}
                  /\ writer[w].asks \in Experience
               \/ writer[w].step = "answered" /\ writer[w].answer \in Reply
    <3>1. writer[w] \in Calls
      BY DEF LedgerTypes
    <3> QED BY <3>1 DEF Calls, MutationCalls, ProposalCalls, InsertCalls, Answers
  <2> QED BY <2>1 DEF LedgerTypes, LedgerTypeOK
<1> QED BY <1>1, LedgerPreInit, LedgerPreStep, PTL DEF LedgerSpec

-----------------------------------------------------------------------------
(* What the requests made of an episode *)

\* One request for every version, and nothing after the request that ended the
\* episode.
EachVersionAsked ==
    /\ \A e \in Episodes : \A n \in 1 .. episode[e].version : \E m : Row(e, n) = {m}
    /\ \A m \in committed :
          /\ m.expected < episode[m.episode].version
          /\ m.op # "add_events" <=>
                /\ episode[m.episode].status \in Terminal
                /\ m.expected + 1 = episode[m.episode].version

PlaceOf(m) == Cardinality(Brought(m.episode, m.expected))

\* The members are what the requests brought, in the order of the requests.
MembersInOrder ==
    /\ \A e \in Episodes :
          /\ IsFiniteSet(Brought(e, episode[e].version))
          /\ Len(episode[e].members) = Cardinality(Brought(e, episode[e].version))
    /\ \A m \in committed :
          /\ PlaceOf(m) + Len(m.events) <= Len(episode[m.episode].members)
          /\ \A i \in DOMAIN m.events :
                episode[m.episode].members[PlaceOf(m) + i] = m.events[i]

OnePlaceEach ==
    \A e, f \in Episodes :
        \A i \in DOMAIN episode[e].members, j \in DOMAIN episode[f].members :
            episode[e].members[i] = episode[f].members[j] => e = f /\ i = j

RequestsMade == EachVersionAsked /\ MembersInOrder /\ OnePlaceEach

LEMMA Appended ==
    ASSUME NEW s \in Seq(Facts), NEW t \in Seq(Facts)
    PROVE  /\ Len(s) \in Nat /\ Len(t) \in Nat
           /\ DOMAIN s = 1 .. Len(s) /\ DOMAIN t = 1 .. Len(t)
           /\ DOMAIN (s \o t) = 1 .. Len(s) + Len(t)
           /\ \A i \in 1 .. Len(s) : (s \o t)[i] = s[i]
           /\ \A i \in 1 .. Len(t) : (s \o t)[Len(s) + i] = t[i]
<1>1. Len(s) \in Nat /\ Len(t) \in Nat /\ DOMAIN s = 1 .. Len(s) /\ DOMAIN t = 1 .. Len(t)
  BY LenProperties
<1>2. /\ s \o t \in Seq(Facts) /\ Len(s \o t) = Len(s) + Len(t)
      /\ \A i \in 1 .. Len(s) + Len(t) :
            (s \o t)[i] = IF i <= Len(s) THEN s[i] ELSE t[i - Len(s)]
  BY ConcatProperties
<1>3. DOMAIN (s \o t) = 1 .. Len(s) + Len(t)
  BY <1>2, LenProperties
<1> DEFINE u == s \o t   a == Len(s)   b == Len(t)
<1>4. \A i \in 1 .. a + b : u[i] = IF i <= a THEN s[i] ELSE t[i - a]
  BY <1>2
<1>5. a \in Nat /\ b \in Nat
  BY <1>1
<1> HIDE DEF u, a, b
<1>6. \A i \in 1 .. a : u[i] = s[i]
  BY <1>4, <1>5
<1>7. ASSUME NEW i \in 1 .. b PROVE u[a + i] = t[i]
  <2>1. a + i \in 1 .. a + b /\ ~(a + i <= a) /\ (a + i) - a = i
    BY <1>5
  <2> QED BY <1>4, <2>1
<1> QED BY <1>1, <1>3, <1>6, <1>7 DEF u, a, b

\* The requests for earlier versions, and those of other episodes, brought what
\* they brought.
LEMMA BroughtBefore ==
    ASSUME NEW m, m.expected \in Int, committed' = committed \cup {m}, NEW e, NEW n \in Int,
           e # m.episode \/ n <= m.expected
    PROVE  Brought(e, n)' = Brought(e, n)
<1>1. {r \in committed' : r.episode = e /\ r.expected < n}
          = {r \in committed : r.episode = e /\ r.expected < n}
  OBVIOUS
<1> QED BY <1>1 DEF Brought

LEMMA BroughtByAll ==
    ASSUME NEW m, NEW v \in Int, m.expected = v, committed' = committed \cup {m},
           \A r \in committed : r.episode = m.episode => r.expected \in Int /\ r.expected < v
    PROVE  Brought(m.episode, v + 1)' = Brought(m.episode, v) \cup ({m} \X DOMAIN m.events)
<1> DEFINE before == {r \in committed : r.episode = m.episode /\ r.expected < v}
           after == {r \in committed' : r.episode = m.episode /\ r.expected < v + 1}
<1>1. after = before \cup {m}
  OBVIOUS
<1> DEFINE by(r) == {r} \X DOMAIN r.events
<1>2. UNION {by(r) : r \in before \cup {m}} = (UNION {by(r) : r \in before}) \cup by(m)
  <2> HIDE DEF before, after, by
  <2>1. \A z : z \in UNION {by(r) : r \in before \cup {m}}
                  <=> z \in UNION {by(r) : r \in before} \/ z \in by(m)
    OBVIOUS
  <2> QED BY <2>1
<1> HIDE DEF after, before
<1>3. UNION {by(r) : r \in after} = (UNION {by(r) : r \in before}) \cup by(m)
  BY <1>1, <1>2
<1> QED BY <1>3 DEF Brought, before, after

LEMMA BroughtGrows ==
    ASSUME LedgerTypes, NEW e, NEW k \in Int, NEW n \in Int, k <= n,
           IsFiniteSet(Brought(e, n))
    PROVE  IsFiniteSet(Brought(e, k)) /\ Cardinality(Brought(e, k)) \in Nat
<1>1. \A r \in committed : r.expected \in Int
  BY LedgerBounds DEF LedgerTypes, Mutation
<1>2. {r \in committed : r.episode = e /\ r.expected < k}
          \subseteq {r \in committed : r.episode = e /\ r.expected < n}
  BY <1>1
<1>3. Brought(e, k) \subseteq Brought(e, n)
  BY <1>2 DEF Brought
<1> QED BY <1>3, FS_Subset, FS_CardinalityType

LEMMA RequestTypes ==
    ASSUME LedgerTypes, NEW m \in committed
    PROVE  /\ m \in Mutation /\ m.episode \in Episodes /\ m.expected \in Nat
           /\ episode[m.episode].version \in Nat
           /\ episode[m.episode].members \in Seq(Facts)
           /\ episode[m.episode] \in EpisodeRow
BY LedgerBounds DEF LedgerTypes, Mutation, EpisodeRow

LEMMA VersionsAskedKept ==
    ASSUME LedgerTypes, EachVersionAsked, NEW w, NEW m, Commits(w, m)
    PROVE  EachVersionAsked'
<1> DEFINE e0 == m.episode
           v0 == m.expected
<1>1. /\ m \in Mutation /\ e0 \in Episodes
      /\ \A f \in Episodes \ {e0} : episode'[f] = episode[f]
      /\ episode[e0].status = "open" /\ episode[e0].version = v0
      /\ episode'[e0].version = v0 + 1
      /\ m.op = "add_events" => episode'[e0].status = "open"
      /\ m.op # "add_events" => episode'[e0].status \in Terminal
      /\ v0 \in Nat
  BY CommittedRow
<1>2. committed' = committed \cup {m}
  BY DEF Commits
<1>3. \A r \in committed : /\ r.episode \in Episodes /\ r.expected \in Nat
                           /\ episode[r.episode].version \in Nat
  BY RequestTypes
<1>4. \A r \in committed : r.episode = e0 => r.expected < v0
  BY <1>1 DEF EachVersionAsked
<1>5. ASSUME NEW e \in Episodes, NEW n \in 1 .. episode'[e].version
      PROVE  (\E r : Row(e, n) = {r})'
  <2>1. episode[e].version \in Nat
    BY LedgerBounds DEF LedgerTypes, EpisodeRow
  <2>2. CASE e = e0 /\ n = v0 + 1
    <3>1. Row(e, n)' = {m}
      BY <1>1, <1>2, <1>3, <1>4, <2>2 DEF Row
    <3> QED BY <3>1
  <2>3. CASE ~(e = e0 /\ n = v0 + 1)
    <3>1. n \in 1 .. episode[e].version
      BY <1>1, <2>1, <2>3
    <3>2. PICK r : Row(e, n) = {r}
      BY <3>1 DEF EachVersionAsked
    <3>3. Row(e, n)' = Row(e, n)
      BY <1>1, <1>2, <2>3, <3>1 DEF Row
    <3> QED BY <3>2, <3>3
  <2> QED BY <2>2, <2>3
<1>6. ASSUME NEW r \in committed'
      PROVE  /\ r.expected < episode'[r.episode].version
             /\ r.op # "add_events" <=>
                   /\ episode'[r.episode].status \in Terminal
                   /\ r.expected + 1 = episode'[r.episode].version
  <2>1. CASE r = m
    <3>1. "open" \notin Terminal
      BY DEF Terminal
    <3> QED BY <1>1, <2>1, <3>1
  <2>2. CASE r \in committed /\ r.episode # e0
    <3>1. episode'[r.episode] = episode[r.episode]
      BY <1>1, <1>3, <2>2
    <3> QED BY <2>2, <3>1 DEF EachVersionAsked
  <2>3. CASE r \in committed /\ r.episode = e0
    <3>1. "open" \notin Terminal
      BY DEF Terminal
    <3>2. r.expected < v0 /\ r.expected \in Nat
      BY <1>3, <1>4, <2>3
    <3>3. ~(r.op # "add_events")
      BY <1>1, <2>3, <3>1 DEF EachVersionAsked
    <3>4. r.expected < v0 + 1 /\ r.expected + 1 # v0 + 1
      BY <1>1, <3>2
    <3> QED BY <1>1, <2>3, <3>3, <3>4
  <2> QED BY <1>2, <2>1, <2>2, <2>3
<1> QED BY <1>5, <1>6 DEF EachVersionAsked

LEMMA MembersInOrderKept ==
    ASSUME LedgerTypes, EachVersionAsked, MembersInOrder, NEW w, NEW m, Commits(w, m)
    PROVE  MembersInOrder'
<1> DEFINE e0 == m.episode
           v0 == m.expected
           s == episode[e0].members
           t == m.events
<1>1. /\ m \in Mutation /\ e0 \in Episodes
      /\ \A f \in Episodes \ {e0} : episode'[f] = episode[f]
      /\ episode[e0].version = v0
      /\ episode'[e0].version = v0 + 1
      /\ episode'[e0].members = s \o t
      /\ Len(episode'[e0].members) = Len(s) + Len(t)
      /\ s \in Seq(Facts) /\ t \in Seq(Facts)
      /\ v0 \in Nat
  BY CommittedRow
<1>2. committed' = committed \cup {m}
  BY DEF Commits
<1>3. \A r \in committed : /\ r.episode \in Episodes /\ r.expected \in Nat
                           /\ r \in Mutation
                           /\ r.expected < episode[r.episode].version
                           /\ episode[r.episode].version \in Nat
  BY RequestTypes DEF EachVersionAsked
<1>4. \A r \in committed : r.episode = e0 => r.expected < v0 /\ r.expected \in Int
  BY <1>1, <1>3
<1>5. Brought(e0, v0 + 1)' = Brought(e0, v0) \cup ({m} \X DOMAIN t)
  BY <1>1, <1>2, <1>4, BroughtByAll
<1>6. IsFiniteSet(Brought(e0, v0)) /\ Len(s) = Cardinality(Brought(e0, v0))
  BY <1>1 DEF MembersInOrder
<1>7. Len(s) \in Nat /\ Len(t) \in Nat /\ DOMAIN t = 1 .. Len(t)
  BY <1>1, Appended
<1>8. /\ IsFiniteSet(Brought(e0, v0 + 1)')
      /\ Cardinality(Brought(e0, v0 + 1)') = Len(s) + Len(t)
  <2>1. IsFiniteSet(DOMAIN t) /\ Cardinality(DOMAIN t) = Len(t)
    BY <1>7, PlacesCount
  <2>2. IsFiniteSet({m}) /\ Cardinality({m}) = 1
    BY FS_Singleton
  <2>3. IsFiniteSet({m} \X DOMAIN t) /\ Cardinality({m} \X DOMAIN t) = 1 * Len(t)
    <3> DEFINE one == {m}
               places == DOMAIN t
               n == Len(t)
    <3>1. /\ IsFiniteSet(one) /\ Cardinality(one) = 1
          /\ IsFiniteSet(places) /\ Cardinality(places) = n
      BY <2>1, <2>2
    <3> HIDE DEF one, places, n
    <3>2. IsFiniteSet(one \X places) /\ Cardinality(one \X places) = 1 * n
      BY <3>1, FS_Product
    <3> QED BY <3>2 DEF one, places, n
  <2>4. m \notin committed
    BY <1>4, <1>1
  <2>5. Brought(e0, v0) \cap ({m} \X DOMAIN t) = {}
    BY <2>4 DEF Brought
  <2>6. Cardinality(Brought(e0, v0) \cap ({m} \X DOMAIN t)) = 0
    BY <2>5, FS_EmptySet
  <2> DEFINE old == Brought(e0, v0)
             new == {m} \X DOMAIN t
             a == Len(s)
             b == Len(t)
  <2>7a. 1 * Len(t) = Len(t)
    BY <1>7
  <2>7. /\ IsFiniteSet(old) /\ IsFiniteSet(new)
        /\ Cardinality(old) = a /\ Cardinality(new) = b
        /\ Cardinality(old \cap new) = 0
        /\ a \in Nat /\ b \in Nat
    BY <1>6, <1>7, <2>3, <2>6, <2>7a
  <2> HIDE DEF old, new, a, b
  <2>8. /\ IsFiniteSet(old \cup new)
        /\ Cardinality(old \cup new)
              = Cardinality(old) + Cardinality(new) - Cardinality(old \cap new)
    BY <2>7, FS_Union
  <2>9. Cardinality(old \cup new) = a + b
    BY <2>7, <2>8
  <2> QED BY <1>5, <2>8, <2>9 DEF old, new, a, b
<1>9. ASSUME NEW e \in Episodes
      PROVE  /\ IsFiniteSet(Brought(e, episode[e].version)')
             /\ Len(episode'[e].members) = Cardinality(Brought(e, episode[e].version)')
  <2>1. CASE e = e0
    <3>1. Brought(e, episode[e].version)' = Brought(e0, v0 + 1)'
      BY <1>1, <2>1 DEF Brought
    <3> QED BY <1>1, <1>8, <2>1, <3>1
  <2>2. CASE e # e0
    <3>1. episode'[e] = episode[e]
      BY <1>1, <2>2
    <3> DEFINE n == episode[e].version
    <3>2. n \in Int
      BY LedgerBounds DEF LedgerTypes, EpisodeRow
    <3>3. Brought(e, episode[e].version)' = Brought(e, n)
      <4>1. {r \in committed' : r.episode = e /\ r.expected < n}
               = {r \in committed : r.episode = e /\ r.expected < n}
        BY <1>2, <2>2
      <4> QED BY <3>1, <4>1 DEF Brought
    <3> QED BY <3>1, <3>3 DEF MembersInOrder
  <2> QED BY <2>1, <2>2
<1>10. ASSUME NEW r \in committed'
       PROVE  /\ PlaceOf(r)' + Len(r.events) <= Len(episode'[r.episode].members)
              /\ \A i \in DOMAIN r.events :
                    episode'[r.episode].members[PlaceOf(r)' + i] = r.events[i]
  <2>1. CASE r = m
    <3>1. Brought(e0, v0)' = Brought(e0, v0)
      BY <1>1, <1>2, BroughtBefore
    <3>2. PlaceOf(r)' = Len(s)
      BY <1>6, <2>1, <3>1 DEF PlaceOf, Brought
    <3>3. PlaceOf(r)' + Len(r.events) = Len(s) + Len(t)
      BY <2>1, <3>2
    <3>4. \A i \in 1 .. Len(t) : (s \o t)[Len(s) + i] = t[i]
      BY <1>1, Appended
    <3>5. r.events = t /\ episode'[r.episode].members = s \o t
      BY <1>1, <2>1
    <3>6. PlaceOf(r)' + Len(r.events) <= Len(episode'[r.episode].members)
      <4>1. Len(episode'[r.episode].members) = Len(s) + Len(t)
        BY <1>1, <2>1
      <4> DEFINE a == Len(s)
                 b == Len(t)
      <4>2. a + b <= a + b
        <5>1. a \in Nat /\ b \in Nat
          BY <1>7
        <5> HIDE DEF a, b
        <5> QED BY <5>1
      <4> QED BY <3>3, <4>1, <4>2
    <3>7. \A i \in DOMAIN r.events : (s \o t)[PlaceOf(r)' + i] = r.events[i]
      BY <1>7, <3>2, <3>4, <3>5
    <3> QED BY <3>5, <3>6, <3>7
  <2>2. CASE r \in committed
    <3>1. Brought(r.episode, r.expected)' = Brought(r.episode, r.expected)
      BY <1>1, <1>2, <1>3, <1>4, <2>2, BroughtBefore
    <3>2. PlaceOf(r)' = PlaceOf(r)
      BY <3>1 DEF PlaceOf, Brought
    <3>3. /\ PlaceOf(r) + Len(r.events) <= Len(episode[r.episode].members)
          /\ \A i \in DOMAIN r.events :
                episode[r.episode].members[PlaceOf(r) + i] = r.events[i]
      BY <2>2 DEF MembersInOrder
    <3>4. CASE r.episode # e0
      BY <1>1, <1>3, <2>2, <3>2, <3>3, <3>4
    <3>5. CASE r.episode = e0
      <4>1. PlaceOf(r) \in Nat
        <5>1. IsFiniteSet(Brought(r.episode, v0))
          BY <1>6, <3>5
        <5> QED BY <1>1, <1>4, <2>2, <3>5, <5>1, BroughtGrows DEF PlaceOf
      <4>2. DOMAIN r.events = 1 .. Len(r.events) /\ Len(r.events) \in Nat
        BY <1>3, <2>2, EventsAreSequences
      <4>3. \A i \in 1 .. Len(s) : (s \o t)[i] = s[i]
        BY <1>1, Appended
      <4> DEFINE p == PlaceOf(r)
                 a == Len(s)
                 b == Len(t)
                 c == Len(r.events)
      <4>4. p \in Nat /\ a \in Nat /\ b \in Nat /\ c \in Nat /\ p + c <= a
        BY <1>7, <3>3, <3>5, <4>1, <4>2
      <4>5. p + c <= a + b /\ \A i \in 1 .. c : p + i \in 1 .. a
        <5> HIDE DEF p, a, b, c
        <5> QED BY <4>4
      <4> DEFINE u == s \o t
                 ev == r.events
      <4>6. /\ PlaceOf(r)' = p /\ episode'[r.episode].members = u
            /\ Len(episode'[r.episode].members) = a + b
        BY <1>1, <3>2, <3>5
      <4>7. PlaceOf(r)' + Len(r.events) <= Len(episode'[r.episode].members)
        BY <4>5, <4>6
      <4>8. /\ \A i \in 1 .. c : s[p + i] = ev[i]
            /\ \A i \in 1 .. a : u[i] = s[i]
        BY <3>3, <3>5, <4>2, <4>3
      <4>9. \A i \in 1 .. c : u[p + i] = ev[i]
        <5> HIDE DEF p, a, b, c, s, u, ev
        <5> QED BY <4>5, <4>8
      <4>10. \A i \in DOMAIN r.events :
                episode'[r.episode].members[PlaceOf(r)' + i] = r.events[i]
        BY <4>2, <4>6, <4>9
      <4> QED BY <4>7, <4>10
    <3> QED BY <3>4, <3>5
  <2> QED BY <1>2, <2>1, <2>2
<1> QED BY <1>9, <1>10 DEF MembersInOrder

LEMMA OnePlaceKept ==
    ASSUME LedgerTypes, OnePlaceEach, NEW w, NEW m, Commits(w, m)
    PROVE  OnePlaceEach'
<1> DEFINE e0 == m.episode
           s == episode[e0].members
           t == m.events
<1>1. /\ e0 \in Episodes
      /\ \A f \in Episodes \ {e0} : episode'[f] = episode[f]
      /\ episode'[e0].members = s \o t
      /\ s \in Seq(Facts) /\ t \in Seq(Facts)
  BY CommittedRow
<1>2. Unowned(t) /\ Distinct(t)
  BY DEF Commits, Awaited
<1>3. /\ Len(s) \in Nat /\ Len(t) \in Nat
      /\ DOMAIN s = 1 .. Len(s) /\ DOMAIN t = 1 .. Len(t)
      /\ DOMAIN (s \o t) = 1 .. Len(s) + Len(t)
      /\ \A i \in 1 .. Len(s) : (s \o t)[i] = s[i]
      /\ \A i \in 1 .. Len(t) : (s \o t)[Len(s) + i] = t[i]
  BY <1>1, Appended
<1>4. \A f \in Episodes : \A j \in DOMAIN episode[f].members, i \in DOMAIN t :
         episode[f].members[j] # t[i]
  BY <1>2 DEF Unowned, Elements
\* An index of the new members is one of the old ones or one of the batch.
<1>5. ASSUME NEW i \in DOMAIN (s \o t)
      PROVE  \/ i \in DOMAIN s /\ (s \o t)[i] = s[i]
             \/ \E k \in DOMAIN t : i = Len(s) + k /\ (s \o t)[i] = t[k]
  <2> DEFINE a == Len(s)
             b == Len(t)
             u == s \o t
  <2>1. a \in Nat /\ b \in Nat /\ i \in 1 .. a + b
    BY <1>3
  <2>2. i \in 1 .. a \/ (i - a \in 1 .. b /\ i = a + (i - a))
    <3> HIDE DEF a, b
    <3> QED BY <2>1
  <2> QED BY <1>3, <2>2
<1>6. ASSUME NEW f \in Episodes \ {e0}, NEW i \in DOMAIN (s \o t),
             NEW j \in DOMAIN episode[f].members
      PROVE  (s \o t)[i] # episode[f].members[j]
  <2> DEFINE u == s \o t
  <2>1. CASE i \in DOMAIN s /\ u[i] = s[i]
    BY <1>1, <2>1 DEF OnePlaceEach
  <2>2. CASE \E k \in DOMAIN t : u[i] = t[k]
    BY <1>4, <2>2
  <2> QED BY <1>5, <2>1, <2>2
<1>7. ASSUME NEW i \in DOMAIN (s \o t), NEW j \in DOMAIN (s \o t),
             (s \o t)[i] = (s \o t)[j]
      PROVE  i = j
  <2> DEFINE u == s \o t
             a == Len(s)
  <2>0. \A k \in DOMAIN t, l \in DOMAIN s : t[k] # s[l]
    BY <1>1, <1>4
  <2>1. CASE i \in DOMAIN s /\ u[i] = s[i]
    <3>1. CASE j \in DOMAIN s /\ u[j] = s[j]
      <4>1. s[i] = s[j]
        BY <1>7, <2>1, <3>1
      <4> QED BY <1>1, <2>1, <3>1, <4>1 DEF OnePlaceEach
    <3>2. CASE \E k \in DOMAIN t : u[j] = t[k]
      BY <1>7, <2>0, <2>1, <3>2
    <3> QED BY <1>5, <3>1, <3>2
  <2>2. CASE \E k \in DOMAIN t : i = a + k /\ u[i] = t[k]
    <3>1. CASE j \in DOMAIN s /\ u[j] = s[j]
      BY <1>7, <2>0, <2>2, <3>1
    <3>2. CASE \E k \in DOMAIN t : j = a + k /\ u[j] = t[k]
      <4>1. PICK k \in DOMAIN t : i = a + k /\ u[i] = t[k]
        BY <2>2
      <4>2. PICK l \in DOMAIN t : j = a + l /\ u[j] = t[l]
        BY <3>2
      <4>3. k = l
        BY <1>2, <1>7, <4>1, <4>2 DEF Distinct
      <4> QED BY <4>1, <4>2, <4>3
    <3> QED BY <1>5, <3>1, <3>2
  <2> QED BY <1>5, <2>1, <2>2
<1> SUFFICES ASSUME NEW e \in Episodes, NEW f \in Episodes,
                    NEW i \in DOMAIN episode'[e].members,
                    NEW j \in DOMAIN episode'[f].members,
                    episode'[e].members[i] = episode'[f].members[j]
             PROVE  e = f /\ i = j
  BY DEF OnePlaceEach
<1>8. CASE e = e0 /\ f = e0
  <2>1. /\ i \in DOMAIN (s \o t) /\ j \in DOMAIN (s \o t)
        /\ (s \o t)[i] = (s \o t)[j]
    BY <1>1, <1>8
  <2> QED BY <1>7, <1>8, <2>1
<1>9. CASE e = e0 /\ f # e0
  <2>1. /\ i \in DOMAIN (s \o t) /\ j \in DOMAIN episode[f].members
        /\ (s \o t)[i] = episode[f].members[j]
    BY <1>1, <1>9
  <2> QED BY <1>6, <1>9, <2>1
<1>10. CASE e # e0 /\ f = e0
  <2>1. /\ j \in DOMAIN (s \o t) /\ i \in DOMAIN episode[e].members
        /\ (s \o t)[j] = episode[e].members[i]
    BY <1>1, <1>10
  <2> QED BY <1>6, <1>10, <2>1
<1>11. CASE e # e0 /\ f # e0
  BY <1>1, <1>11 DEF OnePlaceEach
<1> QED BY <1>8, <1>9, <1>10, <1>11

-----------------------------------------------------------------------------
(* What callers are told *)

\* Whoever was told "ok" finds what it asked for; whoever was refused asked for
\* what can never be.
AnswersHold ==
    \A w \in Writers : writer[w].step = "answered" =>
        /\ writer[w].answer = "ok" => writer[w].asks \in committed \cup accepted
        /\ writer[w].answer # "ok" => Doomed(writer[w].asks)

LEMMA DoomedUnchanged ==
    ASSUME UNCHANGED <<committed, accepted>>, NEW x, Doomed(x),
           x \in Mutation =>
              /\ \A f \in Episodes : episode'[f].members = episode[f].members
              /\ episode'[x.episode].version = episode[x.episode].version
              /\ episode'[x.episode].members = episode[x.episode].members
              /\ episode[x.episode].status \in Terminal =>
                    episode'[x.episode].status \in Terminal
    PROVE  Doomed(x)'
<1>1. RequestsUnder(x)' = RequestsUnder(x) /\ Of(x.episode)' = Of(x.episode)
  BY DEF RequestsUnder, Of
<1>2. x \notin committed' \cup accepted'
  BY DEF Doomed
<1>3. CASE x \in Experience /\ Of(x.episode) # {}
  BY <1>1, <1>2, <1>3 DEF Doomed
<1>4. CASE x \in Mutation /\ Hopeless(x)
  <2>1. Unowned(x.events)' <=> Unowned(x.events)
    BY <1>4 DEF Unowned
  <2>2. Hopeless(x)'
    BY <1>1, <1>4, <2>1 DEF Hopeless
  <2> QED BY <1>2, <1>4, <2>2 DEF Doomed
<1> QED BY <1>3, <1>4 DEF Doomed

\* What is hopeless stays so when another request is carried out, and is not
\* what is carried out.
LEMMA DoomedCommits ==
    ASSUME LedgerTypes, NEW w, NEW m, Commits(w, m), NEW x, Doomed(x)
    PROVE  Doomed(x)'
<1> DEFINE e0 == m.episode
           s == episode[e0].members
           t == m.events
<1>1. /\ m \in Mutation /\ e0 \in Episodes
      /\ \A f \in Episodes \ {e0} : episode'[f] = episode[f]
      /\ episode[e0].status = "open" /\ episode[e0].version = m.expected
      /\ episode'[e0].version = m.expected + 1
      /\ episode'[e0].members = s \o t
      /\ Len(episode'[e0].members) = Len(s) + Len(t)
      /\ s \in Seq(Facts) /\ t \in Seq(Facts)
      /\ m.expected \in Nat
  BY CommittedRow
<1>2. /\ committed' = committed \cup {m} /\ accepted' = accepted
      /\ RequestsUnder(m) = {} /\ Unowned(t)
      /\ Len(s) + Len(t) <= MaxMembers
  BY DEF Commits, Awaited
<1>3. /\ Len(s) \in Nat /\ Len(t) \in Nat
      /\ DOMAIN s = 1 .. Len(s)
      /\ DOMAIN (s \o t) = 1 .. Len(s) + Len(t)
      /\ \A i \in 1 .. Len(s) : (s \o t)[i] = s[i]
  BY <1>1, Appended
<1>4. Len(s) <= Len(s) + Len(t) /\ DOMAIN s \subseteq DOMAIN (s \o t)
  <2> DEFINE a == Len(s)
             b == Len(t)
  <2>1. a \in Nat /\ b \in Nat
    BY <1>3
  <2>2. a <= a + b /\ 1 .. a \subseteq 1 .. a + b
    <3> HIDE DEF a, b
    <3> QED BY <2>1
  <2> QED BY <1>3, <2>2
<1>5. CASE x \in Experience /\ Of(x.episode) # {}
  <2>1. x # m
    BY <1>1, <1>5, MutationsAreNoExperiences
  <2>2. Of(x.episode)' = Of(x.episode)
    BY <1>2 DEF Of
  <2>3. (x \notin committed \cup accepted)'
    BY <1>2, <2>1 DEF Doomed
  <2> QED BY <1>5, <2>2, <2>3 DEF Doomed
<1>6. CASE x \in Mutation /\ Hopeless(x)
  <2>0. /\ x.episode \in Episodes /\ x.expected \in Int
        /\ episode[x.episode].version \in Int
        /\ Len(x.events) \in Nat
    BY <1>6, LedgerBounds, EventsAreSequences DEF Mutation, LedgerTypes, EpisodeRow
  <2>1. x # m
    <3> SUFFICES ASSUME x = m PROVE FALSE
      OBVIOUS
    <3>1. ~(episode[e0].version > m.expected)
      BY <1>1
    <3>2. ~(Len(s) + Len(t) > MaxMembers)
      <4> DEFINE a == Len(s)
                 b == Len(t)
      <4>1. a \in Nat /\ b \in Nat /\ a + b <= MaxMembers
        BY <1>2, <1>3
      <4> HIDE DEF a, b
      <4>2. ~(a + b > MaxMembers)
        BY <4>1, LedgerBounds
      <4> QED BY <4>2 DEF a, b
    <3>3. "open" \notin Terminal
      BY DEF Terminal
    <3> QED BY <1>1, <1>2, <1>6, <3>1, <3>2, <3>3 DEF Hopeless
  <2>2. (x \notin committed \cup accepted)'
    BY <1>2, <2>1 DEF Doomed
  <2>3. RequestsUnder(x) # {} => RequestsUnder(x)' # {}
    BY <1>2 DEF RequestsUnder
  <2>4. episode[x.episode].version > x.expected => episode'[x.episode].version > x.expected
    <3>1. CASE x.episode = e0
      BY <1>1, <2>0, <3>1
    <3>2. CASE x.episode # e0
      BY <1>1, <2>0, <3>2
    <3> QED BY <3>1, <3>2
  <2>5. episode[x.episode].status \in Terminal => episode'[x.episode].status \in Terminal
    <3>1. CASE x.episode = e0
      BY <1>1, <3>1 DEF Terminal
    <3>2. CASE x.episode # e0
      BY <1>1, <2>0, <3>2
    <3> QED BY <3>1, <3>2
  <2>6. Len(episode[x.episode].members) + Len(x.events) > MaxMembers =>
        Len(episode'[x.episode].members) + Len(x.events) > MaxMembers
    <3>1. CASE x.episode = e0
      <4> DEFINE a == Len(s)
                 b == Len(t)
                 c == Len(x.events)
      <4>1. a \in Nat /\ b \in Nat /\ c \in Nat
        BY <1>3, <2>0
      <4>2. a + c > MaxMembers => (a + b) + c > MaxMembers
        <5> HIDE DEF a, b, c
        <5> QED BY <4>1, LedgerBounds
      <4>3. Len(episode'[x.episode].members) = a + b
        BY <1>1, <3>1
      <4> QED BY <3>1, <4>2, <4>3
    <3>2. CASE x.episode # e0
      BY <1>1, <2>0, <3>2
    <3> QED BY <3>1, <3>2
  <2>7. ~Unowned(x.events) => ~(Unowned(x.events)')
    <3> SUFFICES ASSUME NEW f \in Episodes,
                        Elements(x.events) \cap Elements(episode[f].members) # {}
                 PROVE  Elements(x.events) \cap Elements(episode'[f].members) # {}
      BY DEF Unowned, Elements
    <3>1. Elements(episode[f].members) \subseteq Elements(episode'[f].members)
      <4>1. CASE f = e0
        <5>1. Elements(s) \subseteq Elements(s \o t)
          BY <1>3, <1>4 DEF Elements
        <5> QED BY <1>1, <4>1, <5>1
      <4>2. CASE f # e0
        BY <1>1, <4>2
      <4> QED BY <4>1, <4>2
    <3> QED BY <3>1
  <2>8. Hopeless(x)'
    BY <1>6, <2>3, <2>4, <2>5, <2>6, <2>7 DEF Hopeless
  <2> QED BY <1>6, <2>2, <2>8 DEF Doomed
<1> QED BY <1>5, <1>6 DEF Doomed

LEMMA DoomedAccepts ==
    ASSUME LedgerTypes, NEW w, NEW p, Accepts(w, p), NEW x, Doomed(x)
    PROVE  Doomed(x)'
<1>1. /\ p \in Experience /\ Of(p.episode) = {}
      /\ committed' = committed /\ accepted' = accepted \cup {p} /\ episode' = episode
  BY DEF Accepts, SoleOf
<1>2. x # p
  BY <1>1, MutationsAreNoExperiences DEF Doomed
<1>3. (x \notin committed \cup accepted)'
  BY <1>1, <1>2 DEF Doomed
<1>4. Of(x.episode) # {} => Of(x.episode)' # {}
  BY <1>1 DEF Of
<1>5. Hopeless(x) => Hopeless(x)'
  BY <1>1 DEF Hopeless, RequestsUnder, Unowned, Elements
<1> QED BY <1>3, <1>4, <1>5 DEF Doomed

LEMMA AnswersStep ==
    ASSUME LedgerPre, AnswersHold, [LedgerNext]_ledgerVars
    PROVE  AnswersHold'
<1>0. LedgerTypes
  BY DEF LedgerPre
<1> DEFINE Held(v) ==
      writer'[v].step = "answered" =>
         /\ writer'[v].answer = "ok" => writer'[v].asks \in committed' \cup accepted'
         /\ writer'[v].answer # "ok" => (\A x : x = writer'[v].asks => Doomed(x)')
<1>1. (\A v \in Writers : Held(v)) => AnswersHold'
  BY DEF AnswersHold
\* An old answer stands if the tables only grow and what is hopeless stays so.
<1>2. ASSUME NEW v \in Writers,
             writer'[v].step = "answered" => writer'[v] = writer[v],
             committed \cup accepted \subseteq committed' \cup accepted',
             \A x : Doomed(x) => Doomed(x)'
      PROVE  Held(v)
  BY <1>2 DEF AnswersHold
<1>3. ASSUME NEW e \in Episodes, StartEpisode(e) PROVE AnswersHold'
  <2>1. \A v \in Writers : writer'[v].step = "answered" => writer'[v] = writer[v]
    BY <1>0, <1>3, Inserted DEF StartEpisode
  <2>2. UNCHANGED <<committed, accepted>>
    BY <1>3 DEF StartEpisode
  <2>3. ASSUME NEW x, Doomed(x) PROVE Doomed(x)'
    <3>1. /\ \A f \in Episodes :
               /\ episode'[f].version = episode[f].version
               /\ episode'[f].members = episode[f].members
               /\ f # e => episode'[f] = episode[f]
          /\ episode[e].status = "absent"
      BY <1>0, <1>3, StartedRow
    <3>2. x \in Mutation => x.episode \in Episodes
      BY DEF Mutation
    <3>3. "absent" \notin Terminal
      BY DEF Terminal
    <3> QED BY <2>2, <2>3, <3>1, <3>2, <3>3, DoomedUnchanged
  <2>4. \A v \in Writers : Held(v)
    BY <1>2, <2>1, <2>2, <2>3
  <2> QED BY <1>1, <2>4
<1>4. ASSUME NEW y \in Facts, Record(y) PROVE AnswersHold'
  <2>1. \A v \in Writers : writer'[v].step = "answered" => writer'[v] = writer[v]
    BY <1>0, <1>4, Inserted DEF Record
  <2>2. UNCHANGED <<episode, committed, accepted>>
    BY <1>4 DEF Record
  <2>3. ASSUME NEW x, Doomed(x) PROVE Doomed(x)'
    BY <2>2, <2>3, DoomedUnchanged
  <2>4. \A v \in Writers : Held(v)
    BY <1>2, <2>1, <2>2, <2>3
  <2> QED BY <1>1, <2>4
<1>5. ASSUME NEW w \in Writers, NEW m, Commits(w, m) PROVE AnswersHold'
  <2>0. writer[w].asks \in Mutation \cup Experience /\ m = writer[w].asks
    BY <1>5 DEF Commits
  <2>1. /\ \A v \in Writers \ {w} : writer'[v].step = "answered" => writer'[v] = writer[v]
        /\ writer'[w].answer = "ok" /\ writer'[w].asks = m
    BY <1>0, <1>5, <2>0, Overtook DEF Commits
  <2>2. committed' = committed \cup {m} /\ accepted' = accepted
    BY <1>5 DEF Commits
  <2>3. ASSUME NEW x, Doomed(x) PROVE Doomed(x)'
    BY <1>0, <1>5, <2>3, DoomedCommits
  <2>4. \A v \in Writers \ {w} : Held(v)
    BY <1>2, <2>1, <2>2, <2>3
  <2>5. Held(w)
    BY <2>1, <2>2
  <2> QED BY <1>1, <2>4, <2>5
<1>6. ASSUME NEW w \in Writers, NEW p, Accepts(w, p) PROVE AnswersHold'
  <2>0. writer[w].asks \in Mutation \cup Experience /\ p = writer[w].asks
    BY <1>6 DEF Accepts
  <2>1. /\ \A v \in Writers \ {w} : writer'[v].step = "answered" => writer'[v] = writer[v]
        /\ writer'[w].answer = "ok" /\ writer'[w].asks = p
    BY <1>0, <1>6, <2>0, Overtook DEF Accepts
  <2>2. committed' = committed /\ accepted' = accepted \cup {p}
    BY <1>6 DEF Accepts
  <2>3. ASSUME NEW x, Doomed(x) PROVE Doomed(x)'
    BY <1>0, <1>6, <2>3, DoomedAccepts
  <2>4. \A v \in Writers \ {w} : Held(v)
    BY <1>2, <2>1, <2>2, <2>3
  <2>5. Held(w)
    BY <2>1, <2>2
  <2> QED BY <1>1, <2>4, <2>5
<1>7. ASSUME NEW w \in Writers, NEW call, Alone(w, call), Proper(call)
      PROVE  AnswersHold'
  <2>1. UNCHANGED <<episode, committed, accepted>>
    BY <1>7 DEF Alone
  <2>2. writer'[w] = call /\ \A v \in Writers \ {w} : writer'[v] = writer[v]
    BY <1>0, <1>7 DEF Alone, LedgerTypes
  <2>3. ASSUME NEW x, Doomed(x) PROVE Doomed(x)'
    BY <2>1, <2>3, DoomedUnchanged
  <2>4. \A v \in Writers \ {w} : Held(v)
    BY <1>2, <2>1, <2>2, <2>3
  <2>5. Held(w)
    BY <1>7, <2>1, <2>2, <2>3 DEF Proper
  <2> QED BY <1>1, <2>4, <2>5
<1>8. CASE UNCHANGED ledgerVars
  <2>1. UNCHANGED <<episode, committed, accepted>> /\ writer' = writer
    BY <1>8 DEF ledgerVars
  <2>3. ASSUME NEW x, Doomed(x) PROVE Doomed(x)'
    BY <2>1, <2>3, DoomedUnchanged
  <2>4. \A v \in Writers : Held(v)
    BY <1>2, <2>1, <2>3
  <2> QED BY <1>1, <2>4
<1> QED
  BY <1>3, <1>4, <1>5, <1>6, <1>7, <1>8, EveryStepIsOneOfThese DEF StepKinds

-----------------------------------------------------------------------------
LEMMA RequestsMadeStep ==
    ASSUME LedgerPre, RequestsMade, [LedgerNext]_ledgerVars
    PROVE  RequestsMade'
<1>0. LedgerTypes
  BY DEF LedgerPre
\* Nothing of it depends on more than the versions, the members, whether an
\* episode has ended, and the requests.
<1>1. ASSUME committed' = committed,
             \A e \in Episodes :
                /\ episode'[e].version = episode[e].version
                /\ episode'[e].members = episode[e].members
                /\ episode'[e].status \in Terminal <=> episode[e].status \in Terminal
      PROVE  RequestsMade'
  <2>1. \A r \in committed : r.episode \in Episodes
    BY <1>0, RequestTypes
  <2>2. \A e, n : Row(e, n)' = Row(e, n) /\ Brought(e, n)' = Brought(e, n)
    BY <1>1 DEF Row, Brought
  <2>3. ASSUME NEW r PROVE PlaceOf(r)' = PlaceOf(r)
    <3>1. Brought(r.episode, r.expected)' = Brought(r.episode, r.expected)
      BY <1>1 DEF Brought
    <3> QED BY <3>1 DEF PlaceOf, Brought
  <2>4. EachVersionAsked'
    BY <1>1, <2>1, <2>2 DEF RequestsMade, EachVersionAsked
  <2>5. MembersInOrder'
    <3>1. ASSUME NEW e \in Episodes
          PROVE  (/\ IsFiniteSet(Brought(e, episode[e].version))
                  /\ Len(episode[e].members)
                         = Cardinality(Brought(e, episode[e].version)))'
      <4>1. Brought(e, episode[e].version)' = Brought(e, episode[e].version)
        BY <1>1 DEF Brought
      <4> QED BY <1>1, <4>1 DEF RequestsMade, MembersInOrder
    <3>2. ASSUME NEW r \in committed
          PROVE  (/\ PlaceOf(r) + Len(r.events) <= Len(episode[r.episode].members)
                  /\ \A i \in DOMAIN r.events :
                        episode[r.episode].members[PlaceOf(r) + i] = r.events[i])'
      BY <1>1, <2>1, <2>3 DEF RequestsMade, MembersInOrder
    <3> QED BY <1>1, <3>1, <3>2 DEF MembersInOrder
  <2>6. OnePlaceEach'
    BY <1>1 DEF RequestsMade, OnePlaceEach
  <2> QED BY <2>4, <2>5, <2>6 DEF RequestsMade
<1>2. ASSUME NEW e \in Episodes, StartEpisode(e) PROVE RequestsMade'
  <2>1. /\ \A f \in Episodes :
               /\ episode'[f].version = episode[f].version
               /\ episode'[f].members = episode[f].members
               /\ f # e => episode'[f] = episode[f]
        /\ episode'[e].status = "open" /\ episode[e].status = "absent"
    BY <1>0, <1>2, StartedRow
  <2> QED BY <1>1, <1>2, <2>1 DEF StartEpisode, Terminal
<1>3. ASSUME NEW w, NEW m, Commits(w, m) PROVE RequestsMade'
  BY <1>0, <1>3, VersionsAskedKept, MembersInOrderKept, OnePlaceKept DEF RequestsMade
<1>4. CASE UNCHANGED <<episode, committed>>
  BY <1>1, <1>4
<1>5. \/ \E e \in Episodes : StartEpisode(e)
      \/ \E w, m : Commits(w, m)
      \/ UNCHANGED <<episode, committed>>
  BY EveryStepIsOneOfThese DEF StepKinds, Record, Accepts, Alone, ledgerVars
<1> QED BY <1>2, <1>3, <1>4, <1>5

LEMMA RequestsMadeInit == LedgerInit => RequestsMade /\ AnswersHold
<1> SUFFICES ASSUME LedgerInit PROVE RequestsMade /\ AnswersHold
  OBVIOUS
<1>1. committed = {} /\ \A e \in Episodes : episode[e].version = 0 /\ episode[e].members = <<>>
  BY DEF LedgerInit
<1>2. EachVersionAsked
  BY <1>1 DEF EachVersionAsked
<1>3. \A e \in Episodes : Brought(e, 0) = {}
  BY <1>1 DEF Brought
<1>4. MembersInOrder
  BY <1>1, <1>3, EmptySeq, FS_EmptySet DEF MembersInOrder
<1>5. OnePlaceEach
  BY <1>1 DEF OnePlaceEach
<1>6. AnswersHold
  BY DEF LedgerInit, AnswersHold, None
<1> QED BY <1>2, <1>4, <1>5, <1>6 DEF RequestsMade

\* However callers of mutate_episode repeat, race and lose their answers, an
\* episode is what its committed requests made of it, each once and in order,
\* "ok" is said of what is in the ledger and a refusal of what never will be.
THEOREM RequestsMakeTheEpisodes == LedgerSpec => []EpisodesReplayRequests
<1>1. LedgerPre /\ RequestsMade /\ AnswersHold => EpisodesReplayRequests
  <2> SUFFICES ASSUME LedgerPre, RequestsMade, AnswersHold PROVE EpisodesReplayRequests
    OBVIOUS
  <2>1. ASSUME NEW e \in Episodes, NEW n \in 1 .. episode[e].version
        PROVE  Cardinality(Row(e, n)) = 1
    <3>1. PICK m : Row(e, n) = {m}
      BY DEF RequestsMade, EachVersionAsked
    <3> QED BY <3>1, FS_Singleton
  <2>2. \A e \in Episodes :
           Len(episode[e].members) = Cardinality(Brought(e, episode[e].version))
    BY DEF RequestsMade, MembersInOrder
  <2>3. ASSUME NEW m \in committed
        PROVE  /\ m.expected < episode[m.episode].version
               /\ \A i \in DOMAIN m.events :
                     episode[m.episode].members[
                           Cardinality(Brought(m.episode, m.expected)) + i]
                        = m.events[i]
               /\ m.op # "add_events" <=>
                     /\ episode[m.episode].status \in Terminal
                     /\ m.expected + 1 = episode[m.episode].version
    BY DEF RequestsMade, EachVersionAsked, MembersInOrder, PlaceOf
  <2>4. ASSUME NEW w \in Writers, writer[w].step = "answered"
        PROVE  /\ writer[w].answer = "ok" => writer[w].asks \in committed \cup accepted
               /\ writer[w].answer \in {"conflict", "invalid"} =>
                     writer[w].asks \notin committed \cup accepted
    BY <2>4 DEF AnswersHold, Doomed
  <2> QED BY <2>1, <2>2, <2>3, <2>4 DEF EpisodesReplayRequests, RequestsMade, OnePlaceEach
<1>2. LedgerInit => LedgerPre /\ RequestsMade /\ AnswersHold
  BY LedgerPreInit, RequestsMadeInit
<1>3. LedgerPre /\ RequestsMade /\ AnswersHold /\ [LedgerNext]_ledgerVars
         => (LedgerPre /\ RequestsMade /\ AnswersHold)'
  BY LedgerPreStep, RequestsMadeStep, AnswersStep
<1> QED BY <1>1, <1>2, <1>3, PTL DEF LedgerSpec
=============================================================================
