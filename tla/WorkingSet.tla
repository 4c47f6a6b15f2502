------------------------------ MODULE WorkingSet ------------------------------
(***************************************************************************)
(* The working set of a session: activations, their decay, and pins.        *)
(*                                                                         *)
(* An activation reads the row of its source and swaps in the new score if  *)
(* nobody has changed the row; then, like every inspection, it reads all    *)
(* rows, reads all pins, and deletes what has decayed or is too much.  Each *)
(* read, swap and deletion is a statement of its own.                      *)
(*                                                                         *)
(* Data abstraction.  One session, no task.  A tick is a half-life, scores  *)
(* are whole numbers, halves are rounded down.  The checks of session and  *)
(* source read rows that nothing here changes.                             *)
(***************************************************************************)
EXTENDS Integers, FiniteSets

CONSTANTS
    Sources,        \* what can be active or pinned
    Agents,         \* callers of the service
    Increment,      \* working_set.activation_increment
    MaxScore,       \* working_set.max_activation_score
    MinScore,       \* working_set.min_activation_score
    MaxItems,       \* working_set.max_items
    MaxRetries,     \* MAX_ACTIVATION_RETRIES
    MaxRowIds,      \* bound: rows ever inserted
    MaxTicks        \* bound: clock

ASSUME SetBounds ==
    /\ {Increment, MaxScore, MinScore, MaxItems, MaxRetries, MaxRowIds, MaxTicks} \subseteq Nat
    /\ MinScore < MaxScore

VARIABLES
    entry,    \* working_set_entries, by source
    lastRow,  \* identities used
    pins,     \* context_pins
    clock,
    agent,    \* each caller's operation
    merged,   \* history: the activations of each row, one after another
    guarded,  \* history: rows inserted for a source that was pinned, and still is
    crowded   \* history: more than MaxItems have been pinned

setVars == <<entry, lastRow, pins, clock, agent, merged, guarded, crowded>>

NoRow == [id |-> 0, score |-> 0, at |-> 0]
SetRow == [id : 0 .. MaxRowIds, score : 0 .. MaxScore, at : 0 .. MaxTicks]
Sleeping == [step |-> "idle"]

SetTypeOK ==
    /\ entry \in [Sources -> SetRow] /\ lastRow \in 0 .. MaxRowIds
    /\ pins \subseteq Sources /\ guarded \subseteq pins
    /\ clock \in 0 .. MaxTicks /\ crowded \in BOOLEAN
    /\ merged \in [Sources -> SetRow]
    /\ \A a \in Agents :
          agent[a].step \in {"idle", "read", "swap", "entries", "pins", "delete", "pin"}

SetInit ==
    /\ entry = [s \in Sources |-> NoRow] /\ lastRow = 0
    /\ pins = {} /\ clock = 0
    /\ agent = [a \in Agents |-> Sleeping]
    /\ merged = [s \in Sources |-> NoRow] /\ guarded = {} /\ crowded = FALSE

\* decayed_score; a clock that has gone back decays nothing.
Decayed(row, now) ==
    LET halved[n \in 0 .. MaxTicks] == IF n = 0 THEN row.score ELSE halved[n - 1] \div 2
    IN  halved[IF now > row.at THEN now - row.at ELSE 0]
\* mutated: scores grow without a limit
RaisedFreely(score) == score + Increment
Raised(score) == IF score + Increment < MaxScore THEN score + Increment ELSE MaxScore

rowState == <<entry, lastRow, merged, guarded>>

Pass ==
    /\ clock < MaxTicks /\ clock' = clock + 1
    /\ UNCHANGED <<rowState, pins, agent, crowded>>

-----------------------------------------------------------------------------
(* activate_source and mutate_working_set_entry *)

Activate(a, s) ==
    /\ agent[a] = Sleeping
    /\ agent' = [agent EXCEPT ![a] = [step |-> "read", source |-> s, now |-> clock, left |-> MaxRetries]]
    /\ UNCHANGED <<rowState, pins, clock, crowded>>

ReadRow(a) ==
    /\ agent[a].step = "read"
    /\ agent' = [agent EXCEPT ![a] =
          IF @.left = 0 THEN Sleeping
          ELSE [step |-> "swap", source |-> @.source, now |-> @.now, left |-> @.left - 1,
                row |-> entry[@.source]]]
    /\ UNCHANGED <<rowState, pins, clock, crowded>>

\* mutated: the row is found by its identity alone
SameRow(s, row) == entry[s].id = row.id
AsSeen(s, row) == entry[s] = row

Activated(row, now) ==
    [id |-> IF row = NoRow THEN lastRow + 1 ELSE row.id, at |-> now,
     score |-> Raised(IF row = NoRow THEN 0 ELSE Decayed(row, now))]

SwapRow(a) ==
    LET s == agent[a].source row == agent[a].row
    IN  /\ agent[a].step = "swap" /\ (row = NoRow => lastRow < MaxRowIds)
        /\ IF AsSeen(s, row)
           THEN /\ entry' = [entry EXCEPT ![s] = Activated(row, agent[a].now)]
                /\ lastRow' = IF row = NoRow THEN lastRow + 1 ELSE lastRow
                /\ merged' = [merged EXCEPT ![s] = Activated(@, agent[a].now)]
                /\ guarded' = IF row = NoRow /\ s \in pins THEN guarded \cup {s} ELSE guarded
                /\ agent' = [agent EXCEPT ![a] = [step |-> "entries"]]
           ELSE /\ agent' = [agent EXCEPT ![a] =
                      [step |-> "read", source |-> s, now |-> @.now, left |-> @.left]]
                /\ UNCHANGED rowState
        /\ UNCHANGED <<pins, clock, crowded>>

-----------------------------------------------------------------------------
(* inspect_working_set and prune_session *)

Inspect(a) ==
    /\ agent[a] = Sleeping
    /\ agent' = [agent EXCEPT ![a] = [step |-> "entries"]]
    /\ UNCHANGED <<rowState, pins, clock, crowded>>

ReadEntries(a) ==
    /\ agent[a].step = "entries"
    /\ agent' = [agent EXCEPT ![a] = [step |-> "pins", seen |-> entry, now |-> clock]]
    /\ UNCHANGED <<rowState, pins, clock, crowded>>

Before(s, t, seen, pinned, now) ==
    LET key(x) == <<IF x \in pinned THEN 1 ELSE 0, Decayed(seen[x], now), seen[x].at,
                    MaxRowIds - seen[x].id>>
    IN  \E i \in 1 .. 4 : /\ key(s)[i] > key(t)[i]
                          /\ \A j \in 1 .. i - 1 : key(s)[j] = key(t)[j]

Faded(s, seen, now) == Decayed(seen[s], now) < MinScore

\* mutated: a pin is no reason to keep what has decayed
StaysFresh(s, seen, pinned, now) == ~Faded(s, seen, now)
Stays(s, seen, pinned, now) == s \in pinned \/ ~Faded(s, seen, now)

\* Rows that have decayed, and those beyond the limit.
Pruned(seen, pinned, now) ==
    LET rows == {s \in Sources : seen[s] # NoRow}
        stays == {s \in rows : Stays(s, seen, pinned, now)}
        over == {s \in stays :
                    Cardinality({t \in stays \ {s} : Before(t, s, seen, pinned, now)}) >= MaxItems}
    IN  (rows \ stays) \cup over

ReadPins(a) ==
    /\ agent[a].step = "pins"
    /\ LET call == agent[a]
           doomed == Pruned(call.seen, pins, call.now)
       IN  agent' = [agent EXCEPT ![a] =
              IF doomed = {} THEN Sleeping
              ELSE [step |-> "delete", rows |-> {<<s, call.seen[s].id>> : s \in doomed}]]
    /\ UNCHANGED <<rowState, pins, clock, crowded>>

ById(rows) == {s \in Sources : <<s, entry[s].id>> \in rows}

DeleteRows(a) ==
    /\ agent[a].step = "delete"
    /\ LET gone == ById(agent[a].rows)
       IN  /\ entry' = [s \in Sources |-> IF s \in gone THEN NoRow ELSE entry[s]]
           /\ merged' = [s \in Sources |-> IF s \in gone THEN NoRow ELSE merged[s]]
           /\ guarded' = guarded \ gone
    /\ agent' = [agent EXCEPT ![a] = Sleeping]
    /\ UNCHANGED <<lastRow, pins, clock, crowded>>

-----------------------------------------------------------------------------
(* pin_context and unpin_context *)

AskPin(a, s) ==
    /\ agent[a] = Sleeping /\ s \notin pins /\ Cardinality(pins) < MaxItems
    /\ agent' = [agent EXCEPT ![a] = [step |-> "pin", source |-> s]]
    /\ UNCHANGED <<rowState, pins, clock, crowded>>

InsertPin(a) ==
    /\ agent[a].step = "pin"
    /\ pins' = pins \cup {agent[a].source}
    /\ crowded' = (crowded \/ Cardinality(pins') > MaxItems)
    /\ agent' = [agent EXCEPT ![a] = Sleeping]
    /\ UNCHANGED <<rowState, clock>>

Unpin(s) ==
    /\ s \in pins
    /\ pins' = pins \ {s} /\ guarded' = guarded \ {s}
    /\ UNCHANGED <<entry, lastRow, merged, clock, agent, crowded>>

SetNext ==
    \/ Pass
    \/ \E s \in Sources : Unpin(s)
    \/ \E a \in Agents :
          \/ \E s \in Sources : Activate(a, s) \/ AskPin(a, s)
          \/ ReadRow(a) \/ SwapRow(a) \/ Inspect(a) \/ ReadEntries(a) \/ ReadPins(a)
          \/ DeleteRows(a) \/ InsertPin(a)

SetSpec == SetInit /\ [][SetNext]_setVars

-----------------------------------------------------------------------------
(* Properties *)

\* D022: no increment is lost.  A row holds exactly what the activations that
\* were told it exists have made of it one after another, whatever clock each
\* of them had read and however their statements interleave.
NoIncrementLost == entry = merged

\* D022: a pin that was there before the row protects it from every pruning,
\* also from one that has read the rows of an earlier time; unless two callers
\* have pinned beyond the limit at once.
PinsProtectRows ==
    [][~crowded => \A s \in guarded : s \in pins' => entry'[s] # NoRow]_setVars
=============================================================================
