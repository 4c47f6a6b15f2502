---------------------------- MODULE GraphContract ----------------------------
(***************************************************************************)
(* What the structural graph of one workspace promises its readers: it is   *)
(* shown or hidden, and when it is shown it describes exactly the stored    *)
(* documents, each at the revision it is stored at.  Who projects what, in  *)
(* how many steps and under which lease, is GraphPublication's business.    *)
(***************************************************************************)
EXTENDS Naturals

CONSTANT Paths

VARIABLES
    stored,  \* path -> the content revision it is stored at, 0 for none
    shown    \* the revisions the graph is shown for, or Hidden

vars == <<stored, shown>>

\* The function with no domain.
Hidden == <<>>

Init ==
    /\ stored = [p \in Paths |-> 0]
    /\ shown = stored

\* A document gets a revision nothing was stored at yet, and readers wait.
Store(p) ==
    /\ stored' = [stored EXCEPT ![p] = stored'[p]]
    /\ \A q \in Paths : stored'[p] > stored[q]
    /\ shown' = Hidden

\* A document goes; the graph may follow in the same step.
Remove(p) ==
    /\ stored[p] # 0
    /\ stored' = [stored EXCEPT ![p] = 0]
    /\ shown' \in {Hidden, stored'}

Publish  == shown' = stored /\ UNCHANGED stored
Withdraw == shown' = Hidden /\ UNCHANGED stored

Next == Publish \/ Withdraw \/ \E p \in Paths : Store(p) \/ Remove(p)

Spec == Init /\ [][Next]_vars
=============================================================================
