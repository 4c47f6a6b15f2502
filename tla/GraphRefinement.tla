--------------------------- MODULE GraphRefinement ---------------------------
(***************************************************************************)
(* GraphPublication implements GraphContract: the revision row's "current"   *)
(* is the readers' "shown".                                                 *)
(***************************************************************************)
EXTENDS GraphPublication

Contract == INSTANCE GraphContract WITH
    stored <- [p \in Paths |-> docs[p].rev],
    shown  <- IF row.state = "current" THEN [p \in Paths |-> graph[p].rev]
                                       ELSE <<>>

\* Structural reads see the graph only while the revision row says current
\* (D067): whatever the workers do, what they see is the stored documents at
\* revisions that only grow, and every change hides it.
ImplementsContract == Contract!Spec
=============================================================================
