----------------------------- MODULE MCTraversal -----------------------------
(* Four nodes, of which one is a file that contains two of the others. *)
EXTENDS StructuralTraversal

MCNodes == 1 .. 4
MCFiles == {4}

Link(key, from, to, type) == [key |-> key, from |-> from, to |-> to, type |-> type]

\* A chain, a way around it, a cycle, a loop.
MCEdges ==
    {Link(1, 1, 2, "calls"), Link(2, 3, 2, "calls"), Link(3, 1, 3, "calls"),
     Link(4, 2, 1, "calls"), Link(5, 3, 3, "calls"),
     Link(6, 4, 1, "contains"), Link(7, 4, 2, "contains")}
=============================================================================
