------------------------------- MODULE Ordering -------------------------------
(***************************************************************************)
(* The members of a finite set in an order, as a sequence.                 *)
(*                                                                         *)
(* An order is given by what it puts ahead of each member.                 *)
(***************************************************************************)
EXTENDS Integers, FiniteSets

\* sort_by: the i-th has i - 1 ahead of it.
InOrder(ahead) ==
    [i \in 1 .. Cardinality(DOMAIN ahead) |->
        CHOOSE x \in DOMAIN ahead : Cardinality(ahead[x]) = i - 1]
=============================================================================
