------------------------------ MODULE Ordering ------------------------------
(***************************************************************************)
(* What the sort functions of Go's library make of a list: its elements by *)
(* an order on their positions.  A list is sorted by spaceallocator (by    *)
(* timestamp) and by iamclient (by node and type of certificate).  The     *)
(* definitions are those the provers can reason about; they know nothing   *)
(* of SortSeq.                                                             *)
(***************************************************************************)
EXTENDS Naturals, FiniteSets, Sequences

\* The members of S by the order R, in which each precedes itself.
InOrder(S, R) ==
    [k \in 1 .. Cardinality(S) |->
        CHOOSE x \in S : Cardinality({y \in S : <<y, x>> \in R}) = k]

\* The elements of items at the positions that order names, in its order.
Rearranged(items, order) == [k \in 1 .. Len(order) |-> items[order[k]]]

=============================================================================
