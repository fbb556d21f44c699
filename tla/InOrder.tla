------------------------------ MODULE InOrder ------------------------------
(***************************************************************************)
(* The elements of a sequence at some of its places, in their order.       *)
(***************************************************************************)
EXTENDS Naturals, FiniteSets

Nth(where, k) == CHOOSE i \in where : Cardinality({j \in where : j <= i}) = k

At(elements, where) == [k \in 1..Cardinality(where) |-> elements[Nth(where, k)]]
=============================================================================
