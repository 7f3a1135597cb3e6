------------------------------- MODULE Picking -------------------------------
(* What a comprehension over a list leaves of it: the elements at the      *)
(* places that satisfy its condition, in the order of the list.            *)
EXTENDS Naturals, FiniteSets

\* The k-th of a set of places.
InOrder(places, k) == CHOOSE p \in places : Cardinality({q \in places : q <= p}) = k
Picked(s, places) == [k \in 1 .. Cardinality(places) |-> s[InOrder(places, k)]]
==============================================================================
