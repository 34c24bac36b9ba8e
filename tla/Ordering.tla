------------------------------ MODULE Ordering ------------------------------
(* What is picked from a sequence keeps the order it has there.             *)
EXTENDS Naturals, FiniteSets

\* The numbers of a finite set, in their order.
Ascending(set) ==
  [i \in 1..Cardinality(set) |->
     CHOOSE n \in set : Cardinality({m \in set : m <= n}) = i]
=============================================================================
