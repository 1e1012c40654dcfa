------------------------------ MODULE Ordering ------------------------------
(* Sets of numbers, such as the positions of a sequence, in their order.   *)
EXTENDS Integers, FiniteSets

InOrder(S) ==
  CHOOSE q \in [1..Cardinality(S) -> S] : \A i, j \in DOMAIN q : i < j => q[i] < q[j]
=============================================================================
