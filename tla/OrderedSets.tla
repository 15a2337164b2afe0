----------------------------- MODULE OrderedSets -----------------------------
(***************************************************************************)
(* Loops over a window visit what they find in ascending order.            *)
(***************************************************************************)
EXTENDS Integers, FiniteSets

\* A finite set of numbers in ascending order: in place i the one that has i - 1
\* others below it.
InOrder(numbers) ==
  [i \in 1 .. Cardinality(numbers) |->
     CHOOSE c \in numbers : Cardinality({d \in numbers : d < c}) = i - 1]
=============================================================================
