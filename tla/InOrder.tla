------------------------------ MODULE InOrder ------------------------------
(***************************************************************************)
(* Some of the places of a sequence, in its order: what a loop over the    *)
(* sequence that passes over the other places visits, one after another.   *)
(***************************************************************************)
EXTENDS Naturals, FiniteSets

\* A finite set of numbers as a sequence, from the least to the greatest.
InOrder(S) ==
    [i \in 1..Cardinality(S) |-> CHOOSE n \in S : Cardinality({m \in S : m < n}) = i - 1]

=============================================================================
