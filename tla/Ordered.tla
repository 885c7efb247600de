------------------------------ MODULE Ordered ------------------------------
(***************************************************************************)
(* Sets of numbers as increasing sequences, without recursion: what a loop *)
(* over a slice that skips some of its elements goes through.              *)
(***************************************************************************)
EXTENDS Naturals, Sequences, FiniteSets

\* How many members of S are at most i.
Rank(S, i) == Cardinality({j \in S : j <= i})

\* The members of S in increasing order.
Sorted(S) == [k \in 1 .. Cardinality(S) |-> CHOOSE i \in S : Rank(S, i) = k]

\* The elements of s at the positions I, in their order.
Selected(s, I) == [k \in 1 .. Cardinality(I) |-> s[Sorted(I)[k]]]
=============================================================================
