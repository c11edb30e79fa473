------------------------------- MODULE Picking -------------------------------
(***************************************************************************)
(* The elements of a sequence at some of its positions, for the lists that *)
(* lose entries and the paths that lose empty names.  (By position, not    *)
(* with SelectSeq: two equal elements may meet different fates.)           *)
(***************************************************************************)
EXTENDS Integers, Sequences, FiniteSets

\* The n-th smallest of pos.
Nth(pos, n) == CHOOSE i \in pos : Cardinality({j \in pos : j < i}) = n - 1

\* The elements of s at the positions pos, in order.
Pick(s, pos) == [n \in 1 .. Cardinality(pos) |-> s[Nth(pos, n)]]
=============================================================================
