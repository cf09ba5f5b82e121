------------------------------- MODULE Helpers -------------------------------
(***************************************************************************)
(* What the modules of pure functions share: max, min, and retain or       *)
(* filter.                                                                 *)
(***************************************************************************)
EXTENDS Integers, Sequences, SequencesExt

Larger(a, b)  == IF a > b THEN a ELSE b
Smaller(a, b) == IF a < b THEN a ELSE b

\* The elements of s that are in S, in their order.
Keep(s, S) == FoldLeft(LAMBDA acc, x : IF x \in S THEN Append(acc, x) ELSE acc, <<>>, s)
=============================================================================
