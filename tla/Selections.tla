------------------------------ MODULE Selections ------------------------------
(***************************************************************************)
(* What a list comprehension with a condition makes of a list.              *)
(***************************************************************************)
EXTENDS Sequences, SequencesExt

\* The items of a sequence that are in a set, in their order.  A fold, which proofs follow
\* item by item as they cannot follow SelectSeq.
Those(items, wanted) ==
    FoldLeft(LAMBDA kept, x : IF x \in wanted THEN Append(kept, x) ELSE kept, <<>>, items)
=============================================================================
