------------------------------- MODULE Lists --------------------------------
(***************************************************************************)
(* Lists: what is one, and a comprehension with a condition, the elements  *)
(* of a list that belong to a set, in the order of the list.               *)
(***************************************************************************)
EXTENDS Naturals, Sequences, SequencesExt

IsList(s) == Len(s) \in Nat /\ s = [i \in 1 .. Len(s) |-> s[i]]

Among(s, S) == FoldLeft(LAMBDA kept, x : IF x \in S THEN Append(kept, x) ELSE kept, <<>>, s)

=============================================================================
