----------------------------- MODULE Selections -----------------------------
(***************************************************************************)
(* Iterator::filter over a list: what is kept, in its order.               *)
(***************************************************************************)
EXTENDS SequencesExt

\* The elements of s at the positions I.
Selection(s, I) == FlattenSeq([i \in 1..Len(s) |-> IF i \in I THEN <<s[i]>> ELSE <<>>])

=============================================================================
