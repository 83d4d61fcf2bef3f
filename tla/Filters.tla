------------------------------ MODULE Filters ------------------------------
(***************************************************************************)
(* A loop that appends what meets a condition: the condition is given as   *)
(* the set of what meets it.  FlattenSeq is a recursive function, and what *)
(* it returns can be proved, which cannot be done of SelectSeq.            *)
(***************************************************************************)
EXTENDS Integers, Sequences, SequencesExt

\* The elements of s that are in S, in their order.
Those(s, S) == FlattenSeq([i \in DOMAIN s |-> IF s[i] \in S THEN <<s[i]>> ELSE <<>>])
=============================================================================
