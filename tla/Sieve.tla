-------------------------------- MODULE Sieve --------------------------------
(* Sequences without some of their elements. *)
EXTENDS Sequences, SequencesExt

\* The elements of s that are not in S, in their order.
Leaving(s, S) ==
  FoldLeft(LAMBDA kept, x : IF x \in S THEN kept ELSE Append(kept, x), <<>>, s)
=============================================================================
