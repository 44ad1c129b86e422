-------------------------------- MODULE Lists --------------------------------
(***************************************************************************)
(* Lists, as the pure modules have them.  Only is SelectSeq with a set for  *)
(* its test, in a form the lemmas of Pure_proofs can take apart.            *)
(***************************************************************************)
EXTENDS SequencesExt

IsList(s) == s \in Seq(ToSet(s))

\* The elements of s that are in S, in their order.
Only(s, S) == FoldLeft(LAMBDA kept, e : IF e \in S THEN Append(kept, e) ELSE kept, <<>>, s)
=============================================================================
