-------------------------------- MODULE Vec ---------------------------------
(* What the standard library's vector does for the lists of this project.  *)
EXTENDS Sequences, SequencesExt

\* Vec::retain: the elements that are not in gone, in their order.
Retain(list, gone) ==
  FoldLeft(LAMBDA rest, x : IF x \in gone THEN rest ELSE Append(rest, x), <<>>, list)
=============================================================================
