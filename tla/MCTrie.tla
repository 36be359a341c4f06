------------------------------- MODULE MCTrie -------------------------------
(* Keys that differ first in the first, a middle and the last bit, so that  *)
(* a split happens at the root, between two branches and at a leaf.         *)
EXTENDS Trie

MCKeys == {<<0, 0, 0>>, <<0, 0, 1>>, <<0, 1, 1>>, <<1, 0, 1>>}

\* One key changes its value; the others come and go.
MCVals == [k \in MCKeys |-> IF k = <<0, 0, 1>> THEN {1, 2} ELSE {1}]
=============================================================================
