--------------------------- MODULE MCTieredStore ---------------------------
(* Two persistent entries and a local one, values of two lengths: HOT and  *)
(* WARM each reach the limit of pending elements with what one or two keys *)
(* stage, and HOT earlier than WARM once it holds promoted copies.         *)
EXTENDS TieredStore, TLC

CONSTANTS k1, k2, l1

MCPersistent == {k1, k2}

MCLocal == {l1}

MCValues == {<<0>>, <<1>>, <<0, 0>>}

MCArchives == {[e \in MCPersistent |-> <<>>], [e \in MCPersistent |-> <<<<1>>>>]}

KeySymmetry == Permutations(MCPersistent)
=============================================================================
