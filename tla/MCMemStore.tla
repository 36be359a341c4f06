----------------------------- MODULE MCMemStore -----------------------------
(* One more key than may be pending, and values of two lengths such that   *)
(* the pending elements reach their limit before the pending keys do.      *)
EXTENDS MemStore

CONSTANTS k1, k2, k3, l1

MCPersistent == {k1, k2, k3}

MCLocal == {l1}

MCValues == {<<0>>, <<1>>, <<0, 0>>}

KeySymmetry == Permutations(MCPersistent)
=============================================================================
