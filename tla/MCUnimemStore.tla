--------------------------- MODULE MCUnimemStore ---------------------------
(* A pool with fewer cells than keys, so that it fills and panics, over    *)
(* blocks of its dimension's own and over an earlier pool, and values that *)
(* are wider than a cell.                                                  *)
EXTENDS UnimemStore, TLC

CONSTANTS dA, dL, k1, k2, k3

MCVectors == {<<1>>, <<2>>, <<1, 2, 1>>}

KeySymmetry == Permutations({k1, k2, k3})

\* The state up to what is recorded of lost entries: no call reads it before it
\* is recorded anew, and no property speaks of it.
Seen ==
  <<entries, pools, dirty, panicked, reservations, owed \ lost, lost,
    [d \in Dims |-> [k \in Keys |-> IF <<d, k>> \in lost THEN <<>> ELSE view[d][k]]]>>
=============================================================================
