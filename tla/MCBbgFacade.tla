---------------------------- MODULE MCBbgFacade ----------------------------
(***************************************************************************)
(* Small instances of BbgFacade: an edge with conviction that can be       *)
(* refreshed by a link without, a heavier edge back, and policies under    *)
(* which each of the three pruning mechanisms decides.                     *)
(***************************************************************************)
EXTENDS BbgFacade

CONSTANTS pA, pB, tok, n1, x1, x2, c1, i1

Link(from, to, amount) == [from |-> from, to |-> to, token |-> tok, amount |-> amount]

Signal(links, moves) == [neuron |-> n1, links |-> links, box_moves |-> moves]

Move(nullifier, commitment) == [nullifier |-> nullifier, commitment |-> commitment]

Policy(bytes, pct, half_life) ==
  [max_bytes |-> bytes, rank_floor_pct |-> pct, half_life_epochs |-> half_life]

Edge    == Signal(<<Link(pA, pB, 1)>>, <<>>)
Refresh == Signal(<<Link(pA, pB, 0)>>, <<>>)
Back    == Signal(<<Link(pB, pA, 2)>>, <<Move(x1, <<c1, 1>>)>>)
Twice   == Signal(<<>>, <<Move(x2, <<>>), Move(x2, <<>>)>>)

MCSignals == {Edge, Refresh, Back}
MCIntents == {[neuron |-> n1, h0 |-> 0, scope_hash |-> i1]}
MCHeaders == {[neuron |-> n1, step |-> 0, link_count |-> 1, block_height |-> 0]}

\* Half-life under a floor that protects the upper half, three budgets one
\* edge fits into and two do not, with a floor, without and with the highest,
\* and the highest floor under no pressure.
MCConfigs == {Policy(5000, 50, 1), Policy(400, 40, 1), Policy(400, 0, 0),
              Policy(400, 100, 0), Policy(5000, 100, 0)}

TwiceSignals    == {Twice}

TightBudget == {Policy(0, 0, 1)}
=============================================================================
