------------------------- MODULE MCNativeTransition -------------------------
(***************************************************************************)
(* A small instance of NativeTransition: two content particles, one token, *)
(* two neurons, and batches chosen so that links share axons and balances, *)
(* a link points at an axon-particle, nullifiers collide inside a signal,  *)
(* across a batch and across batches, u64 saturates and overflows, and     *)
(* every limit is met.                                                     *)
(***************************************************************************)
EXTENDS NativeTransition

CONSTANTS pA, pB, tok, n1, n2, x1, x2, c1, i1

Link(from, to, amount) == [from |-> from, to |-> to, token |-> tok, amount |-> amount]

Move(nullifier, commitment) == [nullifier |-> nullifier, commitment |-> commitment]

Sig(neuron, step, lks, mvs) ==
  [kind   |-> "signal",
   signal |-> [neuron |-> neuron, links |-> lks, box_moves |-> mvs, height |-> 0],
   header |-> [neuron |-> neuron, step |-> step, link_count |-> Len(lks), block_height |-> 0]]

\* One edge; a second edge and a spend; an edge to the axon-particle without
\* conviction, spending the same box; a self-loop; a repeated nullifier.
S1 == Sig(n1, 0, <<Link(pA, pB, 1)>>, <<>>)
S2 == Sig(n1, 1, <<Link(pA, pB, 2), Link(pB, pA, 1)>>, <<Move(x1, <<c1, 1>>)>>)
S3 == Sig(n2, 0, <<Link(pA, axon_id(pA, pB), 0)>>, <<Move(x1, <<>>), Move(x2, <<c1, 2>>)>>)
\* S4 comes at the (neuron, step) of S3, for another block.
S4 == [Sig(n2, 0, <<Link(pB, pB, 1)>>, <<>>) EXCEPT !.signal.height = 1, !.header.block_height = 1]
S5 == Sig(n2, 1, <<>>, <<Move(x2, <<>>), Move(x2, <<>>)>>)
\* A header that does not belong to its signal.
S6 == [S4 EXCEPT !.header.neuron = n1]

CreditEv(amount, focus) ==
  [kind |-> "credit", neuron |-> n1, token |-> tok, amount |-> amount, focus |-> focus]

IntentEv == [kind |-> "intent", intent |-> [neuron |-> n2, h0 |-> 0, scope_hash |-> i1]]

MCBatches ==
  {<<S1>>, <<S2>>, <<S3>>, <<CreditEv(0, 1)>>, <<S1, S5>>, <<S2, S3>>,
   <<S4, S6>>, <<CreditEv(2, 0), S4>>, <<S3, IntentEv>>, <<S1, S2, S3>>}

\* Gravity beyond two edges, and half-life only.
MCConfigs ==
  {[max_bytes |-> 500,  rank_floor_pct |-> 0, half_life_epochs |-> 1],
   [max_bytes |-> 5000, rank_floor_pct |-> 0, half_life_epochs |-> 0]}
=============================================================================
