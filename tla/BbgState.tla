------------------------------ MODULE BbgState ------------------------------
(***************************************************************************)
(* The value of a Bbg (state.rs, prune.rs, lib.rs): a record of keyed maps *)
(* plus a height, a checkpoint and a pruning policy, and the operations    *)
(* that compute one value from another.  A map is a function whose DOMAIN  *)
(* is the set of present keys.  The 32-byte hash of a pair is the pair     *)
(* itself, and the state root is the committed content itself: hemera is   *)
(* taken to be injective, nothing else about it is used.                   *)
(*                                                                         *)
(* locations, coins, cards and files are not here: no operation modelled   *)
(* in this project writes them.                                            *)
(***************************************************************************)
EXTENDS Naturals, SequencesExt, Maps, Vec

CONSTANTS
  EpochBlocks,     \* EPOCH_BLOCKS: blocks between two pruning cycles
  MaxU64           \* u64::MAX, kept small so that its edge is reached

ASSUME EpochAssumption == EpochBlocks \in Nat \ {0}
ASSUME WidthAssumption == MaxU64 \in Nat \ {0}

-----------------------------------------------------------------------------
(* u64 arithmetic *)

SatAdd(x, y) == IF x + y > MaxU64 THEN MaxU64 ELSE x + y

SatSub(x, y) == IF x > y THEN x - y ELSE 0

-----------------------------------------------------------------------------
(* Identifiers and records *)

axon_id(from, to) == <<from, to>>

balance_key(owner, token) == <<owner, token>>

signal_key(neuron, step) == <<neuron, step>>

intent_key(i) == <<i.neuron, i.h0, i.scope_hash>>

ZeroParticle == [energy |-> 0, pi_star |-> 0, weight |-> 0]

ZeroNeuron == [focus |-> 0]

\* The keyed maps of a Bbg that the native record format stores, by the
\* name of the field that holds them.
Domains ==
  {"particles", "axons_out", "axons_in", "neurons", "time", "signals",
   "commitments", "nullifiers", "balances", "intents", "axon_edges",
   "last_touched"}

\* The set an adjacency list commits to: its trie of members has no order.
Members(adjacency) == [p \in DOMAIN adjacency |-> ToSet(adjacency[p])]

\* The content BBG_root binds: eleven dimensions, A, N and the statistics,
\* which are a function of the dimensions and of the installed diameter.
\* intents, axon_edges, last_touched and height are not under the root.
compute_root(b) ==
  [particles   |-> b.particles,
   axons_out   |-> Members(b.axons_out),
   axons_in    |-> Members(b.axons_in),
   neurons     |-> b.neurons,
   time        |-> b.time,
   signals     |-> b.signals,
   commitments |-> b.commitments,
   nullifiers  |-> b.nullifiers,
   balances    |-> b.balances,
   diameter    |-> b.diameter_override]

\* Checkpoint::advance
Checkpoint(b) == [root |-> compute_root(b), height |-> b.height]

\* The fields of a Bbg: its maps, then the scalars.
Fields == Domains \cup {"height", "checkpoint", "diameter_override", "prune_config"}

\* A Bbg from its parts.
MakeBbg(maps, height, checkpoint, diameter, config) ==
  [f \in Fields |->
     IF f \in Domains THEN maps[f]
     ELSE [height |-> height, checkpoint |-> checkpoint,
           diameter_override |-> diameter, prune_config |-> config][f]]

AdvanceCheckpoint(b) == [b EXCEPT !.checkpoint = Checkpoint(b)]

\* No diameter bound installed.
NoDiameter == <<>>

\* Bbg::new with_prune_config: the checkpoint is taken from the empty state.
NewBbg(config) ==
  AdvanceCheckpoint(MakeBbg([d \in Domains |-> Empty], 0, <<>>, NoDiameter, config))

-----------------------------------------------------------------------------
(* BbgState::insert, one box movement and one cyberlink at a time *)

\* Mutant: the duplicate check forgotten.
AddAxonBlind(adjacency, p, axon) == Put(adjacency, p, Append(Look(adjacency, p, <<>>), axon))

\* AxonIndex::add: a list keeps its insertion order and has no duplicates.
AddAxon(adjacency, p, axon) ==
  LET list == Look(adjacency, p, <<>>) IN
  IF axon \in ToSet(list) THEN adjacency ELSE Put(adjacency, p, Append(list, axon))

\* AxonIndex::remove_axon: an emptied list is dropped from the map.
DropAxon(adjacency, p, axon) ==
  LET rest == Retain(Look(adjacency, p, <<>>), {axon}) IN
  IF rest = <<>> THEN Del(adjacency, p) ELSE Put(adjacency, p, rest)

\* A commitment is an option: <<>> or <<point, value>>.
ApplyMove(b, mv) ==
  [b EXCEPT
     !.nullifiers  = Put(@, mv.nullifier, <<>>),
     !.commitments = IF mv.commitment = <<>> THEN @
                     ELSE Put(@, mv.commitment[1], mv.commitment[2])]

AddWeight(particles, axon, amount) ==
  LET r == Look(particles, axon, ZeroParticle)
  IN  Put(particles, axon, [r EXCEPT !.weight = SatAdd(@, amount)])

AddEnergy(particles, p, amount) ==
  LET r == Look(particles, p, ZeroParticle)
  IN  Put(particles, p, [r EXCEPT !.energy = SatAdd(@, amount)])

\* A neuron that has no record pays nothing.
SpendFocus(neurons, neuron, amount) ==
  IF neuron \in DOMAIN neurons
  THEN [neurons EXCEPT ![neuron].focus = SatSub(@, amount)]
  ELSE neurons

CreditBalance(balances, key, amount) ==
  Put(balances, key, SatAdd(Look(balances, key, 0), amount))

\* A balance that reaches zero loses its row.
DebitBalance(balances, key, amount) ==
  LET next == SatSub(Look(balances, key, 0), amount)
  IN  IF next = 0 THEN Del(balances, key) ELSE Put(balances, key, next)

\* The topology of a link, written whatever its amount.
AddTopology(b, link) ==
  LET axon == axon_id(link.from, link.to) IN
  [b EXCEPT
     !.axons_out  = AddAxon(@, link.from, axon),
     !.axons_in   = AddAxon(@, link.to, axon),
     !.axon_edges = IF axon \in DOMAIN @ THEN @
                    ELSE Put(@, axon, <<link.from, link.to>>)]

\* A link without conviction writes its topology and nothing else.
ApplyLink(b, neuron, link) ==
  LET axon == axon_id(link.from, link.to)
      t    == AddTopology(b, link)
  IN  IF link.amount = 0 THEN t ELSE
      [t EXCEPT
         !.particles = AddEnergy(AddWeight(@, axon, link.amount), link.to, link.amount),
         !.neurons   = SpendFocus(@, neuron, link.amount),
         !.balances  = DebitBalance(
                         CreditBalance(@, balance_key(link.to, link.token), link.amount),
                         balance_key(link.from, link.token), link.amount)]

\* The axons a sequence of links names.
Axons(links) == {axon_id(l.from, l.to) : l \in ToSet(links)}

\* Mutant: only new axons are touched.
TouchNew(b, links) ==
  [b EXCEPT !.last_touched =
     [a \in DOMAIN @ \cup Axons(links) |->
        IF a \in DOMAIN @ THEN @[a] ELSE b.height \div EpochBlocks]]

\* Bbg::insert touches every axon of the signal once the links are in.
Touch(b, links) ==
  [b EXCEPT !.last_touched =
     [a \in DOMAIN @ \cup Axons(links) |->
        IF a \in Axons(links) THEN b.height \div EpochBlocks ELSE @[a]]]

\* The structural double-spend check: only nullifiers spent before count.
DoubleSpend(b, moves) == \E mv \in ToSet(moves) : mv.nullifier \in DOMAIN b.nullifiers

ApplyIntent(b, i) == [b EXCEPT !.intents = Put(@, intent_key(i), i)]

\* apply_signal_record: a record at the same (neuron, step) is overwritten.
ApplySignalRecord(b, header) ==
  [b EXCEPT !.signals = Put(@, signal_key(header.neuron, header.step), header)]

\* The block edge: the root before the snapshot goes to time[height].
SnapshotBlock(b) ==
  [b EXCEPT !.time = Put(@, b.height, compute_root(b)), !.height = @ + 1]

AtEpoch(b) == b.height % EpochBlocks = 0

-----------------------------------------------------------------------------
(* Statistics: the number of particles and the diameter bound *)

node_count(b) == Cardinality(DOMAIN b.particles)

diameter_bound(b) ==
  IF b.diameter_override = NoDiameter THEN SatSub(node_count(b), 1)
  ELSE b.diameter_override[1]

set_diameter_bound(b, bound) == [b EXCEPT !.diameter_override = <<bound>>]

-----------------------------------------------------------------------------
(* Pruning *)

\* estimate_bytes
ListBytes(adjacency) ==
  MapThenSumSet(LAMBDA p : 32 + 32 * Len(adjacency[p]), DOMAIN adjacency)

estimate_bytes(b) ==
  80 * Cardinality(DOMAIN b.particles) + ListBytes(b.axons_out)
    + ListBytes(b.axons_in) + 64 * Cardinality(DOMAIN b.neurons)

OverBudget(b) == estimate_bytes(b) > b.prune_config.max_bytes

PiStar(b, p) == Look(b.particles, p, ZeroParticle).pi_star

Weight(b, p) == Look(b.particles, p, ZeroParticle).weight

\* The pi_star at index `boundary` of the ascending scores: fewer or as
\* many as `boundary` scores are below it, more are not above it.
rank_floor(b) ==
  LET pct       == b.prune_config.rank_floor_pct
      ids       == DOMAIN b.particles
      n         == Cardinality(ids)
      boundary  == SatSub(n, (n * pct + 99) \div 100)
      Below(v)  == Cardinality({p \in ids : PiStar(b, p) < v})
      UpTo(v)   == Cardinality({p \in ids : PiStar(b, p) <= v})
  IN  IF pct = 0 THEN MaxU64
      ELSE IF ids = {} THEN 0
      ELSE CHOOSE v \in {PiStar(b, p) : p \in ids} : Below(v) <= boundary /\ boundary < UpTo(v)

\* Under size pressure every particle below the floor competes; otherwise
\* only the axons no signal has touched for longer than the half-life.
Competing(b, floor, epoch) ==
  IF OverBudget(b)
  THEN {p \in DOMAIN b.particles : PiStar(b, p) < floor}
  ELSE {a \in DOMAIN b.last_touched :
          /\ PiStar(b, a) < floor
          /\ SatSub(epoch, b.last_touched[a]) > b.prune_config.half_life_epochs}

\* Mutant: the floor itself is prunable.
candidatesAtFloor(b) == Competing(b, rank_floor(b) + 1, b.height \div EpochBlocks)
candidates(b) == Competing(b, rank_floor(b), b.height \div EpochBlocks)

\* The candidates pruning may take next.  The code sorts by weight and
\* leaves equal weights in the order of their hashes, which is arbitrary.
Lightest(b, cands) == {a \in cands : \A o \in cands : Weight(b, a) <= Weight(b, o)}

remove_axon(b, a) ==
  LET bare == [b EXCEPT !.particles = Del(@, a), !.last_touched = Del(@, a)]
  IN  IF a \notin DOMAIN b.axon_edges THEN bare ELSE
      LET edge == b.axon_edges[a] IN
      [bare EXCEPT !.axon_edges = Del(@, a),
                   !.axons_out  = DropAxon(@, edge[1], a),
                   !.axons_in   = DropAxon(@, edge[2], a)]

-----------------------------------------------------------------------------
(* What holds of the graph of a Bbg between two operations *)

IsMap(f) == f = [k \in DOMAIN f |-> f[k]]

\* A Bbg value: every field there, every keyed map a map, a height in range.
IsBbg(b) ==
  /\ b = [f \in Fields |-> b[f]]
  /\ \A d \in Domains : IsMap(b[d])
  /\ b.height \in 0..MaxU64

\* Every axon_edges entry is listed, once, at both of its ends; every listed
\* axon has its edge; every edge has a last-touched epoch, no list is empty,
\* and only an edge carries weight.
GraphIndexed(b) ==
  /\ \A a \in DOMAIN b.axon_edges :
       LET e == b.axon_edges[a] IN
       /\ a = axon_id(e[1], e[2])
       /\ e[1] \in DOMAIN b.axons_out /\ a \in ToSet(b.axons_out[e[1]])
       /\ e[2] \in DOMAIN b.axons_in  /\ a \in ToSet(b.axons_in[e[2]])
  /\ \A p \in DOMAIN b.axons_out : \A a \in ToSet(b.axons_out[p]) :
       a \in DOMAIN b.axon_edges /\ b.axon_edges[a][1] = p
  /\ \A p \in DOMAIN b.axons_in : \A a \in ToSet(b.axons_in[p]) :
       a \in DOMAIN b.axon_edges /\ b.axon_edges[a][2] = p
  /\ \A f \in {b.axons_out, b.axons_in} : \A p \in DOMAIN f :
       f[p] # <<>> /\ Cardinality(ToSet(f[p])) = Len(f[p])
  /\ DOMAIN b.last_touched = DOMAIN b.axon_edges
  /\ \A p \in DOMAIN b.particles : b.particles[p].weight > 0 => p \in DOMAIN b.axon_edges
=============================================================================
