----------------------------- MODULE BbgFacade -----------------------------
(***************************************************************************)
(* The direct path of a Bbg (lib.rs, state.rs, prune.rs): cybergraph calls *)
(* insert, apply_intent and apply_signal_record in any order, and          *)
(* finalize_block at block edges; nothing is undone.  insert is one step,  *)
(* since its only error comes before its first write.  The pruning cycle   *)
(* of finalize_block is one step per removed axon: its order and its end   *)
(* are what its properties are about.  Every call has the only mutable     *)
(* reference to the Bbg, so calls do not interleave.                       *)
(*                                                                         *)
(* External: cybergraph writes pi_star, and tru installs a diameter bound. *)
(***************************************************************************)
EXTENDS BbgCycle

CONSTANTS
  Inserts,       \* signals cybergraph inserts
  Headers,       \* signal records applied on their own
  Intents,       \* intents applied on their own
  Ranks,         \* the pi_star values cybergraph writes
  Bounds,        \* the diameter bounds tru installs
  MaxHeight,     \* bound on finalized blocks
  MaxCalls       \* bound on the other calls

ASSUME FacadeAssumption ==
  /\ MaxHeight \in 0..MaxU64 /\ MaxCalls \in Nat
  /\ Ranks \subseteq 0..MaxU64 /\ Bounds \subseteq Nat
  /\ \A c \in Configs : {c.max_bytes, c.rank_floor_pct, c.half_life_epochs} \subseteq Nat
  /\ \A c \in Configs : c.rank_floor_pct <= 100     \* as its field is documented
  /\ \A sig \in Inserts :
       /\ sig.box_moves \in Seq(ToSet(sig.box_moves)) /\ sig.links \in Seq(ToSet(sig.links))
       /\ \A l \in ToSet(sig.links) : l.amount \in Nat

VARIABLES
  start,     \* history: the Bbg when the cycle was planned
  touched,   \* history: the height of the last accepted link of each axon
  spends,    \* history: how many accepted movements spent each nullifier
  calls      \* history: the calls made besides finalize_block

facade == <<bbg, pc, plan, start, touched, spends, calls>>

-----------------------------------------------------------------------------

\* A call from outside, between two others.
Call == pc = "idle" /\ calls < MaxCalls /\ calls' = calls + 1

\* BbgState::insert: the Bbg after i of the movements and links.
Inserted(b, sig) ==
  LET m == Len(sig.box_moves)
      S[i \in 0..(m + Len(sig.links))] ==
        IF i = 0 THEN b
        ELSE IF i <= m THEN ApplyMove(S[i - 1], sig.box_moves[i])
        ELSE ApplyLink(S[i - 1], sig.neuron, sig.links[i - m])
  IN  S

\* All of them, then the touches of Bbg::insert.
InsertSignal(b, sig) ==
  Touch(Inserted(b, sig)[Len(sig.box_moves) + Len(sig.links)], sig.links)

\* A signal with a spent nullifier is refused before anything is written.
insert(sig) ==
  /\ Call
  /\ ~DoubleSpend(bbg, sig.box_moves)
  /\ bbg' = InsertSignal(bbg, sig)
  /\ touched' = [a \in DOMAIN touched \cup Axons(sig.links) |->
                   IF a \in Axons(sig.links) THEN bbg.height ELSE touched[a]]
  /\ spends' = FoldLeft(LAMBDA f, mv : Put(f, mv.nullifier, Look(f, mv.nullifier, 0) + 1),
                        spends, sig.box_moves)
  /\ UNCHANGED <<pc, plan, start>>

apply_intent(i) ==
  /\ Call
  /\ bbg' = ApplyIntent(bbg, i)
  /\ UNCHANGED <<pc, plan, start, touched, spends>>

apply_signal_record(header) ==
  /\ Call
  /\ bbg' = ApplySignalRecord(bbg, header)
  /\ UNCHANGED <<pc, plan, start, touched, spends>>

\* finalize_block up to the pruning decision; off an epoch it ends here.
finalize_block ==
  /\ pc = "idle"
  /\ bbg.height < MaxHeight
  /\ LET b == SnapshotBlock(bbg) IN
       IF AtEpoch(b)
       THEN /\ bbg' = b /\ start' = b
            /\ plan' = [over |-> OverBudget(b), cands |-> candidates(b)]
            /\ pc' = "prune"
       ELSE bbg' = AdvanceCheckpoint(b) /\ UNCHANGED <<pc, plan, start>>
  /\ UNCHANGED <<touched, spends, calls>>

prune(a) ==
  /\ pc = "prune" /\ ~PruneOver
  /\ a \in Lightest(bbg, plan.cands)
  /\ bbg' = remove_axon(bbg, a)
  /\ plan' = [plan EXCEPT !.cands = @ \ {a}]
  /\ UNCHANGED <<pc, start, touched, spends, calls>>

\* finalize_block after the cycle.
finalize_end ==
  /\ pc = "prune" /\ PruneOver
  /\ bbg' = AdvanceCheckpoint(bbg)
  /\ pc' = "idle" /\ plan' = NoPlan /\ start' = <<>>
  /\ UNCHANGED <<touched, spends, calls>>

-----------------------------------------------------------------------------

\* External: the focus distribution is written into the particle records.
SetRank(p, rank) ==
  /\ Call
  /\ bbg' = [bbg EXCEPT !.particles[p].pi_star = rank]
  /\ UNCHANGED <<pc, plan, start, touched, spends>>

\* The pairs of particles joined by a path of at most k edges.
Within(b, k) ==
  LET Edges == {b.axon_edges[a] : a \in DOMAIN b.axon_edges}
      R[i \in 0..k] ==
        IF i = 0 THEN {} ELSE
        R[i - 1] \cup Edges
          \cup {<<x[1][1], x[2][2]>> : x \in {y \in R[i - 1] \X Edges : y[1][2] = y[2][1]}}
  IN  R[k]

\* Following edges `bound` times finds everything that can be reached.
SoundDiameter(b, bound) == Within(b, bound) = Within(b, Cardinality(DOMAIN b.axon_edges))

\* set_diameter_bound, by a caller that keeps its documented obligation.
InstallDiameter(bound) ==
  /\ Call
  /\ SoundDiameter(bbg, bound)
  /\ bbg' = set_diameter_bound(bbg, bound)
  /\ UNCHANGED <<pc, plan, start, touched, spends>>

-----------------------------------------------------------------------------

FacadeInit ==
  /\ \E config \in Configs : bbg = NewBbg(config)
  /\ pc = "idle" /\ plan = NoPlan /\ start = <<>>
  /\ touched = Empty /\ spends = Empty /\ calls = 0

Finalize == finalize_end \/ \E a \in plan.cands : prune(a)

FacadeNext ==
  \/ \E sig \in Inserts : insert(sig)
  \/ \E i \in Intents : apply_intent(i)
  \/ \E header \in Headers : apply_signal_record(header)
  \/ finalize_block
  \/ Finalize
  \/ \E p \in DOMAIN bbg.particles, rank \in Ranks : SetRank(p, rank)
  \/ \E bound \in Bounds : InstallDiameter(bound)

FacadeSpec == FacadeInit /\ [][FacadeNext]_facade

-----------------------------------------------------------------------------
(* Properties *)

Epoch(height) == height \div EpochBlocks

\* What the running cycle has removed so far.
Removed == DOMAIN start.particles \ DOMAIN bbg.particles
RemovedAxons == DOMAIN start.axon_edges \ DOMAIN bbg.axon_edges

\* The adjacency indexes, the reverse edges and the touch epochs agree after
\* every insert and after every single removal of a cycle.
Indexed == GraphIndexed(bbg)

\* The rank floor: whatever a cycle has removed, record or bare axon, at least
\* rank_floor_pct percent of the particles it started from ranked strictly
\* higher.  Under size pressure only what has a particle record goes, and none
\* before a lighter record that the floor does not protect either: an axon that
\* only links without conviction named has weight 0 and is not even a candidate
\* (prune.rs:91; specs/pruning.md:95 would have all axons compete).
RemovedByRank ==
  pc = "prune" =>
    \A p \in Removed \cup RemovedAxons :
      /\ 100 * Cardinality({q \in DOMAIN start.particles : PiStar(start, q) > PiStar(start, p)})
           >= node_count(start) * start.prune_config.rank_floor_pct
      /\ OverBudget(start) =>
           /\ p \in DOMAIN start.particles
           /\ \A q \in DOMAIN bbg.particles :
                Weight(start, q) < Weight(start, p) => PiStar(start, q) >= rank_floor(start)

\* No accepted link named the edge for longer than half_life_epochs.
Stale(a) == Epoch(start.height) > Epoch(touched[a]) + start.prune_config.half_life_epochs

\* The half-life, with no size pressure: a cycle removes an edge only if it is
\* stale, and when it ends no stale edge is left below the floor.
HalfLifeExact ==
  [][ pc = "prune" /\ ~OverBudget(start) =>
        /\ \A a \in RemovedAxons : Stale(a)
        /\ pc' = "idle" =>
             \A a \in DOMAIN bbg.axon_edges : Stale(a) => PiStar(start, a) >= rank_floor(start)
    ]_facade

-----------------------------------------------------------------------------
(* A statement of the documentation that the code does not keep *)

\* specs/state.md: a movement whose nullifier is in N is rejected.
SpentOnce == \A n \in DOMAIN spends : spends[n] = 1
=============================================================================
