-------------------------- MODULE NativeTransition --------------------------
(***************************************************************************)
(* Native preparation (transition/mod.rs, undo.rs, records.rs): a batch of *)
(* events is applied to the Bbg in place, under an undo map of the records *)
(* it is about to touch; the records that changed are handed to the        *)
(* caller, who commits them durably and only then publishes.  Dropping the *)
(* preparation, at any point and for any reason, restores the undo map.    *)
(*                                                                         *)
(* The loops of the code are steps: one event, one box movement, one link  *)
(* or one pruned axon at a time.  No other code can observe the Bbg        *)
(* between them (Prepared holds the only mutable borrow), but the process  *)
(* can stop at each, and the code can return an error at several.          *)
(*                                                                         *)
(* External: the coordinator that commits the changes in one Database      *)
(* transaction, and the loader that rebuilds a Bbg from its records.       *)
(***************************************************************************)
EXTENDS BbgCycle

CONSTANTS
  Batches,     \* the batches callers prepare: non-empty sequences of events
  MaxEvents,   \* MAX_EVENTS
  MaxKeys,     \* MAX_KEYS: captured records of one preparation
  MaxCands,    \* MAX_KEYS as the bound on pruning candidates
  MaxChanges   \* MAX_BYTES of the write set, counted in records

\* The events, box movements and links that occur in the batches.
Events  == UNION {ToSet(batch) : batch \in Batches}
Signals == {e \in Events : e.kind = "signal"}
Moves   == UNION {ToSet(e.signal.box_moves) : e \in Signals}
Links   == UNION {ToSet(e.signal.links) : e \in Signals}

ASSUME BatchAssumption ==
  /\ Batches \subseteq Seq(Events)
  /\ \A e \in Signals : e.signal.box_moves \in Seq(Moves) /\ e.signal.links \in Seq(Links)

ASSUME LimitAssumption ==
  MaxEvents \in Nat /\ MaxKeys \in Nat /\ MaxCands \in Nat /\ MaxChanges \in Nat

VARIABLES
  undo,        \* Prepared.undo: captured records, height and checkpoint
  events,      \* the events still to apply
  moves,       \* box movements of the current signal still to apply
  links,       \* its cyberlinks still to apply
  snapshots,   \* Prepared.snapshots
  changes,     \* Prepared.changes
  disk,        \* durable NativeState records (Database)
  published,   \* history: the last Bbg value the callers were given
  candidate    \* history: the value of the preparation awaiting its commit

work == <<undo, events, moves, links, plan, snapshots, changes>>
vars == <<bbg, work, disk, pc, published, candidate>>

-----------------------------------------------------------------------------
(* Records: keys are <<domain, key>>, a value is an option, <<>> or <<v>> *)

MetaKey == <<"metadata", "metadata">>

metadata(b) ==
  [height   |-> b.height,   root         |-> compute_root(b), checkpoint |-> b.checkpoint,
   diameter |-> b.diameter_override, config |-> b.prune_config]

Keys(b) == {MetaKey} \cup UNION {{<<d, k>> : k \in DOMAIN b[d]} : d \in Domains}

read(b, key) ==
  IF key[1] = "metadata" THEN <<metadata(b)>>
  ELSE IF key[2] \in DOMAIN b[key[1]] THEN <<b[key[1]][key[2]]>> ELSE <<>>

\* The exact persisted state.
records(b) == [key \in Keys(b) |-> read(b, key)[1]]

\* A map with some of its keys set to the options given.
Overlay(f, opts) ==
  LET gone == {k \in DOMAIN opts : opts[k] = <<>>} IN
  [k \in (DOMAIN f \cup DOMAIN opts) \ gone |->
     IF k \in DOMAIN opts THEN opts[k][1] ELSE f[k]]

\* External: what recovery builds from durable records.
FromRecords(store) ==
  LET meta == store[MetaKey] IN
  MakeBbg([d \in Domains |->
             [k \in {key[2] : key \in {x \in DOMAIN store : x[1] = d}} |-> store[<<d, k>>]]],
          meta.height, meta.checkpoint, meta.diameter, meta.config)

-----------------------------------------------------------------------------
(* Undo *)

NoUndo == [values |-> Empty, height |-> 0, checkpoint |-> <<>>]

\* Mutant: the last capture of a key wins.
CaptureLast(u, b, keys) ==
  [u EXCEPT !.values =
     [key \in DOMAIN @ \cup keys |-> IF key \in keys THEN read(b, key) ELSE @[key]]]

\* The first capture of a key wins.
Capture(u, b, keys) ==
  [u EXCEPT !.values =
     [key \in DOMAIN @ \cup keys |-> IF key \in DOMAIN @ THEN @[key] ELSE read(b, key)]]

UndoOf(b) ==
  Capture([values |-> Empty, height |-> b.height, checkpoint |-> b.checkpoint], b, {MetaKey})

\* Height and checkpoint come from the saved fields, the rest key by key.
Restore(b, u) ==
  LET Captured(d) == {key[2] : key \in {x \in DOMAIN u.values : x[1] = d}} IN
  MakeBbg([d \in Domains |-> Overlay(b[d], [k \in Captured(d) |-> u.values[<<d, k>>]])],
          u.height, u.checkpoint, b.diameter_override, b.prune_config)

FitsUndo(keys) == Cardinality(DOMAIN undo.values \cup keys) <= MaxKeys

\* Mutant: the touch epoch of the axon is forgotten.
LinkKeysUntouched(l) ==
  LET axon == axon_id(l.from, l.to) IN
  {<<"particles", axon>>, <<"particles", l.to>>,
   <<"axons_out", l.from>>, <<"axons_in", l.to>>,
   <<"balances", balance_key(l.from, l.token)>>, <<"balances", balance_key(l.to, l.token)>>,
   <<"axon_edges", axon>>}

LinkKeys(l) ==
  LET axon == axon_id(l.from, l.to) IN
  {<<"particles", axon>>, <<"particles", l.to>>,
   <<"axons_out", l.from>>, <<"axons_in", l.to>>,
   <<"balances", balance_key(l.from, l.token)>>, <<"balances", balance_key(l.to, l.token)>>,
   <<"axon_edges", axon>>, <<"last_touched", axon>>}

MoveKeys(mv) ==
  {<<"nullifiers", mv.nullifier>>}
    \cup IF mv.commitment = <<>> THEN {} ELSE {<<"commitments", mv.commitment[1]>>}

SignalKeys(b, e) ==
  {<<"neurons", e.signal.neuron>>, <<"time", b.height>>,
   <<"signals", signal_key(e.header.neuron, e.header.step)>>}
  \cup (UNION {MoveKeys(mv) : mv \in ToSet(e.signal.box_moves)})
  \cup (UNION {LinkKeys(l) : l \in ToSet(e.signal.links)})

\* Mutant: the adjacency lists of a pruned axon are forgotten.
PruneKeysBare(b, a) == {<<"particles", a>>, <<"axon_edges", a>>, <<"last_touched", a>>}

PruneKeys(b, a) ==
  {<<"particles", a>>, <<"axon_edges", a>>, <<"last_touched", a>>}
  \cup IF a \in DOMAIN b.axon_edges
       THEN {<<"axons_out", b.axon_edges[a][1]>>, <<"axons_in", b.axon_edges[a][2]>>}
       ELSE {}

CreditKeys(e) == {<<"balances", balance_key(e.neuron, e.token)>>, <<"neurons", e.neuron>>}

\* collect_changes: the captured records whose value is no longer the old one.
ChangedRecords(b, u) ==
  LET differs == {key \in DOMAIN u.values : read(b, key) # u.values[key]}
  IN  [key \in differs |-> read(b, key)]

-----------------------------------------------------------------------------
(* validate *)

NullifiersFresh(b, mvs) ==
  /\ ~DoubleSpend(b, mvs)
  /\ \A i, j \in DOMAIN mvs : mvs[i].nullifier = mvs[j].nullifier => i = j

\* The credits and debits of the links in order, on scratch balances.
BalancesFit(b, lks) ==
  LET Check(acc, l) ==
        LET to == balance_key(l.to, l.token) IN
        [ok  |-> acc.ok /\ Look(acc.bal, to, 0) + l.amount <= MaxU64,
         bal |-> DebitBalance(CreditBalance(acc.bal, to, l.amount),
                              balance_key(l.from, l.token), l.amount)]
  IN  FoldLeft(Check, [ok |-> TRUE, bal |-> b.balances], lks).ok

\* The header belongs to the signal, and its (neuron, step) is unused.
HeaderMatches(e) ==
  /\ e.header.neuron = e.signal.neuron
  /\ e.header.link_count = Len(e.signal.links)
  /\ e.header.block_height = e.signal.height

SignalUnused(b, e) == signal_key(e.header.neuron, e.header.step) \notin DOMAIN b.signals

BodyFits(b, e) ==
  /\ Len(e.signal.links) + Len(e.signal.box_moves) <= MaxKeys
  /\ NullifiersFresh(b, e.signal.box_moves)
  /\ BalancesFit(b, e.signal.links)

\* Mutant: a used (neuron, step) is accepted.
validateReplay(b, e) == b.height + 1 <= MaxU64 /\ HeaderMatches(e) /\ BodyFits(b, e)

validate(b, e) ==
  /\ b.height + 1 <= MaxU64
  /\ HeaderMatches(e)
  /\ SignalUnused(b, e)
  /\ BodyFits(b, e)

NextBalance(b, e) == Look(b.balances, balance_key(e.neuron, e.token), 0) + e.amount

NextFocus(b, e) == Look(b.neurons, e.neuron, ZeroNeuron).focus + e.focus

\* LocalCredit: both rows are written even when nothing is added to them.
Credit(b, e) ==
  AdvanceCheckpoint(
    [b EXCEPT !.balances = Put(@, balance_key(e.neuron, e.token), NextBalance(b, e)),
              !.neurons  = Put(@, e.neuron, [Look(@, e.neuron, ZeroNeuron) EXCEPT
                                               !.focus = NextFocus(b, e)])])

-----------------------------------------------------------------------------
(* The preparation *)

Idle == "idle"
\* Phases in which a Prepared exists and its candidate has not been handed out.
Running == {"event", "apply", "plan", "prune"}
\* Phases in which dropping the Prepared restores the undo.
Held == Running \cup {"ready", "durable"}

ClearWork ==
  /\ undo' = NoUndo /\ events' = <<>> /\ moves' = <<>> /\ links' = <<>>
  /\ plan' = NoPlan /\ snapshots' = <<>> /\ changes' = Empty

\* Drop for Prepared
DropPrepared ==
  /\ bbg' = Restore(bbg, undo)
  /\ ClearWork

Snapshot(b) == [height |-> b.height, root |-> compute_root(b)]

\* An event is done: its snapshot is pushed and the loop goes on.
NextEvent(b) ==
  /\ bbg' = b
  /\ snapshots' = Append(snapshots, Snapshot(b))
  /\ events' = Tail(events)
  /\ pc' = "event"

PrepareBatch(batch) ==
  /\ pc = Idle
  /\ Len(batch) \in 1..MaxEvents
  /\ bbg.prune_config.rank_floor_pct <= 100
  /\ undo' = UndoOf(bbg)
  /\ events' = batch
  /\ pc' = "event"
  /\ UNCHANGED <<bbg, moves, links, plan, snapshots, changes, disk, published, candidate>>

\* validate and every capture, before the first mutation of the signal.
SignalBegin ==
  /\ pc = "event" /\ events # <<>>
  /\ LET e == Head(events) IN
       /\ e.kind = "signal"
       /\ validate(bbg, e)
       /\ FitsUndo(SignalKeys(bbg, e))
       /\ undo' = Capture(undo, bbg, SignalKeys(bbg, e))
       /\ moves' = e.signal.box_moves
       /\ links' = e.signal.links
  /\ pc' = "apply"
  /\ UNCHANGED <<bbg, events, plan, snapshots, changes, disk, published, candidate>>

InsertMove ==
  /\ pc = "apply" /\ moves # <<>>
  /\ bbg' = ApplyMove(bbg, Head(moves))
  /\ moves' = Tail(moves)
  /\ UNCHANGED <<undo, events, links, plan, snapshots, changes, disk, pc, published, candidate>>

InsertLink ==
  /\ pc = "apply" /\ moves = <<>> /\ links # <<>>
  /\ bbg' = ApplyLink(bbg, Head(events).signal.neuron, Head(links))
  /\ links' = Tail(links)
  /\ UNCHANGED <<undo, events, moves, plan, snapshots, changes, disk, pc, published, candidate>>

\* The signal with its links in: touch, header record, time snapshot, height.
SealedSignal(b, e) ==
  SnapshotBlock(ApplySignalRecord(Touch(b, e.signal.links), e.header))

SealSignal ==
  /\ pc = "apply" /\ moves = <<>> /\ links = <<>>
  /\ LET b == SealedSignal(bbg, Head(events)) IN
       IF AtEpoch(b)
       THEN bbg' = b /\ pc' = "plan" /\ UNCHANGED <<events, snapshots>>
       ELSE NextEvent(AdvanceCheckpoint(b))
  /\ UNCHANGED <<undo, moves, links, plan, changes, disk, published, candidate>>

\* The floor, the budget and the candidates are read once, before any removal.
PlanPrune ==
  /\ pc = "plan"
  /\ Cardinality(candidates(bbg)) <= MaxCands
  /\ plan' = [over |-> OverBudget(bbg), cands |-> candidates(bbg)]
  /\ pc' = "prune"
  /\ UNCHANGED <<bbg, undo, events, moves, links, snapshots, changes, disk, published, candidate>>

PruneAxon(a) ==
  /\ pc = "prune" /\ ~PruneOver
  /\ a \in Lightest(bbg, plan.cands)
  /\ FitsUndo(PruneKeys(bbg, a))
  /\ undo' = Capture(undo, bbg, PruneKeys(bbg, a))
  /\ bbg' = remove_axon(bbg, a)
  /\ plan' = [plan EXCEPT !.cands = @ \ {a}]
  /\ UNCHANGED <<events, moves, links, snapshots, changes, disk, pc, published, candidate>>

PruneEnd ==
  /\ pc = "prune" /\ PruneOver
  /\ NextEvent(AdvanceCheckpoint(bbg))
  /\ plan' = NoPlan
  /\ UNCHANGED <<undo, moves, links, changes, disk, published, candidate>>

IntentEvent ==
  /\ pc = "event" /\ events # <<>>
  /\ LET e == Head(events)  key == <<"intents", intent_key(e.intent)>> IN
       /\ e.kind = "intent"
       /\ FitsUndo({key})
       /\ undo' = Capture(undo, bbg, {key})
       /\ NextEvent(ApplyIntent(bbg, e.intent))
  /\ UNCHANGED <<moves, links, plan, changes, disk, published, candidate>>

CreditEvent ==
  /\ pc = "event" /\ events # <<>>
  /\ LET e == Head(events) IN
       /\ e.kind = "credit"
       /\ NextBalance(bbg, e) <= MaxU64
       /\ NextFocus(bbg, e) <= MaxU64
       /\ FitsUndo(CreditKeys(e))
       /\ undo' = Capture(undo, bbg, CreditKeys(e))
       /\ NextEvent(Credit(bbg, e))
  /\ UNCHANGED <<moves, links, plan, changes, disk, published, candidate>>

\* Every place where the code returns an error after Undo::new: the
\* Prepared is dropped by the `?` and the graph is restored.
EventFails(e) ==
  \/ e.kind = "signal" /\ ~(validate(bbg, e) /\ FitsUndo(SignalKeys(bbg, e)))
  \/ e.kind = "intent" /\ ~FitsUndo({<<"intents", intent_key(e.intent)>>})
  \/ e.kind = "credit" /\ ~(/\ NextBalance(bbg, e) <= MaxU64
                            /\ NextFocus(bbg, e) <= MaxU64
                            /\ FitsUndo(CreditKeys(e)))

\* The error is met with every mutation made so far still in place.
Rejects ==
  \/ pc = "event" /\ events # <<>> /\ EventFails(Head(events))
  \/ pc = "event" /\ events = <<>>
       /\ Cardinality(DOMAIN ChangedRecords(bbg, undo)) > MaxChanges
  \/ pc = "plan" /\ Cardinality(candidates(bbg)) > MaxCands
  \/ pc = "prune" /\ ~PruneOver
       /\ \E a \in Lightest(bbg, plan.cands) : ~FitsUndo(PruneKeys(bbg, a))

Reject ==
  /\ Rejects
  /\ DropPrepared
  /\ pc' = Idle
  /\ UNCHANGED <<disk, published, candidate>>

CollectChanges ==
  /\ pc = "event" /\ events = <<>>
  /\ LET c == ChangedRecords(bbg, undo) IN
       /\ Cardinality(DOMAIN c) <= MaxChanges
       /\ changes' = c
  /\ candidate' = bbg
  /\ pc' = "ready"
  /\ UNCHANGED <<bbg, undo, events, moves, links, plan, snapshots, disk, published>>

-----------------------------------------------------------------------------
(* The coordinator, its Database transaction, and process restarts *)

\* External: the transaction is durable.
CommitDurable ==
  /\ pc = "ready"
  /\ disk' = Overlay(disk, changes)
  /\ pc' = "durable"
  /\ UNCHANGED <<bbg, work, published, candidate>>

\* Prepared::publish
Publish ==
  /\ pc = "durable"
  /\ published' = bbg
  /\ candidate' = bbg
  /\ ClearWork
  /\ pc' = Idle
  /\ UNCHANGED <<bbg, disk>>

\* The caller gives the preparation up, or its transaction failed cleanly.
Abandon ==
  /\ pc = "ready"
  /\ DropPrepared
  /\ candidate' = published
  /\ pc' = Idle
  /\ UNCHANGED <<disk, published>>

\* External: CommitUnknown.  The changes are durable or they are not, the
\* Database is poisoned, and the caller drops the preparation.
CommitUnknown ==
  /\ pc = "ready"
  /\ disk' \in {disk, Overlay(disk, changes)}
  /\ DropPrepared
  /\ pc' = "frozen"
  /\ UNCHANGED <<published, candidate>>

\* The process stops anywhere and is started again on the durable records.
Restart ==
  /\ bbg' = FromRecords(disk)
  /\ published' = bbg'
  /\ candidate' = bbg'
  /\ ClearWork
  /\ pc' = Idle
  /\ UNCHANGED disk

-----------------------------------------------------------------------------

Init ==
  /\ \E config \in Configs : bbg = NewBbg(config)
  /\ undo = NoUndo /\ events = <<>> /\ moves = <<>> /\ links = <<>>
  /\ plan = NoPlan /\ snapshots = <<>> /\ changes = Empty
  /\ disk = records(bbg)
  /\ pc = Idle
  /\ published = bbg
  /\ candidate = bbg

Step ==
  \/ SignalBegin \/ InsertMove \/ InsertLink \/ SealSignal
  \/ PlanPrune \/ PruneEnd \/ (\E a \in plan.cands : PruneAxon(a))
  \/ IntentEvent \/ CreditEvent \/ Reject \/ CollectChanges

Next ==
  \/ \E batch \in Batches : PrepareBatch(batch)
  \/ Step
  \/ CommitDurable \/ Publish \/ Abandon \/ CommitUnknown
  \/ (pc # Idle /\ Restart)

Spec == Init /\ [][Next]_vars

-----------------------------------------------------------------------------
(* Properties *)

\* Captured keys name the metadata or a record of one of the maps.
KeysShaped(u) ==
  \A key \in DOMAIN u.values :
    key = MetaKey \/ (key[1] \in Domains /\ key = <<key[1], key[2]>>)

\* Type correctness of the preparation and of its history.
TypeOK ==
  /\ IsBbg(bbg) /\ IsBbg(published) /\ IsBbg(candidate)
  /\ events \in Seq(Events) /\ moves \in Seq(Moves) /\ links \in Seq(Links)
  /\ undo = [values |-> undo.values, height |-> undo.height, checkpoint |-> undo.checkpoint]
  /\ IsMap(undo.values) /\ IsMap(changes) /\ IsMap(disk)
  /\ KeysShaped(undo)
  /\ pc \in Held \cup {Idle, "frozen"}
  /\ plan.over \in BOOLEAN

\* Undo is exact (Drop for Prepared, undo.rs): whatever part of a batch has
\* been applied, pruned or handed out, dropping the preparation would give
\* back the Bbg the callers saw before it, field for field; when no
\* preparation is held they see exactly what was last published.
UndoExact ==
  /\ pc \in Held => Restore(bbg, undo) = published
  /\ pc \notin Held => bbg = published

\* The change set is exact (collect_changes): committing the collected
\* records turns the durable records of the old state into those of the new
\* one, and no crash, clean failure or unknown commit leaves the disk at
\* anything but the published state or the whole candidate.
AllOrNothing ==
  /\ pc = "ready" => Overlay(disk, changes) = records(bbg)
  /\ pc = "durable" => disk = records(bbg)
  /\ pc = "frozen" => disk \in {records(published), records(candidate)}
  /\ pc \notin {"durable", "frozen"} => disk = records(published)

\* The strengthening that makes both inductive.  Every record in which the
\* Bbg differs from the published one has been captured, with its published
\* value; scalars are saved or untouched.
UndoCovers(b, u, p) ==
  /\ \A d \in Domains : \A k \in DOMAIN b[d] \cup DOMAIN p[d] :
       <<d, k>> \in DOMAIN u.values \/ read(b, <<d, k>>) = read(p, <<d, k>>)
  /\ \A key \in DOMAIN u.values : u.values[key] = read(p, key)
  /\ MetaKey \in DOMAIN u.values
  /\ u.height = p.height /\ u.checkpoint = p.checkpoint
  /\ b.diameter_override = p.diameter_override /\ b.prune_config = p.prune_config

\* While a signal is applied, all it will still write has been captured.
SignalCaptured ==
  LET e == Head(events) IN
  /\ e \in Signals
  /\ bbg.height < MaxU64
  /\ SignalKeys(bbg, e) \subseteq DOMAIN undo.values
  /\ ToSet(moves) \subseteq ToSet(e.signal.box_moves)
  /\ ToSet(links) \subseteq ToSet(e.signal.links)

\* The inductive invariant of the preparation.
Inductive ==
  /\ TypeOK
  /\ pc \in Held => UndoCovers(bbg, undo, published)
  /\ pc \notin Held => bbg = published
  /\ pc \in {"apply", "plan", "prune"} => events # <<>>
  /\ pc = "apply" => SignalCaptured
  /\ pc \in {"ready", "durable"} => bbg = candidate
  /\ AllOrNothing

\* What was published is never taken back or rewritten, whatever fails later:
\* spent nullifiers stay spent, a (neuron, step) keeps its signal record, a
\* height keeps its root, and the height never falls, across restarts too.
Kept(f, g) == \A k \in DOMAIN f : k \in DOMAIN g /\ g[k] = f[k]

HistoryKept ==
  [][ /\ Kept(published.nullifiers, published'.nullifiers)
      /\ Kept(published.signals, published'.signals)
      /\ Kept(published.time, published'.time)
      /\ published.height <= published'.height ]_published
=============================================================================
