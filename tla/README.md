# Verification of bbg

TLA+ models of the state machine and the storage protocols of `bbg` (the crate
under `rs/`), the TLC configurations that check them on small instances, and
TLAPS proofs of the central ones for every value of their constants. Paths below
are relative to the repository; `transition/mod.rs` and the like are under
`rs/src/`.

    tlc -workers 2 -config MCNativeTransition.cfg MCNativeTransition
    tlapm NativeProofs.tla

and the same for the other proof modules: `ShardStoreProofs`, `DatabaseTrieProofs`, `DimensionsProofs`,
`AppTablesProofs`, `ApplicationStoreProofs`, `ApplicationTransferProofs`, `FoldTheorems`.

## 1. The system

| Component | State | Operations | Interacts with |
|---|---|---|---|
| Graph state (`state.rs`, `lib.rs`, `signal.rs`, `checkpoint.rs`) | particles, axons with two adjacency indexes, neurons, balances, nullifiers, commitments, signals, time snapshots, intents, height, checkpoint | `insert`, `apply_intent`, `apply_signal_record`, `finalize_block`, `set_diameter_bound` | pruning at epoch boundaries; read by queries, statistics, roots |
| Pruning (`prune.rs`) | last-touched epoch of every axon, policy | `touch`, `candidates`, `rank_floor`, `remove_axon` | called by `finalize_block` and by native preparation |
| Native transition (`transition/`) | the graph borrowed mutably, an undo map, snapshots, a change set | `prepare_native_batch`, `publish`, drop | applies batches in place; the caller commits the change set in a `Database` transaction before it publishes |
| Database (`storage/database/`) | engine (Fjall or redb), the failure of an unknown commit, a weak map of coordination locks, the changes staged in the open transaction, reader generation | `open`, `transaction`, `read`, `scan`, `coordination_lock`, `require_reader_generation` | one mutex per owner; every store below goes through it |
| Application store (`storage/application.rs`) | content, claims, heads, history, receipts, fences | `apply`, `apply_once`, `apply_migration`, reads | one `Database` transaction per write |
| Application transfer (`storage/application/transfer.rs`, `archive.rs`, `validation.rs`) | the seal of an archive; reservation, cursor and pinned target in the destination | `TransferSource::open`, `stage`, completion | an archive under its exclusive lock, a target in use by others |
| Backend import (`storage/application/migration.rs`) | a guard file, a copying or complete marker | `migrate` | `Database::open` and `ApplicationArchive::open` refuse while the guard stands |
| Shard stores (`storage/{mem,disk,tiered,buffer}.rs`) | rows in memory, pending writes and tombstones, rows on disk | `get`, `put`, `get_mut`, `mark_dirty`, `remove`, `commit`, `evict`, `promote`, `scan` | the tiered store over disk over `Database` |
| Unified-memory store (`storage/unimem.rs`) | blocks and pools with slots and a free list, staged values | the same, and `reserve_pool` | a memory tier whose cells devices read |
| Authenticated indexes (`keyed.rs`, `trie.rs`) | maps with touched keys, a trie with cached digests and a node arena, adjacency with a degree histogram, a cached legacy commitment | insert, remove, guards, add, truncate, clear; flush, commitment, prove | every dimension of the graph is one |
| Cards (`position.rs`), statistics (`stats.rs`) | cards with an index by axon and the stake keys; counts | insert, remove, clear; snapshots | the chain reads positions at an epoch, the root commits the counts |
| Roots, certificates, proofs, queries (`root.rs`, `certificate.rs`, `proof.rs`, `query.rs`, `query_auth.rs`) | none; clients keep the answers | query, open, certify, verify | reading the root flushes the dimensions; answers outlive the state they were made of |
| Command line (`cli/`) | none | parsing and printing | the crate |

What is hard here: a batch is applied to the live graph and may fail, or be
given up, after any of its steps; its change set has to be exact because the
durable copy is patched with it; a commit's outcome may be unknown and the process
may stop anywhere; clients of the application store act on heads they read
before; a transfer copies page by page into a database in use, is interrupted and
resumed, possibly by two threads; pruning decides from a plan while the graph
shrinks; a tiered store stages every change twice and either tier may refuse;
an import and an opener look at a guard file, a directory, a lock and a record at
different times; the commitments under the root are brought up to date from the
keys each operation marked; proofs are kept while the state goes on; locks are
handed out from a weak map while others are dropped, and threads panic under them. `PROJECT.json` lists these as hazards, each at its line, with the
properties that cover it.

## 2. Modules

| Module | Models | Used by |
|---|---|---|
| `Maps` | a map as a function, as operators | `BbgState`, `Keyed`, `AxonIndex`, `DatabaseOwner` |
| `Vec` | `Vec::retain`, as an operator | `BbgState`, `AxonIndex`, `UnimemStore` |
| `BbgState` | the graph as a record of maps, and what one link, movement, snapshot, touch or removal does to it; pruning candidates and floor | `NativeTransition`, `BbgFacade` |
| `BbgCycle` | the graph with its prune plan and where a call stands, and the end of pruning: what both paths share | `NativeTransition`, `BbgFacade` |
| `NativeTransition` | a batch being prepared step by step, its undo map and change set, the coordinator's commit, publication, drop, restart | `MCNativeTransition`, `NativeProofs` |
| `BbgFacade` | the direct path: `Bbg::insert` and `finalize_block` without undo | `MCBbgFacade`, `NativeProofs` |
| `NativeProofs` | the proofs about both | |
| `AppTables`, `AppTablesProofs` | the application tables and what a transaction reads and writes in them; the lemmas about them | `ApplicationStore`, `ApplicationTransfer` |
| `ApplicationLog` | abstract: namespaces as append-once logs that a migration closes | `ApplicationStore` (refinement) |
| `ApplicationStore`, `ApplicationStoreProofs` | clients, retries, unknown commits, reopening; the proofs | `MCApplicationStore` |
| `ApplicationTransfer`, `ApplicationTransferProofs` | sealed archives, stagers, target clients, the end of the process; the proofs | `MCApplicationTransfer` |
| `ImportState`, `Import` | the state of backend imports and what they promise; imports against openers and inspectors of one directory | `MCImport`, `DatabaseTrieProofs` |
| `WriteBuffer` | the buffer of staged changes with its index, counters and limits, as operators | `MemState`, `TieredStore` |
| `MemState` | the state of the memory store and its invariants | `MemStore`, `ShardStoreProofs` |
| `MemStore` | the calls of the memory store | `MCMemStore`, `ShardStoreProofs` |
| `ShardMap` | abstract: one map, durable as a whole at a commit | `TieredStore` (refinement) |
| `TieredStore`, `ShardStoreProofs` | a memory tier over a disk tier over the shard tables, with failures and reopening; the proofs about buffers and both stores | `MCTieredStore` |
| `UnimemState`, `UnimemStore` | the pools, slots and cells of the unified-memory store and its invariants; its calls | `MCUnimemStore`, `ShardStoreProofs` |
| `Trie` | the commitment trie: arena, free list, cached digests, proofs | `MCTrie`, `DatabaseTrieProofs` |
| `Keyed`, `AxonIndex` | the committed map and the adjacency index, as operators | `Dimensions` |
| `Dimensions`, `DimensionsProofs` | the committed dimensions with their tables, cards and positions, statistics, the root under both derivations; the proofs | `Query` |
| `Query` | certificates, proofs, queries and look openings over the dimensions, and a client that keeps an answer | `MCQuery` |
| `DatabaseOwner` | one database owner shared by threads: coordination locks, staging, commits, scans, panics, restarts | `MCDatabaseOwner`, `DatabaseTrieProofs` |
| `DatabaseTrieProofs` | the proofs about it, about imports and about the trie | |
| `FoldTheorems` | induction over naturals, and folds, sums and loops over finite sets: that they exist, are unique, and what one element more makes of them | the other proof modules |

### Graph state and native preparation

A `Bbg` is a record with one map per dimension and the scalars (height,
checkpoint, diameter override, policy). Hashes are injective: an axon id is the
tagged pair of its ends, a balance key the pair of owner and token, a root the
record of what it commits to. `u64` is `0..MaxU64` with the saturation and the
checked additions of the code. Adjacency lists are sequences, because their order
is part of what undo has to restore. Balances, weights and ranks are numbers,
everything else model values.

`NativeTransition` makes every loop of `prepare_native_batch` a step: an event, a
box movement, a link, the end of a signal, the prune plan, one pruned axon. The
variable `pc` says where the call stands; `undo` is `Prepared.undo`, `changes` and
`snapshots` the other fields, `disk` the `NativeState` records, and `published`
and `candidate` are history variables. Every `?` after `Undo::new` is one action,
`Reject`, which does what dropping `Prepared` does. The coordinator (commit,
unknown commit) and the loader that rebuilds a graph from its records are not in
the crate; they are modelled from how their parts in `Database` and `records.rs`
are used and marked external.

`BbgFacade` is the same graph through `Bbg::insert`, with `finalize_block`
splitting off the prune cycle one removal at a time. It has no undo and validates
only what `BbgState::insert` does. `Inserts` are the signals that are inserted; `start`, the
graph when a prune cycle was planned, and `touched`, `spends` and `calls` are history variables.

### Application store and transfer

`AppTables` holds the six application tables as maps, the `Migration` table split
by the kind of its keys. A transaction holds the state mutex from its first read
to the commit and an error drops its staged changes, so one transaction is one
action: `Accepts` is the conjunction of every early return of `apply_checked` (and
of the closure of `apply_migration`), `Applied` all it writes. Which error a
refused write gets is not distinguished. In `ApplicationStore` a client reads
heads (`Prepare`), and later calls; between the two anything may happen. A commit
succeeds, fails cleanly, or is unknown: then the tables are either, and the owner
refuses every call until it is reopened.

`ApplicationTransfer` has several archives, each with the tables of a database of
its own, one target, and threads in a call of `stage`. Reading a page and copying
it is one action: a sealed archive does not change, and what a thread keeps
across other threads' transactions is its cursor. `after` is the number of rows
copied of a table instead of the last key. The final `validate_links` is the
conjunction `ChainIntact /\ ReceiptsExact`. Its temporary reverse index in the
archive is left out. `require_reader_generation` is the target's owner promoting its readers at any time, so
that the promotions of reservations and migrations may come late and be the weaker ones.

### Backend import

Every step of `migrate` that another process or a power loss can come between is
an action of `Import`, and so is every step of `Database::open` and of
`ApplicationArchive::open`. `synced` is what the parent directory holds for sure after
a power loss; `PowerLoss` takes each of the two entries back to it or not. Rows are a
number of pages: a transaction of the target is durable when it returns. `sound` is
whether the source passes validation. `dir` says who created the directory, which is
what the properties are about.

### Shard stores

`WriteBuffer` is `storage/buffer.rs` field by field, with the vector of staged values and
the map of its positions, because their agreement is what could go wrong. A buffer is a
value and its methods are operators, so that `MemStore` has one and `TieredStore` two. A
call that is refused before it changed anything is no action. Batches of changes are
their own identity (`change_id` is a hash). Callers keep the contract of `storage/mod.rs`:
a write through `get_mut` is followed by `mark_dirty` (`borrowed`, `unmarked`).

In `TieredStore` the disk tier is a buffer over `rows`; the owner's `unknown` error and the
database's are one flag, `poisoned`. `OwnerFails` is another view of the same database
meeting an unknown outcome. Another view that writes the same shard rows is excluded, as
`docs/api/storage.md` makes that the coordinator's responsibility.

`UnimemStore` keeps slots, free list and the block of a pool, which is one sequence of
elements: a slot is an index and a count, and `Slice` takes as many elements as are counted,
into the next cell if they are more than `CellElements` and behind the block (`Unknown`, any element) in the
last one. A put on a full pool panics (the slice is out of range) and ends the store. `reserve_pool` has no
precondition, as in the code: a pool may be reserved over entries that have blocks of their
own and over a pool with entries. All pools have the same capacity and cell width. Four kinds of
call spoil entries: a second reservation, the removal of an entry that has a block under the
pool, a put wider than a cell, and a write in place through such an entry. The history variable `lost` has the entries spoilt so until
they are put, written or removed again; `view` has what the calls said. The invariants are about all other
entries, which stay right beside the spoilt ones (§3 says what the documentation says of these calls).

### Committed dimensions and queries

`Trie` is `trie.rs` node by node: a vector of nodes, a free list, a branch where two keys
first differ, the branches above a change marked and hashed once by `root`. A digest is
the tuple that is hashed, so that two digests are equal only if what they commit to is. `hash`,
`descend` and the loop of `verify` are functions: of the nodes, of the rounds (at most one for each bit, since
bits grow on the way down) and of the steps. Its
run and its proofs show that the root is a function of the present entries. `Keyed` and `AxonIndex` rest on
that: there a trie is the map of its leaves, and the question left is whether the leaves
follow the records. A guard (`ValueMut`, `Entry`) borrows the map until its drop marks the
key, so an access through a guard is one operation. `KeyedSet` is a `Keyed` of units.

`Dimensions` has six keyed dimensions that stand for all eleven and for A and N
(neurons for the ones with scalar records, and one each of the special shapes: cards, time with its
little-endian keys, signals with two ids, balances, the set of nullifiers) and one of the two
adjacency indexes. A `u64` is two limbs below `Base`, an id `KEY_FIELDS` limbs; fields that
no query reads are left out of the records. `dim_serialize` and the padding of
`commit_fields` are what they are in the code, because the verifier walks the table. `Root`
is every read of the root: under `V2` it flushes, under `V1` it fills the legacy caches.

`Query` adds what answers a query and what verifies it. The client's variable `held`
is a proof or a look opening; making one reads the root. `verify_*` are operators of the
proof and a trusted root. Under `V2` no table matches its leaf, so these reads answer
nothing (`CertRoot`). Brakedown is external: an opening is the commitment, the point and
the value there. `collect_look_openings`, which opens the same cells from the rows of a trace, is left
out: `LookProof` is one `ProofLookProvider::look`. The field checks of `primary_index` that only malformed numbers fail
are left out, since the fields of a kept answer were made by the code.

### Database owner

`DatabaseOwner` has application threads, a writer and a reader on one `Database`. A
transaction holds the state mutex, so the application's read and its later write are one
action each; the writer's transaction is open over several actions, because staging limits
are about what was staged before. `coordination_lock` is two actions, up to `retain` and
from the upgrade on: the map's mutex is held between them (`asking`), but an `Arc` may be dropped,
which needs no mutex. A mutex is a number; an `Arc` is held by threads only, so
`Live` is whether one holds it. The lock, the drops and the panics are the
application's, as `specs/application-coordination.md` describes its use. A scan is
paged by its caller, one transaction a page. Commits have the four outcomes of the engines.
Values are lengths.

## 3. Runs

Passing runs (distinct states in parentheses):

- **native_preparation** (12,808). Ten batches over two particles, two neurons,
  one token: shared axons and balances, a link to an axon-particle, a self-loop,
  nullifiers repeated inside a signal, in a batch and across batches, an
  equivocating (neuron, step), a header of another signal, saturation and overflow
  (`MaxU64 = 3`, which also bounds the height), every limit met (`MaxEvents`,
  `MaxKeys`, `MaxCands`, `MaxChanges`); two policies, so that both pruning
  mechanisms run (`EpochBlocks = 2`). `UndoExact`: whatever was applied, dropping
  the preparation gives back the published graph. `AllOrNothing`: the disk holds
  the published graph or the whole candidate. `Inductive`: the strengthening the
  proofs use. `HistoryKept`: what a block sealed stays.
- **direct_path** (403,499). Three signals (an edge, its refresh without
  conviction, a heavier edge back), four calls between finalizations in total,
  heights to 4 over two-block epochs, policies under which the floor, the
  half-life and the budget decide, with `rank_floor_pct` 0, in between and 100. Pruning keeps the indexes in agreement
  (`Indexed`), never removes what the floor protects, under pressure takes particle records only and none before a
  lighter one (`RemovedByRank`), and without pressure removes exactly what is stale
  (`HalfLifeExact`). The bound on calls ends a behaviour, hence no deadlock
  check.
- **application_store** (36,448). Two ordinary writers, an `apply_once` racing the
  same request under another fingerprint with a contradicting claim, a migration
  of their namespace, `MaxIndex = 1` so that the last index is reached, two
  failures. `HistoryIntact`: chains, heads and receipts agree and a request is applied
  once. `AckedDurable`: what was answered is there, and a migration published what its
  sources held. `ImplementsLog` is refinement of `ApplicationLog`;
  `EventuallySettled` says that a write is in the end applied or impossible.
- **application_transfer** (74,216). A good archive that a late writer may still
  extend before the seal, a copy of it that lost a receipt (the damage
  `transfer/tests.rs` produces), sessions with another target and another key, two
  stagers, one row a page, one failure, and target clients that take the
  namespace, contradict a claim, and migrate into the right and the wrong target. The target's owner
  may require the strongest reader generation at any time.
  `CompleteExact`: a complete transfer is the whole valid archive and nothing of the
  target was touched. `StagedInert`: what is being received is inactive until then, and
  active only then. `TargetGrows`: no row, cursor or generation goes back. `TransferEnds`. When the target already owns the namespace
  nothing is left to do, hence no deadlock check.
- **mem_store** (81,669). Three persistent keys of which two may be pending, a local
  one, values of two lengths so that the limit on elements is met before the limit on
  keys. `PositionsExact`, `ElementsCounted`, `PendingBounded`, and `BatchesExplainCache`:
  the committed batches and the pending one add up to the cache.
- **tiered_store** (241,286). Two persistent keys and a local one, the same limits, with
  and without an archive; promotions fill the memory tier before the disk tier, so that
  it refuses what the other has staged. `ImplementsShardMap` is refinement of
  `ShardMap`; `ScanMatchesReads`; `MarkerResolves`: after an unknown outcome `last_commit`
  tells which it was.
- **unimem_store** (about 1,330,000). Two cells of two elements for three keys, vectors of one and of three elements, two
  reservations at any time, two changes staged. `ReadsBack`: an entry that is not spoilt reads as it was left.
  `StagedIsCurrent`: the last change staged for it is what it holds. The view `Seen` leaves out what is recorded of lost
  entries, which nothing reads before it is recorded anew. There is one dimension: dimensions share nothing but the vector of staged
  changes, and the local one is only never staged; the proofs are for any dimensions. A panic ends a behaviour,
  hence no deadlock check.
- **import** (60,370). Two imports, two openers and an inspector of one directory, two
  pages, two troubles (an error or a crash of one process, or a power loss).
  `OpensWhole`: whoever is admitted finds the whole source, and success is durable.
  `CompetitorKept`, `CompetitorUnsealed`.
  `ApplicationArchive::open` tests the guard only before it takes the lock; the run shows
  that this is enough because it sees the version file first. A sealed destination stays
  so, hence no deadlock check.
- **trie** (148,227). Four keys of three bits that split at the root, between branches and
  at a leaf; one of them changes its value; six changes with root reads and proofs between
  them in any order. `RootCanonical`: the root is that of a trie built from the entries
  alone. `ArenaExact`: no node leaks or is freed in use. `ProofsBind`: a kept proof passes
  under a later root only for what is still so.
- **queries** (69,048). One dimension changes in a behaviour (cards together with the balances
  that hold their stake), through every operation, with two keys, several records, repeated
  axons in a list, numbers that need their second limb (`Base = 2`), heights whose bytes
  and numbers are ordered differently, tables past the query limit, both derivations of the root and
  switches between them. `CommitmentsCurrent`, `ListsMirrorSets`, `SnapshotExact`: what is
  derived agrees with the records. `QueriesAnswer`: exactly the present entities are
  answered, and the answers verify. `QueriesBind`: a kept answer passes under the present
  root only for what the state says now.
- **database_owner** (437,208). Three threads of which two share a namespace, one may go to
  another and comes twice, and two live locks at most; or a writer of two batches over
  five keys of bytes 0 and 1 (1 is the largest) beside a reader that scans four prefixes in
  pages of two. A panic anywhere, all outcomes of a commit, one restart. `NoLostUpdate`,
  `ScanExact`, `BatchFits`. Rounds and batches run out, hence no deadlock check.
  The two halves share only the state mutex, so a behaviour has one of them.

Why these bounds: every property relates at most two writers and one failure, or
two signals, or one epoch boundary and the one after it; each instance has one
actor, entry or epoch more than that. Each property has a mutant of the code that
violates it at the same bounds (`PROJECT.json`).

Violation run, a disagreement between the code and what the repository says of it
(`findings` in `PROJECT.json` quotes both):

- **spent_once**: the direct path accepts a nullifier repeated inside one signal
  (native preparation rejects it).

Other disagreements met while modelling. The models follow the code in all of them:

- a `LocalCredit` of 0 stores a row of 0 (`transition/mod.rs:128`), although `state.rs:419`
  says "a zero balance is an absent row";
- the default diameter bound counts particle records, which links of amount 0 do not
  create and pruning removes, so it can fall below the diameter that `stats.rs:62` says it bounds;
- under size pressure `prune.rs:91` takes its candidates from the particle records, content particles
  included, where `specs/pruning.md:95-97` has all axons by ascending weight and a budget that is met: an axon with
  conviction goes while one of weight 0 that has no record stays. `RemovedByRank` says so in its second part;
- `rank_floor_pct = 100` makes the floor the lowest score of a record, so an axon without a record, which scores 0,
  may be pruned when it is stale, although `prune.rs:130` says that everything is protected. The first part of
  `RemovedByRank` is what holds: all records rank higher;
- `remove` of the unified-memory store looks in the pool only (`unimem.rs:209`), so an entry
  put before its dimension's pool was reserved is answered as removed and still read, against `storage/mod.rs:148`;
- its `put` cuts a value to the cell and counts all its elements (`unimem.rs:124-131`), so a read is
  of more elements than were written, which `unimem.rs:99` and `:167` rule out;
- a second `reserve_pool` replaces the cells whose address `unimem.rs:291` calls stable until `remove()`.
  These three make `lost` what it is;
- `coordination_lock` counts an entry whose last `Arc` was dropped after `retain`: at the limit
  it then refuses a namespace that needs no new entry. The next call succeeds.

### Fairness

`Import` assumes weak fairness of the steps inside one call of sequential code; nobody has
to call. `ApplicationStore` assumes that a call returns, that the
client of an ordinary write repeats it until it is settled, and that an owner
poisoned by an unknown commit is reopened; nobody has to migrate, and failures are
finite (`MaxFailures`). A stale head is met only when another client committed, so
retrying ends. `ApplicationTransfer` assumes that whoever transfers an archive
reopens it and calls `stage` again; strong fairness of `Begin` says that a thread
serving two archives returns to each. A call copies at least one page unless it
fails, as `pages` is at least 1. The other specifications have no liveness property and no
fairness.

## 4. Proofs

`NativeProofs` proves, for every set of batches and policies and all limits
(assumptions `BatchAssumption`, `LimitAssumption` and those of `BbgState`):

- `TypeCorrect`: `Spec => []TypeOK`, on which the others rest
- `UndoIsExact`: `Spec => []UndoExact`
- `CommitAllOrNothing`: `Spec => []AllOrNothing`
- `PublishedStays`: `Spec => HistoryKept`, the action property that no step rewrites or drops
  what was published
- `AlwaysInductive`: `Spec => []Inductive`, from which the others follow.

`UndoExact` is not inductive: it says what undo would give back now and not that
it will after the next write. `Inductive` adds `UndoCovers` (every record in which
the graph differs from the published one was captured, with its published value)
and `SignalCaptured` (while a signal is applied, everything it is still going to
write has been captured). The argument has three layers. Each operator of
`BbgState` writes only the keys named for it (`MoveWrites`, `LinkWrites`,
`SealWrites`, `RemoveWrites`, ...). Capturing before writing, and writing only
captured keys, keep `UndoCovers` (`CaptureCovers`, `WriteCovers`). From `UndoCovers`
it follows that undo is exact (`RestoreExact`), that the change set is exact
(`ChangesExact`) and that recovery gives the graph back (`RecoverExact`). One lemma
per action puts these together, `NextInductive` all of them. For `HistoryKept` a second
invariant, `History`, says that the graph in memory and the candidate of an unfinished commit,
one of which is published next, have all of the published history; that every root of the time
dimension is of a height that is over (`Dated`), so a seal adds a new one; and that the signal being
applied has a (neuron, step) that nobody used, so recording it rewrites none.

The same module proves the direct path, `FacadeSpec`, for any signals, policies and budgets (assumption
`FacadeAssumption`): `FacadeIndexed` (`Indexed`), `FacadeRemovedByRank` (`RemovedByRank`) and `FacadeHalfLife`
(`HalfLifeExact`). The invariant `FacadeInductive` has three parts. The graph is kempt: every axon is in the lists
of both its ends once, lists hold axons only, and the index of last-touched epochs has the axons as its
keys. The recorded epochs are those of the last accepted links, which is what the half-life is measured
against. And while a cycle runs, the graph is the one it was planned from without the axons already taken,
and what was taken is what comes first in the plan's order; a plan is made once and the graph shrinks under it, and this is why
deciding from it is still right. An axon without a record scores 0, which ranks below every record when it
is below the floor (`BareBelow`); `FacadeAssumption` has `rank_floor_pct` at most 100. `FloorExact` is the order statistic `rank_floor` computes: so many
weights are below it and no more.

`ShardStoreProofs` has three layers. Lemmas about a buffer (`PutSound`, `DeleteSound`,
`ClearSound`, `FinishSound`, ...) say what each method keeps: `Exact`, `WithinLimits`, and
what a batch would leave of each row, `Row`, read off the index. The proof of `swap_remove` is in
`DeleteSound`; `ChangesExact` shows that the batch as `change_id` and the disk commit see it is
that same `Row`.

On them rest the theorems about `TieredStore`, for all entries, values, limits and archives
(assumptions `EntriesAssumption`, `ArchivesAssumption`): `TieredImplementsMap` (`ImplementsShardMap`),
`ScansMatchReads` (`ScanMatchesReads`) and `MarkerAlwaysResolves` (`MarkerResolves`). The invariant
`TieredInductive` adds three things to sound buffers. WARM caches only what it has staged
(`CacheStaged`; `finish` drops the rest), so what it reads is `Row` over the committed rows.
Whatever HOT caches is what WARM would answer, except for the one entry that is being written
in place and except in a frozen store (`Coherent`); this is what makes a commit, which writes the
changes of WARM alone, write what reads show. And the batch that the marker names is in the rows
(`Resolvable`): a batch with the same identity as the last one leaves the marker equal to its
identity even if it is not written, and the answer is right because writing it would change
nothing. For the refinement each action is a change of at most one entry (`StagedStep`), a move
that changes nothing (`CopiedStep`), a freeze with the batch durable or not (`FreezeStep`),
or one of the three steps of the same name.

The last layer is `MemStore`, instantiated as `Mem` (`SameBuffers`: its buffers are the same
ones): `TypeCorrect`, `IndexExact` (`PositionsExact`), `LimitsHold` (`PendingBounded`) and
`BatchesComplete` (`BatchesExplainCache`). The invariant says that for every entry that is not
written in place the pending change, or the last committed one where there is none, is the
cached value. `CounterExact` (`ElementsCounted`) is about a sum over a sequence: `SizeReplace`, `SizeSwapRemove`,
... say what each method of a buffer does to its size.

It also has the unified-memory store, instance of `UnimemStore`: `UnimemReadsBack` (`ReadsBack`) and `UnimemStagedIsCurrent`
(`StagedIsCurrent`), for any dimensions, keys, values, cells and reservations, values wider than a cell included
(assumption `CellsAssumption`: there is a cell, and it has an element). The invariant says that the used slots of a pool
and its free list are distinct cells; that an entry which is not lost is counted within its cell, so that a write to another cell does
not change what it reads, and reads as it was left; and that the last change staged for an entry
which is neither lost nor owed a `mark_dirty` is what was left.

`FoldTheorems` is what the proofs about sums, loops and orders rest on. A fold of the community modules is a
`CHOOSE` of a recursive function over subsets: `FoldExists`, `SumExists`, `SumUnique` and `LoopExists`
show by induction on the number of elements that there is one, and for a sum exactly one; `SumAdds`,
`SumPut` and `SumUnion` what one element more, another weight or a disjoint set makes of it. The induction is over naturals
with the property as a set of numbers (`Induction`, from the library's `WFMin` and
`NatLessThanWellFounded`), as the library's induction theorems need an operator parameter. `JoinLaid` and `FlattenLaid` say where
a flattened sequence has its parts; powers of two are counted as subsets (`PowerOf`, from the library's `FS_SUBSET`).

`DatabaseTrieProofs` has `Import` as the instance `Imp` and proves of it for any number of processes, pages and troubles (assumption
`ImportAssumption`) `OpensOnlyWhole` (`OpensWhole`), `AlwaysSealed` (`IncompleteSealed`) and
`NeverOverwrites` (`CompetitorKept`). The inductive
invariant adds to `IncompleteSealed` that at most one import owns the guard and has it
durable once it goes on (`GuardOwned`), what the store holds given who created it
(`StoreShape`), and what an import, an opener and an inspector know at each of their
steps (`ImportKnows`, `ReaderKnows`). The step that needs it is the removal of the guard
by an import that found the directory taken: nothing incomplete is uncovered, because
nothing incomplete was there when the guard was created. An inspector's single look at
the guard is enough because it comes after the version file, which only exists once
the directory has an owner.

Of `DatabaseOwner` it proves `NoUpdateLost` (`NoLostUpdate`) and `BatchesFit` (`BatchFits`) for any
number of threads, namespaces, rounds and locks and any keys and limits (assumption
`OwnerAssumption`). `NoLostUpdate` says nothing
of a thread that has read and not yet written, so the invariant `Coordinated` adds
`ReadCurrent` (what such a thread read is still there), for which at most one thread of a
namespace may be between its read and its write. That follows from three facts about the
locks: a thread past `coordination_lock` holds an `Arc` (`ArcHeld`), the map has exactly that
mutex for its namespace as long as it does (`ArcMapped`: `retain` keeps live entries,
and a new mutex replaces none that is live), and a guard belongs to who holds the
`Arc` (`GuardOwn`). One lemma per action. `BatchesFit` needs that the staged changes are a
finite map of well-formed ones (`BatchSound`) and, for each `put` and `delete`, that replacing the
change of a key takes its old bytes off the sum and adds the new (`SumPut`).

`ScansExact` (`ScanExact`) is proved there for any keys, prefixes and page limits. The order of byte strings is shown to
be strict and total (`LessTransitive`, `LessTotal`), so that a finite set of keys has one order (`InOrderExact`); the
bounds that `scan_bounds` computes from a prefix, with or without a last byte to raise, are those of the
keys that begin with it (`BoundsExact`); and a page is a run of these keys without a gap (`PageExact`). The
property speaks of rows that are missing only when the scan is done. The invariant
`ScanInductive` says it before: of the rows that were there throughout, none that begins with the prefix and comes no later than the last key
handed out is missing.

Last in `DatabaseTrieProofs`, `Trie`: `RootIsCanonical` (`RootCanonical`), `ArenaIsExact` (`ArenaExact`) and `ProofsAlwaysBind`
(`ProofsBind`), for keys of any width, any entries and any number of changes (assumption `TrieAssumption`: keys are strings
of `Width` bits). None of the three is inductive. The invariant `TrieInductive` says that there is a set of keys
for each node in use (`TrieOk`): the present keys at the root; at a branch two parts that are not empty, by its bit, before which all its keys
agree (`Parts`, `Holds`); one key at a leaf, which has the digest of the entry (`Leaves`); every other node in use has a parent
(`Parented`); a branch that is not marked has the digest of its children and neither of them is marked (`Clean`); and the free list has the other
slots, each once (`Freeds`). Of a kept proof it says only what it is made of (`Made`), not when it was made. The argument:

- `ChildBelow`: bits grow from a branch to its children, so `descend` ends at a leaf (`DescendWalks`), at the key's own if it is present, and
  passes exactly the nodes that hold that leaf's key (`Reaches`);
- `set` of a new key puts a branch at the first bit in which it differs from the leaf reached, above the first node on the way with a later
  bit (`SiteFound`); the subtree there holds only keys that agree with the leaf up to that bit, so the branch parts it from the new
  key (`GraftTree`), and all branches whose digest is out of date are on the path marked (`GraftClean`, `MarkCleans`). `remove` is the
  same backwards (`PruneTree`, `PruneClean`): `SetKeeps`, `RemoveKeeps`;
- `hash` hashes with a branch every marked one below it (`StaleClosed`), so that `root` leaves none marked: `HashedKeeps`;
- what `hash` returns for a node is `Canonical` of its keys, by induction on how many bits are left: the bit of a branch is
  the first in which its keys differ, which is the one `Canonical` splits at (`BranchSplits`, `HashCanonical`);
- a node has one place, because the way to any of its keys passes it once (`OnePlace`);
- a verifier's digests, where they end in the present root, are from the root down those of the nodes on the key's way, a digest of
  a leaf being none of a branch (`LiftFollows`); so the terminal leaf is the one reached now (`VerifySound`).

`DimensionsProofs` proves `NeverStale` (`CommitmentsCurrent`) for all keys, records and
lists (assumptions `DimensionAssumption`, `QueryAssumption`). The invariant `Sound` says that
only the leaf of a marked key may differ from its record, and that a legacy cache is
empty or current. `TouchedSound` and `RelistedSound` carry the argument: an operation that
changes one key and marks it keeps the invariant; every mutation is shown to be of that
form, and `FlushedLeaves` and `FlushedIndexLeaves` that a flush of a sound map leaves
nothing behind.

It also proves `AxonsMirrored` (`ListsMirrorSets`). The invariant `Mirror` says that every list has
distinct elements, those of its set, and that the histogram is right about every length
(`Counts`). `RetainLoop` and `FirstsLoop` unfold the two loops over a list, `RetainedDistinct`,
`FirstsDistinct` and `SubSeqDistinct` say by induction what they leave of it, and `CountsMoved` that
`degree_moved` makes the histogram of the lists before into the one after when the list of
one particle changed.

And it proves `SnapshotAlwaysExact` (`SnapshotExact`). The invariant `CardsInv` says that the index
lists every card under the axon of its record with its own stake key, that no axon is
listed without a card, and that balances are numbers; `ListedHas` and `UnindexHas` say what the
two index operations list afterwards, which is what a card that moves to another axon needs. The sums
then follow from `SumByAxon`: the classes of a partition, summed one by one, give the sum over
all (`SumPartition`, from `SumUnion`), for stakes, for active stakes and, with weight one (`SumOnes`), for the
number of positions.

Last, it proves `QueriesBound` (`QueriesBind`) and `QueriesAnswered` (`QueriesAnswer`). The inductive invariant is
`QueryInv`: `Sound` and `Mirror`, keys and records of the right types in every map (`KeyedKept`, `ListsKept`), and, of a kept
proof, only that its certificate is made of fields (`HeldSound`); nothing is assumed of which state it was made in. The rest is
about one state, and about where the cells of a serialized table are:

- `TableIsLaid`: the keys of a map have one order (`KeysOfOrder`, from `RankExact`), and the table is a header followed by the
  entries in that order, entry `n` at offset `o[n]` (`FlattenLaid`, from what the fold of `FlattenSeq` joins);
- `LaidWalks`: the walk of `primary_index`, which reads each width from the table, steps through these offsets and no
  others; `KeysLaid` and `SortedKeys`: it reads the keys back and finds them increasing, heights by their two limbs swapped
  (`HeightOrder`); `IndexIs` and `IndexOnly`: so it finds a present key at its entry, and no other key there;
- `CommitTells`: the padded table gives the table back, because its second field is its length; hence `CertBinds`: a
  certificate that matches the present root discloses the present table, and the root is not one of V2;
- `Corner`: the bits of an index add up to it (`PowerStep`, `QuotientHalf`), so an opening at a corner shows the cell
  (`OpeningShows`); `OffsetIs`: the sum `open_entity` takes over the entries before is the offset of the walk;
- `CertIs`: a table that fits has a certificate of the right shape, its count bounded by its length (`CountFits`); `BalancesLength`:
  the length that `prove_public_balance` computes before it serializes is that of the table.

`EntityBinds`, `CellsBind` and `LookBinds` give the first theorem, `AnswerShows`, `NotPresent`, `NotCertified` and `TooLong` the second.
`DimensionAssumption` and `QueryAssumption` have what these proofs need of the constants: finitely many identifiers, links and lists
made of them; keys and identifiers that are byte strings of at least two fields below `Base`, heights that are numbers; records
of the type their map has in the source; limits that are numbers, the one of a query no larger than the one of a certificate.

`AppTablesProofs` has the lemmas about the application tables that the next two modules
share. `Whole` is the chain of every namespace and its receipts, `WholeAt` the same of one
namespace, because a transfer breaks and mends one namespace at a time. `AppliedWhole` and
`AppliedAt` say that an accepted write keeps its namespace whole, `AppliedElsewhere` that it
leaves the others alone, `AppliedKeeps` that it removes and rewrites no row.

`ApplicationStoreProofs` proves for all orders, generations and failures (assumption
`OrdersAssumption`) `HistoryAlwaysIntact` (`HistoryIntact`), `AcksAlwaysDurable` (`AckedDurable`)
and `StoreImplementsLog` (`ImplementsLog`). The inductive invariant is `Whole(db)` with three
facts: what a client holds was drawn up for its own order (`PendingDrawn`: a write made from
heads that have since moved is still one for its request), an acknowledged write has its receipt
(`Acknowledgements`) and the sources of a migration are fenced where it found them
(`SourcesClosed`). The last one needs the fences: without them a late writer of a source would move
its head. For the refinement an accepted write is shown to append exactly one entry to one log
and to close the sources' logs, and every other step to leave the logs alone, an unknown commit
being either.

`ApplicationTransferProofs` proves for any archives, sessions, threads, clients and page sizes
`AlwaysInert` (`StagedInert`), `TransfersExact` (`CompleteExact`) and `TargetOnlyGrows`
(`TargetGrows`). None of the three is inductive. The invariant says what a seal pins
(`ArchivesSound`, `SourcesSealed`), that a call of `stage` is one of an open source with
reserved namespaces (`CallsSound`), that reservations, cursors and targets agree
(`Reservations`), and, the heart of it, that what a cursor counts as copied is there (`Copied`:
all tables before the cursor's, and of its own the rows of the first keys). A stale thread
repeats a page that others have long copied; it writes equal rows, so `Copied` stays
(`PageAdvances`, `RowsGrow`). `NamespacesWhole` claims wholeness only of namespaces that no unfinished transfer
has reserved, and `validate_links` establishes it for the rest when the cursor becomes complete.
The assumptions, evaluated by TLC on each run: `SessionsAssumption` (a transfer key is a nonce:
two sessions with the same target and key are of the same archive), `LateAssumption` (what a late
writer of an archive brings is finite) and `ContentsAssumption` (the rows of an archive are well
formed, as `validate_record` has it, and every history entry and receipt is of a namespace that has
a head). The last one is needed: `stage` reserves the namespaces of the manifest's heads and checks
links only after the rows were copied, so an archive that had lost a head would leave rows of a
namespace in the target that nothing reserves. Lost entries and receipts are in the model;
`validate_links` catches them.

Only model-checked: liveness and everything that needs `ENABLED` (`EventuallySettled`,
`TransferEnds`, `CompetitorUnsealed`). Every safety invariant that a passing run checks is the subject of a theorem.

## 5. Abstractions, and what is not modelled

- Encodings of records and keys are injective values except in `Dimensions` and `Query`, where
  tables are laid out field by field. Outside `DatabaseOwner` a limit in bytes is a limit in
  records; `MaxKeys` stands for both limits of the undo map.
- The checkpoint's proof slot is never filled by the modelled operations;
  locations, coins, cards and files are not written by the graph's own operations. Their
  mutations are in `Dimensions`.
- hemera and Brakedown are injective: what a collision or a forged opening would do is outside
  the model. Parallel flushing after a bulk load (`PARALLEL_FLUSH`) computes the same leaves.
- `query_wire.rs` and the bounded deserialisation of certificates are encodings; `evidence()`
  hands a certificate to another crate; `prove_commitment` opens a bare cell that nothing verifies.
- The command line parses and prints. The network store is a trait with one read and no
  implementation here.
- Size limits of an application write and the read-only inspection of an archive are left out,
  and so are `archive()` of a cold tier (nothing is staged in it), the bytes of an element
  in a block (a cell is a whole number of elements), and what validation of an import reads, which is the same `validate_links` that
  the transfer uses.

## 6. Plan

1. `query_wire.rs` as a round trip over small frames, if its limits grow rules of their own.
