------------------------ MODULE ApplicationTransfer ------------------------
(***************************************************************************)
(* Sealed transfer of application archives into a shared database          *)
(* (storage/application/transfer.rs, archive.rs, validation.rs).  An       *)
(* archive is an application-only database; a TransferSource holds its     *)
(* exclusive lock, seals it and copies it page by page.  Threads call      *)
(* stage concurrently, other clients write to the target database, and     *)
(* the process may end between any two transactions.                       *)
(***************************************************************************)
EXTENDS AppTables, Sequences, SequencesExt

CONSTANTS
  Archives,      \* the archives
  Contents,      \* what each archive's tables hold at first
  Sessions,      \* what TransferSource::open is called with: [archive, target, key]
  Threads,       \* callers of stage
  Orders,        \* writes of the target's clients, as in ApplicationStore
  Late,          \* writes to an archive before it is sealed: [archive, order]
  Required,      \* generations the target's require_reader_generation is called with
  PageRows,      \* ByteLimits::max_entries of a page
  MaxFailures    \* ends of the process and failed content validations

TABLES == <<"content", "claims", "requests", "history", "heads">>

\* Well-formed tables of an archive.
Archived(d) ==
  /\ IsTables(d) /\ Keyed(d)
  /\ \A i \in DOMAIN TABLES : IsFiniteSet(DOMAIN d[TABLES[i]])
  /\ \A k \in DOMAIN d.history \cup DOMAIN d.requests : k[1] \in DOMAIN d.heads

ASSUME PageAssumption == PageRows \in Nat \ {0}

\* An archive's rows are those that writes made and some of which may be
\* lost, but no head: every entry and receipt is of a namespace that has one.
\* It is not sealed yet, and its tables are finite.
ASSUME ContentsAssumption ==
  /\ Contents = [a \in Archives |-> Contents[a]]
  /\ \A a \in Archives : Archived(Contents[a]) /\ Contents[a].seal = <<>>

\* A transfer key is a nonce, so no two archives share one for a target.
ASSUME SessionsAssumption ==
  \A s \in Sessions :
    /\ s.archive \in Archives
    /\ \A z \in Sessions : s.target = z.target /\ s.key = z.key => s.archive = z.archive

ASSUME RequiredAssumption == Required \subseteq Generations

ASSUME LateAssumption ==
  \A l \in Late : /\ l.archive \in Archives
                  /\ IsFiniteSet(l.order.content) /\ IsFiniteSet(l.order.claims)

VARIABLES
  archive,    \* the tables of each archive
  held,       \* the open TransferSource of each archive: <<>> or <<manifest>>
  db,         \* the tables of the target
  stage,      \* each thread's call of stage: <<>> or <<[archive, cursor, copied]>>
  failures    \* failures so far

vars == <<archive, held, db, stage, failures>>

Init ==
  /\ archive = Contents
  /\ held = [a \in Archives |-> <<>>]
  /\ db = NewTables
  /\ stage = [t \in Threads |-> <<>>]
  /\ failures = 0

-----------------------------------------------------------------------------
(* The source *)

\* The hash of target, key, the archive's last transaction and its heads.
\* No archive is sealed twice, so the last transaction adds nothing.
Manifest(a, target, key) == [target |-> target, key |-> key, heads |-> archive[a].heads]

Sealed(tables, target, key, manifest) ==
  [tables EXCEPT !.seal = <<[target |-> target, key |-> key, manifest |-> manifest]>>,
                 !.status = "export-v1"]

\* Mutant: a sealed archive is never opened again.
SealFitsFresh(a, target, key) == archive[a].seal = <<>>

\* A seal admits an exact resume only, and only while the heads are the
\* ones it was made for.
SealFits(a, target, key) ==
  archive[a].seal # <<>> =>
    /\ archive[a].seal[1].target = target /\ archive[a].seal[1].key = key
    /\ archive[a].seal[1].manifest = Manifest(a, target, key)

\* ApplicationArchive::open: the backend's lock, no generation but the
\* original and no other marker than the seal's, and something to transfer.
\* The shard and native tables of an archive are empty.
CanInspect(a) ==
  /\ held[a] = <<>>
  /\ archive[a].status \in {"original", "export-v1"}
  /\ DOMAIN archive[a].heads # {}
  /\ archive[a].status = "export-v1" <=> archive[a].seal # <<>>

\* TransferSource::from_archive: a fresh seal, or an exact resume.
Open(a, target, key) ==
  /\ CanInspect(a)
  /\ target \notin DOMAIN archive[a].heads
  /\ SealFits(a, target, key)
  /\ held' = [held EXCEPT ![a] = <<Manifest(a, target, key)>>]
  /\ archive' = IF archive[a].seal # <<>> THEN archive
                ELSE [archive EXCEPT ![a] = Sealed(@, target, key, Manifest(a, target, key))]
  /\ UNCHANGED <<db, stage, failures>>

\* The Write of an order on the heads of some tables.
WriteOn(tables, o) ==
  [ns |-> o.ns, request |-> o.request, fingerprint |-> o.fingerprint,
   retry |-> o.retry, content |-> o.content, claims |-> o.claims,
   manifest |-> o.manifest,
   expected |-> head(tables, o.ns),
   head     |-> [index |-> NextIndex(head(tables, o.ns)), commit |-> o.commit],
   sources  |-> {<<s, tables.heads[s]>> : s \in o.sources}]

\* An ordinary owner writes to the archive: Database::open refuses the
\* marker of the seal, and the backend's lock a source that is open.
WriteArchive(a, o) ==
  /\ held[a] = <<>> /\ CanPromote(archive[a])
  /\ o.sources \subseteq DOMAIN archive[a].heads
  /\ Accepts(archive[a], WriteOn(archive[a], o))
  /\ archive' = [archive EXCEPT ![a] = Applied(@, WriteOn(@, o))]
  /\ UNCHANGED <<held, db, stage, failures>>

-----------------------------------------------------------------------------
(* The target *)

Start == [table |-> 0, after |-> 0]

CanReserve(m) ==
  /\ CanPromote(db)
  /\ m.target \notin DOMAIN m.heads
  /\ DOMAIN m.heads \cap (DOMAIN db.heads \cup DOMAIN db.fences \cup DOMAIN db.staged) = {}

Reserved(m) ==
  [Promoted(db, "neuron-v1") EXCEPT
     !.staged  = PutAll(@, {<<ns, m>> : ns \in DOMAIN m.heads}),
     !.targets = Put(@, m, m.target),
     !.cursors = Put(@, m, Start)]

\* stage: prepare_target, unless a call before did, and the cursor is read.
Begin(t, a) ==
  /\ stage[t] = <<>> /\ held[a] # <<>>
  /\ LET m == held[a][1] IN
     \/ /\ m \in DOMAIN db.cursors /\ db' = db
        /\ stage' = [stage EXCEPT ![t] = <<[archive |-> a, cursor |-> db.cursors[m], copied |-> FALSE]>>]
     \/ /\ m \notin DOMAIN db.cursors /\ CanReserve(m) /\ db' = Reserved(m)
        /\ stage' = [stage EXCEPT ![t] = <<[archive |-> a, cursor |-> Start, copied |-> FALSE]>>]
  /\ UNCHANGED <<archive, held, failures>>

\* The next page of an archive's rows, in the order of its keys.
Page(a, cursor) ==
  LET table == archive[a][TABLES[cursor.table + 1]]
      keys  == SetToSeq(DOMAIN table)
      last  == IF cursor.after + PageRows < Len(keys) THEN cursor.after + PageRows ELSE Len(keys)
  IN {<<keys[i], table[keys[i]]>> : i \in (cursor.after + 1)..last}

Advanced(cursor, rows) ==
  IF rows = {} THEN [table |-> cursor.table + 1, after |-> 0]
  ELSE [cursor EXCEPT !.after = @ + Cardinality(rows)]

\* Mutant: the last table completes the transfer without validate_links.
PageValidAny(a, cursor, rows) == TRUE

\* validate_links runs before the completion marker.
PageValid(a, cursor, rows) ==
  Advanced(cursor, rows).table = 5 => ChainIntact(archive[a]) /\ ReceiptsExact(archive[a])

\* Mutant: the cursor is not compared.
CursorCurrentAny(m, cursor) == TRUE

CursorCurrent(m, cursor) == db.cursors[m] = cursor

RowsFit(cursor, rows) == Immutable(db[TABLES[cursor.table + 1]], rows)

\* One page is read, validated and copied in one target transaction with the
\* cursor; an error ends the call.
CopyPage(t) ==
  /\ stage[t] # <<>>
  /\ LET call   == stage[t][1]
         m      == held[call.archive][1]
         rows   == Page(call.archive, call.cursor)
         next   == Advanced(call.cursor, rows)
     IN /\ call.cursor.table < 5
        /\ IF /\ PageValid(call.archive, call.cursor, rows)
              /\ CursorCurrent(m, call.cursor)
              /\ RowsFit(call.cursor, rows)
           THEN /\ db' = [db EXCEPT ![TABLES[call.cursor.table + 1]] = PutAll(@, rows),
                                    !.cursors[m] = next]
                /\ stage' = [stage EXCEPT ![t] = <<[call EXCEPT !.cursor = next, !.copied = TRUE]>>]
           ELSE db' = db /\ stage' = [stage EXCEPT ![t] = <<>>]
  /\ UNCHANGED <<archive, held, failures>>

\* The call copied as many pages as it was asked to, or all there are.
Return(t) ==
  /\ stage[t] # <<>> /\ (stage[t][1].copied \/ stage[t][1].cursor.table = 5)
  /\ stage' = [stage EXCEPT ![t] = <<>>]
  /\ UNCHANGED <<archive, held, db, failures>>

\* The graph owner's validate_content refuses a page.
ContentRefused(t) ==
  /\ stage[t] # <<>> /\ stage[t][1].cursor.table = 0 /\ failures < MaxFailures
  /\ stage' = [stage EXCEPT ![t] = <<>>]
  /\ failures' = failures + 1
  /\ UNCHANGED <<archive, held, db>>

\* A client of the target applies its order.
Apply(o) ==
  /\ o.sources \subseteq DOMAIN db.heads
  /\ Accepts(db, WriteOn(db, o))
  /\ db' = Applied(db, WriteOn(db, o))
  /\ UNCHANGED <<archive, held, stage, failures>>

\* Database::require_reader_generation of the target: its owner asks for a
\* generation of readers before, between or after the promotions to neuron-v1
\* that reservations and migrations make.
require_reader_generation(g) ==
  /\ CanPromote(db)
  /\ db' = Promoted(db, g)
  /\ UNCHANGED <<archive, held, stage, failures>>

\* The process ends; only what was committed stays.
Crash ==
  /\ failures < MaxFailures
  /\ held' = [a \in Archives |-> <<>>] /\ stage' = [t \in Threads |-> <<>>]
  /\ failures' = failures + 1
  /\ UNCHANGED <<archive, db>>

Next ==
  \/ \E s \in Sessions : Open(s.archive, s.target, s.key)
  \/ \E l \in Late : WriteArchive(l.archive, l.order)
  \/ \E t \in Threads, a \in Archives : Begin(t, a)
  \/ \E t \in Threads : CopyPage(t) \/ Return(t) \/ ContentRefused(t)
  \/ \E o \in Orders : Apply(o)
  \/ \E g \in Required : require_reader_generation(g)
  \/ Crash

Spec == Init /\ [][Next]_vars

\* Whoever transfers an archive reopens it and calls stage again until it is
\* told complete; a call copies at least one page unless it fails.
Fairness ==
  /\ \A a \in Archives :
       WF_vars(\E s \in Sessions : s.archive = a /\ Open(a, s.target, s.key))
  /\ \A t \in Threads :
       /\ \A a \in Archives : SF_vars(Begin(t, a))
       /\ WF_vars(CopyPage(t)) /\ WF_vars(Return(t))

FairSpec == Spec /\ Fairness

-----------------------------------------------------------------------------
(* Properties *)

Complete(m) == m \in DOMAIN db.cursors /\ db.cursors[m].table = 5

\* The archives a manifest was sealed for.
SealedFor(a, m) == archive[a].seal # <<>> /\ archive[a].seal[1].manifest = m

\* A staged namespace holds nothing but its archive's rows: no writer gets in
\* before, between or after the pages.  It is migrated only into the target
\* its seal names, once all of it is there, at the head that was sealed.
StagedInert ==
  /\ \A a \in Archives : \A ns \in DOMAIN db.staged :
       SealedFor(a, db.staged[ns]) =>
         /\ ns \in DOMAIN db.heads => db.heads[ns] = archive[a].heads[ns]
         /\ \A k \in DOMAIN db.history : k[1] = ns =>
              k \in DOMAIN archive[a].history /\ db.history[k] = archive[a].history[k]
         /\ \A k \in DOMAIN db.requests : k[1] = ns =>
              k \in DOMAIN archive[a].requests /\ db.requests[k] = archive[a].requests[k]
  /\ \A ns \in DOMAIN db.fences \cap DOMAIN db.staged :
       LET m == db.staged[ns] IN
       /\ Complete(m) /\ db.fences[ns].namespace = m.target
       /\ db.heads[ns] = m.heads[ns]

Without(f, names) == Restrict(f, {k \in DOMAIN f : k[1] \notin names})

\* A complete transfer left no row out, of any table, whatever calls raced or
\* were interrupted; and but for transfers under way the target's histories
\* and receipts are whole, those of completed transfers included.
CompleteExact ==
  LET open  == {ns \in DOMAIN db.staged : ~Complete(db.staged[ns])}
      whole == [db EXCEPT !.heads = Restrict(@, DOMAIN @ \ open),
                          !.history = Without(@, open), !.requests = Without(@, open)]
  IN /\ \A a \in Archives : \A m \in DOMAIN db.cursors :
          (SealedFor(a, m) /\ Complete(m)) =>
            \A i \in DOMAIN TABLES : Kept(archive[a][TABLES[i]], db[TABLES[i]])
     /\ ChainIntact(whole) /\ ReceiptsExact(whole)

\* No step removes or rewrites a row of the target, the reader generation
\* never falls, and no cursor moves back.
TargetGrows ==
  [][ /\ RowsKept(db, db')
      /\ GenerationRank(db.status) <= GenerationRank(db'.status)
      /\ \A m \in DOMAIN db.cursors :
           \/ db'.cursors[m].table > db.cursors[m].table
           \/ db'.cursors[m].table = db.cursors[m].table /\ db'.cursors[m].after >= db.cursors[m].after
    ]_vars

\* The transfer of an archive cannot go on.
Obstructed(a) ==
  \/ archive[a].seal = <<>>
  \/ ~(ChainIntact(archive[a]) /\ ReceiptsExact(archive[a]))
  \/ ~Immutable(db.content, {<<k, archive[a].content[k]>> : k \in DOMAIN archive[a].content})
  \/ ~Immutable(db.claims, {<<k, archive[a].claims[k]>> : k \in DOMAIN archive[a].claims})
  \/ LET m == archive[a].seal[1].manifest IN m \notin DOMAIN db.cursors /\ ~CanReserve(m)

\* However often it is interrupted, a transfer that is resumed completes or
\* meets what the target already holds.
TransferEnds ==
  \A a \in Archives :
    <>[](Obstructed(a) \/ Complete(archive[a].seal[1].manifest))
=============================================================================
