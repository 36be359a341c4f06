--------------------------- MODULE DatabaseOwner ----------------------------
(***************************************************************************)
(* Database (storage/database/mod.rs, transaction.rs, backend.rs): one     *)
(* owner shared by the threads of a process.  Application threads take the *)
(* coordination lock of their namespace around a read and a later write,   *)
(* each in its own transaction (specs/application-coordination.md); a      *)
(* writer stages a batch inside one transaction; a reader pages through a  *)
(* prefix of the table the writer changes.  Threads panic, commits fail,   *)
(* the process ends and opens the database again.                          *)
(*                                                                         *)
(* A byte is a number up to MaxByte.  A value is its length.  What is      *)
(* committed of a namespace is one number, its counter row.                *)
(***************************************************************************)
EXTENDS Integers, Sequences, SequencesExt, FiniteSetsExt, Maps

CONSTANTS
  Apps, Namespaces,
  Mutexes,       \* bound: names of mutexes, more than threads and namespaces
  MaxLocks,      \* live coordination locks: 64 in the code
  Serves,        \* bound: the namespaces each application thread works in
  Rounds,        \* bound: its rounds
  MaxRestarts,   \* bound: ends of the process
  MaxByte,       \* u8::MAX
  Keys,          \* keys of the scanned table
  Values,        \* lengths of its values
  ScanPrefixes,  \* prefixes scanned
  MaxKey,        \* bytes of a key: 64 in the code
  MAX_TRANSACTION_KEYS, MAX_TRANSACTION_BYTES, MAX_BYTES_VALUE,
  MarkerBytes,   \* bytes of the two marker records: 91 in the code
  PageEntries, PageBytes,  \* the limits of a page
  MaxBatches,    \* bound: transactions of the writer
  Scenarios      \* bound: which threads run in one behaviour

ASSUME OwnerAssumption ==
  /\ Mutexes \subseteq Nat \ {0} /\ MaxLocks \in Nat \ {0}
  /\ MaxByte \in Nat /\ PageEntries \in Nat \ {0} /\ PageBytes \in Nat
  /\ (\A k \in Keys \cup ScanPrefixes : k \in Seq(0..MaxByte)) /\ Values \subseteq Nat
  /\ {MAX_TRANSACTION_KEYS, MAX_TRANSACTION_BYTES, MarkerBytes} \subseteq Nat
  /\ Rounds \in [Apps -> Nat] /\ Serves \in [Apps -> (SUBSET Namespaces) \ {{}}]
  /\ Scenarios \subseteq SUBSET {"apps", "writer", "reader"}

VARIABLES
  scenario,
  locks,      \* the weak map: namespace -> mutex
  asking,     \* the thread inside coordination_lock, <<>> or <<a>>
  pc, ns,     \* where an application thread is, and its namespace
  arc,        \* the mutex it holds an Arc of, 0 for none
  guard,      \* mutexes locked, by their holder
  broken,     \* mutexes poisoned by a panic
  seen,       \* what a thread read of its counter
  rounds,     \* rounds a thread has left
  counter,    \* durable: the counter row of each namespace
  acked,      \* history: increments acknowledged, for each namespace
  unsure,     \* history: increments whose commit outcome is unknown
  rows,       \* durable: the scanned table
  tx,         \* the writer's open transaction, <<>> or <<[changes, bytes]>>
  batches,    \* transactions the writer has left
  scan,       \* the reader's scan, <<>> or <<record>>
  failure,    \* State::failure: a commit of unknown outcome
  poisoned,   \* the state mutex is poisoned
  restarts

appVars == <<locks, asking, pc, ns, arc, guard, broken, seen, rounds, counter, acked, unsure>>
rowVars == <<rows, tx, batches, scan>>
vars == <<scenario, appVars, rowVars, failure, poisoned, restarts>>

-----------------------------------------------------------------------------
(* Coordination locks *)

\* Arcs are held by threads only.
Live(m) == \E a \in Apps : arc[a] = m

\* retain: the entries whose lock is still held by somebody.
Retained(f) == [n \in {k \in DOMAIN f : Live(f[k])} |-> f[n]]

\* Mutexes that a thread or the map knows.
Known == {arc[a] : a \in Apps} \cup {locks[n] : n \in DOMAIN locks}

\* coordination_lock, up to the retain: the map's mutex is held from here.
Ask(a, n) ==
  /\ pc[a] = "idle" /\ rounds[a] > 0
  /\ asking = <<>>
  /\ asking' = <<a>> /\ locks' = Retained(locks)
  /\ pc' = [pc EXCEPT ![a] = "asking"] /\ ns' = [ns EXCEPT ![a] = n]
  /\ rounds' = [rounds EXCEPT ![a] = @ - 1]
  /\ UNCHANGED <<arc, guard, broken, seen, counter, acked, unsure>>

\* A new mutex is one that nobody knows, the first of them as they are all
\* alike.
NewLock(a) ==
  \E m \in Mutexes \ Known :
    /\ \A k \in Mutexes \ Known : m <= k
    /\ arc' = [arc EXCEPT ![a] = m]
    /\ locks' = Put(locks, ns[a], m)
    /\ broken' = broken \ {m}
    /\ pc' = [pc EXCEPT ![a] = "lock"]

\* Mutant: the entry that the map has is replaced without an upgrade.
GrantNew(a) ==
  /\ asking = <<a>> /\ asking' = <<>>
  /\ IF Cardinality(DOMAIN locks \ {ns[a]}) >= MaxLocks
     THEN pc' = [pc EXCEPT ![a] = "idle"] /\ UNCHANGED <<arc, locks, broken>>
     ELSE NewLock(a)
  /\ UNCHANGED <<ns, guard, seen, rounds, counter, acked, unsure>>

\* coordination_lock, from the upgrade on.  The last Arc of an entry that
\* retain kept may be gone by now: the upgrade fails and the entry counts.
Grant(a) ==
  /\ asking = <<a>> /\ asking' = <<>>
  /\ IF ns[a] \in DOMAIN locks /\ Live(locks[ns[a]])
     THEN /\ arc' = [arc EXCEPT ![a] = locks[ns[a]]]
          /\ pc' = [pc EXCEPT ![a] = "lock"] /\ UNCHANGED <<locks, broken>>
     ELSE IF Cardinality(DOMAIN locks) >= MaxLocks
     THEN pc' = [pc EXCEPT ![a] = "idle"] /\ UNCHANGED <<arc, locks, broken>>
     ELSE NewLock(a)
  /\ UNCHANGED <<ns, guard, seen, rounds, counter, acked, unsure>>

\* The application locks the mutex; a poisoned one it gives up.
Lock(a) ==
  /\ pc[a] = "lock" /\ arc[a] \notin DOMAIN guard
  /\ IF arc[a] \in broken THEN pc' = [pc EXCEPT ![a] = "drop"] /\ UNCHANGED guard
     ELSE pc' = [pc EXCEPT ![a] = "read"] /\ guard' = Put(guard, arc[a], a)
  /\ UNCHANGED <<locks, asking, ns, arc, broken, seen, rounds, counter, acked, unsure>>

-----------------------------------------------------------------------------
(* Transactions *)

\* The state mutex is free: no transaction is open.
Free == tx = <<>>

Refused == poisoned \/ failure

\* A read in a transaction of its own.
Read(a) ==
  /\ pc[a] = "read" /\ Free
  /\ IF Refused THEN pc' = [pc EXCEPT ![a] = "unlock"] /\ UNCHANGED seen
     ELSE /\ seen' = [seen EXCEPT ![a] = counter[ns[a]]]
          /\ pc' = [pc EXCEPT ![a] = "write"]
  /\ UNCHANGED <<locks, asking, ns, arc, guard, broken, rounds, counter, acked, unsure, failure, poisoned>>

\* What a commit may do: happen, fail before anything is written, or end
\* without saying which, and then the owner refuses every later call.
Outcomes == {"ok", "failed", "unknown_done", "unknown_lost"}

Written(outcome) == outcome \in {"ok", "unknown_done"}

Unknown(outcome) == outcome \in {"unknown_done", "unknown_lost"}

\* The write that depends on what was read, in a second transaction.
Write(a, outcome) ==
  /\ pc[a] = "write" /\ Free
  /\ pc' = [pc EXCEPT ![a] = "unlock"]
  /\ IF Refused THEN UNCHANGED <<counter, acked, unsure, failure>>
     ELSE /\ counter' = IF Written(outcome) THEN [counter EXCEPT ![ns[a]] = seen[a] + 1] ELSE counter
          /\ acked' = IF outcome = "ok" THEN [acked EXCEPT ![ns[a]] = @ + 1] ELSE acked
          /\ unsure' = IF Unknown(outcome) THEN [unsure EXCEPT ![ns[a]] = @ + 1] ELSE unsure
          /\ failure' = Unknown(outcome)
  /\ UNCHANGED <<locks, asking, ns, arc, guard, broken, seen, rounds, poisoned>>

\* The guard goes, then the Arc; or the thread keeps the Arc for another round.
Unlock(a) ==
  /\ pc[a] = "unlock"
  /\ guard' = Del(guard, arc[a])
  /\ pc' = [pc EXCEPT ![a] = "drop"]
  /\ UNCHANGED <<locks, asking, ns, arc, broken, seen, rounds, counter, acked, unsure>>

Drop(a) ==
  /\ pc[a] = "drop"
  /\ arc' = [arc EXCEPT ![a] = 0]
  /\ pc' = [pc EXCEPT ![a] = "idle"]
  /\ UNCHANGED <<locks, asking, ns, guard, broken, seen, rounds, counter, acked, unsure>>

Again(a) ==
  /\ pc[a] = "drop" /\ rounds[a] > 0
  /\ rounds' = [rounds EXCEPT ![a] = @ - 1]
  /\ pc' = [pc EXCEPT ![a] = "lock"]
  /\ UNCHANGED <<locks, asking, ns, arc, guard, broken, seen, counter, acked, unsure>>

\* A panic under the guard, inside a transaction or not: unwinding unlocks and
\* poisons the mutex, drops the Arc, and what was staged is never committed.
Panic(a, inside) ==
  /\ pc[a] \in {"read", "write"}
  /\ inside => Free /\ ~Refused
  /\ broken' = broken \cup {arc[a]} /\ guard' = Del(guard, arc[a])
  /\ arc' = [arc EXCEPT ![a] = 0]
  /\ pc' = [pc EXCEPT ![a] = "idle"]
  /\ poisoned' = (poisoned \/ inside)
  /\ UNCHANGED <<locks, asking, ns, seen, rounds, counter, acked, unsure, failure>>

-----------------------------------------------------------------------------
(* The writer *)

Size(k, v) == Len(k) + IF v = <<>> THEN 0 ELSE v[1]

Begin ==
  /\ Free /\ batches > 0
  /\ batches' = batches - 1
  /\ tx' = IF Refused THEN tx ELSE <<[changes |-> Empty, bytes |-> 0]>>
  /\ UNCHANGED <<rows, scan>>

\* Mutant: the record that a staged one replaces is counted with it.
BytesWithStale(t, k, v) == t.bytes + Size(k, v)

\* The bytes staged once v is put at k, or k removed (v = <<>>).
BytesWith(t, k, v) ==
  t.bytes - (IF k \in DOMAIN t.changes THEN Size(k, t.changes[k]) ELSE 0) + Size(k, v)

Stageable(t, k, v) ==
  /\ Len(k) <= MaxKey /\ ((v = <<>>) \/ (v[1] <= MAX_BYTES_VALUE))
  /\ (k \in DOMAIN t.changes) \/ (Cardinality(DOMAIN t.changes) < MAX_TRANSACTION_KEYS - 2)
  /\ BytesWith(t, k, v) <= MAX_TRANSACTION_BYTES - MarkerBytes

\* stage; a refused record ends the closure and with it the transaction.
Stage(k, v) ==
  /\ ~Free
  /\ tx' = IF Stageable(tx[1], k, v)
           THEN <<[changes |-> Put(tx[1].changes, k, v), bytes |-> BytesWith(tx[1], k, v)]>>
           ELSE <<>>
  /\ UNCHANGED <<rows, batches, scan>>

\* The keys of the scanned table that a batch leaves, and their values.
Applied(changes) ==
  LET gone == {k \in DOMAIN changes : changes[k] = <<>>}
  IN [k \in (DOMAIN rows \cup DOMAIN changes) \ gone |->
        IF k \in DOMAIN changes THEN changes[k][1] ELSE rows[k]]

\* The history of a scan under way: rows there all the time, rows ever there.
Noticed(s, after) ==
  IF s = <<>> THEN s
  ELSE <<[s[1] EXCEPT !.kept = @ \cap DOMAIN after, !.ever = @ \cup DOMAIN after]>>

\* The end of the closure: a batch without changes is not committed.
EndBatch(outcome) ==
  /\ ~Free
  /\ tx' = <<>>
  /\ IF tx[1].changes = Empty THEN UNCHANGED <<rows, scan, failure>>
     ELSE /\ rows' = IF Written(outcome) THEN Applied(tx[1].changes) ELSE rows
          /\ scan' = Noticed(scan, rows')
          /\ failure' = Unknown(outcome)
  /\ UNCHANGED <<batches, poisoned>>

PanicBatch ==
  /\ ~Free
  /\ tx' = <<>> /\ poisoned' = TRUE
  /\ UNCHANGED <<rows, batches, scan, failure>>

-----------------------------------------------------------------------------
(* Scans *)

\* The order of byte strings: a proper prefix comes first.
Less(s, t) ==
  \/ \E i \in DOMAIN s \cap DOMAIN t : s[i] < t[i] /\ \A j \in 1..(i - 1) : s[j] = t[j]
  \/ Len(s) < Len(t) /\ \A j \in DOMAIN s : s[j] = t[j]

\* Mutant: the last byte is raised, whatever it is, and wraps.
upperWrapped(prefix) ==
  IF prefix = <<>> THEN <<>>
  ELSE <<[prefix EXCEPT ![Len(prefix)] = (@ + 1) % (MaxByte + 1)]>>

\* The first string after all that have the prefix; none after bytes that
\* are all the largest.
upper(prefix) ==
  LET raised == {i \in DOMAIN prefix : prefix[i] # MaxByte}
  IN IF raised = {} THEN <<>>
     ELSE <<[SubSeq(prefix, 1, Max(raised)) EXCEPT ![Max(raised)] = @ + 1]>>

\* scan_bounds, as the test of one key.
InBounds(k, after, prefix) ==
  /\ (upper(prefix) # <<>>) => Less(k, upper(prefix)[1])
  /\ IF after # <<>> /\ (prefix = <<>> \/ ~Less(after[1], prefix)) THEN Less(after[1], k)
     ELSE (prefix # <<>>) => ~Less(k, prefix)

\* A set of keys in their order: as many are before one as precede it.
InOrder(S) ==
  [i \in 1..Cardinality(S) |->
     CHOOSE k \in S : Cardinality({o \in S : Less(o, k)}) = i - 1]

RowBytes(k) == Len(k) + rows[k]

\* The bytes of the first n rows.
UsedBytes(all, n) == MapThenSumSet(LAMBDA i : RowBytes(all[i]), 1..n)

\* Engine::scan with push_row: rows in order while they fit.  A row that no
\* page can hold is an error, answered as <<>>; a page is <<keys>>.
page(after, prefix) ==
  LET all == InOrder({k \in DOMAIN rows : InBounds(k, after, prefix)})
      top == Min({Len(all), PageEntries})
      n   == Max({m \in 0..top : UsedBytes(all, m) <= PageBytes})
  IN IF n < top /\ RowBytes(all[n + 1]) > PageBytes THEN <<>> ELSE <<SubSeq(all, 1, n)>>

HasPrefix(k, prefix) == Len(k) >= Len(prefix) /\ SubSeq(k, 1, Len(prefix)) = prefix

ScanStart(prefix) ==
  /\ scan = <<>>
  /\ scan' = <<[prefix |-> prefix, after |-> <<>>, got |-> <<>>, done |-> FALSE,
                kept |-> DOMAIN rows, ever |-> DOMAIN rows]>>
  /\ UNCHANGED <<rows, tx, batches>>

\* One page, in a transaction of its own; an empty page is the end, and an
\* error ends the scan without a result.
ScanPage ==
  /\ scan # <<>> /\ ~scan[1].done /\ Free
  /\ LET s == scan[1]
         p == page(s.after, s.prefix)
     IN scan' = IF Refused \/ p = <<>> THEN <<>>
                ELSE IF p[1] = <<>> THEN <<[s EXCEPT !.done = TRUE]>>
                ELSE <<[s EXCEPT !.got = @ \o p[1], !.after = <<Last(p[1])>>]>>
  /\ UNCHANGED <<rows, tx, batches>>

ScanEnd ==
  /\ scan # <<>> /\ scan[1].done
  /\ scan' = <<>>
  /\ UNCHANGED <<rows, tx, batches>>

-----------------------------------------------------------------------------

Init ==
  /\ scenario \in Scenarios
  /\ locks = Empty /\ asking = <<>> /\ guard = Empty /\ broken = {}
  /\ pc = [a \in Apps |-> "idle"] /\ ns = [a \in Apps |-> CHOOSE n \in Serves[a] : TRUE]
  /\ arc = [a \in Apps |-> 0] /\ seen = [a \in Apps |-> 0]
  /\ rounds = Rounds
  /\ counter = [n \in Namespaces |-> 0] /\ acked = counter /\ unsure = counter
  /\ rows = Empty /\ tx = <<>> /\ batches = MaxBatches /\ scan = <<>>
  /\ failure = FALSE /\ poisoned = FALSE /\ restarts = 0

\* The process ends, anywhere, and another opens the database.
Restart ==
  /\ restarts < MaxRestarts /\ restarts' = restarts + 1
  /\ locks' = Empty /\ asking' = <<>> /\ guard' = Empty /\ broken' = {}
  /\ pc' = [a \in Apps |-> "idle"] /\ arc' = [a \in Apps |-> 0]
  /\ tx' = <<>> /\ scan' = <<>> /\ failure' = FALSE /\ poisoned' = FALSE
  /\ UNCHANGED <<scenario, ns, seen, rounds, counter, acked, unsure, rows, batches>>

\* Calls that touch no transaction, and calls that do.
AppCall(a) ==
  /\ (\E n \in Serves[a] : Ask(a, n)) \/ Grant(a) \/ Lock(a) \/ Unlock(a) \/ Drop(a) \/ Again(a)
  /\ UNCHANGED <<failure, poisoned>>

AppTransaction(a) ==
  \/ Read(a)
  \/ \E o \in Outcomes : Write(a, o)
  \/ \E inside \in BOOLEAN : Panic(a, inside)

App(a) ==
  /\ "apps" \in scenario
  /\ AppCall(a) \/ AppTransaction(a)
  /\ UNCHANGED <<scenario, rowVars, restarts>>

Writer ==
  /\ "writer" \in scenario
  /\ \/ Begin /\ UNCHANGED <<failure, poisoned>>
     \/ /\ \E k \in Keys : \E v \in {<<>>} \cup {<<x>> : x \in Values} : Stage(k, v)
        /\ UNCHANGED <<failure, poisoned>>
     \/ \E o \in Outcomes : EndBatch(o)
     \/ PanicBatch
  /\ UNCHANGED <<scenario, appVars, restarts>>

Reader ==
  /\ "reader" \in scenario
  /\ (\E prefix \in ScanPrefixes : ScanStart(prefix)) \/ ScanPage \/ ScanEnd
  /\ UNCHANGED <<scenario, appVars, failure, poisoned, restarts>>

Next == (\E a \in Apps : App(a)) \/ Writer \/ Reader \/ Restart

Spec == Init /\ [][Next]_vars

-----------------------------------------------------------------------------
(* Properties *)

\* Coordination: an increment computed from a read in one transaction and
\* written in another is never lost to a second thread of the same
\* namespace, through releases and expiries of locks, panics, failed commits
\* and restarts: the counter row is what was acknowledged, plus some of the
\* commits that ended unknown.
NoLostUpdate ==
  \A n \in Namespaces : counter[n] \in acked[n]..(acked[n] + unsure[n])

\* Pages of a scan put together: strictly ascending, of the prefix, of rows
\* that were there during the scan; and once it is done, every row of the
\* prefix that was there throughout, whatever the writer committed between
\* two pages.
ScanExact ==
  scan # <<>> =>
    LET s == scan[1] IN
    /\ \A i \in 1..(Len(s.got) - 1) : Less(s.got[i], s.got[i + 1])
    /\ \A i \in DOMAIN s.got : HasPrefix(s.got[i], s.prefix) /\ s.got[i] \in s.ever
    /\ s.done => {k \in s.kept : HasPrefix(k, s.prefix)} \subseteq ToSet(s.got)

\* The bytes of a batch.
StagedBytes(changes) == MapThenSumSet(LAMBDA k : Size(k, changes[k]), DOMAIN changes)

\* What stage admits fits the transaction with both of its markers, and its
\* byte count is that of what is staged, however often a key is staged again.
BatchFits ==
  tx # <<>> =>
    LET t == tx[1] IN
    /\ t.bytes = StagedBytes(t.changes)
    /\ t.bytes + MarkerBytes <= MAX_TRANSACTION_BYTES \/ t.changes = Empty
    /\ Cardinality(DOMAIN t.changes) + 2 <= MAX_TRANSACTION_KEYS \/ t.changes = Empty
=============================================================================
