------------------------- MODULE DatabaseTrieProofs -------------------------
(***************************************************************************)
(* The database: its owner (DatabaseOwner) and the import that creates it  *)
(* (Import, instantiated as Imp on the variables of ImportState); and,     *)
(* from "The trie" on, the trie that commits a dimension (Trie).           *)
(*                                                                         *)
(* NoLostUpdate holds for any number of threads, namespaces, locks, rounds *)
(* and restarts.  It is not inductive by itself: that a thread writes what *)
(* it read plus one is safe only while nobody else of the namespace is     *)
(* between its read and its write, which is what the lock is for.          *)
(* ScanExact needs, besides the order of byte strings, that no row up to   *)
(* the last key handed out is missing.                                     *)
(***************************************************************************)
EXTENDS DatabaseOwner, ImportState, Trie, FoldTheorems, TLAPS

Types ==
  /\ pc = [a \in Apps |-> pc[a]]
  /\ ns \in [Apps -> Namespaces]
  /\ arc = [a \in Apps |-> arc[a]]
  /\ seen \in [Apps -> Nat]
  /\ counter \in [Namespaces -> Nat]
  /\ acked \in [Namespaces -> Nat]
  /\ unsure \in [Namespaces -> Nat]

\* A thread has an Arc from Grant to Drop, and asks without one.
ArcHeld ==
  \A a \in Apps :
    /\ pc[a] \in {"lock", "read", "write", "unlock", "drop"} => arc[a] # 0
    /\ pc[a] \in {"idle", "asking"} => arc[a] = 0
    /\ asking = <<a>> => pc[a] = "asking"

\* Whoever has an Arc has the one that the map answers for the namespace.
ArcMapped ==
  /\ \A a \in Apps : arc[a] # 0 => ns[a] \in DOMAIN locks /\ locks[ns[a]] = arc[a]
  /\ \A n \in DOMAIN locks : locks[n] # 0

\* Between Lock and Unlock the guard is the thread's own.
GuardOwn ==
  \A a \in Apps :
    pc[a] \in {"read", "write", "unlock"} => arc[a] \in DOMAIN guard /\ guard[arc[a]] = a

\* What was read is current until it is written.
ReadCurrent == \A a \in Apps : pc[a] = "write" => seen[a] = counter[ns[a]]

\* The inductive invariant.
Coordinated == Types /\ ArcHeld /\ ArcMapped /\ GuardOwn /\ ReadCurrent /\ NoLostUpdate

\* Two threads under the guard of one namespace are one thread.
LEMMA OneHolder ==
  ASSUME Coordinated, NEW a \in Apps, NEW b \in Apps, ns[a] = ns[b],
         pc[a] \in {"read", "write", "unlock"}, pc[b] \in {"read", "write", "unlock"}
  PROVE  a = b
<1>1. arc[a] # 0 /\ arc[b] # 0
  BY DEF Coordinated, ArcHeld
<1>2. arc[a] = arc[b]
  BY <1>1 DEF Coordinated, ArcMapped
<1> QED
  BY <1>2 DEF Coordinated, GuardOwn

LEMMA InitCoordinated ==
  ASSUME Init PROVE Coordinated
<1>1. Types
  <2>1. \A a \in Apps : (CHOOSE n \in Serves[a] : TRUE) \in Namespaces
    <3> TAKE a \in Apps
    <3>1. Serves[a] # {} /\ Serves[a] \subseteq Namespaces
      BY OwnerAssumption
    <3>2. \E n \in Serves[a] : TRUE
      BY <3>1
    <3>3. (CHOOSE n \in Serves[a] : TRUE) \in Serves[a]
      BY <3>2, Zenon
    <3> QED
      BY <3>1, <3>3
  <2> QED
    BY <2>1 DEF Init, Types
<1> QED
  BY <1>1 DEF Init, Empty, Coordinated, ArcHeld, ArcMapped, GuardOwn, ReadCurrent, NoLostUpdate

-----------------------------------------------------------------------------
(* One lemma per action *)

LEMMA AskKeeps ==
  ASSUME Coordinated, NEW a \in Apps, NEW n \in Serves[a], Ask(a, n)
  PROVE  Coordinated'
<1> USE DEF Coordinated
<1>1. n \in Namespaces
  BY OwnerAssumption
<1>2. Types'
  BY <1>1 DEF Types, Ask
<1>3. ArcHeld'
  BY DEF Types, ArcHeld, Ask
<1>4. ArcMapped'
  <2> SUFFICES ASSUME NEW b \in Apps, arc[b] # 0
               PROVE  ns'[b] \in DOMAIN locks' /\ locks'[ns'[b]] = arc[b]
    BY DEF ArcMapped, Ask, Retained
  <2>1. ns'[b] = ns[b]
    BY DEF Ask, ArcHeld, Types
  <2> QED
    BY <2>1 DEF Ask, ArcMapped, Retained, Live
<1>5. GuardOwn' /\ ReadCurrent' /\ NoLostUpdate'
  BY DEF Types, GuardOwn, ReadCurrent, NoLostUpdate, Ask
<1> QED
  BY <1>2, <1>3, <1>4, <1>5

LEMMA GrantKeeps ==
  ASSUME Coordinated, NEW a \in Apps, Grant(a)
  PROVE  Coordinated'
<1> USE DEF Coordinated
<1>1. asking = <<a>> /\ pc[a] = "asking" /\ arc[a] = 0
  BY DEF Grant, ArcHeld
<1>2. CASE ns[a] \in DOMAIN locks /\ Live(locks[ns[a]])
  <2>1. arc' = [arc EXCEPT ![a] = locks[ns[a]]] /\ locks' = locks
        /\ pc' = [pc EXCEPT ![a] = "lock"]
    BY <1>2 DEF Grant
  <2>2. locks[ns[a]] # 0
    BY <1>2 DEF Live, ArcMapped
  <2> QED
    <3>1. UNCHANGED <<ns, guard, seen, counter, acked, unsure>> /\ asking' = <<>>
      BY DEF Grant
    <3>2. Types' /\ ArcHeld'
      BY <1>1, <2>1, <2>2, <3>1 DEF Types, ArcHeld
    <3>3. ArcMapped'
      BY <1>1, <1>2, <2>1, <3>1 DEF Types, ArcMapped
    <3>4. GuardOwn' /\ ReadCurrent' /\ NoLostUpdate'
      BY <1>1, <2>1, <3>1 DEF Types, GuardOwn, ReadCurrent, NoLostUpdate
    <3> QED
      BY <3>2, <3>3, <3>4
<1>3. CASE ~(ns[a] \in DOMAIN locks /\ Live(locks[ns[a]])) /\ NewLock(a)
  <2> PICK m \in Mutexes \ Known :
        /\ arc' = [arc EXCEPT ![a] = m] /\ locks' = Put(locks, ns[a], m)
        /\ pc' = [pc EXCEPT ![a] = "lock"]
    BY <1>3 DEF NewLock
  <2>1. m # 0
    BY OwnerAssumption
  <2>2. \A b \in Apps : arc[b] # 0 => ns[b] # ns[a]
    BY <1>3 DEF ArcMapped, Live
  <2>3. /\ DOMAIN locks' = DOMAIN locks \cup {ns[a]} /\ locks'[ns[a]] = m
        /\ \A n \in DOMAIN locks : n # ns[a] => locks'[n] = locks[n]
    BY DEF Put
  <2>4. ns' = ns
    BY DEF Grant
  <2>5. ArcMapped'
    BY <1>1, <2>1, <2>2, <2>3, <2>4 DEF Types, ArcMapped
  <2> QED
    BY <1>1, <2>1, <2>5
    DEF Types, ArcHeld, GuardOwn, ReadCurrent, NoLostUpdate, Grant
<1>4. CASE pc' = [pc EXCEPT ![a] = "idle"] /\ UNCHANGED <<arc, locks, broken>>
  BY <1>1, <1>4 DEF Types, ArcHeld, ArcMapped, GuardOwn, ReadCurrent, NoLostUpdate, Grant
<1> QED
  BY <1>2, <1>3, <1>4 DEF Grant

LEMMA LockKeeps ==
  ASSUME Coordinated, NEW a \in Apps, Lock(a)
  PROVE  Coordinated'
<1> USE DEF Coordinated
<1>1. Types' /\ ArcHeld' /\ ArcMapped' /\ ReadCurrent' /\ NoLostUpdate'
  BY DEF Types, ArcHeld, ArcMapped, ReadCurrent, NoLostUpdate, Lock
<1>2. GuardOwn'
  <2>1. CASE arc[a] \in broken
    BY <2>1 DEF Types, GuardOwn, Lock
  <2>2. CASE arc[a] \notin broken
    <3>1. /\ DOMAIN guard' = DOMAIN guard \cup {arc[a]} /\ guard'[arc[a]] = a
          /\ \A x \in DOMAIN guard : x # arc[a] => guard'[x] = guard[x]
      BY <2>2 DEF Lock, Put
    <3>2. arc[a] \notin DOMAIN guard /\ arc' = arc /\ pc' = [pc EXCEPT ![a] = "read"]
      BY <2>2 DEF Lock
    <3> QED
      BY <3>1, <3>2 DEF Types, GuardOwn
  <2> QED
    BY <2>1, <2>2
<1> QED
  BY <1>1, <1>2

LEMMA ReadKeeps ==
  ASSUME Coordinated, NEW a \in Apps, Read(a)
  PROVE  Coordinated'
<1> USE DEF Coordinated
<1>1. CASE Refused
  BY <1>1 DEF Read, Types, ArcHeld, ArcMapped, GuardOwn, ReadCurrent, NoLostUpdate
<1>2. CASE ~Refused
  <2>1. pc[a] = "read" /\ seen' = [seen EXCEPT ![a] = counter[ns[a]]]
        /\ pc' = [pc EXCEPT ![a] = "write"]
    BY <1>2 DEF Read
  <2>2. UNCHANGED <<locks, asking, ns, arc, guard, counter, acked, unsure>>
    BY DEF Read
  <2>3. Types'
    BY <2>1, <2>2 DEF Types
  <2>4. ReadCurrent'
    BY <2>1, <2>2 DEF Types, ReadCurrent
  <2> QED
    BY <2>1, <2>2, <2>3, <2>4 DEF Types, ArcHeld, ArcMapped, GuardOwn, NoLostUpdate
<1> QED
  BY <1>1, <1>2

\* The write: what is read is current, so the counter goes up by one and so
\* does one of the two histories, unless nothing was written.
LEMMA WriteKeeps ==
  ASSUME Coordinated, NEW a \in Apps, NEW o \in Outcomes, Write(a, o)
  PROVE  Coordinated'
<1> USE DEF Coordinated
<1>1. pc[a] = "write" /\ pc' = [pc EXCEPT ![a] = "unlock"]
  BY DEF Write
<1>2. UNCHANGED <<locks, asking, ns, arc, guard, seen>>
  BY DEF Write
<1>3. ArcHeld' /\ ArcMapped' /\ GuardOwn'
  BY <1>1, <1>2 DEF Types, ArcHeld, ArcMapped, GuardOwn
<1>4. CASE Refused
  BY <1>1, <1>2, <1>3, <1>4 DEF Write, Types, ReadCurrent, NoLostUpdate
<1>5. CASE ~Refused
  <2>1. ns[a] \in Namespaces /\ seen[a] = counter[ns[a]] /\ seen[a] \in Nat
    BY <1>1 DEF Types, ReadCurrent
  <2>2. counter' = (IF Written(o) THEN [counter EXCEPT ![ns[a]] = seen[a] + 1] ELSE counter)
        /\ acked' = (IF o = "ok" THEN [acked EXCEPT ![ns[a]] = @ + 1] ELSE acked)
        /\ unsure' = (IF Unknown(o) THEN [unsure EXCEPT ![ns[a]] = @ + 1] ELSE unsure)
    BY <1>5 DEF Write
  <2>3. Types'
    <3>1. counter' \in [Namespaces -> Nat]
      BY <2>1, <2>2 DEF Types
    <3>2. acked' \in [Namespaces -> Nat]
      BY <2>1, <2>2 DEF Types
    <3>3. unsure' \in [Namespaces -> Nat]
      BY <2>1, <2>2 DEF Types
    <3> QED
      BY <1>1, <1>2, <3>1, <3>2, <3>3 DEF Types
  <2>4. ReadCurrent'
    <3> SUFFICES ASSUME NEW b \in Apps, pc'[b] = "write" PROVE seen[b] = counter'[ns[b]]
      BY <1>2 DEF ReadCurrent
    <3>1. b # a /\ pc[b] = "write"
      BY <1>1 DEF Types
    <3>2. ns[b] # ns[a]
      BY <1>1, <3>1, OneHolder
    <3> QED
      BY <2>2, <3>1, <3>2 DEF Types, ReadCurrent
  <2>5. NoLostUpdate'
    <3> SUFFICES ASSUME NEW n \in Namespaces
                 PROVE  counter'[n] \in acked'[n]..(acked'[n] + unsure'[n])
      BY DEF NoLostUpdate
    <3>1. counter[n] \in Nat /\ acked[n] \in Nat /\ unsure[n] \in Nat
          /\ counter[n] >= acked[n] /\ counter[n] <= acked[n] + unsure[n]
      BY DEF Types, NoLostUpdate
    <3>2. CASE n # ns[a]
      BY <2>2, <3>1, <3>2 DEF Types
    <3>3. CASE n = ns[a]
      <4>1. CASE o = "ok"
        BY <2>1, <2>2, <3>1, <3>3, <4>1 DEF Types, Written, Unknown
      <4>2. CASE o = "failed"
        BY <2>1, <2>2, <3>1, <3>3, <4>2 DEF Types, Written, Unknown
      <4>3. CASE o = "unknown_done"
        BY <2>1, <2>2, <3>1, <3>3, <4>3 DEF Types, Written, Unknown
      <4>4. CASE o = "unknown_lost"
        BY <2>1, <2>2, <3>1, <3>3, <4>4 DEF Types, Written, Unknown
      <4> QED
        BY <4>1, <4>2, <4>3, <4>4 DEF Outcomes
    <3> QED
      BY <3>2, <3>3
  <2> QED
    BY <1>3, <2>3, <2>4, <2>5
<1> QED
  BY <1>4, <1>5

\* Unlock and a panic give back a guard that is the thread's own.
LEMMA ReleaseKeeps ==
  ASSUME Coordinated, NEW a \in Apps, Unlock(a) \/ \E inside \in BOOLEAN : Panic(a, inside)
  PROVE  Coordinated'
<1> USE DEF Coordinated
<1>1. pc[a] \in {"read", "write", "unlock"}
  BY DEF Unlock, Panic
<1>2. guard' = Del(guard, arc[a]) /\ UNCHANGED <<locks, asking, ns, seen, counter, acked, unsure>>
  BY DEF Unlock, Panic
<1>3. \/ pc' = [pc EXCEPT ![a] = "drop"] /\ arc' = arc
      \/ pc' = [pc EXCEPT ![a] = "idle"] /\ arc' = [arc EXCEPT ![a] = 0]
  BY DEF Unlock, Panic
<1>4. Types' /\ ArcHeld' /\ ArcMapped' /\ ReadCurrent' /\ NoLostUpdate'
  BY <1>1, <1>2, <1>3 DEF Types, ArcHeld, ArcMapped, ReadCurrent, NoLostUpdate
<1>5. GuardOwn'
  <2> SUFFICES ASSUME NEW b \in Apps, pc'[b] \in {"read", "write", "unlock"}
               PROVE  arc'[b] \in DOMAIN guard' /\ guard'[arc'[b]] = b
    BY DEF GuardOwn
  <2>1. b # a /\ pc[b] \in {"read", "write", "unlock"} /\ arc'[b] = arc[b]
    BY <1>3 DEF Types
  <2>2. arc[b] # arc[a] /\ arc[b] \in DOMAIN guard /\ guard[arc[b]] = b
    BY <1>1, <2>1 DEF GuardOwn
  <2>3. DOMAIN guard' = DOMAIN guard \ {arc[a]}
        /\ \A x \in DOMAIN guard : x # arc[a] => guard'[x] = guard[x]
    BY <1>2 DEF Del
  <2> QED
    BY <2>1, <2>2, <2>3
<1> QED
  BY <1>4, <1>5

LEMMA DropKeeps ==
  ASSUME Coordinated, NEW a \in Apps, Drop(a) \/ Again(a)
  PROVE  Coordinated'
<1> USE DEF Coordinated
<1>1. CASE Drop(a)
  BY <1>1 DEF Drop, Types, ArcHeld, ArcMapped, GuardOwn, ReadCurrent, NoLostUpdate
<1>2. CASE Again(a)
  BY <1>2 DEF Again, Types, ArcHeld, ArcMapped, GuardOwn, ReadCurrent, NoLostUpdate
<1> QED
  BY <1>1, <1>2

LEMMA RestartKeeps ==
  ASSUME Coordinated, Restart
  PROVE  Coordinated'
<1> USE DEF Coordinated
<1>1. Types' /\ ArcHeld'
  BY DEF Restart, Types, ArcHeld
<1>2. ArcMapped'
  BY DEF Restart, Empty, ArcMapped
<1>3. GuardOwn' /\ ReadCurrent' /\ NoLostUpdate'
  BY DEF Restart, GuardOwn, ReadCurrent, NoLostUpdate
<1> QED
  BY <1>1, <1>2, <1>3

-----------------------------------------------------------------------------

LEMMA NextCoordinated ==
  ASSUME Coordinated, [Next]_vars
  PROVE  Coordinated'
<1>1. CASE UNCHANGED appVars
  BY <1>1
  DEF Coordinated, appVars, Types, ArcHeld, ArcMapped, GuardOwn, ReadCurrent, NoLostUpdate
<1>2. CASE \E a \in Apps : App(a)
  <2> PICK a \in Apps : AppCall(a) \/ AppTransaction(a)
    BY <1>2 DEF App
  <2>1. CASE AppCall(a)
    BY <2>1, AskKeeps, GrantKeeps, LockKeeps, ReleaseKeeps, DropKeeps DEF AppCall
  <2>2. CASE AppTransaction(a)
    BY <2>2, ReadKeeps, WriteKeeps, ReleaseKeeps DEF AppTransaction
  <2> QED
    BY <2>1, <2>2
<1>3. CASE Restart
  BY <1>3, RestartKeeps
<1> QED
  BY <1>1, <1>2, <1>3 DEF Next, Writer, Reader, vars

\* The coordination lock does what specs/application-coordination.md asks of
\* it: no increment that spans two transactions is lost.
THEOREM NoUpdateLost == Spec => []NoLostUpdate
<1>1. Init => Coordinated
  BY InitCoordinated
<1>2. Coordinated /\ [Next]_vars => Coordinated'
  BY NextCoordinated
<1>3. Coordinated => NoLostUpdate
  BY DEF Coordinated
<1> QED
  BY <1>1, <1>2, <1>3, PTL DEF Spec

-----------------------------------------------------------------------------
(* Staging.  What a transaction holds is finite and well formed, and its   *)
(* byte count is a sum over its keys.                                      *)

Staged == {<<>>} \cup {<<x>> : x \in Values}

IsBatch(f) ==
  /\ f = [k \in DOMAIN f |-> f[k]] /\ IsFiniteSet(DOMAIN f)
  /\ \A k \in DOMAIN f : k \in Keys /\ f[k] \in Staged

\* The inductive invariant: BatchFits of a batch that is one.
BatchSound ==
  tx # <<>> =>
    \E t : /\ tx = <<t>> /\ IsBatch(t.changes) /\ t.bytes \in Int
           /\ t.bytes = StagedBytes(t.changes)
           /\ t.bytes + MarkerBytes <= MAX_TRANSACTION_BYTES \/ t.changes = Empty
           /\ Cardinality(DOMAIN t.changes) + 2 <= MAX_TRANSACTION_KEYS \/ t.changes = Empty

Weights(f) == [k \in DOMAIN f |-> Size(k, f[k])]

LEMMA SizeType ==
  ASSUME NEW k \in Keys, NEW v \in Staged PROVE Size(k, v) \in Nat
<1>1. Len(k) \in Nat
  BY OwnerAssumption
<1>2. CASE v = <<>>
  BY <1>1, <1>2 DEF Size
<1>3. CASE v # <<>>
  <2>1. v[1] \in Nat
    BY <1>3, OwnerAssumption DEF Staged
  <2> QED BY <1>1, <1>3, <2>1 DEF Size
<1> QED BY <1>2, <1>3

LEMMA BytesSummed ==
  ASSUME NEW f, IsBatch(f)
  PROVE  /\ \A k \in DOMAIN f : Weights(f)[k] = Size(k, f[k]) /\ Weights(f)[k] \in Int
         /\ \E g : IsSum(g, Weights(f), DOMAIN f) /\ StagedBytes(f) = g[DOMAIN f]
<1> DEFINE w == Weights(f)
           S == DOMAIN f
           P(g) == g = [s \in SUBSET S |->
                          IF s = {} THEN 0
                          ELSE Size(CHOOSE x \in s : TRUE, f[CHOOSE x \in s : TRUE])
                               + g[s \ {CHOOSE x \in s : TRUE}]]
<1>1. \A k \in S : w[k] = Size(k, f[k]) /\ w[k] \in Int
  BY SizeType DEF IsBatch, Weights
<1>2. ASSUME NEW g PROVE P(g) <=> IsSum(g, w, S)
  <2>1. \A s \in SUBSET S : s # {} => w[Pick(s)] = Size(Pick(s), f[Pick(s)])
    BY <1>1, PickIn
  <2> HIDE DEF w
  <2> QED BY <2>1 DEF IsSum, SumAt, Pick
<1>3. \E g : P(g)
  <2>1. PICK g : IsSum(g, w, S)
    <3> HIDE DEF w
    <3> QED BY <1>1, SumExists DEF IsBatch
  <2> HIDE DEF P
  <2> QED BY <1>2, <2>1
<1> DEFINE iter == CHOOSE g : P(g)
<1>4. P(iter)
  BY <1>3, Zenon
<1>5. StagedBytes(f) = iter[S]
  BY Zenon DEF StagedBytes, MapThenSumSet, MapThenFoldSet
<1> HIDE DEF P, iter, w
<1> QED BY <1>1, <1>2, <1>4, <1>5 DEF w

\* What stage adds to the count is what it adds to the batch.
LEMMA StagedAgain ==
  ASSUME NEW f, IsBatch(f), NEW k \in Keys, NEW v \in Staged
  PROVE  /\ IsBatch(Put(f, k, v)) /\ StagedBytes(f) \in Int
         /\ StagedBytes(Put(f, k, v)) =
              StagedBytes(f) - (IF k \in DOMAIN f THEN Size(k, f[k]) ELSE 0) + Size(k, v)
<1> DEFINE p == Put(f, k, v)
           S == DOMAIN f
           R == DOMAIN p
<1>1. /\ R = S \cup {k} /\ p[k] = v /\ (\A y \in S : y # k => p[y] = f[y])
      /\ p = [y \in DOMAIN p |-> p[y]]
  BY DEF Put
<1> HIDE DEF p
<1>2. IsFiniteSet(S) /\ IsFiniteSet(R)
  BY <1>1, FS_AddElement DEF IsBatch
<1>3. IsBatch(p)
  BY <1>1, <1>2 DEF IsBatch
<1> DEFINE x == Weights(f)
           w == Weights(p)
<1>4. PICK g : IsSum(g, x, S) /\ StagedBytes(f) = g[S]
  BY BytesSummed
<1>5. PICK h : IsSum(h, w, R) /\ StagedBytes(p) = h[R]
  BY <1>3, BytesSummed
<1>6. /\ \A y \in S : x[y] = Size(y, f[y]) /\ x[y] \in Int
      /\ \A y \in R : w[y] = Size(y, p[y]) /\ w[y] \in Int
  BY <1>3, BytesSummed
<1> HIDE DEF S, R, x, w
<1>7. \A y \in S : y # k => x[y] = w[y]
  BY <1>1, <1>6
<1>8. g[S] \in Int /\ h[R] = g[S] - (IF k \in S THEN x[k] ELSE 0) + w[k]
  BY <1>1, <1>2, <1>4, <1>5, <1>6, <1>7, SumPut
<1>9. w[k] = Size(k, v) /\ (k \in S => x[k] = Size(k, f[k]))
  BY <1>1, <1>6
<1>10. StagedBytes(p) = StagedBytes(f) - (IF k \in S THEN Size(k, f[k]) ELSE 0) + Size(k, v)
  <2>1. CASE k \in S
    BY <1>4, <1>5, <1>8, <1>9, <2>1
  <2>2. CASE k \notin S
    BY <1>4, <1>5, <1>8, <1>9, <2>2
  <2> QED BY <2>1, <2>2
<1> QED BY <1>3, <1>4, <1>8, <1>10 DEF p, S

LEMMA EmptyBatch == IsBatch(Empty) /\ StagedBytes(Empty) = 0
<1>1. IsBatch(Empty) /\ DOMAIN Empty = {}
  BY FS_EmptySet DEF IsBatch, Empty
<1> DEFINE w == Weights(Empty)
<1>2. PICK g : IsSum(g, w, DOMAIN Empty) /\ StagedBytes(Empty) = g[DOMAIN Empty]
  BY <1>1, BytesSummed
<1> HIDE DEF w
<1>3. g = [s \in SUBSET {} |-> SumAt(g, w, s)] /\ StagedBytes(Empty) = g[{}]
  BY <1>1, <1>2 DEF IsSum
<1>4. SumAt(g, w, {}) = 0
  BY DEF SumAt
<1> QED BY <1>1, <1>3, <1>4

LEMMA StageSound ==
  ASSUME BatchSound, NEW k \in Keys, NEW v \in Staged, Stage(k, v)
  PROVE  BatchSound'
<1>1. PICK t : /\ tx = <<t>> /\ IsBatch(t.changes) /\ t.bytes \in Int
               /\ t.bytes = StagedBytes(t.changes)
               /\ t.bytes + MarkerBytes <= MAX_TRANSACTION_BYTES \/ t.changes = Empty
               /\ Cardinality(DOMAIN t.changes) + 2 <= MAX_TRANSACTION_KEYS \/ t.changes = Empty
  BY DEF BatchSound, Stage, Free
<1>2. tx[1] = t
  BY <1>1
<1>3. CASE ~Stageable(t, k, v)
  BY <1>2, <1>3 DEF Stage, BatchSound
<1>4. CASE Stageable(t, k, v)
  <2> DEFINE p == Put(t.changes, k, v)
             n == BytesWith(t, k, v)
             u == [changes |-> p, bytes |-> n]
  <2>1. tx' = <<u>>
    BY <1>2, <1>4 DEF Stage
  <2>2. IsBatch(p) /\ StagedBytes(p) = n /\ n \in Int
    <3>1. Size(k, v) \in Int /\ (k \in DOMAIN t.changes => Size(k, t.changes[k]) \in Int)
      BY <1>1, SizeType DEF IsBatch
    <3>2. /\ IsBatch(p) /\ StagedBytes(t.changes) \in Int
          /\ StagedBytes(p) = StagedBytes(t.changes)
               - (IF k \in DOMAIN t.changes THEN Size(k, t.changes[k]) ELSE 0) + Size(k, v)
      BY <1>1, StagedAgain
    <3> QED BY <1>1, <3>1, <3>2 DEF BytesWith
  <2>3. n + MarkerBytes <= MAX_TRANSACTION_BYTES
    BY <1>4, <2>2, OwnerAssumption DEF Stageable
  <2>4. Cardinality(DOMAIN p) + 2 <= MAX_TRANSACTION_KEYS
    <3>1. DOMAIN p = DOMAIN t.changes \cup {k} /\ IsFiniteSet(DOMAIN t.changes)
      BY <1>1 DEF Put, IsBatch
    <3>2. CASE k \in DOMAIN t.changes
      <4>1. DOMAIN p = DOMAIN t.changes
        BY <3>1, <3>2
      <4>2. t.changes # Empty
        BY <3>2 DEF Empty
      <4> QED BY <1>1, <4>1, <4>2, Zenon
    <3>3. CASE k \notin DOMAIN t.changes
      <4> DEFINE D == DOMAIN t.changes
      <4>1. Cardinality(D \cup {k}) = Cardinality(D) + 1 /\ Cardinality(D) \in Nat
        <5> HIDE DEF D
        <5> QED BY <3>1, <3>3, FS_AddElement, FS_CardinalityType DEF D
      <4>2. Cardinality(D) < MAX_TRANSACTION_KEYS - 2
        BY <1>4, <3>3 DEF Stageable
      <4>3. Cardinality(DOMAIN p) = Cardinality(D) + 1
        BY <3>1, <4>1, Zenon
      <4> QED BY <4>1, <4>2, <4>3, OwnerAssumption
    <3> QED BY <3>2, <3>3
  <2>5. u.changes = p /\ u.bytes = n
    OBVIOUS
  <2> HIDE DEF p, n, u
  <2> QED BY <2>1, <2>2, <2>3, <2>4, <2>5 DEF BatchSound
<1> QED BY <1>3, <1>4

LEMMA BatchNext == ASSUME BatchSound, [Next]_vars PROVE BatchSound'
<1>1. CASE UNCHANGED tx
  BY <1>1 DEF BatchSound
<1>2. CASE tx' = <<>>
  BY <1>2 DEF BatchSound
<1>3. CASE tx' = <<[changes |-> Empty, bytes |-> 0]>>
  <2> DEFINE t == [changes |-> Empty, bytes |-> 0]
  <2>1. t.changes = Empty /\ t.bytes = 0 /\ tx' = <<t>>
    BY <1>3
  <2> HIDE DEF t
  <2> QED BY <2>1, EmptyBatch DEF BatchSound
<1>4. CASE \E k \in Keys : \E v \in {<<>>} \cup {<<x>> : x \in Values} : Stage(k, v)
  BY <1>4, StageSound DEF Staged
<1>5. CASE Writer
  BY <1>1, <1>2, <1>3, <1>4, <1>5 DEF Writer, Begin, EndBatch, PanicBatch
<1>6. CASE Reader
  BY <1>1, <1>6 DEF Reader, ScanStart, ScanPage, ScanEnd
<1>7. CASE \E a \in Apps : App(a)
  BY <1>1, <1>7 DEF App, rowVars
<1> QED BY <1>1, <1>2, <1>5, <1>6, <1>7 DEF Next, Restart, vars, rowVars

\* Whatever is staged, again and again, the count that stage compares with
\* MAX_TRANSACTION_BYTES is the size of the batch, which fits with its two
\* markers (transaction.rs).
THEOREM BatchesFit == Spec => []BatchFits
<1>1. Init => BatchSound
  BY DEF Init, BatchSound
<1>2. BatchSound /\ [Next]_vars => BatchSound'
  BY BatchNext
<1>3. BatchSound => BatchFits
  <2> SUFFICES ASSUME BatchSound, tx # <<>> PROVE BatchFits
    BY DEF BatchFits
  <2>1. PICK t : /\ tx = <<t>> /\ t.bytes = StagedBytes(t.changes)
                 /\ t.bytes + MarkerBytes <= MAX_TRANSACTION_BYTES \/ t.changes = Empty
                 /\ Cardinality(DOMAIN t.changes) + 2 <= MAX_TRANSACTION_KEYS \/ t.changes = Empty
    BY DEF BatchSound
  <2>2. tx[1] = t
    BY <2>1
  <2> QED BY <2>1, <2>2 DEF BatchFits
<1> QED
  BY <1>1, <1>2, <1>3, PTL DEF Spec

-----------------------------------------------------------------------------
(* Scans.  The order of byte strings is strict and total, the bounds of a  *)
(* scan are those of its prefix, and a page is a run of rows in order.     *)

ByteStrings == Seq(0..MaxByte)

LEMMA StringFacts ==
  ASSUME NEW s \in ByteStrings
  PROVE  /\ Len(s) \in Nat /\ DOMAIN s = 1..Len(s)
         /\ \A i \in DOMAIN s : s[i] \in Nat /\ s[i] <= MaxByte
<1>1. MaxByte \in Nat
  BY OwnerAssumption
<1> QED BY <1>1 DEF ByteStrings

LEMMA LessTransitive ==
  ASSUME NEW s \in ByteStrings, NEW t \in ByteStrings, NEW u \in ByteStrings, Less(s, t), Less(t, u)
  PROVE  Less(s, u)
<1>1. /\ Len(s) \in Nat /\ Len(t) \in Nat /\ Len(u) \in Nat
      /\ DOMAIN s = 1..Len(s) /\ DOMAIN t = 1..Len(t) /\ DOMAIN u = 1..Len(u)
      /\ \A i \in DOMAIN s : s[i] \in Nat
      /\ \A i \in DOMAIN t : t[i] \in Nat
      /\ \A i \in DOMAIN u : u[i] \in Nat
  BY StringFacts
<1>2. CASE \E i \in DOMAIN s \cap DOMAIN t : s[i] < t[i] /\ \A j \in 1..(i - 1) : s[j] = t[j]
  <2> PICK i \in DOMAIN s \cap DOMAIN t : s[i] < t[i] /\ \A j \in 1..(i - 1) : s[j] = t[j]
    BY <1>2
  <2>1. CASE \E k \in DOMAIN t \cap DOMAIN u : t[k] < u[k] /\ \A j \in 1..(k - 1) : t[j] = u[j]
    <3> PICK k \in DOMAIN t \cap DOMAIN u : t[k] < u[k] /\ \A j \in 1..(k - 1) : t[j] = u[j]
      BY <2>1
    <3>1. CASE i < k
      <4>1. i \in DOMAIN s \cap DOMAIN u /\ s[i] < u[i]
        BY <1>1, <3>1
      <4>2. \A j \in 1..(i - 1) : s[j] = u[j]
        BY <1>1, <3>1
      <4> QED BY <4>1, <4>2 DEF Less
    <3>2. CASE k <= i
      <4>1. k \in DOMAIN s \cap DOMAIN u
        BY <1>1, <3>2
      <4>2. s[k] < u[k]
        <5>1. CASE k = i
          BY <1>1, <5>1
        <5>2. CASE k # i
          BY <1>1, <3>2, <5>2
        <5> QED BY <5>1, <5>2
      <4>3. \A j \in 1..(k - 1) : s[j] = u[j]
        BY <1>1, <3>2
      <4> QED BY <4>1, <4>2, <4>3 DEF Less
    <3> QED BY <1>1, <3>1, <3>2
  <2>2. CASE Len(t) < Len(u) /\ \A j \in DOMAIN t : t[j] = u[j]
    <3>1. i \in DOMAIN s \cap DOMAIN u /\ s[i] < u[i]
      BY <1>1, <2>2
    <3>2. \A j \in 1..(i - 1) : s[j] = u[j]
      BY <1>1, <2>2
    <3> QED BY <3>1, <3>2 DEF Less
  <2> QED BY <2>1, <2>2 DEF Less
<1>3. CASE Len(s) < Len(t) /\ \A j \in DOMAIN s : s[j] = t[j]
  <2>1. CASE \E k \in DOMAIN t \cap DOMAIN u : t[k] < u[k] /\ \A j \in 1..(k - 1) : t[j] = u[j]
    <3> PICK k \in DOMAIN t \cap DOMAIN u : t[k] < u[k] /\ \A j \in 1..(k - 1) : t[j] = u[j]
      BY <2>1
    <3>1. CASE k <= Len(s)
      <4>1. k \in DOMAIN s \cap DOMAIN u /\ s[k] < u[k]
        BY <1>1, <1>3, <3>1
      <4>2. \A j \in 1..(k - 1) : s[j] = u[j]
        BY <1>1, <1>3, <3>1
      <4> QED BY <4>1, <4>2 DEF Less
    <3>2. CASE Len(s) < k
      <4>1. Len(s) < Len(u) /\ \A j \in DOMAIN s : s[j] = u[j]
        BY <1>1, <1>3, <3>2
      <4> QED BY <4>1 DEF Less
    <3> QED BY <1>1, <3>1, <3>2
  <2>2. CASE Len(t) < Len(u) /\ \A j \in DOMAIN t : t[j] = u[j]
    <3>1. Len(s) < Len(u) /\ \A j \in DOMAIN s : s[j] = u[j]
      BY <1>1, <1>3, <2>2
    <3> QED BY <3>1 DEF Less
  <2> QED BY <2>1, <2>2 DEF Less
<1> QED BY <1>2, <1>3 DEF Less

LEMMA LessStrict ==
  ASSUME NEW s \in ByteStrings PROVE ~Less(s, s)
<1>1. Len(s) \in Nat /\ \A i \in DOMAIN s : s[i] \in Nat
  BY StringFacts
<1> QED BY <1>1 DEF Less

LEMMA LessTotal ==
  ASSUME NEW s \in ByteStrings, NEW t \in ByteStrings PROVE s = t \/ Less(s, t) \/ Less(t, s)
<1>1. /\ Len(s) \in Nat /\ Len(t) \in Nat /\ DOMAIN s = 1..Len(s) /\ DOMAIN t = 1..Len(t)
      /\ \A i \in DOMAIN s : s[i] \in Nat
      /\ \A i \in DOMAIN t : t[i] \in Nat
  BY StringFacts
<1> DEFINE D == {i \in DOMAIN s \cap DOMAIN t : s[i] # t[i]}
<1>2. CASE D = {}
  <2>1. \A i \in DOMAIN s \cap DOMAIN t : s[i] = t[i]
    BY <1>2
  <2>2. CASE Len(s) < Len(t)
    BY <1>1, <2>1, <2>2 DEF Less
  <2>3. CASE Len(t) < Len(s)
    BY <1>1, <2>1, <2>3 DEF Less
  <2>4. CASE Len(s) = Len(t)
    <3>1. s = t
      BY <1>1, <2>1, <2>4 DEF ByteStrings
    <3> QED BY <3>1
  <2>5. \A m, n \in Nat : m < n \/ n < m \/ m = n
    OBVIOUS
  <2> QED BY <1>1, <2>2, <2>3, <2>4, <2>5, Zenon
<1>3. CASE D # {}
  <2>1. D \in SUBSET Nat
    BY <1>1
  <2>2. PICK i \in D : \A m \in D : i <= m
    <3> HIDE DEF D
    <3> QED BY <1>3, <2>1, LeastNatural
  <2>3. i \in DOMAIN s \cap DOMAIN t /\ s[i] # t[i]
    BY <2>2
  <2>4. ASSUME NEW j \in 1..(i - 1) PROVE s[j] = t[j] /\ t[j] = s[j]
    <3>1. j \in DOMAIN s \cap DOMAIN t /\ j < i
      BY <1>1, <2>3
    <3>2. j \notin D
      <4> HIDE DEF D
      <4> QED BY <1>1, <2>2, <2>3, <3>1
    <3> QED BY <3>1, <3>2
  <2>5. s[i] < t[i] \/ t[i] < s[i]
    BY <1>1, <2>3
  <2> QED BY <2>3, <2>4, <2>5 DEF Less
<1> QED BY <1>2, <1>3

LEMMA LessOneWay ==
  ASSUME NEW s \in ByteStrings, NEW t \in ByteStrings, Less(s, t) PROVE ~Less(t, s)
BY LessTransitive, LessStrict

-----------------------------------------------------------------------------
(* A set of keys in order *)

LEMMA InOrderExact ==
  ASSUME NEW S \in SUBSET ByteStrings, IsFiniteSet(S)
  PROVE  /\ InOrder(S) \in Seq(S) /\ Len(InOrder(S)) = Cardinality(S) /\ Cardinality(S) \in Nat
         /\ \A k \in S : \E i \in 1..Len(InOrder(S)) : InOrder(S)[i] = k
         /\ \A i, j \in 1..Len(InOrder(S)) : i < j => Less(InOrder(S)[i], InOrder(S)[j])
<1> DEFINE R == {z \in S \X S : Less(z[1], z[2])}
           q == InOrder(S)
<1>1. \A k, l \in S : <<k, l>> \in R <=> Less(k, l)
  OBVIOUS
<1>2. \A k \in S : Before(R, S, k) = {o \in S : Less(o, k)}
  BY <1>1 DEF Before
<1> HIDE DEF R
<1>3. Orders(R, S)
  BY <1>1, LessTransitive, LessStrict, LessTotal DEF Orders
<1>4. ASSUME NEW i \in 1..Cardinality(S), NEW k \in S, Cardinality(Before(R, S, k)) = i - 1
      PROVE  q[i] \in S /\ Cardinality(Before(R, S, q[i])) = i - 1
  <2>1. q[i] = CHOOSE l \in S : Cardinality({o \in S : Less(o, l)}) = i - 1
    BY DEF InOrder
  <2> HIDE DEF q
  <2>2. q[i] \in S /\ Cardinality({o \in S : Less(o, q[i])}) = i - 1
    BY <1>2, <1>4, <2>1
  <2> QED BY <1>2, <2>2
<1>5. IsVector(q, Cardinality(S))
  <2> DEFINE f(i) == CHOOSE k \in S : Cardinality({o \in S : Less(o, k)}) = i - 1
  <2>1. q = [i \in 1..Cardinality(S) |-> f(i)]
    BY DEF InOrder
  <2> HIDE DEF f, q
  <2> QED BY <2>1 DEF IsVector
<1> HIDE DEF q
<1>6. /\ q \in Seq(S) /\ Len(q) = Cardinality(S) /\ Cardinality(S) \in Nat
      /\ \A k \in S : \E i \in 1..Len(q) : q[i] = k
      /\ \A i, j \in 1..Len(q) : i < j => <<q[i], q[j]>> \in R
  BY <1>3, <1>4, <1>5, RankExact
<1>7. \A i \in 1..Len(q) : q[i] \in S
  BY <1>6
<1> QED BY <1>1, <1>6, <1>7 DEF q

-----------------------------------------------------------------------------
(* The bounds of a prefix *)

LEMMA UpperShape ==
  ASSUME NEW p \in ByteStrings
  PROVE  \/ upper(p) = <<>> /\ \A i \in DOMAIN p : p[i] = MaxByte
         \/ \E r \in DOMAIN p, u \in ByteStrings :
              /\ upper(p) = <<u>> /\ Len(u) = r /\ u[r] = p[r] + 1
              /\ \A j \in 1..(r - 1) : u[j] = p[j]
              /\ \A i \in DOMAIN p : i > r => p[i] = MaxByte
<1> DEFINE R == {i \in DOMAIN p : p[i] # MaxByte}
           r == Max(R)
           w == SubSeq(p, 1, r)
           u == [w EXCEPT ![r] = @ + 1]
<1>1. /\ Len(p) \in Nat /\ DOMAIN p = 1..Len(p) /\ MaxByte \in Nat
      /\ \A i \in DOMAIN p : p[i] \in Nat /\ p[i] <= MaxByte
  BY StringFacts, OwnerAssumption
<1>2. upper(p) = IF R = {} THEN <<>> ELSE <<u>>
  BY DEF upper
<1>3. CASE R = {}
  BY <1>2, <1>3
<1>4. CASE R # {}
  <2>1. R \in SUBSET (1..Len(p))
    BY <1>1
  <2> HIDE DEF R
  <2>2. r \in R /\ \A y \in R : y <= r
    BY <1>1, <1>4, <2>1, MaxIn
  <2>3. r \in DOMAIN p /\ p[r] # MaxByte
    BY <2>2 DEF R
  <2> HIDE DEF r
  <2>4. ASSUME NEW i \in DOMAIN p, i > r PROVE p[i] = MaxByte
    <3>1. CASE i \in R
      BY <1>1, <2>2, <2>3, <2>4, <3>1
    <3>2. CASE i \notin R
      BY <3>2 DEF R
    <3> QED BY <3>1, <3>2
  <2>5. w \in ByteStrings /\ Len(w) = r /\ \A j \in 1..r : w[j] = p[j]
    BY <1>1, <2>3 DEF ByteStrings
  <2> HIDE DEF w
  <2>6. DOMAIN w = 1..r /\ r \in 1..r
    BY <1>1, <2>3, <2>5, StringFacts
  <2>7. p[r] + 1 \in 0..MaxByte
    BY <1>1, <2>3
  <2>8. u \in ByteStrings /\ Len(u) = r
    BY <2>5, <2>6, <2>7 DEF ByteStrings
  <2>9. u[r] = p[r] + 1 /\ \A j \in 1..(r - 1) : u[j] = p[j]
    BY <1>1, <2>3, <2>5, <2>6
  <2> HIDE DEF u
  <2> QED BY <1>2, <1>4, <2>3, <2>4, <2>8, <2>9
<1> QED BY <1>3, <1>4

LEMMA PrefixFacts ==
  ASSUME NEW k \in ByteStrings, NEW p \in ByteStrings
  PROVE  HasPrefix(k, p) <=> Len(p) <= Len(k) /\ \A j \in DOMAIN p : k[j] = p[j]
<1>1. /\ Len(k) \in Nat /\ Len(p) \in Nat /\ DOMAIN k = 1..Len(k) /\ DOMAIN p = 1..Len(p)
  BY StringFacts
<1> DEFINE h == SubSeq(k, 1, Len(p))
<1>2. ASSUME Len(p) <= Len(k)
      PROVE  h \in ByteStrings /\ Len(h) = Len(p) /\ \A j \in 1..Len(p) : h[j] = k[j]
  <2> DEFINE m == Len(p)
             n == Len(k)
  <2>1. m \in Nat /\ n \in Nat /\ m <= n /\ DOMAIN k = 1..n /\ Len(k) = n
    BY <1>1, <1>2
  <2> HIDE DEF m, n
  <2>2. SubSeq(k, 1, m) \in ByteStrings /\ Len(SubSeq(k, 1, m)) = m
    <3> DEFINE B == 0..MaxByte
    <3>1. k \in Seq(B)
      BY DEF ByteStrings
    <3> HIDE DEF B
    <3>2. Len(SubSeq(k, 1, m)) = m
      BY <2>1, <3>1
    <3>3. SubSeq(k, 1, m) \in Seq(B)
      BY <2>1, <3>1
    <3> QED BY <3>2, <3>3 DEF B, ByteStrings
  <2>3. \A j \in 1..m : SubSeq(k, 1, m)[j] = k[j]
    BY <2>1 DEF ByteStrings
  <2> QED BY <2>2, <2>3 DEF m
<1>3. HasPrefix(k, p) <=> Len(p) <= Len(k) /\ h = p
  BY <1>1 DEF HasPrefix
<1> HIDE DEF h
<1>4. ASSUME Len(p) <= Len(k), \A j \in 1..Len(p) : k[j] = p[j] PROVE h = p
  <2>1. h \in ByteStrings /\ Len(h) = Len(p) /\ \A j \in 1..Len(p) : h[j] = p[j]
    BY <1>2, <1>4
  <2> QED BY <2>1, <1>1 DEF ByteStrings
<1> QED BY <1>1, <1>2, <1>3, <1>4

\* A string has the prefix exactly if it is neither before the prefix nor
\* past its upper bound.
LEMMA PrefixBounds ==
  ASSUME NEW k \in ByteStrings, NEW p \in ByteStrings
  PROVE  HasPrefix(k, p) <=> ~Less(k, p) /\ (upper(p) # <<>> => Less(k, upper(p)[1]))
<1>1. /\ Len(k) \in Nat /\ Len(p) \in Nat /\ DOMAIN k = 1..Len(k) /\ DOMAIN p = 1..Len(p)
      /\ \A i \in DOMAIN k : k[i] \in Nat /\ k[i] <= MaxByte
      /\ \A i \in DOMAIN p : p[i] \in Nat /\ p[i] <= MaxByte
      /\ MaxByte \in Nat
  BY StringFacts, OwnerAssumption
<1> DEFINE Up(r, u) ==
             /\ upper(p) = <<u>> /\ Len(u) = r /\ u[r] = p[r] + 1
             /\ \A j \in 1..(r - 1) : u[j] = p[j]
             /\ \A i \in DOMAIN p : i > r => p[i] = MaxByte
<1>2. \/ upper(p) = <<>> /\ \A i \in DOMAIN p : p[i] = MaxByte
      \/ \E r \in DOMAIN p, u \in ByteStrings : Up(r, u)
  BY UpperShape
<1>3. \A r, u : Up(r, u) => upper(p) # <<>> /\ upper(p)[1] = u
  OBVIOUS
<1>4. ASSUME HasPrefix(k, p)
      PROVE  ~Less(k, p) /\ (upper(p) # <<>> => Less(k, upper(p)[1]))
  <2>1. Len(p) <= Len(k) /\ \A j \in DOMAIN p : k[j] = p[j]
    BY <1>4, PrefixFacts
  <2>2. ~Less(k, p)
    BY <1>1, <2>1 DEF Less
  <2>3. ASSUME NEW r \in DOMAIN p, NEW u \in ByteStrings, Up(r, u) PROVE Less(k, u)
    <3>1. DOMAIN u = 1..r /\ r \in DOMAIN k \cap DOMAIN u
      BY <1>1, <2>1, <2>3, StringFacts
    <3>2. k[r] < u[r]
      BY <1>1, <2>1, <2>3
    <3>3. \A j \in 1..(r - 1) : k[j] = u[j]
      BY <1>1, <2>1, <2>3
    <3> QED BY <3>1, <3>2, <3>3 DEF Less
  <2> HIDE DEF Up
  <2> QED BY <1>2, <1>3, <2>2, <2>3
<1>5. ASSUME ~Less(k, p), upper(p) # <<>> => Less(k, upper(p)[1])
      PROVE  HasPrefix(k, p)
  <2>1. CASE k = p
    BY <1>1, <2>1, PrefixFacts
  <2>2. CASE Len(p) < Len(k) /\ \A j \in DOMAIN p : p[j] = k[j]
    <3>1. Len(p) <= Len(k)
      BY <1>1, <2>2
    <3> QED BY <2>2, <3>1, PrefixFacts
  <2>3. CASE \E i \in DOMAIN p \cap DOMAIN k : p[i] < k[i] /\ \A j \in 1..(i - 1) : p[j] = k[j]
    <3> PICK i \in DOMAIN p \cap DOMAIN k : p[i] < k[i] /\ \A j \in 1..(i - 1) : p[j] = k[j]
      BY <2>3
    <3>1. p[i] # MaxByte
      BY <1>1
    <3>2. PICK r \in DOMAIN p, u \in ByteStrings : Up(r, u)
      <4> HIDE DEF Up
      <4> QED BY <1>2, <3>1
    <3>3. i <= r
      BY <1>1, <3>1, <3>2
    <3>4. DOMAIN u = 1..r /\ Len(u) = r /\ r \in Nat /\ i \in Nat /\ u[r] \in Nat
      BY <1>1, <3>2, StringFacts
    <3>5. Less(k, u)
      BY <1>3, <1>5, <3>2
    <3>6. ASSUME u[i] < k[i] PROVE FALSE
      <4>1. i \in DOMAIN u \cap DOMAIN k /\ \A j \in 1..(i - 1) : u[j] = k[j]
        BY <1>1, <3>2, <3>3, <3>4
      <4>2. Less(u, k)
        BY <3>6, <4>1 DEF Less
      <4> QED BY <3>5, <4>2, LessOneWay
    <3>7. CASE i < r
      <4>1. u[i] = p[i]
        BY <1>1, <3>2, <3>4, <3>7, SMTT(30)
      <4> QED BY <3>6, <4>1
    <3>8. CASE i = r
      <4>1. u[i] = k[i]
        BY <1>1, <3>2, <3>4, <3>6, <3>8
      <4>2. \A j \in DOMAIN u : u[j] = k[j]
        BY <1>1, <3>2, <3>4, <3>8, <4>1
      <4>3. Len(u) <= Len(k) /\ \A j \in DOMAIN u : k[j] = u[j]
        BY <1>1, <3>4, <3>8, <4>2
      <4>4. ~Less(k, u)
        <5>1. Len(u) \in Nat /\ Len(k) \in Nat /\ \A j \in DOMAIN u : u[j] \in Nat
          BY <1>1, StringFacts
        <5> QED BY <4>3, <5>1 DEF Less
      <4> QED BY <3>5, <4>4
    <3> QED BY <3>3, <3>4, <3>7, <3>8
  <2> HIDE DEF Up
  <2>4. k = p \/ Less(p, k)
    BY <1>5, LessTotal
  <2> QED BY <2>1, <2>2, <2>3, <2>4 DEF Less
<1> QED BY <1>4, <1>5

\* What scan_bounds tests: the prefix, and that the last key is behind.
Ahead(after, k) == after = <<>> \/ Less(after[1], k)

LEMMA BoundsExact ==
  ASSUME NEW k \in ByteStrings, NEW p \in ByteStrings, NEW after,
         after = <<>> \/ \E a \in ByteStrings : after = <<a>> /\ HasPrefix(a, p)
  PROVE  InBounds(k, after, p) <=> HasPrefix(k, p) /\ Ahead(after, k)
<1>1. Len(k) \in Nat /\ Len(p) \in Nat /\ (p # <<>> \/ ~Less(k, p))
  <2>1. ~Less(k, <<>>)
    <3>1. DOMAIN <<>> = {} /\ Len(<<>>) = 0 /\ Len(k) \in Nat
      BY StringFacts
    <3> QED BY <3>1 DEF Less
  <2> QED BY <2>1, StringFacts
<1>2. CASE after = <<>>
  BY <1>1, <1>2, PrefixBounds DEF InBounds, Ahead
<1>3. CASE after # <<>>
  <2>1. PICK a \in ByteStrings : after = <<a>> /\ HasPrefix(a, p)
    BY <1>3
  <2>2. after[1] = a /\ ~Less(a, p)
    BY <2>1, PrefixBounds
  <2>3. InBounds(k, after, p) <=> (upper(p) # <<>> => Less(k, upper(p)[1])) /\ Less(a, k)
    BY <1>3, <2>2 DEF InBounds
  <2>4. Less(a, k) => ~Less(k, p)
    BY <2>2, LessTransitive
  <2>5. Ahead(after, k) <=> Less(a, k)
    BY <1>3, <2>2 DEF Ahead
  <2> QED BY <2>3, <2>4, <2>5, PrefixBounds
<1> QED BY <1>2, <1>3

-----------------------------------------------------------------------------
(* One page *)

\* The rows of the table, as far as a page depends on them.
Stored ==
  /\ IsFiniteSet(DOMAIN rows) /\ DOMAIN rows \subseteq Keys
  /\ \A k \in DOMAIN rows : rows[k] \in Nat

LEMMA RowBytesType == ASSUME Stored, NEW k \in DOMAIN rows PROVE RowBytes(k) \in Nat
<1>1. Len(k) \in Nat /\ rows[k] \in Nat
  BY OwnerAssumption DEF Stored
<1> QED BY <1>1 DEF RowBytes

LEMMA UsedSummed ==
  ASSUME Stored, NEW q, NEW n \in Nat, \A i \in 1..n : q[i] \in DOMAIN rows
  PROVE  LET w == [i \in 1..n |-> RowBytes(q[i])]
         IN  /\ \A i \in 1..n : w[i] = RowBytes(q[i]) /\ w[i] \in Nat
             /\ \E g : IsSum(g, w, 1..n) /\ UsedBytes(q, n) = g[1..n]
<1> DEFINE S == 1..n
           w == [i \in S |-> RowBytes(q[i])]
           P(g) == g = [s \in SUBSET S |->
                          IF s = {} THEN 0
                          ELSE RowBytes(q[CHOOSE x \in s : TRUE]) + g[s \ {CHOOSE x \in s : TRUE}]]
<1>1. IsFiniteSet(S) /\ \A i \in S : w[i] = RowBytes(q[i]) /\ w[i] \in Nat
  BY RowBytesType, FS_Interval
<1>2. ASSUME NEW g PROVE P(g) <=> IsSum(g, w, S)
  <2>1. \A s \in SUBSET S : s # {} => w[Pick(s)] = RowBytes(q[Pick(s)])
    BY <1>1, PickIn
  <2> HIDE DEF w
  <2> QED BY <2>1 DEF IsSum, SumAt, Pick
<1>3. \E g : P(g)
  <2>1. PICK g : IsSum(g, w, S)
    <3> HIDE DEF w
    <3> QED BY <1>1, SumExists
  <2> HIDE DEF P
  <2> QED BY <1>2, <2>1
<1> DEFINE iter == CHOOSE g : P(g)
<1>4. P(iter)
  BY <1>3, Zenon
<1>5. UsedBytes(q, n) = iter[S]
  BY Zenon DEF UsedBytes, MapThenSumSet, MapThenFoldSet
<1> HIDE DEF P, iter, w
<1> QED BY <1>1, <1>2, <1>4, <1>5 DEF w

LEMMA UsedFirst ==
  ASSUME Stored, NEW q
  PROVE  /\ UsedBytes(q, 0) = 0
         /\ q[1] \in DOMAIN rows => UsedBytes(q, 1) = RowBytes(q[1])
<1>1. UsedBytes(q, 0) = 0
  <2> DEFINE w == [i \in 1..0 |-> RowBytes(q[i])]
  <2>1. PICK g : IsSum(g, w, 1..0) /\ UsedBytes(q, 0) = g[1..0]
    <3>1. \A i \in 1..0 : q[i] \in DOMAIN rows
      OBVIOUS
    <3> QED BY <3>1, UsedSummed, Zenon
  <2> HIDE DEF w
  <2>2. 1..0 = {} /\ SumAt(g, w, {}) = 0
    BY DEF SumAt
  <2> QED BY <2>1, <2>2 DEF IsSum
<1>2. ASSUME q[1] \in DOMAIN rows PROVE UsedBytes(q, 1) = RowBytes(q[1])
  <2> DEFINE w == [i \in 1..1 |-> RowBytes(q[i])]
  <2>1. \A i \in 1..1 : q[i] \in DOMAIN rows
    BY <1>2
  <2>2. /\ \A i \in 1..1 : w[i] = RowBytes(q[i]) /\ w[i] \in Nat
        /\ \E g : IsSum(g, w, 1..1) /\ UsedBytes(q, 1) = g[1..1]
    BY <2>1, UsedSummed
  <2> HIDE DEF w
  <2>3. PICK g : IsSum(g, w, 1..1) /\ UsedBytes(q, 1) = g[1..1]
    BY <2>2
  <2>4. IsFiniteSet(1..1) /\ \A i \in 1..1 : w[i] \in Int
    <3>1. 1..1 = {1} /\ \A i \in 1..1 : w[i] \in Int
      BY <2>2
    <3>2. IsFiniteSet({1})
      BY FS_Singleton
    <3> QED BY <3>1, <3>2
  <2>5. {} \in SUBSET (1..1) /\ 1 \in 1..1 /\ 1..1 = {} \cup {1}
    OBVIOUS
  <2>6. g[{}] \in Int /\ g[1..1] = g[{}] + w[1]
    BY <2>3, <2>4, <2>5, SumGrows
  <2>7. g[{}] = 0
    BY <2>3, <2>5 DEF IsSum, SumAt
  <2> QED BY <2>2, <2>3, <2>5, <2>6, <2>7
<1> QED BY <1>1, <1>2

LEMMA GreatestUpTo ==
  ASSUME NEW n \in Nat, NEW M \in SUBSET (0..n), 0 \in M
  PROVE  Max(M) \in M /\ \A y \in M : y <= Max(M)
<1> DEFINE T == M \ {0}
<1>1. CASE T = {}
  <2>1. 0 \in M /\ \A y \in M : 0 >= y
    BY <1>1
  <2>2. Max(M) \in M /\ \A y \in M : Max(M) >= y
    BY <2>1, Zenon DEF Max
  <2> QED BY <2>2
<1>2. CASE T # {}
  <2>1. T \in SUBSET (1..n)
    OBVIOUS
  <2>2. PICK x \in T : \A y \in T : y <= x
    <3> HIDE DEF T
    <3> QED BY <1>2, <2>1, MaxIn
  <2>3. x \in M /\ \A y \in M : x >= y
    BY <2>2
  <2>4. Max(M) \in M /\ \A y \in M : Max(M) >= y
    BY <2>3, Zenon DEF Max
  <2> QED BY <2>4
<1> QED BY <1>1, <1>2

\* The first rows in order of those in bounds, at least one if there is one.
LEMMA PageExact ==
  ASSUME Stored, NEW after, NEW prefix, page(after, prefix) # <<>>
  PROVE  LET S == {k \in DOMAIN rows : InBounds(k, after, prefix)}
             all == InOrder(S)
         IN  \E n \in 0..Len(all) :
               page(after, prefix) = <<SubSeq(all, 1, n)>> /\ (n = 0 => S = {})
<1> DEFINE S == {k \in DOMAIN rows : InBounds(k, after, prefix)}
           all == InOrder(S)
           top == Min({Len(all), PageEntries})
           M == {m \in 0..top : UsedBytes(all, m) <= PageBytes}
           n == Max(M)
<1>1. page(after, prefix) =
        IF n < top /\ RowBytes(all[n + 1]) > PageBytes THEN <<>> ELSE <<SubSeq(all, 1, n)>>
  BY DEF page
<1>2. S \in SUBSET ByteStrings /\ IsFiniteSet(S) /\ S \subseteq DOMAIN rows
  <2>1. S \in SUBSET DOMAIN rows
    OBVIOUS
  <2> HIDE DEF S
  <2> QED BY <2>1, FS_Subset, OwnerAssumption DEF Stored, ByteStrings
<1> HIDE DEF S
<1>3. /\ all \in Seq(S) /\ Len(all) \in Nat
      /\ \A k \in S : \E i \in 1..Len(all) : all[i] = k
  BY <1>2, InOrderExact
<1> DEFINE l == Len(all)
<1>4. l \in Nat /\ PageEntries \in Nat /\ PageEntries >= 1 /\ PageBytes \in Nat
  BY <1>3, OwnerAssumption
<1>5. top = Min({l, PageEntries}) /\ \A i \in 1..l : all[i] \in DOMAIN rows
  BY <1>2, <1>3
<1> HIDE DEF l, all
<1>6. top \in Nat /\ top <= l /\ (l >= 1 => top >= 1)
  <2>1. \E x \in {l, PageEntries} : \A y \in {l, PageEntries} : x <= y
    BY <1>4
  <2>2. Min({l, PageEntries}) \in {l, PageEntries}
        /\ \A y \in {l, PageEntries} : Min({l, PageEntries}) <= y
    BY <2>1, Zenon DEF Min
  <2> HIDE DEF top
  <2>3. top \in {l, PageEntries} /\ \A y \in {l, PageEntries} : top <= y
    BY <1>5, <2>2
  <2> QED BY <1>4, <2>3
<1> HIDE DEF top
<1>7. UsedBytes(all, 0) = 0 /\ (l >= 1 => UsedBytes(all, 1) = RowBytes(all[1]))
  <2>1. l >= 1 => all[1] \in DOMAIN rows
    BY <1>4, <1>5
  <2> QED BY <2>1, UsedFirst
<1>8. M \in SUBSET (0..top) /\ 0 \in M
  BY <1>4, <1>6, <1>7
<1>9. n \in M /\ \A y \in M : y <= n
  <2> HIDE DEF M
  <2> QED BY <1>6, <1>8, GreatestUpTo
<1>10. n \in 0..top
  <2> HIDE DEF M
  <2> QED BY <1>8, <1>9
<1>11. page(after, prefix) = <<SubSeq(all, 1, n)>> /\ ~(n < top /\ RowBytes(all[n + 1]) > PageBytes)
  BY <1>1
<1>12. ASSUME n = 0, l >= 1 PROVE FALSE
  <2>1. RowBytes(all[1]) \in Nat
    BY <1>4, <1>5, <1>12, RowBytesType
  <2>2. ~(RowBytes(all[1]) > PageBytes)
    BY <1>6, <1>11, <1>12
  <2>3. UsedBytes(all, 1) <= PageBytes /\ 1 \in 0..top
    BY <1>4, <1>6, <1>7, <1>12, <2>1, <2>2
  <2>4. 1 \in M
    BY <2>3
  <2> HIDE DEF M, n
  <2> QED BY <1>9, <1>12, <2>4
<1>13. n = 0 => S = {}
  <2> HIDE DEF M, n
  <2> QED BY <1>3, <1>4, <1>12 DEF l
<1>14. n \in 0..l
  <2> HIDE DEF n
  <2> QED BY <1>4, <1>6, <1>10
<1> HIDE DEF n
<1> QED BY <1>11, <1>13, <1>14 DEF l, all, S

-----------------------------------------------------------------------------
(* The pages put together *)

ScanFields == {"prefix", "after", "got", "done", "kept", "ever"}

\* The inductive invariant of a scan over rows with the keys D: the last key
\* handed out is where it goes on, and no row up to there is missing.
ScanSound(s, D) ==
  /\ s = [f \in ScanFields |-> s[f]]
  /\ s.prefix \in ScanPrefixes /\ s.got \in Seq(ByteStrings)
  /\ s.kept \subseteq D /\ D \subseteq s.ever
  /\ \A i, j \in 1..Len(s.got) : i < j => Less(s.got[i], s.got[j])
  /\ \A i \in 1..Len(s.got) : HasPrefix(s.got[i], s.prefix) /\ s.got[i] \in s.ever
  /\ s.after = IF s.got = <<>> THEN <<>> ELSE <<s.got[Len(s.got)]>>
  /\ \A k \in s.kept :
       HasPrefix(k, s.prefix) /\ (s.done \/ ~Ahead(s.after, k))
         => \E i \in 1..Len(s.got) : s.got[i] = k

ScanInductive ==
  /\ BatchSound /\ Stored
  /\ scan # <<>> => \E s : scan = <<s>> /\ ScanSound(s, DOMAIN rows)

LEMMA SoundExact == ASSUME ScanInductive PROVE ScanExact
<1> SUFFICES ASSUME scan # <<>> PROVE ScanExact
  BY DEF ScanExact
<1>1. PICK s : scan = <<s>> /\ ScanSound(s, DOMAIN rows)
  BY DEF ScanInductive
<1>2. scan[1] = s
  BY <1>1
<1> DEFINE n == Len(s.got)
<1>3. n \in Nat /\ DOMAIN s.got = 1..n
  BY <1>1 DEF ScanSound
<1>4. /\ \A i, j \in 1..n : i < j => Less(s.got[i], s.got[j])
      /\ \A i \in 1..n : HasPrefix(s.got[i], s.prefix) /\ s.got[i] \in s.ever
      /\ s.done => \A k \in s.kept : HasPrefix(k, s.prefix) => \E i \in 1..n : s.got[i] = k
  BY <1>1 DEF ScanSound
<1>5. s.done => {k \in s.kept : HasPrefix(k, s.prefix)} \subseteq ToSet(s.got)
  BY <1>3, <1>4 DEF ToSet
<1> HIDE DEF n
<1>6. \A i \in 1..(n - 1) : Less(s.got[i], s.got[i + 1])
  BY <1>3, <1>4
<1> QED BY <1>2, <1>3, <1>4, <1>5, <1>6 DEF ScanExact, n

\* A page appended.
LEMMA PageAppended ==
  ASSUME Stored, NEW s, ScanSound(s, DOMAIN rows), page(s.after, s.prefix) # <<>>
  PROVE  LET p == page(s.after, s.prefix)[1]
         IN  IF p = <<>> THEN ScanSound([s EXCEPT !.done = TRUE], DOMAIN rows)
             ELSE ScanSound([s EXCEPT !.got = @ \o p, !.after = <<Last(p)>>], DOMAIN rows)
<1> DEFINE D == DOMAIN rows
           g == s.got
           m == Len(g)
           S == {k \in D : InBounds(k, s.after, s.prefix)}
           all == InOrder(S)
           p == page(s.after, s.prefix)[1]
<1>1. D \subseteq ByteStrings /\ IsFiniteSet(D) /\ s.prefix \in ByteStrings
  BY OwnerAssumption DEF Stored, ScanSound, ByteStrings
<1>2. /\ g \in Seq(ByteStrings) /\ m \in Nat /\ DOMAIN g = 1..m /\ \A i \in 1..m : g[i] \in ByteStrings
      /\ (g = <<>> <=> m = 0)
  BY DEF ScanSound
<1>3. s.after = IF m = 0 THEN <<>> ELSE <<g[m]>>
  BY <1>2 DEF ScanSound
<1>4. /\ \A i, j \in 1..m : i < j => Less(g[i], g[j])
      /\ \A i \in 1..m : HasPrefix(g[i], s.prefix) /\ g[i] \in s.ever
      /\ s.kept \subseteq D /\ D \subseteq s.ever
      /\ \A k \in s.kept : HasPrefix(k, s.prefix) /\ (s.done \/ ~Ahead(s.after, k))
           => \E i \in 1..m : g[i] = k
  BY DEF ScanSound
<1> HIDE DEF m
<1>5. s.after = <<>> \/ \E a \in ByteStrings : s.after = <<a>> /\ HasPrefix(a, s.prefix)
  <2>1. m # 0 => m \in 1..m
    BY <1>2
  <2> HIDE DEF g
  <2> QED BY <1>2, <1>3, <1>4, <2>1
<1>6. \A k \in D : k \in S <=> HasPrefix(k, s.prefix) /\ Ahead(s.after, k)
  BY <1>1, <1>5, BoundsExact
<1>7. S \subseteq D /\ S \in SUBSET ByteStrings /\ IsFiniteSet(S)
  <2>1. S \in SUBSET D
    OBVIOUS
  <2> HIDE DEF S, D
  <2> QED BY <1>1, <2>1, FS_Subset
<1>8. PICK n \in 0..Len(all) : page(s.after, s.prefix) = <<SubSeq(all, 1, n)>> /\ (n = 0 => S = {})
  BY PageExact
<1> HIDE DEF S
<1>9. /\ all \in Seq(S) /\ Len(all) \in Nat
      /\ \A k \in S : \E i \in 1..Len(all) : all[i] = k
      /\ \A i, j \in 1..Len(all) : i < j => Less(all[i], all[j])
  BY <1>7, InOrderExact
<1> DEFINE l == Len(all)
<1> HIDE DEF all
<1>10. /\ l \in Nat /\ n \in Nat /\ n <= l /\ \A i \in 1..l : all[i] \in S
       /\ \A k \in S : \E i \in 1..l : all[i] = k
       /\ \A i, j \in 1..l : i < j => Less(all[i], all[j])
  BY <1>8, <1>9
<1>11. p = SubSeq(all, 1, n)
  BY <1>8
<1> HIDE DEF p
<1>12. p \in Seq(S) /\ Len(p) = n /\ \A i \in 1..n : p[i] = all[i]
  <2>1. n \in Nat /\ n <= Len(all) /\ Len(all) \in Nat
    BY <1>10
  <2> QED BY <1>9, <1>11, <2>1
<1> HIDE DEF l
<1>13. p = <<>> <=> n = 0
  BY <1>10, <1>12
<1>14. CASE p = <<>>
  <2> DEFINE t == [s EXCEPT !.done = TRUE]
  <2>1. t = [f \in ScanFields |-> t[f]] /\ \A f \in ScanFields \ {"done"} : t[f] = s[f]
    BY DEF ScanSound, ScanFields
  <2>2. S = {}
    BY <1>8, <1>13, <1>14
  <2>3. \A k \in s.kept : HasPrefix(k, s.prefix) => \E i \in 1..m : g[i] = k
    BY <1>4, <1>6, <2>2
  <2> HIDE DEF t, D
  <2>4. ScanSound(t, D)
    <3>1. t.prefix = s.prefix /\ t.after = s.after /\ t.got = g /\ t.kept = s.kept /\ t.ever = s.ever
      BY <2>1 DEF ScanFields
    <3> QED BY <1>4, <2>1, <2>3, <3>1 DEF ScanSound, m
  <2> QED BY <1>14, <2>4 DEF t, D, p
<1>15. CASE p # <<>>
  <2> DEFINE h == g \o p
             t == [s EXCEPT !.got = h, !.after = <<Last(p)>>]
             x == m + n
  <2>1. n >= 1 /\ x \in Nat /\ x >= 1
    BY <1>2, <1>10, <1>13, <1>15
  <2>2. p \in Seq(ByteStrings)
    BY <1>7, <1>12
  <2>3. /\ h \in Seq(ByteStrings) /\ Len(h) = x
        /\ \A i \in 1..m : h[i] = g[i]
        /\ \A i \in 1..n : h[m + i] = all[i]
    <3>1. Len(g) = m
      BY DEF m
    <3> HIDE DEF g
    <3>2. h \in Seq(ByteStrings) /\ Len(h) = x
      BY <1>2, <1>10, <1>12, <2>2, <3>1
    <3>3. \A i \in 1..m : h[i] = g[i]
      BY <1>2, <1>10, <1>12, <2>2, <3>1
    <3>4. \A i \in 1..n : h[m + i] = p[i]
      BY <1>2, <1>10, <1>12, <2>2, <3>1
    <3> QED BY <1>12, <3>2, <3>3, <3>4
  <2> HIDE DEF h
  <2>4. Last(p) = all[n] /\ h # <<>> /\ h[x] = all[n]
    <3>1. n \in 1..n
      BY <1>10, <2>1
    <3>2. Last(p) = all[n] /\ h[x] = all[n]
      BY <1>12, <2>3, <3>1 DEF Last
    <3>3. Len(<<>>) = 0
      OBVIOUS
    <3> HIDE DEF x
    <3> QED BY <2>1, <2>3, <3>2, <3>3
  <2>5. /\ t = [f \in ScanFields |-> t[f]] /\ t.got = h /\ t.after = <<all[n]>>
        /\ \A f \in ScanFields \ {"got", "after"} : t[f] = s[f]
    BY <2>4 DEF ScanSound, ScanFields
  <2> HIDE DEF t
  <2>6. ASSUME NEW i \in 1..x
        PROVE  \/ i \in 1..m /\ h[i] = g[i]
               \/ \E j \in 1..n : i = m + j /\ h[i] = all[j]
    <3>1. CASE i <= m
      BY <1>2, <2>3, <3>1
    <3>2. CASE i > m
      <4>1. i - m \in 1..n /\ i = m + (i - m)
        BY <1>2, <1>10, <3>2
      <4> QED BY <2>3, <4>1
    <3> QED BY <1>2, <3>1, <3>2
  <2>7. \A j \in 1..n : j \in 1..l /\ all[j] \in S /\ all[j] \in D /\ all[j] \in ByteStrings
    BY <1>7, <1>10
  <2>8. ASSUME NEW i \in 1..m, NEW j \in 1..n PROVE Less(g[i], all[j])
    <3>1. m \in 1..m /\ s.after = <<g[m]>>
      BY <1>2, <1>3
    <3>2. Less(g[m], all[j])
      <4>1. Ahead(s.after, all[j])
        BY <1>6, <2>7
      <4>2. s.after # <<>> /\ s.after[1] = g[m]
        BY <3>1
      <4> QED BY <4>1, <4>2 DEF Ahead
    <3>3. CASE i = m
      BY <3>2, <3>3
    <3>4. CASE i # m
      <4>1. Less(g[i], g[m])
        BY <1>2, <1>4, <3>1, <3>4
      <4> QED BY <1>2, <2>7, <3>1, <3>2, <4>1, LessTransitive
    <3> QED BY <3>3, <3>4
  <2>9. ASSUME NEW i \in 1..x, NEW j \in 1..x, i < j PROVE Less(h[i], h[j])
    <3>1. CASE j \in 1..m /\ h[j] = g[j]
      <4>1. i \in 1..m /\ h[i] = g[i]
        BY <1>2, <2>3, <2>9, <3>1
      <4> QED BY <1>4, <2>9, <3>1, <4>1
    <3>2. CASE \E b \in 1..n : j = m + b /\ h[j] = all[b]
      <4> PICK b \in 1..n : j = m + b /\ h[j] = all[b]
        BY <3>2
      <4>1. CASE i \in 1..m /\ h[i] = g[i]
        BY <2>8, <4>1
      <4>2. CASE \E a \in 1..n : i = m + a /\ h[i] = all[a]
        <5> PICK a \in 1..n : i = m + a /\ h[i] = all[a]
          BY <4>2
        <5>1. a < b /\ a \in 1..l /\ b \in 1..l
          BY <1>2, <1>10, <2>9
        <5> QED BY <1>10, <5>1
      <4> QED BY <2>6, <4>1, <4>2
    <3> QED BY <2>6, <3>1, <3>2
  <2>10. ASSUME NEW i \in 1..x PROVE HasPrefix(h[i], s.prefix) /\ h[i] \in s.ever
    BY <1>4, <1>6, <2>6, <2>7
  <2>11. ASSUME NEW k \in s.kept, HasPrefix(k, s.prefix), s.done \/ ~Ahead(<<all[n]>>, k)
         PROVE  \E i \in 1..x : h[i] = k
    <3>1. CASE \E i \in 1..m : g[i] = k
      <4> PICK i \in 1..m : g[i] = k
        BY <3>1
      <4>1. i \in 1..x /\ h[i] = k
        BY <1>2, <1>10, <2>3
      <4> QED BY <4>1
    <3>2. CASE ~s.done /\ Ahead(s.after, k)
      <4>1. k \in S /\ ~Less(all[n], k)
        <5>1. <<all[n]>> # <<>> /\ <<all[n]>>[1] = all[n]
          OBVIOUS
        <5> QED BY <1>4, <1>6, <2>11, <3>2, <5>1 DEF Ahead
      <4>2. PICK j \in 1..l : all[j] = k
        BY <1>10, <4>1
      <4>3. n \in 1..l /\ (n < j => Less(all[n], all[j]))
        BY <1>10, <2>1
      <4>4. j \in 1..n
        BY <1>10, <2>1, <4>1, <4>2, <4>3
      <4>5. m + j \in 1..x /\ h[m + j] = k
        BY <1>2, <1>10, <2>3, <4>2, <4>4
      <4> QED BY <4>5
    <3> QED BY <1>4, <2>11, <3>1, <3>2
  <2> HIDE DEF x, D
  <2>12. ScanSound(t, D)
    <3>1. t.prefix = s.prefix /\ t.kept = s.kept /\ t.ever = s.ever /\ t.done = s.done
      BY <2>5 DEF ScanFields
    <3>2. s.prefix \in ScanPrefixes
      BY DEF ScanSound
    <3> QED BY <1>4, <2>3, <2>4, <2>5, <2>9, <2>10, <2>11, <3>1, <3>2 DEF ScanSound
  <2> QED BY <1>15, <2>12 DEF t, h, D, p
<1> QED BY <1>14, <1>15

\* A batch committed between two pages.
LEMMA NoticedSound ==
  ASSUME NEW s, NEW D, ScanSound(s, D), NEW E
  PROVE  ScanSound([s EXCEPT !.kept = @ \cap E, !.ever = @ \cup E], E)
<1> DEFINE t == [s EXCEPT !.kept = @ \cap E, !.ever = @ \cup E]
<1>1. /\ t = [f \in ScanFields |-> t[f]] /\ t.kept = s.kept \cap E /\ t.ever = s.ever \cup E
      /\ \A f \in ScanFields \ {"kept", "ever"} : t[f] = s[f]
  BY DEF ScanSound, ScanFields
<1> HIDE DEF t
<1>2. t.prefix = s.prefix /\ t.after = s.after /\ t.got = s.got /\ t.done = s.done
  BY <1>1 DEF ScanFields
<1>3. ScanSound(t, E)
  BY <1>1, <1>2 DEF ScanSound
<1> QED BY <1>3 DEF t

LEMMA AppliedStored ==
  ASSUME Stored, NEW f, IsBatch(f)
  PROVE  /\ IsFiniteSet(DOMAIN Applied(f)) /\ DOMAIN Applied(f) \subseteq Keys
         /\ \A k \in DOMAIN Applied(f) : Applied(f)[k] \in Nat
<1> DEFINE gone == {k \in DOMAIN f : f[k] = <<>>}
           U == DOMAIN rows \cup DOMAIN f
           r == Applied(f)
<1>1. /\ DOMAIN r = U \ gone
      /\ \A k \in DOMAIN r : r[k] = IF k \in DOMAIN f THEN f[k][1] ELSE rows[k]
  BY DEF Applied
<1> HIDE DEF r
<1>2. IsFiniteSet(U)
  BY FS_Union DEF Stored, IsBatch
<1>3. IsFiniteSet(DOMAIN r)
  <2>1. DOMAIN r \in SUBSET U
    BY <1>1
  <2> HIDE DEF U
  <2> QED BY <1>2, <2>1, FS_Subset
<1>4. DOMAIN r \subseteq Keys
  BY <1>1 DEF Stored, IsBatch
<1>5. ASSUME NEW k \in DOMAIN r PROVE r[k] \in Nat
  <2>1. CASE k \in DOMAIN f
    <3>1. f[k] \in Staged /\ f[k] # <<>>
      BY <1>1, <2>1 DEF IsBatch
    <3>2. f[k][1] \in Values
      BY <3>1 DEF Staged
    <3> QED BY <1>1, <2>1, <3>2, OwnerAssumption
  <2>2. CASE k \notin DOMAIN f
    BY <1>1, <2>2 DEF Stored
  <2> QED BY <2>1, <2>2
<1> QED BY <1>3, <1>4, <1>5 DEF r

LEMMA EndBatchScans ==
  ASSUME ScanInductive, NEW o, EndBatch(o), BatchSound' PROVE ScanInductive'
<1>1. CASE rows' = rows /\ scan' = scan
  BY <1>1 DEF ScanInductive, Stored
<1>2. CASE ~(rows' = rows /\ scan' = scan)
  <2>1. PICK t : tx = <<t>> /\ IsBatch(t.changes)
    BY DEF EndBatch, Free, ScanInductive, BatchSound
  <2>2. tx[1] = t
    BY <2>1
  <2>3. (rows' = rows \/ rows' = Applied(t.changes)) /\ scan' = Noticed(scan, rows')
    BY <1>2, <2>2 DEF EndBatch
  <2>4. Stored'
    <3>1. CASE rows' = rows
      BY <3>1 DEF ScanInductive, Stored
    <3>2. CASE rows' = Applied(t.changes)
      <4> DEFINE r == Applied(t.changes)
      <4>1. /\ IsFiniteSet(DOMAIN r) /\ DOMAIN r \subseteq Keys
            /\ \A k \in DOMAIN r : r[k] \in Nat
        BY <2>1, AppliedStored DEF ScanInductive
      <4> HIDE DEF r
      <4> QED BY <3>2, <4>1 DEF Stored, r
    <3> QED BY <2>3, <3>1, <3>2
  <2>5. ASSUME scan' # <<>> PROVE \E s : scan' = <<s>> /\ ScanSound(s, DOMAIN rows')
    <3>1. scan # <<>>
      BY <2>3, <2>5 DEF Noticed
    <3>2. PICK s : scan = <<s>> /\ ScanSound(s, DOMAIN rows)
      BY <3>1 DEF ScanInductive
    <3> DEFINE E == DOMAIN rows'
               u == [s EXCEPT !.kept = @ \cap E, !.ever = @ \cup E]
    <3>3. scan' = <<u>>
      BY <2>3, <3>1, <3>2 DEF Noticed
    <3>4. ScanSound(u, E)
      <4> HIDE DEF E
      <4> QED BY <3>2, NoticedSound
    <3> HIDE DEF u
    <3> QED BY <3>3, <3>4
  <2> QED BY <2>4, <2>5 DEF ScanInductive, ScanSound
<1> QED BY <1>1, <1>2

LEMMA ReaderScans ==
  ASSUME ScanInductive, Reader, BatchSound' PROVE ScanInductive'
<1>1. rows' = rows
  BY DEF Reader, ScanStart, ScanPage, ScanEnd
<1>2. Stored'
  BY <1>1 DEF ScanInductive, Stored
<1>3. ASSUME NEW s, scan' = <<s>>, ScanSound(s, DOMAIN rows) PROVE ScanInductive'
  BY <1>1, <1>2, <1>3 DEF ScanInductive, ScanSound
<1>4. CASE scan' = <<>>
  BY <1>2, <1>4 DEF ScanInductive
<1>5. CASE \E prefix \in ScanPrefixes : ScanStart(prefix)
  <2> PICK prefix \in ScanPrefixes : ScanStart(prefix)
    BY <1>5
  <2> DEFINE s == [prefix |-> prefix, after |-> <<>>, got |-> <<>>, done |-> FALSE,
                   kept |-> DOMAIN rows, ever |-> DOMAIN rows]
  <2>1. scan' = <<s>>
    BY DEF ScanStart
  <2>2. /\ s.prefix = prefix /\ s.after = <<>> /\ s.got = <<>> /\ s.done = FALSE
        /\ s.kept = DOMAIN rows /\ s.ever = DOMAIN rows
    OBVIOUS
  <2>3. s = [f \in ScanFields |-> s[f]]
    BY DEF ScanFields
  <2> HIDE DEF s
  <2>4. <<>> \in Seq(ByteStrings) /\ Len(<<>>) = 0
    OBVIOUS
  <2>5. 1..Len(s.got) = {}
    BY <2>2, <2>4
  <2>6. \A k : Ahead(s.after, k)
    BY <2>2 DEF Ahead
  <2>7. ScanSound(s, DOMAIN rows)
    BY <2>2, <2>3, <2>4, <2>5, <2>6 DEF ScanSound
  <2> QED BY <1>3, <2>1, <2>7
<1>6. CASE ScanPage
  <2>1. PICK s : scan = <<s>> /\ ScanSound(s, DOMAIN rows)
    BY <1>6 DEF ScanPage, ScanInductive
  <2> DEFINE p == page(s.after, s.prefix)
             t == [s EXCEPT !.done = TRUE]
             u == [s EXCEPT !.got = @ \o p[1], !.after = <<Last(p[1])>>]
  <2>2. scan[1] = s
    BY <2>1
  <2>3. scan' = IF Refused \/ p = <<>> THEN <<>> ELSE IF p[1] = <<>> THEN <<t>> ELSE <<u>>
    BY <1>6, <2>2 DEF ScanPage
  <2>4. p # <<>> => IF p[1] = <<>> THEN ScanSound(t, DOMAIN rows) ELSE ScanSound(u, DOMAIN rows)
    BY <2>1, PageAppended DEF ScanInductive
  <2> HIDE DEF p, t, u
  <2> QED BY <1>3, <1>4, <2>3, <2>4
<1> QED BY <1>4, <1>5, <1>6 DEF Reader, ScanEnd

LEMMA ScanNext == ASSUME ScanInductive, [Next]_vars PROVE ScanInductive'
<1>1. BatchSound'
  BY BatchNext DEF ScanInductive
<1>2. CASE rows' = rows /\ scan' = scan
  BY <1>1, <1>2 DEF ScanInductive, Stored
<1>3. CASE rows' = rows /\ scan' = <<>>
  BY <1>1, <1>3 DEF ScanInductive, Stored
<1>4. CASE Reader
  BY <1>1, <1>4, ReaderScans
<1>5. CASE Writer
  BY <1>1, <1>2, <1>5, EndBatchScans DEF Writer, Begin, Stage, PanicBatch
<1>6. CASE \E a \in Apps : App(a)
  BY <1>2, <1>6 DEF App, rowVars
<1> QED BY <1>2, <1>3, <1>4, <1>5, <1>6 DEF Next, Restart, vars, rowVars

\* Whatever the writer commits between two pages, the pages of a scan put
\* together are strictly ascending rows of its prefix, and all of those that
\* were there throughout (backend.rs, transaction.rs): by the bounds of
\* scan_bounds, also for prefixes that end in the largest byte.
THEOREM ScansExact == Spec => []ScanExact
<1>1. Init => ScanInductive
  <2> SUFFICES ASSUME Init PROVE ScanInductive
    OBVIOUS
  <2>1. BatchSound /\ scan = <<>> /\ rows = Empty
    BY DEF Init, BatchSound
  <2>2. DOMAIN Empty = {}
    BY DEF Empty
  <2> QED BY <2>1, <2>2, FS_EmptySet DEF ScanInductive, Stored
<1>2. ScanInductive /\ [Next]_vars => ScanInductive'
  BY ScanNext
<1>3. ScanInductive => ScanExact
  BY SoundExact
<1> QED BY <1>1, <1>2, <1>3, PTL DEF Spec

-----------------------------------------------------------------------------
(* The import, for any number of processes, pages and troubles.            *)
(* IncompleteSealed is not inductive by itself: an import gives its guard  *)
(* up when it finds the directory taken, and that it does not uncover      *)
(* somebody else's incomplete import rests on there being one guard and on *)
(* what was the case when it was created.                                  *)

Imp == INSTANCE Import

\* Where an import is while the guard is its own.
Guarding == {"guarded", "sealed", "conflict", "made", "locked", "copying",
             "complete", "closed"}

Finished == {"complete", "closed", "open_for_use", "done"}

ImportTypes ==
  /\ guard_file \in BOOLEAN /\ version \in BOOLEAN /\ sound \in BOOLEAN
  /\ dir \in {"none", "import", "open"}
  /\ synced \in [guard : BOOLEAN, dir : {"none", "import", "open"}]
  /\ lock \subseteq Processes
  /\ status \in {"none", "copying", "complete"}
  /\ copied \in Nat
  /\ at = [p \in Processes |-> at[p]]

\* There is one guard, and it is durable before the destination is touched.
GuardOwned ==
  /\ \A i \in Importers : at[i] \in Guarding => guard_file
  /\ \A i, j \in Importers : at[i] \in Guarding /\ at[j] \in Guarding => i = j
  /\ \A i \in Importers : at[i] \in Guarding \ {"guarded"} => synced.guard

\* What the destination holds follows from who created it.
StoreShape ==
  /\ synced.dir \in {dir, "none"}
  /\ version => synced.dir = dir /\ dir # "none"
  /\ status # "none" => version /\ dir = "import"
  /\ status = "none" => copied = 0
  /\ status = "complete" => copied = Pages /\ sound

\* What an import may rely on at each of its steps.
ImportKnows ==
  \A i \in Importers :
    /\ at[i] \in {"guarded", "sealed", "conflict"} => (dir = "import" => status = "complete")
    /\ at[i] \in {"made", "locked"} => dir = "import" /\ status = "none"
    /\ at[i] = "locked" => version
    /\ at[i] = "copying" => status = "copying"
    /\ at[i] \in Finished => status = "complete"

\* What an opener or an inspector may rely on.
ReaderKnows ==
  /\ \A p \in Openers \cup Inspectors : at[p] \in {"held", "read", "open"} => version
  /\ \A o \in Openers : at[o] = "made_or_found" => dir # "none"
  /\ \A a \in Inspectors : at[a] \in {"found", "made_or_found"} => version
  /\ \A a \in Inspectors :
       at[a] \in {"made_or_found", "read"} /\ dir = "import" => status = "complete"
  /\ \A p \in Openers \cup Inspectors :
       at[p] = "open" /\ dir = "import" => status = "complete"

ImportInductive ==
  ImportTypes /\ GuardOwned /\ IncompleteSealed /\ StoreShape /\ ImportKnows /\ ReaderKnows

-----------------------------------------------------------------------------

\* The strengthened invariant holds initially: there is nothing.
LEMMA ImportInit == Imp!Init => ImportInductive
<1> SUFFICES ASSUME Imp!Init PROVE ImportInductive
  OBVIOUS
<1>1. ImportTypes
  BY DEF Imp!Init, ImportTypes, Processes, Imp!Processes
<1>2. GuardOwned /\ ImportKnows /\ ReaderKnows
  BY DEF Imp!Init, GuardOwned, ImportKnows, ReaderKnows, Guarding, Finished, Processes, Imp!Processes
<1>3. StoreShape /\ IncompleteSealed
  BY DEF Imp!Init, StoreShape, IncompleteSealed
<1> QED
  BY <1>1, <1>2, <1>3 DEF ImportInductive

\* A step of an import keeps it, whatever the others are doing.
LEMMA ImportStepKeeps ==
  ASSUME ImportInductive, NEW i \in Importers, Imp!ImportStep(i)
  PROVE  ImportInductive'
<1> USE DEF ImportInductive, ImportTypes, GuardOwned, IncompleteSealed, StoreShape, ImportKnows,
            ReaderKnows, Guarding, Finished, Processes, Imp!Processes, Imp!Go, Imp!Tables, Imp!Sync
<1> USE ImportAssumption
<1>1. CASE Imp!CheckDestination(i)
  BY <1>1, ZenonT(30) DEF Imp!CheckDestination
<1>2. CASE Imp!CreateGuard(i)
  BY <1>2, ZenonT(30) DEF Imp!CreateGuard
<1>3. CASE Imp!SyncGuard(i)
  BY <1>3, ZenonT(30) DEF Imp!SyncGuard
<1>4. CASE Imp!CreateDestination(i)
  <2>1. CASE dir = "none"
    BY <1>4, <2>1 DEF Imp!CreateDestination
  <2>2. CASE dir # "none"
    BY <1>4, <2>2 DEF Imp!CreateDestination
  <2> QED
    BY <2>1, <2>2
<1>5. CASE Imp!GiveUp(i)
  BY <1>5 DEF Imp!GiveUp
<1>6. CASE Imp!GivenUp(i)
  BY <1>6 DEF Imp!GivenUp
<1>7. CASE Imp!OpenTarget(i)
  <2>1. CASE lock = {}
    BY <1>7, <2>1 DEF Imp!OpenTarget, Imp!Lock
  <2>2. CASE lock # {}
    BY <1>7, <2>2 DEF Imp!OpenTarget, Imp!Lock
  <2> QED
    BY <2>1, <2>2
<1>8. CASE Imp!MarkCopying(i)
  BY <1>8 DEF Imp!MarkCopying
<1>9. CASE Imp!CopyPage(i)
  <2>1. status = "copying" /\ status' = "copying"
    BY <1>9 DEF Imp!CopyPage
  <2>2. copied' \in Nat
    BY <1>9 DEF Imp!CopyPage
  <2> QED
    BY <1>9, <2>1, <2>2 DEF Imp!CopyPage
<1>10. CASE Imp!Complete(i)
  BY <1>10 DEF Imp!Complete, Imp!Verified
<1>11. CASE Imp!RefuseSource(i)
  BY <1>11 DEF Imp!RefuseSource
<1>12. CASE Imp!DropTarget(i)
  BY <1>12 DEF Imp!DropTarget
<1>13. CASE Imp!RemoveGuard(i)
  BY <1>13 DEF Imp!RemoveGuard
<1>14. CASE Imp!Return(i)
  BY <1>14 DEF Imp!Return
<1> QED
  BY <1>1, <1>2, <1>3, <1>4, <1>5, <1>6, <1>7, <1>8, <1>9, <1>10, <1>11, <1>12,
     <1>13, <1>14 DEF Imp!ImportStep

\* So does every step of an opener or an inspector, and a process cut short.
LEMMA OthersKeep ==
  ASSUME ImportInductive, NEW p \in Processes,
         \/ p \in Openers /\ (Imp!CheckGuard(p) \/ Imp!MakeDirectory(p) \/ Imp!LockDirectory(p) \/ Imp!validate_open(p))
         \/ p \in Inspectors /\ (Imp!FindVersion(p) \/ Imp!LockArchive(p) \/ Imp!ReadStatus(p))
         \/ p \in Openers \cup Inspectors /\ Imp!Close(p)
         \/ Imp!Abandon(p)
  PROVE  ImportInductive'
<1> USE DEF ImportInductive, ImportTypes, GuardOwned, IncompleteSealed, StoreShape, ImportKnows,
            ReaderKnows, Guarding, Finished, Processes, Imp!Processes, Imp!Go, Imp!Tables, Imp!Sync
<1> USE ImportAssumption
<1>1. CASE p \in Openers /\ Imp!CheckGuard(p)
  BY <1>1 DEF Imp!CheckGuard
<1>2. CASE p \in Openers /\ Imp!MakeDirectory(p)
  BY <1>2, ZenonT(30) DEF Imp!MakeDirectory
<1>3. CASE p \in Openers /\ Imp!LockDirectory(p)
  <2>1. CASE lock = {}
    BY <1>3, <2>1 DEF Imp!LockDirectory, Imp!Lock
  <2>2. CASE lock # {}
    BY <1>3, <2>2 DEF Imp!LockDirectory, Imp!Lock
  <2> QED
    BY <2>1, <2>2
<1>4. CASE p \in Openers /\ Imp!validate_open(p)
  BY <1>4 DEF Imp!validate_open, Imp!Admits
<1>5. CASE p \in Inspectors /\ Imp!FindVersion(p)
  BY <1>5 DEF Imp!FindVersion
<1>6. CASE p \in Inspectors /\ Imp!LockArchive(p)
  <2>1. CASE lock = {}
    BY <1>6, <2>1 DEF Imp!LockArchive, Imp!Lock
  <2>2. CASE lock # {}
    BY <1>6, <2>2 DEF Imp!LockArchive, Imp!Lock
  <2> QED
    BY <2>1, <2>2
<1>7. CASE p \in Inspectors /\ Imp!ReadStatus(p)
  BY <1>7 DEF Imp!ReadStatus
<1>8. CASE p \in Openers \cup Inspectors /\ Imp!Close(p)
  BY <1>8 DEF Imp!Close
<1>9. CASE Imp!Abandon(p)
  BY <1>9 DEF Imp!Abandon, Imp!Stopped
<1> QED
  BY <1>1, <1>2, <1>3, <1>4, <1>5, <1>6, <1>7, <1>8, <1>9

\* After a power loss either entry may be back to what was synced.
LEMMA LossKeeps ==
  ASSUME ImportInductive, Imp!PowerLoss
  PROVE  ImportInductive'
  BY ImportAssumption
  DEF ImportInductive, ImportTypes, GuardOwned, IncompleteSealed, StoreShape, ImportKnows, ReaderKnows,
      Guarding, Finished, Processes, Imp!Processes, Imp!PowerLoss, Imp!Stopped

\* Every step keeps it.
LEMMA ImportNext == ImportInductive /\ [Imp!Next]_(Imp!vars) => ImportInductive'
<1> SUFFICES ASSUME ImportInductive, [Imp!Next]_(Imp!vars) PROVE ImportInductive'
  OBVIOUS
<1>1. CASE \E i \in Importers : Imp!ImportStep(i)
  BY <1>1, ImportStepKeeps
<1>2. CASE \E o \in Openers :
             Imp!CheckGuard(o) \/ Imp!MakeDirectory(o) \/ Imp!LockDirectory(o) \/ Imp!validate_open(o)
  BY <1>2, OthersKeep DEF Processes, Imp!Processes
<1>3. CASE \E a \in Inspectors : Imp!FindVersion(a) \/ Imp!LockArchive(a) \/ Imp!ReadStatus(a)
  BY <1>3, OthersKeep DEF Processes, Imp!Processes
<1>4. CASE \E p \in Openers \cup Inspectors : Imp!Close(p)
  BY <1>4, OthersKeep DEF Processes, Imp!Processes
<1>5. CASE \E p \in Processes : Imp!Abandon(p)
  BY <1>5, OthersKeep
<1>6. CASE Imp!PowerLoss
  BY <1>6, LossKeeps
<1>7. CASE UNCHANGED Imp!vars
  BY <1>7 DEF Imp!vars, ImportInductive, ImportTypes, GuardOwned, IncompleteSealed, StoreShape,
              ImportKnows, ReaderKnows
<1> QED
  BY <1>1, <1>2, <1>3, <1>4, <1>5, <1>6, <1>7 DEF Imp!Next, Processes, Imp!Processes

\* The strengthened invariant is an invariant of the import.
LEMMA ImportAlways == Imp!Spec => []ImportInductive
<1>1. Imp!Init => ImportInductive
  BY ImportInit
<1>2. ImportInductive /\ [Imp!Next]_(Imp!vars) => ImportInductive'
  BY ImportNext
<1> QED
  BY <1>1, <1>2, PTL DEF Imp!Spec

-----------------------------------------------------------------------------

\* Nobody opens an incomplete import: however many imports, opens and
\* inspections race and wherever they are cut short, a destination that
\* Database::open or ApplicationArchive::open admits and that an import
\* created holds the whole source.
THEOREM OpensOnlyWhole == Imp!Spec => []OpensWhole
<1>1. ImportInductive => OpensWhole
  <2>1. ImportInductive => \A p \in Openers \cup Inspectors : at[p] = "open" /\ dir = "import" => Whole
    BY DEF ImportInductive, ReaderKnows, StoreShape, Whole
  <2>2. ImportInductive => ((\E i \in Importers : at[i] = "done") =>
                   Whole /\ dir = "import" /\ synced.dir = "import")
    BY DEF ImportInductive, StoreShape, ImportKnows, Finished, Whole
  <2> QED
    BY <2>1, <2>2 DEF OpensWhole
<1> QED
  BY <1>1, ImportAlways, PTL

\* The guard of migrate is there, durably, as long as its import is incomplete.
THEOREM AlwaysSealed == Imp!Spec => []IncompleteSealed
<1>1. ImportInductive => IncompleteSealed
  BY DEF ImportInductive
<1> QED
  BY <1>1, ImportAlways, PTL

\* An import writes nothing into a store that an ordinary open created.
THEOREM NeverOverwrites == Imp!Spec => []CompetitorKept
<1>1. ImportInductive => CompetitorKept
  BY DEF ImportInductive, ImportTypes, StoreShape, CompetitorKept
<1> QED
  BY <1>1, ImportAlways, PTL

-----------------------------------------------------------------------------
(***************************************************************************)
(* The trie, for keys of any width and any number of changes.  None of its *)
(* invariants is inductive by itself.  What is: there is a set of keys for *)
(* each node in use (C below), the present ones at the root, that each     *)
(* branch parts by its bit, the first in which they differ; a leaf holds   *)
(* the digest of its key's entry; and a branch that is not marked holds    *)
(* the digest of its children, neither of which is marked.                 *)
(***************************************************************************)

(* The shape of a trie *)

\* k and l have the same bits before bit b.
Agree(k, l, b) == \A c \in 1..(b - 1) : k[c] = l[c]

IsLeafNode(n) == n = Leaf(n.key, n.digest)

IsBranchNode(n) ==
  /\ n = [kind |-> "branch", bit |-> n.bit, left |-> n.left, right |-> n.right,
          digest |-> n.digest, dirty |-> n.dirty]
  /\ n.bit \in 1..Width /\ n.dirty \in BOOLEAN

\* The bit a node decides on; a leaf is below all bits.
BitOf(n) == IF n.kind = "branch" THEN n.bit ELSE Width + 1

Used(N) == {i \in DOMAIN N : N[i].kind # "freed"}

Nodes(N) == \A i \in DOMAIN N : IsLeafNode(N[i]) \/ IsBranchNode(N[i]) \/ N[i] = Freed

Leaves(N, C, e) ==
  \A i \in DOMAIN N : N[i].kind = "leaf" =>
    /\ N[i].key \in TrieKeys /\ e[N[i].key] # <<>> /\ C[i] = {N[i].key}
    /\ N[i].digest = leaf_digest(N[i].key, e[N[i].key][1])

\* A branch parts its keys by its bit, the first in which they differ.
Parts(N, C) ==
  \A i \in DOMAIN N : N[i].kind = "branch" =>
    /\ N[i].left \in Used(N) /\ N[i].right \in Used(N)
    /\ C[N[i].left] = {k \in C[i] : k[N[i].bit] = 0}
    /\ C[N[i].right] = {k \in C[i] : k[N[i].bit] = 1}
    /\ \A k, l \in C[i] : Agree(k, l, N[i].bit)

Holds(N, C, P) == \A i \in Used(N) : C[i] # {} /\ C[i] \in SUBSET P

Rooted(N, R, C, P) ==
  IF P = {} THEN R = 0 /\ Used(N) = {} ELSE R \in Used(N) /\ C[R] = P

Parented(N, R) ==
  \A i \in Used(N) : i # R =>
    \E p \in DOMAIN N : N[p].kind = "branch" /\ (i = N[p].left \/ i = N[p].right)

\* The digest of a branch that is not marked is that of its children, and
\* neither of them is marked.
Clean(N) ==
  \A i \in DOMAIN N : N[i].kind = "branch" /\ ~N[i].dirty =>
    /\ N[i].digest = branch_digest(N[i].bit, N[N[i].left].digest, N[N[i].right].digest)
    /\ N[N[i].left].kind = "branch" => ~N[N[i].left].dirty
    /\ N[N[i].right].kind = "branch" => ~N[N[i].right].dirty

Freeds(N, f) ==
  /\ f \in Seq(DOMAIN N)
  /\ \A m, n \in 1..Len(f) : f[m] = f[n] => m = n
  /\ \A i \in DOMAIN N : N[i] = Freed <=> \E n \in 1..Len(f) : f[n] = i

Tree(N, R, C, P) == Nodes(N) /\ Parts(N, C) /\ Holds(N, C, P) /\ Rooted(N, R, C, P) /\ Parented(N, R)

LEMMA KeyBits ==
  ASSUME NEW k \in TrieKeys, NEW b \in 1..Width
  PROVE  k[b] \in {0, 1}
BY TrieAssumption

LEMMA NodeKinds ==
  ASSUME NEW N, Nodes(N), NEW i \in DOMAIN N
  PROVE  /\ N[i].kind \in {"leaf", "branch", "freed"}
         /\ N[i].kind = "branch" => IsBranchNode(N[i])
         /\ N[i].kind = "leaf" => IsLeafNode(N[i])
         /\ N[i].kind = "freed" <=> N[i] = Freed
BY DEF Nodes, IsLeafNode, IsBranchNode, Freed, Leaf

LEMMA BitRange ==
  ASSUME NEW N, Nodes(N), NEW i \in DOMAIN N
  PROVE  BitOf(N[i]) \in 1..(Width + 1) /\ (N[i].kind = "branch" => BitOf(N[i]) = N[i].bit /\ N[i].bit \in 1..Width)
BY NodeKinds, TrieAssumption DEF BitOf, IsBranchNode

\* The children of a branch hold its keys, and decide on later bits.
LEMMA ChildBelow ==
  ASSUME NEW N, NEW C, NEW P, P \subseteq TrieKeys, Nodes(N), Parts(N, C), Holds(N, C, P),
         NEW i \in DOMAIN N, N[i].kind = "branch", NEW c, c = N[i].left \/ c = N[i].right
  PROVE  /\ c \in Used(N) /\ C[c] \subseteq C[i] /\ N[i].bit < BitOf(N[c])
         /\ \A k, l \in C[c] : Agree(k, l, N[i].bit + 1)
<1>1. /\ c \in Used(N) /\ C[c] \subseteq C[i]
      /\ \A k, l \in C[c] : k[N[i].bit] = l[N[i].bit]
  <2>1. /\ N[i].left \in Used(N) /\ N[i].right \in Used(N)
        /\ C[N[i].left] = {k \in C[i] : k[N[i].bit] = 0}
        /\ C[N[i].right] = {k \in C[i] : k[N[i].bit] = 1}
    BY Zenon DEF Parts
  <2>2. CASE c = N[i].left
    BY <2>1, <2>2
  <2>3. CASE c = N[i].right
    BY <2>1, <2>3
  <2> QED BY <2>2, <2>3
<1>2. \A k, l \in C[i] : Agree(k, l, N[i].bit)
  BY DEF Parts
<1>3. N[i].bit \in 1..Width
  BY BitRange
<1>4. \A k, l \in C[c] : Agree(k, l, N[i].bit + 1)
  BY <1>1, <1>2, <1>3 DEF Agree
<1>5. ASSUME N[c].kind = "branch" PROVE N[i].bit < N[c].bit
  <2>1. c \in DOMAIN N
    BY <1>1 DEF Used
  <2>2. N[c].bit \in 1..Width
    BY <1>5, <2>1, BitRange
  <2>3. PICK k \in C[c] : k[N[c].bit] = 0
    <3>1. N[c].left \in Used(N) /\ C[N[c].left] = {k \in C[c] : k[N[c].bit] = 0}
      BY <1>5, <2>1 DEF Parts
    <3> QED BY <3>1 DEF Holds
  <2>4. PICK l \in C[c] : l[N[c].bit] = 1
    <3>1. N[c].right \in Used(N) /\ C[N[c].right] = {m \in C[c] : m[N[c].bit] = 1}
      BY <1>5, <2>1 DEF Parts
    <3> QED BY <3>1 DEF Holds
  <2>5. Agree(k, l, N[i].bit + 1)
    BY <1>4
  <2>6. k[N[c].bit] # l[N[c].bit]
    BY <2>3, <2>4
  <2> QED BY <1>3, <2>2, <2>5, <2>6 DEF Agree
<1>6. N[i].bit < BitOf(N[c])
  BY <1>3, <1>5, TrieAssumption DEF BitOf
<1> QED BY <1>1, <1>4, <1>6

\* A key that is below a branch is below the child that its bit names.
LEMMA ChildHolds ==
  ASSUME NEW N, NEW C, NEW P, P \subseteq TrieKeys, Nodes(N), Parts(N, C), Holds(N, C, P),
         NEW i \in DOMAIN N, N[i].kind = "branch", NEW k \in C[i]
  PROVE  /\ k \in C[Child(N[i], k)]
         /\ \A c : (c = N[i].left \/ c = N[i].right) /\ k \in C[c] => c = Child(N[i], k)
<1>1. /\ N[i].left \in Used(N) /\ N[i].right \in Used(N)
      /\ C[N[i].left] = {l \in C[i] : l[N[i].bit] = 0}
      /\ C[N[i].right] = {l \in C[i] : l[N[i].bit] = 1}
  BY Zenon DEF Parts
<1>2. i \in Used(N)
  BY DEF Used
<1>3. k[N[i].bit] \in {0, 1}
  BY <1>2, BitRange, KeyBits DEF Holds
<1> QED BY <1>1, <1>3 DEF Child

-----------------------------------------------------------------------------
(* The walk of a key *)

Walk(N, R, k, w) ==
  /\ w \in Seq(Used(N)) /\ Len(w) \in Nat \ {0} /\ w[1] = R
  /\ \A n \in 1..(Len(w) - 1) : N[w[n]].kind = "branch" /\ w[n + 1] = Child(N[w[n]], k)

\* What is above a node of the walk is before it.
LEMMA WalkGrows ==
  ASSUME NEW N, NEW C, NEW P, P \subseteq TrieKeys, Nodes(N), Parts(N, C), Holds(N, C, P),
         NEW R, NEW k, NEW w, Walk(N, R, k, w)
  PROVE  \A m, n \in 1..Len(w) : m < n => C[w[n]] \subseteq C[w[m]] /\ BitOf(N[w[m]]) < BitOf(N[w[n]])
<1> DEFINE Q(n) == \A m \in 1..Len(w) : m < n =>
              C[w[n]] \subseteq C[w[m]] /\ BitOf(N[w[m]]) < BitOf(N[w[n]])
           T == {n \in Nat : n \in 1..Len(w) => Q(n)}
<1>1. Len(w) \in Nat /\ \A n \in 1..Len(w) : w[n] \in DOMAIN N /\ BitOf(N[w[n]]) \in Nat
  <2>1. Len(w) \in Nat /\ \A n \in 1..Len(w) : w[n] \in DOMAIN N
    BY DEF Walk, Used
  <2> QED BY <2>1, BitRange, TrieAssumption
<1>2. 0 \in T
  BY <1>1
<1>3. ASSUME NEW n \in Nat, n \in T PROVE n + 1 \in T
  <2> SUFFICES ASSUME n + 1 \in 1..Len(w) PROVE Q(n + 1)
    OBVIOUS
  <2> SUFFICES ASSUME NEW m \in 1..Len(w), m < n + 1
               PROVE  C[w[n + 1]] \subseteq C[w[m]] /\ BitOf(N[w[m]]) < BitOf(N[w[n + 1]])
    OBVIOUS
  <2>1. n \in 1..(Len(w) - 1) /\ n \in 1..Len(w) /\ (m < n \/ m = n)
    BY <1>1
  <2>2. N[w[n]].kind = "branch" /\ w[n + 1] = Child(N[w[n]], k)
    BY <2>1 DEF Walk
  <2>3. C[w[n + 1]] \subseteq C[w[n]] /\ N[w[n]].bit < BitOf(N[w[n + 1]])
    <3> DEFINE c == w[n + 1]
               i == w[n]
    <3>1. (c = N[i].left \/ c = N[i].right) /\ i \in DOMAIN N /\ N[i].kind = "branch"
      BY <1>1, <2>1, <2>2 DEF Child
    <3> HIDE DEF c, i
    <3>2. C[c] \subseteq C[i] /\ N[i].bit < BitOf(N[c])
      BY <3>1, ChildBelow
    <3> QED BY <3>2 DEF c, i
  <2>4. BitOf(N[w[n]]) = N[w[n]].bit
    BY <2>2 DEF BitOf
  <2>5. m < n => C[w[n]] \subseteq C[w[m]] /\ BitOf(N[w[m]]) < BitOf(N[w[n]])
    BY <1>3, <2>1
  <2>6. BitOf(N[w[m]]) \in Nat /\ BitOf(N[w[n]]) \in Nat /\ BitOf(N[w[n + 1]]) \in Nat
    BY <1>1, <2>1
  <2> QED BY <2>1, <2>3, <2>4, <2>5, <2>6
<1> HIDE DEF T
<1>4. Nat \subseteq T
  BY <1>2, <1>3, Induction
<1> QED BY <1>1, <1>4 DEF T

NotBelow(N, i, j) == BitOf(N[i]) <= BitOf(N[j])

\* Each node that holds a key of the last node of w, and is not below it, is on w.
OnWalk(N, C, w) ==
  \A l \in C[w[Len(w)]] : \A i \in Used(N) :
    l \in C[i] /\ NotBelow(N, i, w[Len(w)]) => \E n \in 1..Len(w) : w[n] = i

LEMMA WalkHolds ==
  ASSUME NEW N, NEW C, NEW P, P \subseteq TrieKeys, NEW R, Tree(N, R, C, P), NEW k, NEW w, Walk(N, R, k, w)
  PROVE  OnWalk(N, C, w)
<1> SUFFICES ASSUME NEW l \in C[w[Len(w)]], NEW i \in Used(N), l \in C[i],
                    BitOf(N[i]) <= BitOf(N[w[Len(w)]])
             PROVE  \E n \in 1..Len(w) : w[n] = i
  BY DEF NotBelow, OnWalk
<1> DEFINE bad == {j \in Used(N) : l \in C[j] /\ BitOf(N[j]) <= BitOf(N[w[Len(w)]])
                                 /\ \A n \in 1..Len(w) : w[n] # j}
<1> SUFFICES ASSUME bad # {} PROVE FALSE
  OBVIOUS
<1>1. \A j \in Used(N) : j \in DOMAIN N /\ BitOf(N[j]) \in Nat
  BY BitRange, TrieAssumption DEF Tree, Used
<1>2. PICK j \in bad : \A x \in bad : BitOf(N[j]) <= BitOf(N[x])
  <2> DEFINE T == {BitOf(N[x]) : x \in bad}
  <2>1. T \in SUBSET Nat /\ T # {}
    BY <1>1
  <2>2. PICK b \in T : \A y \in T : b <= y
    <3> HIDE DEF T
    <3> QED BY <2>1, LeastNatural
  <2> QED BY <2>2
<1>3. /\ Len(w) \in Nat \ {0} /\ w[1] = R
      /\ \A n \in 1..Len(w) : w[n] \in Used(N)
      /\ \A n \in 1..(Len(w) - 1) : N[w[n]].kind = "branch" /\ w[n + 1] = Child(N[w[n]], k)
  BY DEF Walk
<1>4. j # R
  BY <1>3
<1>5. PICK p \in DOMAIN N : N[p].kind = "branch" /\ (j = N[p].left \/ j = N[p].right)
  BY <1>4 DEF Tree, Parented
<1>6. C[j] \subseteq C[p] /\ BitOf(N[p]) < BitOf(N[j]) /\ p \in Used(N)
  BY <1>5, ChildBelow DEF Tree, BitOf, Used
<1>7. p \notin bad
  BY <1>1, <1>2, <1>6
<1>8. PICK n \in 1..Len(w) : w[n] = p
  BY <1>1, <1>2, <1>3, <1>6, <1>7
<1>9. n # Len(w)
  BY <1>1, <1>2, <1>3, <1>6, <1>8
<1>10. n \in 1..(Len(w) - 1) /\ n + 1 \in 1..Len(w)
  BY <1>3, <1>9
<1>11. w[n + 1] = Child(N[p], k)
  BY <1>3, <1>8, <1>10
<1>12. l \in C[w[n + 1]]
  <2>1. \A m, q \in 1..Len(w) : m < q => C[w[q]] \subseteq C[w[m]]
    BY WalkGrows DEF Tree
  <2>2. n + 1 = Len(w) \/ n + 1 < Len(w)
    BY <1>3, <1>10
  <2>3. Len(w) \in 1..Len(w)
    BY <1>3
  <2> QED BY <1>10, <2>1, <2>2, <2>3
<1>13. l \in C[p] /\ l \in C[j]
  BY <1>2, <1>6
<1>14. w[n + 1] = N[p].left \/ w[n + 1] = N[p].right
  BY <1>11 DEF Child
<1>15. j = Child(N[p], l) /\ w[n + 1] = Child(N[p], l)
  <2>1. \A c : (c = N[p].left \/ c = N[p].right) /\ l \in C[c] => c = Child(N[p], l)
    BY <1>5, <1>13, ChildHolds DEF Tree
  <2> QED BY <1>5, <1>12, <1>13, <1>14, <2>1
<1> QED BY <1>2, <1>10, <1>15

\* One round of descend.
Round(t, k, w) == IF IsBranch(t, Last(w)) THEN Append(w, Child(t.nodes[Last(w)], k)) ELSE w

IsDescent(g, t, k) == g = [n \in 0..Width |-> IF n = 0 THEN <<t.root>> ELSE Round(t, k, g[n - 1])]

\* The loop of descend runs: its function exists.
LEMMA DescentExists ==
  ASSUME NEW t, NEW k
  PROVE  \E g : IsDescent(g, t, k) /\ descend(t, k) = g[Width]
<1> DEFINE At(g, n) == IF n = 0 THEN <<t.root>> ELSE Round(t, k, g[n - 1])
           Upto(m, g) == \A n \in 0..Width : n <= m => g[n] = At(g, n)
           T == {m \in Nat : \E g : Upto(m, g)}
<1> Width \in Nat
  BY TrieAssumption
<1>1. 0 \in T
  <2> DEFINE g == [n \in 0..Width |-> <<t.root>>]
  <2>1. Upto(0, g)
    OBVIOUS
  <2> HIDE DEF Upto, g
  <2> QED BY <2>1
<1>2. ASSUME NEW m \in Nat, m \in T PROVE m + 1 \in T
  <2>1. PICK g : Upto(m, g)
    BY <1>2
  <2> DEFINE h == [n \in 0..Width |-> At(g, n)]
  <2>2. ASSUME NEW n \in 0..Width, n <= m + 1 PROVE h[n] = At(h, n)
    <3>1. n # 0 => n - 1 \in 0..Width /\ n - 1 <= m
      BY <2>2
    <3>2. n # 0 => h[n - 1] = g[n - 1]
      BY <2>1, <3>1
    <3> QED BY <3>2
  <2>3. Upto(m + 1, h)
    <3> HIDE DEF h, At
    <3> QED BY <2>2
  <2> HIDE DEF Upto, h
  <2> QED BY <2>3
<1>3. Width \in T
  <2> HIDE DEF T
  <2> QED BY <1>1, <1>2, Induction
<1>4. PICK g : Upto(Width, g)
  BY <1>3
<1> DEFINE h == [n \in 0..Width |-> g[n]]
<1>5. IsDescent(h, t, k)
  <2>1. ASSUME NEW n \in 0..Width PROVE h[n] = IF n = 0 THEN <<t.root>> ELSE Round(t, k, h[n - 1])
    <3>1. n # 0 => n - 1 \in 0..Width
      OBVIOUS
    <3>2. h[n] = At(g, n)
      BY <1>4
    <3>3. n # 0 => h[n - 1] = g[n - 1]
      BY <3>1
    <3> QED BY <3>2, <3>3
  <2>2. h = [n \in 0..Width |-> h[n]]
    OBVIOUS
  <2> HIDE DEF h
  <2> QED BY <2>1, <2>2 DEF IsDescent
<1> DEFINE c == CHOOSE f : IsDescent(f, t, k)
<1>6. IsDescent(c, t, k)
  <2> HIDE DEF h
  <2> QED BY <1>5, Zenon
<1>7. descend(t, k) = c[Width]
  BY Zenon DEF descend, IsDescent, Round
<1> HIDE DEF c
<1> QED BY <1>6, <1>7
\* A walk of n nodes ends at bit n or later.
LEMMA WalkDeep ==
  ASSUME NEW N, NEW C, NEW P, P \subseteq TrieKeys, Nodes(N), Parts(N, C), Holds(N, C, P),
         NEW R, NEW k, NEW w, Walk(N, R, k, w)
  PROVE  \A n \in 1..Len(w) : n <= BitOf(N[w[n]])
<1> DEFINE T == {n \in Nat : n \in 1..Len(w) => n <= BitOf(N[w[n]])}
<1>1. Len(w) \in Nat /\ \A n \in 1..Len(w) : BitOf(N[w[n]]) \in Nat
  <2>1. Len(w) \in Nat /\ \A n \in 1..Len(w) : w[n] \in DOMAIN N
    BY DEF Walk, Used
  <2> QED BY <2>1, BitRange, TrieAssumption
<1>2. \A m, n \in 1..Len(w) : m < n => BitOf(N[w[m]]) < BitOf(N[w[n]])
  BY WalkGrows
<1>3. 0 \in T
  OBVIOUS
<1>4. ASSUME NEW n \in Nat, n \in T PROVE n + 1 \in T
  <2> SUFFICES ASSUME n + 1 \in 1..Len(w) PROVE n + 1 <= BitOf(N[w[n + 1]])
    OBVIOUS
  <2>1. CASE n = 0
    <3>1. 1 \in 1..Len(w) /\ w[1] \in DOMAIN N
      BY <2>1 DEF Walk, Used
    <3>2. BitOf(N[w[1]]) \in 1..(Width + 1)
      BY <3>1, BitRange
    <3> QED BY <2>1, <3>2, TrieAssumption
  <2>2. CASE n # 0
    <3>1. n \in 1..Len(w) /\ n <= BitOf(N[w[n]])
      BY <1>1, <1>4, <2>2
    <3>2. BitOf(N[w[n]]) < BitOf(N[w[n + 1]])
      BY <1>1, <1>2, <3>1
    <3> QED BY <1>1, <3>1, <3>2
  <2> QED BY <2>1, <2>2
<1> HIDE DEF T
<1>5. Nat \subseteq T
  BY <1>3, <1>4, Induction
<1> QED BY <1>1, <1>5 DEF T

LEMMA WalkOn ==
  ASSUME NEW t, NEW C, NEW P, P \subseteq TrieKeys, Tree(t.nodes, t.root, C, P), NEW k,
         NEW w, Walk(t.nodes, t.root, k, w)
  PROVE  /\ Walk(t.nodes, t.root, k, Round(t, k, w))
         /\ IF t.nodes[w[Len(w)]].kind = "branch" THEN Len(Round(t, k, w)) = Len(w) + 1 ELSE Round(t, k, w) = w
<1> DEFINE N == t.nodes
           x == w[Len(w)]
<1>1. w \in Seq(Used(N)) /\ Len(w) \in Nat \ {0} /\ Last(w) = x /\ x \in Used(N)
  BY DEF Walk, Last
<1>2. CASE N[x].kind = "branch"
  <2> DEFINE c == Child(N[x], k)
  <2>1. Round(t, k, w) = Append(w, c)
    BY <1>1, <1>2 DEF Round, IsBranch
  <2>2. c \in Used(N)
    <3>1. c = N[x].left \/ c = N[x].right
      BY DEF Child
    <3> HIDE DEF c
    <3> QED BY <1>1, <1>2, <3>1, ChildBelow DEF Used, Tree
  <2>3. \A n \in 1..(Len(w) - 1) : N[w[n]].kind = "branch" /\ w[n + 1] = Child(N[w[n]], k)
    BY DEF Walk
  <2> DEFINE v == Append(w, c)
  <2>4. v \in Seq(Used(N)) /\ Len(v) = Len(w) + 1 /\ v[Len(w) + 1] = c /\ \A n \in 1..Len(w) : v[n] = w[n]
    BY <1>1, <2>2
  <2>5. w[1] = t.root /\ v[1] = w[1]
    BY <1>1, <2>4 DEF Walk
  <2>6. ASSUME NEW n \in 1..(Len(v) - 1) PROVE N[v[n]].kind = "branch" /\ v[n + 1] = Child(N[v[n]], k)
    <3> HIDE DEF v, N
    <3>1. n \in 1..Len(w) /\ v[n] = w[n]
      BY <1>1, <2>4
    <3>2. CASE n = Len(w)
      BY <1>2, <2>4, <3>1, <3>2
    <3>3. CASE n # Len(w)
      <4>1. n \in 1..(Len(w) - 1) /\ n + 1 \in 1..Len(w)
        BY <1>1, <3>1, <3>3
      <4>2. v[n + 1] = w[n + 1]
        BY <2>4, <4>1
      <4> QED BY <2>3, <3>1, <4>1, <4>2
    <3> QED BY <3>2, <3>3
  <2>7. Walk(N, t.root, k, v)
    <3> HIDE DEF v, N
    <3> QED BY <1>1, <2>4, <2>5, <2>6 DEF Walk
  <2> QED BY <1>2, <2>1, <2>4, <2>7
<1>3. CASE N[x].kind # "branch"
  <2>1. Round(t, k, w) = w
    BY <1>1, <1>3 DEF Round, IsBranch
  <2> QED BY <1>3, <2>1
<1> QED BY <1>2, <1>3

\* descend walks from the root to a leaf.
LEMMA DescendWalks ==
  ASSUME NEW t, NEW C, NEW P, P \subseteq TrieKeys, Tree(t.nodes, t.root, C, P), P # {}, NEW k
  PROVE  /\ Walk(t.nodes, t.root, k, descend(t, k))
         /\ t.nodes[descend(t, k)[Len(descend(t, k))]].kind = "leaf"
<1> DEFINE N == t.nodes
           IsWalk(w) == Walk(N, t.root, k, w)
           Done(w) == N[w[Len(w)]].kind # "branch"
<1>1. PICK g : IsDescent(g, t, k) /\ descend(t, k) = g[Width]
  BY DescentExists
<1> DEFINE T == {n \in Nat : n <= Width => IsWalk(g[n]) /\ (Done(g[n]) \/ Len(g[n]) = n + 1)}
<1> Width \in Nat
  BY TrieAssumption
<1>2. 0 \in T
  <2>1. g[0] = <<t.root>>
    BY <1>1 DEF IsDescent
  <2>2. t.root \in Used(N)
    BY DEF Tree, Rooted
  <2>3. Walk(N, t.root, k, <<t.root>>)
    BY <2>2 DEF Walk
  <2> QED BY <2>1, <2>3
<1>3. ASSUME NEW n \in Nat, n \in T PROVE n + 1 \in T
  <2> SUFFICES ASSUME n + 1 <= Width PROVE IsWalk(g[n + 1]) /\ (Done(g[n + 1]) \/ Len(g[n + 1]) = n + 2)
    OBVIOUS
  <2>1. g[n + 1] = Round(t, k, g[n])
    <3>1. n + 1 \in 0..Width /\ n + 1 # 0 /\ (n + 1) - 1 = n
      OBVIOUS
    <3>2. g[n + 1] = IF n + 1 = 0 THEN <<t.root>> ELSE Round(t, k, g[(n + 1) - 1])
      BY <1>1, <3>1 DEF IsDescent
    <3> QED BY <3>1, <3>2
  <2>2. IsWalk(g[n]) /\ (Done(g[n]) \/ Len(g[n]) = n + 1)
    BY <1>3
  <2>3. /\ Walk(t.nodes, t.root, k, Round(t, k, g[n]))
        /\ IF t.nodes[g[n][Len(g[n])]].kind = "branch" THEN Len(Round(t, k, g[n])) = Len(g[n]) + 1
           ELSE Round(t, k, g[n]) = g[n]
    BY <2>2, WalkOn
  <2> QED BY <2>1, <2>2, <2>3
<1> HIDE DEF T
<1>4. Width \in T
  BY <1>2, <1>3, Induction
<1> DEFINE w == g[Width]
<1>5. IsWalk(w) /\ (Done(w) \/ Len(w) = Width + 1)
  BY <1>4 DEF T
<1> HIDE DEF w
<1>6. w[Len(w)] \in Used(N) /\ w[Len(w)] \in DOMAIN N /\ Len(w) \in 1..Len(w)
  BY <1>5 DEF Walk, Used
<1>7. Done(w)
  <2> SUFFICES ASSUME Len(w) = Width + 1, N[w[Len(w)]].kind = "branch" PROVE FALSE
    BY <1>5
  <2>1. Len(w) <= BitOf(N[w[Len(w)]])
    BY <1>5, <1>6, WalkDeep DEF Tree
  <2>2. BitOf(N[w[Len(w)]]) \in 1..Width
    BY <1>6, BitRange DEF Tree
  <2> QED BY <2>1, <2>2
<1>8. N[w[Len(w)]].kind = "leaf"
  BY <1>6, <1>7, NodeKinds DEF Used, Tree
<1> QED BY <1>1, <1>5, <1>8 DEF w

\* w is the walk of k; it ends at the leaf x of l.
Reach(t, C, P, k, w, x, l) ==
  /\ w \in Seq(Used(t.nodes)) /\ Len(w) \in Nat \ {0} /\ w[1] = t.root
  /\ x = w[Len(w)] /\ x \in Used(t.nodes) /\ t.nodes[x].kind = "leaf" /\ l = t.nodes[x].key
  /\ l \in P /\ C[x] = {l}
  /\ \A n \in 1..Len(w) : l \in C[w[n]]
  /\ \A i \in Used(t.nodes) : l \in C[i] => \E n \in 1..Len(w) : w[n] = i
  /\ \A m, n \in 1..Len(w) : m < n => BitOf(t.nodes[w[m]]) < BitOf(t.nodes[w[n]])
  /\ \A n \in 1..(Len(w) - 1) :
       /\ t.nodes[w[n]].kind = "branch" /\ w[n + 1] = Child(t.nodes[w[n]], k)
       /\ k[t.nodes[w[n]].bit] = l[t.nodes[w[n]].bit]
  /\ k \in P => l = k

LEMMA Reaches ==
  ASSUME NEW t, NEW C, NEW P, P \subseteq TrieKeys, Tree(t.nodes, t.root, C, P), P # {}, NEW k \in TrieKeys,
         NEW e, Leaves(t.nodes, C, e)
  PROVE  \E w, x, l : w = descend(t, k) /\ Reach(t, C, P, k, w, x, l)
<1> DEFINE N == t.nodes
           w == descend(t, k)
           x == w[Len(w)]
           l == N[x].key
<1>1. Walk(N, t.root, k, w) /\ N[x].kind = "leaf"
  BY DescendWalks
<1> HIDE DEF w
<1>2. /\ w \in Seq(Used(N)) /\ Len(w) \in Nat \ {0} /\ w[1] = t.root /\ x \in Used(N)
      /\ \A n \in 1..Len(w) : w[n] \in Used(N) /\ w[n] \in DOMAIN N
      /\ \A n \in 1..(Len(w) - 1) : N[w[n]].kind = "branch" /\ w[n + 1] = Child(N[w[n]], k)
  BY <1>1 DEF Walk, Used
<1>3. C[x] = {l}
  BY <1>1, <1>2 DEF Leaves, Used
<1>4. l \in P
  BY <1>2, <1>3 DEF Tree, Holds
<1>5. \A m, n \in 1..Len(w) : m < n => C[w[n]] \subseteq C[w[m]] /\ BitOf(N[w[m]]) < BitOf(N[w[n]])
  BY <1>1, WalkGrows DEF Tree
<1>6. ASSUME NEW n \in 1..Len(w) PROVE l \in C[w[n]]
  <2>1. n = Len(w) \/ n < Len(w)
    BY <1>2
  <2>2. Len(w) \in 1..Len(w) /\ l \in C[x]
    BY <1>2, <1>3
  <2> HIDE DEF l
  <2> QED BY <1>5, <2>1, <2>2
<1>7. ASSUME NEW i \in Used(N), l \in C[i] PROVE \E n \in 1..Len(w) : w[n] = i
  <2>1. l \in C[w[Len(w)]]
    BY <1>3
  <2>2. NotBelow(N, i, w[Len(w)])
    <3>1. BitOf(N[i]) \in 1..(Width + 1)
      BY BitRange DEF Tree, Used
    <3>2. BitOf(N[x]) = Width + 1
      BY <1>1 DEF BitOf
    <3> QED BY <3>1, <3>2, TrieAssumption DEF NotBelow
  <2> HIDE DEF l
  <2>3. OnWalk(N, C, w)
    BY <1>1, WalkHolds
  <2>4. \A q \in C[w[Len(w)]] : \A j \in Used(N) :
          q \in C[j] /\ NotBelow(N, j, w[Len(w)]) => \E n \in 1..Len(w) : w[n] = j
    BY <2>3 DEF OnWalk
  <2> HIDE DEF x, N
  <2> QED BY <1>7, <2>1, <2>2, <2>4
<1>8. ASSUME NEW n \in 1..(Len(w) - 1) PROVE k[N[w[n]].bit] = l[N[w[n]].bit]
  <2> DEFINE i == w[n]
  <2>1. n \in 1..Len(w) /\ n + 1 \in 1..Len(w)
    BY <1>2
  <2>2. l \in C[w[n + 1]]
    BY <1>6, <2>1
  <2>3. i \in DOMAIN N /\ N[i].kind = "branch" /\ w[n + 1] = Child(N[i], k)
    BY <1>2, <2>1
  <2>4. N[i].bit \in 1..Width
    BY <2>3, BitRange DEF Tree
  <2>5. k[N[i].bit] \in {0, 1}
    BY <2>4, KeyBits
  <2>6. /\ C[N[i].left] = {q \in C[i] : q[N[i].bit] = 0}
        /\ C[N[i].right] = {q \in C[i] : q[N[i].bit] = 1}
    BY <2>3 DEF Tree, Parts
  <2> HIDE DEF l, i
  <2>7. CASE k[N[i].bit] = 1
    <3>1. l \in C[N[i].right]
      BY <2>2, <2>3, <2>7 DEF Child
    <3> QED BY <2>6, <2>7, <3>1 DEF i
  <2>8. CASE k[N[i].bit] = 0
    <3>1. l \in C[N[i].left]
      BY <2>2, <2>3, <2>8 DEF Child
    <3> QED BY <2>6, <2>8, <3>1 DEF i
  <2> QED BY <2>5, <2>7, <2>8
<1>9. ASSUME k \in P PROVE l = k
  <2> DEFINE T == {n \in Nat : n \in 1..Len(w) => k \in C[w[n]]}
  <2>1. 0 \in T
    OBVIOUS
  <2>2. ASSUME NEW n \in Nat, n \in T PROVE n + 1 \in T
    <3> SUFFICES ASSUME n + 1 \in 1..Len(w) PROVE k \in C[w[n + 1]]
      OBVIOUS
    <3>1. CASE n = 0
      BY <1>2, <1>9, <3>1 DEF Tree, Rooted
    <3>2. CASE n # 0
      <4>1. n \in 1..(Len(w) - 1) /\ n \in 1..Len(w)
        BY <1>2, <3>2
      <4>2. w[n] \in DOMAIN N /\ N[w[n]].kind = "branch" /\ w[n + 1] = Child(N[w[n]], k) /\ k \in C[w[n]]
        BY <1>2, <2>2, <4>1
      <4>3. k \in C[Child(N[w[n]], k)]
        BY <4>2, ChildHolds DEF Tree
      <4> QED BY <4>2, <4>3
    <3> QED BY <3>1, <3>2
  <2> HIDE DEF T
  <2>3. Len(w) \in T
    BY <1>2, <2>1, <2>2, Induction
  <2>4. k \in C[x]
    BY <1>2, <2>3 DEF T
  <2> QED BY <1>3, <2>4
<1>10. Reach(t, C, P, k, w, x, l)
  <2> HIDE DEF l, x
  <2>1. x = w[Len(w)] /\ l = N[x].key
    BY DEF l, x
  <2> HIDE DEF N
  <2> QED BY <1>1, <1>2, <1>3, <1>4, <1>5, <1>6, <1>7, <1>8, <1>9, <2>1 DEF Reach, N
<1> QED BY <1>10 DEF w

-----------------------------------------------------------------------------
(* The arena *)

IsTrie(t) == t = [nodes |-> t.nodes, free |-> t.free, root |-> t.root, len |-> t.len]

Arena(t) ==
  /\ IsTrie(t) /\ Len(t.nodes) \in Nat /\ IsVector(t.nodes, Len(t.nodes))
  /\ Freeds(t.nodes, t.free)

TrieOf(N, f, r, l) == [nodes |-> N, free |-> f, root |-> r, len |-> l]

LEMMA TrieFields ==
  ASSUME NEW N, NEW f, NEW r, NEW l
  PROVE  /\ TrieOf(N, f, r, l).nodes = N /\ TrieOf(N, f, r, l).free = f
         /\ TrieOf(N, f, r, l).root = r /\ TrieOf(N, f, r, l).len = l
         /\ IsTrie(TrieOf(N, f, r, l))
BY DEF TrieOf, IsTrie

LEMMA TrieExcept ==
  ASSUME NEW t, IsTrie(t), NEW M, NEW g
  PROVE  /\ [t EXCEPT !.nodes = M] = TrieOf(M, t.free, t.root, t.len)
         /\ [t EXCEPT !.free = g] = TrieOf(t.nodes, g, t.root, t.len)
         /\ [t EXCEPT !.root = g] = TrieOf(t.nodes, t.free, g, t.len)
         /\ [t EXCEPT !.len = g] = TrieOf(t.nodes, t.free, t.root, g)
<1> DEFINE N == t.nodes
           f == t.free
           r == t.root
           l == t.len
<1>1. t = [nodes |-> N, free |-> f, root |-> r, len |-> l]
  BY DEF IsTrie
<1> HIDE DEF N, f, r, l
<1>2. [[nodes |-> N, free |-> f, root |-> r, len |-> l] EXCEPT !.free = g]
        = [nodes |-> N, free |-> g, root |-> r, len |-> l]
  OBVIOUS
<1>3. [[nodes |-> N, free |-> f, root |-> r, len |-> l] EXCEPT !.nodes = M]
        = [nodes |-> M, free |-> f, root |-> r, len |-> l]
  OBVIOUS
<1>4. [[nodes |-> N, free |-> f, root |-> r, len |-> l] EXCEPT !.root = g]
        = [nodes |-> N, free |-> f, root |-> g, len |-> l]
  OBVIOUS
<1>5. [[nodes |-> N, free |-> f, root |-> r, len |-> l] EXCEPT !.len = g]
        = [nodes |-> N, free |-> f, root |-> r, len |-> g]
  OBVIOUS
<1> QED BY <1>1, <1>2, <1>3, <1>4, <1>5, Zenon DEF TrieOf, N, f, r, l

LEMMA TrieExceptTwo ==
  ASSUME NEW t, IsTrie(t), NEW M, NEW g
  PROVE  /\ [t EXCEPT !.nodes = M, !.free = g] = TrieOf(M, g, t.root, t.len)
         /\ [t EXCEPT !.root = M, !.len = g] = TrieOf(t.nodes, t.free, M, g)
<1> DEFINE u == [t EXCEPT !.nodes = M]
           v == [t EXCEPT !.root = M]
<1>1. [t EXCEPT !.nodes = M, !.free = g] = [u EXCEPT !.free = g]
  OBVIOUS
<1>2. [t EXCEPT !.root = M, !.len = g] = [v EXCEPT !.len = g]
  OBVIOUS
<1>3. u = TrieOf(M, t.free, t.root, t.len) /\ v = TrieOf(t.nodes, t.free, M, t.len)
  BY TrieExcept
<1> HIDE DEF u, v
<1>4. /\ IsTrie(u) /\ u.nodes = M /\ u.root = t.root /\ u.len = t.len
      /\ IsTrie(v) /\ v.nodes = t.nodes /\ v.free = t.free /\ v.root = M
  BY <1>3, TrieFields
<1>5. [u EXCEPT !.free = g] = TrieOf(M, g, t.root, t.len) /\ [v EXCEPT !.len = g] = TrieOf(t.nodes, t.free, M, g)
  <2>1. [u EXCEPT !.free = g] = TrieOf(u.nodes, g, u.root, u.len)
    BY <1>4, TrieExcept, Zenon
  <2>2. [v EXCEPT !.len = g] = TrieOf(v.nodes, v.free, v.root, g)
    BY <1>4, TrieExcept, Zenon
  <2> DEFINE a == [u EXCEPT !.free = g]
             b == [v EXCEPT !.len = g]
  <2> HIDE DEF a, b
  <2>3. a = TrieOf(u.nodes, g, u.root, u.len) /\ b = TrieOf(v.nodes, v.free, v.root, g)
    BY <2>1, <2>2, Zenon DEF a, b
  <2>4. a = TrieOf(M, g, t.root, t.len) /\ b = TrieOf(t.nodes, t.free, M, g)
    BY <1>4, <2>3
  <2> QED BY <2>4, Zenon DEF a, b
<1> QED BY <1>1, <1>2, <1>5

LEMMA ArenaDomain ==
  ASSUME NEW t, Arena(t)
  PROVE  /\ Len(t.nodes) \in Nat /\ DOMAIN t.nodes = 1..Len(t.nodes)
         /\ t.free \in Seq(DOMAIN t.nodes) /\ Len(t.free) \in Nat
         /\ \A n \in 1..Len(t.free) : t.free[n] \in DOMAIN t.nodes /\ t.nodes[t.free[n]] = Freed
<1>1. t.free \in Seq(DOMAIN t.nodes)
  BY DEF Arena, Freeds
<1>2. Len(t.nodes) \in Nat /\ DOMAIN t.nodes = 1..Len(t.nodes)
  BY DEF Arena, IsVector
<1>3. \A n \in 1..Len(t.free) : t.free[n] \in DOMAIN t.nodes
  BY <1>1
<1>4. \A n \in 1..Len(t.free) : t.nodes[t.free[n]] = Freed
  BY <1>3 DEF Arena, Freeds
<1> QED BY <1>1, <1>2, <1>3, <1>4

LEMMA VectorOf ==
  ASSUME NEW q, NEW n \in Nat, IsVector(q, n)
  PROVE  Len(q) = n
<1> DEFINE S == {q[i] : i \in 1..n}
<1>1. \A i \in 1..n : q[i] \in S
  OBVIOUS
<1> HIDE DEF S
<1> QED BY <1>1, VectorSeq

LEMMA AllocKeeps ==
  ASSUME NEW t, Arena(t), NEW node, node # Freed
  PROVE  /\ Arena(alloc(t, node)) /\ Slot(t) \notin {i \in DOMAIN t.nodes : t.nodes[i] # Freed}
         /\ alloc(t, node).nodes = Put(t.nodes, Slot(t), node)
         /\ alloc(t, node).root = t.root /\ alloc(t, node).len = t.len
         /\ Slot(t) # 0
<1> DEFINE N == t.nodes
           f == t.free
           x == Slot(t)
           M == Put(N, x, node)
           g == IF f = <<>> THEN f ELSE Front(f)
           u == alloc(t, node)
<1>1. u.nodes = M /\ u.free = g /\ u.root = t.root /\ u.len = t.len /\ IsTrie(u)
  <2>1. u = [t EXCEPT !.nodes = M, !.free = g]
    BY DEF alloc
  <2> HIDE DEF M, g, u
  <2>2. u = TrieOf(M, g, t.root, t.len)
    BY <2>1, TrieExceptTwo DEF Arena
  <2> QED BY <2>2, TrieFields
<1>2. /\ Len(N) \in Nat /\ DOMAIN N = 1..Len(N) /\ f \in Seq(DOMAIN N) /\ Len(f) \in Nat
      /\ \A n \in 1..Len(f) : f[n] \in DOMAIN N /\ N[f[n]] = Freed
  BY ArenaDomain
<1>3. /\ \A m, n \in 1..Len(f) : f[m] = f[n] => m = n
      /\ \A i \in DOMAIN N : N[i] = Freed <=> \E n \in 1..Len(f) : f[n] = i
  BY DEF Arena, Freeds
<1>4. DOMAIN M = DOMAIN N \cup {x} /\ M[x] = node /\ \A i \in DOMAIN N : i # x => M[i] = N[i]
  BY DEF Put
<1>5. CASE f = <<>>
  <2>1. x = Len(N) + 1 /\ g = f
    BY <1>5 DEF Slot
  <2>2. DOMAIN M = 1..(Len(N) + 1) /\ IsVector(M, Len(N) + 1)
    BY <1>2, <1>4, <2>1 DEF IsVector, Put
  <2> HIDE DEF M, g, x
  <2>3. Len(M) = Len(N) + 1
    BY <1>2, <2>2, VectorOf
  <2>4. Len(g) = 0 /\ g \in Seq(DOMAIN M)
    BY <1>5, <2>1
  <2>5. Freeds(M, g)
    <3>1. \A i \in DOMAIN M : M[i] # Freed
      BY <1>2, <1>3, <1>4, <1>5, <2>1
    <3> QED BY <2>4, <3>1 DEF Freeds
  <2>6. Arena(u)
    BY <1>1, <1>2, <2>2, <2>3, <2>5 DEF Arena
  <2> QED BY <1>1, <1>2, <2>1, <2>6 DEF x, M
<1>6. CASE f # <<>>
  <2>1. x = f[Len(f)] /\ Len(f) # 0 /\ Len(f) \in 1..Len(f) /\ g = SubSeq(f, 1, Len(f) - 1)
    BY <1>2, <1>6 DEF Slot, Last, Front
  <2>2. x \in DOMAIN N /\ N[x] = Freed
    BY <1>2, <2>1
  <2>3. DOMAIN M = DOMAIN N
    BY <1>4, <2>2
  <2>4. IsVector(M, Len(N))
    BY <1>2, <2>2 DEF IsVector, Put
  <2> HIDE DEF M, g, x
  <2>5. Len(M) = Len(N)
    BY <1>2, <2>4, VectorOf
  <2>6. g \in Seq(DOMAIN M) /\ Len(g) = Len(f) - 1 /\ \A n \in 1..Len(g) : g[n] = f[n]
    BY <1>2, <2>1, <2>3
  <2>7. Freeds(M, g)
    <3>1. \A m, n \in 1..Len(g) : g[m] = g[n] => m = n
      BY <1>2, <1>3, <2>6
    <3>2. ASSUME NEW i \in DOMAIN M PROVE M[i] = Freed <=> \E n \in 1..Len(g) : g[n] = i
      <4>1. CASE i = x
        <5>1. ASSUME NEW n \in 1..Len(g) PROVE g[n] # x
          <6>1. n \in 1..Len(f) /\ n # Len(f)
            BY <1>2, <2>6
          <6> QED BY <1>3, <2>1, <2>6, <6>1
        <5> QED BY <1>4, <4>1, <5>1
      <4>2. CASE i # x
        <5>1. M[i] = N[i] /\ i \in DOMAIN N
          BY <1>4, <2>3, <4>2
        <5>2. ASSUME NEW n \in 1..Len(f), f[n] = i PROVE n \in 1..Len(g) /\ g[n] = i
          <6>1. n # Len(f)
            BY <2>1, <4>2, <5>2
          <6>2. n \in 1..Len(g)
            BY <1>2, <2>6, <6>1
          <6> QED BY <2>6, <5>2, <6>2
        <5>3. ASSUME NEW n \in 1..Len(g), g[n] = i PROVE n \in 1..Len(f) /\ f[n] = i
          <6>1. n \in 1..Len(f)
            BY <1>2, <2>6
          <6> QED BY <2>6, <5>3, <6>1
        <5> QED BY <1>3, <5>1, <5>2, <5>3
      <4> QED BY <4>1, <4>2
    <3> QED BY <2>6, <3>1, <3>2 DEF Freeds
  <2>8. Arena(u)
    BY <1>1, <1>2, <2>4, <2>5, <2>7 DEF Arena
  <2> QED BY <1>1, <1>2, <2>2, <2>8 DEF x, M
<1> QED BY <1>5, <1>6

LEMMA FreeKeeps ==
  ASSUME NEW t, Arena(t), NEW i \in DOMAIN t.nodes, t.nodes[i] # Freed
  PROVE  /\ Arena(release(t, i)) /\ release(t, i).nodes = [t.nodes EXCEPT ![i] = Freed]
         /\ release(t, i).root = t.root /\ release(t, i).len = t.len
<1> DEFINE N == t.nodes
           f == t.free
           M == [N EXCEPT ![i] = Freed]
           g == Append(f, i)
           u == release(t, i)
<1>1. u.nodes = M /\ u.free = g /\ u.root = t.root /\ u.len = t.len /\ IsTrie(u)
  <2>1. u = [t EXCEPT !.nodes = M, !.free = g]
    BY DEF release
  <2> HIDE DEF M, g, u
  <2>2. u = TrieOf(M, g, t.root, t.len)
    BY <2>1, TrieExceptTwo DEF Arena
  <2> QED BY <2>2, TrieFields
<1>2. /\ Len(N) \in Nat /\ DOMAIN N = 1..Len(N) /\ f \in Seq(DOMAIN N) /\ Len(f) \in Nat
      /\ \A n \in 1..Len(f) : f[n] \in DOMAIN N /\ N[f[n]] = Freed
  BY ArenaDomain
<1>3. /\ \A m, n \in 1..Len(f) : f[m] = f[n] => m = n
      /\ \A j \in DOMAIN N : N[j] = Freed <=> \E n \in 1..Len(f) : f[n] = j
  BY DEF Arena, Freeds
<1>4. DOMAIN M = DOMAIN N /\ M[i] = Freed /\ \A j \in DOMAIN N : j # i => M[j] = N[j]
  OBVIOUS
<1>5. IsVector(M, Len(N))
  BY <1>2 DEF IsVector, Arena
<1>6. g \in Seq(DOMAIN N) /\ Len(g) = Len(f) + 1 /\ g[Len(f) + 1] = i /\ \A n \in 1..Len(f) : g[n] = f[n]
  BY <1>2
<1> HIDE DEF M, g
<1>7. Len(M) = Len(N)
  BY <1>2, <1>5, VectorOf
<1>8. \A n \in 1..Len(f) : f[n] # i
  BY <1>2
<1>9. Freeds(M, g)
  <2>1. ASSUME NEW m \in 1..Len(g), NEW n \in 1..Len(g), g[m] = g[n] PROVE m = n
    <3>1. (m \in 1..Len(f) \/ m = Len(f) + 1) /\ (n \in 1..Len(f) \/ n = Len(f) + 1)
      BY <1>2, <1>6
    <3> QED BY <1>3, <1>6, <1>8, <2>1, <3>1
  <2>2. ASSUME NEW j \in DOMAIN M PROVE M[j] = Freed <=> \E n \in 1..Len(g) : g[n] = j
    <3>1. CASE j = i
      <4>1. Len(f) + 1 \in 1..Len(g)
        BY <1>2, <1>6
      <4> QED BY <1>4, <1>6, <3>1, <4>1
    <3>2. CASE j # i
      <4>1. M[j] = N[j] /\ j \in DOMAIN N
        BY <1>4, <3>2
      <4>2. ASSUME NEW n \in 1..Len(f), f[n] = j PROVE n \in 1..Len(g) /\ g[n] = j
        <5>1. n \in 1..Len(g)
          BY <1>2, <1>6
        <5> QED BY <1>6, <4>2, <5>1
      <4>3. ASSUME NEW n \in 1..Len(g), g[n] = j PROVE n \in 1..Len(f) /\ f[n] = j
        <5>1. n # Len(f) + 1
          BY <1>6, <3>2, <4>3
        <5>2. n \in 1..Len(f)
          BY <1>2, <1>6, <5>1
        <5> QED BY <1>6, <4>3, <5>2
      <4> QED BY <1>3, <4>1, <4>2, <4>3
    <3> QED BY <3>1, <3>2
  <2> QED BY <1>4, <1>6, <2>1, <2>2 DEF Freeds
<1> QED BY <1>1, <1>2, <1>5, <1>7, <1>9 DEF Arena, M

\* Slots that stay free or in use keep the arena.
LEMMA ArenaRefilled ==
  ASSUME NEW t, Arena(t), NEW u, IsTrie(u), u.free = t.free,
         u.nodes = [i \in DOMAIN t.nodes |-> u.nodes[i]],
         \A i \in DOMAIN t.nodes : u.nodes[i] = Freed <=> t.nodes[i] = Freed
  PROVE  Arena(u)
<1>1. Len(t.nodes) \in Nat /\ DOMAIN t.nodes = 1..Len(t.nodes)
  BY ArenaDomain
<1>2. IsVector(u.nodes, Len(t.nodes)) /\ DOMAIN u.nodes = DOMAIN t.nodes
  BY <1>1 DEF IsVector
<1>3. Len(u.nodes) = Len(t.nodes)
  BY <1>1, <1>2, VectorOf
<1>4. Freeds(u.nodes, u.free)
  <2>1. /\ t.free \in Seq(DOMAIN t.nodes)
        /\ \A m, n \in 1..Len(t.free) : t.free[m] = t.free[n] => m = n
        /\ \A i \in DOMAIN t.nodes : t.nodes[i] = Freed <=> \E n \in 1..Len(t.free) : t.free[n] = i
    BY DEF Arena, Freeds
  <2> DEFINE N == t.nodes
             M == u.nodes
             f == t.free
  <2>2. DOMAIN M = DOMAIN N /\ \A i \in DOMAIN N : M[i] = Freed <=> N[i] = Freed
    BY <1>2
  <2> HIDE DEF N, M, f
  <2>3. Freeds(M, f)
    BY <2>1, <2>2 DEF Freeds, N, f
  <2> QED BY <2>3 DEF M, f
<1> QED BY <1>1, <1>2, <1>3, <1>4 DEF Arena

-----------------------------------------------------------------------------
(* Changes of nodes in place *)

BranchOf(b, l, r, d, x) == [kind |-> "branch", bit |-> b, left |-> l, right |-> r, digest |-> d, dirty |-> x]

LEMMA BranchFields ==
  ASSUME NEW b, NEW l, NEW r, NEW d, NEW x
  PROVE  /\ BranchOf(b, l, r, d, x).kind = "branch" /\ BranchOf(b, l, r, d, x).bit = b
         /\ BranchOf(b, l, r, d, x).left = l /\ BranchOf(b, l, r, d, x).right = r
         /\ BranchOf(b, l, r, d, x).digest = d /\ BranchOf(b, l, r, d, x).dirty = x
BY DEF BranchOf

LEMMA BranchNodeOf ==
  ASSUME NEW n
  PROVE  IsBranchNode(n) <=>
           /\ n = BranchOf(n.bit, n.left, n.right, n.digest, n.dirty)
           /\ n.bit \in 1..Width /\ n.dirty \in BOOLEAN
BY DEF IsBranchNode, BranchOf

LEMMA BranchExcept ==
  ASSUME NEW n, IsBranchNode(n), NEW v
  PROVE  /\ [n EXCEPT !.left = v] = BranchOf(n.bit, v, n.right, n.digest, n.dirty)
         /\ [n EXCEPT !.right = v] = BranchOf(n.bit, n.left, v, n.digest, n.dirty)
         /\ [n EXCEPT !.dirty = v] = BranchOf(n.bit, n.left, n.right, n.digest, v)
         /\ [n EXCEPT !.digest = v] = BranchOf(n.bit, n.left, n.right, v, n.dirty)
<1> DEFINE b == n.bit
           l == n.left
           r == n.right
           d == n.digest
           x == n.dirty
<1>1. n = [kind |-> "branch", bit |-> b, left |-> l, right |-> r, digest |-> d, dirty |-> x]
  BY DEF IsBranchNode
<1> HIDE DEF b, l, r, d, x
<1>2. [[kind |-> "branch", bit |-> b, left |-> l, right |-> r, digest |-> d, dirty |-> x] EXCEPT !.left = v]
        = [kind |-> "branch", bit |-> b, left |-> v, right |-> r, digest |-> d, dirty |-> x]
  OBVIOUS
<1>3. [[kind |-> "branch", bit |-> b, left |-> l, right |-> r, digest |-> d, dirty |-> x] EXCEPT !.right = v]
        = [kind |-> "branch", bit |-> b, left |-> l, right |-> v, digest |-> d, dirty |-> x]
  OBVIOUS
<1>4. [[kind |-> "branch", bit |-> b, left |-> l, right |-> r, digest |-> d, dirty |-> x] EXCEPT !.dirty = v]
        = [kind |-> "branch", bit |-> b, left |-> l, right |-> r, digest |-> d, dirty |-> v]
  OBVIOUS
<1>5. [[kind |-> "branch", bit |-> b, left |-> l, right |-> r, digest |-> d, dirty |-> x] EXCEPT !.digest = v]
        = [kind |-> "branch", bit |-> b, left |-> l, right |-> r, digest |-> v, dirty |-> x]
  OBVIOUS
<1> QED BY <1>1, <1>2, <1>3, <1>4, <1>5, Zenon DEF BranchOf, b, l, r, d, x

LEMMA LeafFields ==
  ASSUME NEW k, NEW d
  PROVE  /\ Leaf(k, d).kind = "leaf" /\ Leaf(k, d).key = k /\ Leaf(k, d).digest = d
         /\ IsLeafNode(Leaf(k, d)) /\ Leaf(k, d) # Freed
<1>1. Leaf(k, d).kind = "leaf" /\ Leaf(k, d).key = k /\ Leaf(k, d).digest = d
  BY DEF Leaf
<1>2. Freed.kind = "freed"
  BY DEF Freed
<1> QED BY <1>1, <1>2 DEF IsLeafNode

LEMMA BranchNew ==
  ASSUME NEW b \in 1..Width, NEW l, NEW r, NEW d, NEW x \in BOOLEAN
  PROVE  IsBranchNode(BranchOf(b, l, r, d, x)) /\ BranchOf(b, l, r, d, x) # Freed
<1>1. Freed.kind = "freed"
  BY DEF Freed
<1> QED BY <1>1, BranchFields, BranchNodeOf

\* The same node but for what is cached in it.
Like(n, m) ==
  /\ m.kind = n.kind
  /\ n.kind = "leaf" => m.key = n.key
  /\ n.kind = "branch" => m.bit = n.bit /\ m.left = n.left /\ m.right = n.right

LEMMA LikeTree ==
  ASSUME NEW N, NEW R, NEW C, NEW P, Tree(N, R, C, P), NEW M, Nodes(M), DOMAIN M = DOMAIN N,
         \A i \in DOMAIN N : Like(N[i], M[i])
  PROVE  Tree(M, R, C, P) /\ Used(M) = Used(N)
<1>1. Used(M) = Used(N)
  BY DEF Used, Like
<1>2. Parts(M, C)
  BY <1>1 DEF Tree, Parts, Like
<1>3. Holds(M, C, P) /\ Rooted(M, R, C, P)
  BY <1>1 DEF Tree, Holds, Rooted
<1>4. Parented(M, R)
  BY <1>1 DEF Tree, Parented, Like
<1> QED BY <1>1, <1>2, <1>3, <1>4 DEF Tree

\* Clean, except for the branches in S.
CleanBut(N, S) ==
  \A i \in DOMAIN N : i \notin S /\ N[i].kind = "branch" /\ ~N[i].dirty =>
    /\ N[i].digest = branch_digest(N[i].bit, N[N[i].left].digest, N[N[i].right].digest)
    /\ N[N[i].left].kind = "branch" => ~N[N[i].left].dirty
    /\ N[N[i].right].kind = "branch" => ~N[N[i].right].dirty

\* What is above a node of S is in S.
Upward(N, S) ==
  \A i \in DOMAIN N : N[i].kind = "branch" /\ (N[i].left \in S \/ N[i].right \in S) => i \in S

\* Marking a path that is above all that is not clean.
MarkAt(N, path) ==
  /\ \A i \in ToSet(path) : i \in DOMAIN N /\ N[i].kind = "branch"
  /\ CleanBut(N, ToSet(path)) /\ Upward(N, ToSet(path))

Marked(t, u, R, C, P) ==
  /\ Arena(u) /\ u.root = t.root /\ u.len = t.len /\ Clean(u.nodes)
  /\ Tree(u.nodes, R, C, P) /\ DOMAIN u.nodes = DOMAIN t.nodes
  /\ \A i \in DOMAIN t.nodes : Like(t.nodes[i], u.nodes[i]) /\ u.nodes[i].digest = t.nodes[i].digest

LEMMA MarkCleans ==
  ASSUME NEW t, Arena(t), NEW R, NEW C, NEW P, Tree(t.nodes, R, C, P), NEW path, MarkAt(t.nodes, path)
  PROVE  Marked(t, mark(t, path), R, C, P)
<1> DEFINE N == t.nodes
           u == mark(t, path)
           S == ToSet(path)
           M == [i \in DOMAIN N |-> IF i \in S THEN [N[i] EXCEPT !.dirty = TRUE] ELSE N[i]]
<1>1. u = [t EXCEPT !.nodes = M]
  BY DEF mark
<1>2. DOMAIN M = DOMAIN N /\ M = [i \in DOMAIN N |-> M[i]]
  OBVIOUS
<1>3. \A i \in S : i \in DOMAIN N /\ N[i].kind = "branch"
  BY DEF MarkAt
<1>4. \A i \in DOMAIN N : i \notin S => M[i] = N[i]
  OBVIOUS
<1>5. ASSUME NEW i \in S
      PROVE  /\ M[i] = BranchOf(N[i].bit, N[i].left, N[i].right, N[i].digest, TRUE)
             /\ IsBranchNode(N[i])
  <2>1. IsBranchNode(N[i])
    BY <1>3, NodeKinds DEF Tree
  <2>2. M[i] = [N[i] EXCEPT !.dirty = TRUE]
    BY <1>3
  <2> HIDE DEF M
  <2> QED BY <2>1, <2>2, BranchExcept
<1>s. CleanBut(N, S) /\ Upward(N, S)
  BY DEF MarkAt
<1> HIDE DEF M, u, S
<1>6. ASSUME NEW i \in S
      PROVE  /\ M[i].kind = "branch" /\ M[i].bit = N[i].bit /\ M[i].left = N[i].left
             /\ M[i].right = N[i].right /\ M[i].digest = N[i].digest /\ M[i].dirty = TRUE
             /\ IsBranchNode(M[i])
  <2>1. M[i] = BranchOf(N[i].bit, N[i].left, N[i].right, N[i].digest, TRUE) /\ N[i].bit \in 1..Width
    BY <1>5, BranchNodeOf, Zenon
  <2>2. IsBranchNode(M[i])
    BY <2>1, BranchNew
  <2>3. /\ M[i].kind = "branch" /\ M[i].bit = N[i].bit /\ M[i].left = N[i].left
        /\ M[i].right = N[i].right /\ M[i].digest = N[i].digest
    BY <2>1 DEF BranchOf
  <2>4. M[i].dirty = TRUE
    BY <2>1 DEF BranchOf
  <2> QED BY <2>2, <2>3, <2>4
<1>7. u.nodes = M /\ u.free = t.free /\ u.root = t.root /\ u.len = t.len /\ IsTrie(u)
  <2>1. u = TrieOf(M, t.free, t.root, t.len)
    BY <1>1, TrieExcept DEF Arena
  <2> QED BY <2>1, TrieFields
<1>8. \A i \in DOMAIN N : Like(N[i], M[i]) /\ M[i].digest = N[i].digest
  BY <1>3, <1>4, <1>6 DEF Like
<1>9. Nodes(M)
  BY <1>2, <1>4, <1>6 DEF Tree, Nodes
<1>10. Tree(M, R, C, P) /\ Used(M) = Used(N)
  BY <1>2, <1>8, <1>9, LikeTree
<1>11. Arena(u)
  <2>1. \A i \in DOMAIN N : M[i] = Freed <=> N[i] = Freed
    <3>1. Freed.kind = "freed"
      BY DEF Freed
    <3> QED BY <1>3, <1>4, <1>6, <3>1
  <2> QED BY <1>2, <1>7, <2>1, ArenaRefilled
<1>12. Clean(M)
  <2> SUFFICES ASSUME NEW i \in DOMAIN M, M[i].kind = "branch", ~M[i].dirty
               PROVE  /\ M[i].digest = branch_digest(M[i].bit, M[M[i].left].digest, M[M[i].right].digest)
                      /\ M[M[i].left].kind = "branch" => ~M[M[i].left].dirty
                      /\ M[M[i].right].kind = "branch" => ~M[M[i].right].dirty
    BY DEF Clean
  <2>1. i \notin S /\ M[i] = N[i] /\ i \in DOMAIN N
    BY <1>2, <1>4, <1>6
  <2>2. N[i].left \in DOMAIN N /\ N[i].right \in DOMAIN N
    BY <2>1 DEF Tree, Parts, Used
  <2>3. N[i].left \notin S /\ N[i].right \notin S
    BY <1>s, <2>1 DEF Upward
  <2>4. M[N[i].left] = N[N[i].left] /\ M[N[i].right] = N[N[i].right]
    BY <1>4, <2>2, <2>3
  <2>5. /\ N[i].digest = branch_digest(N[i].bit, N[N[i].left].digest, N[N[i].right].digest)
        /\ N[N[i].left].kind = "branch" => ~N[N[i].left].dirty
        /\ N[N[i].right].kind = "branch" => ~N[N[i].right].dirty
    BY <1>s, <2>1 DEF CleanBut
  <2> QED BY <2>1, <2>4, <2>5
<1> QED BY <1>2, <1>7, <1>8, <1>10, <1>11, <1>12 DEF u, Marked

LEMMA FrontOf ==
  ASSUME NEW T, NEW w \in Seq(T), Len(w) # 0
  PROVE  /\ Front(w) \in Seq(T) /\ Len(Front(w)) = Len(w) - 1 /\ \A n \in 1..(Len(w) - 1) : Front(w)[n] = w[n]
         /\ Last(w) = w[Len(w)]
<1>1. Front(w) = SubSeq(w, 1, Len(w) - 1) /\ Len(w) \in Nat
  BY DEF Front
<1> DEFINE m == Len(w) - 1
<1>2. m \in Nat /\ m <= Len(w)
  BY <1>1
<1> HIDE DEF m
<1>3. /\ SubSeq(w, 1, m) \in Seq(T) /\ Len(SubSeq(w, 1, m)) = m
      /\ \A n \in 1..m : SubSeq(w, 1, m)[n] = w[n]
  BY <1>1, <1>2
<1> QED BY <1>1, <1>3 DEF Last, m

-----------------------------------------------------------------------------
(* The nodes above a node *)

Above(N, C, l, s) == {i \in Used(N) : l \in C[i] /\ BitOf(N[i]) < BitOf(N[s])}

LEMMA AboveUp ==
  ASSUME NEW N, NEW R, NEW C, NEW P, P \subseteq TrieKeys, Tree(N, R, C, P), NEW l, NEW s \in Used(N)
  PROVE  /\ \A i \in Above(N, C, l, s) : i \in DOMAIN N /\ N[i].kind = "branch" /\ N[i].bit = BitOf(N[i])
         /\ Upward(N, Above(N, C, l, s))
<1>1. Nodes(N) /\ Parts(N, C) /\ Holds(N, C, P)
  BY DEF Tree
<1>2. \A i \in Used(N) : i \in DOMAIN N /\ BitOf(N[i]) \in 1..(Width + 1)
  BY <1>1, BitRange DEF Used
<1>3. ASSUME NEW i \in Above(N, C, l, s)
      PROVE  i \in DOMAIN N /\ N[i].kind = "branch" /\ N[i].bit = BitOf(N[i])
  <2>1. i \in Used(N) /\ BitOf(N[i]) < BitOf(N[s])
    BY DEF Above
  <2>2. BitOf(N[i]) # Width + 1
    BY <1>2, <2>1, TrieAssumption
  <2> QED BY <1>2, <2>1, <2>2 DEF BitOf
<1>4. ASSUME NEW i \in DOMAIN N, N[i].kind = "branch", NEW c \in Above(N, C, l, s),
             c = N[i].left \/ c = N[i].right
      PROVE  i \in Above(N, C, l, s)
  <2>1. C[c] \subseteq C[i] /\ N[i].bit < BitOf(N[c])
    BY <1>1, <1>4, ChildBelow
  <2>2. i \in Used(N) /\ BitOf(N[i]) = N[i].bit
    BY <1>4 DEF Used, BitOf
  <2>3. c \in Used(N) /\ l \in C[c] /\ BitOf(N[c]) < BitOf(N[s])
    BY DEF Above
  <2>4. BitOf(N[i]) < BitOf(N[s])
    BY <1>2, <2>1, <2>2, <2>3, TrieAssumption
  <2> QED BY <2>1, <2>2, <2>3, <2>4 DEF Above
<1> QED BY <1>3, <1>4 DEF Upward

LEMMA PrefixAbove ==
  ASSUME NEW t, NEW C, NEW P, NEW k, NEW w, NEW x, NEW l, P \subseteq TrieKeys, Tree(t.nodes, t.root, C, P),
         Reach(t, C, P, k, w, x, l),
         NEW m \in 0..(Len(w) - 1), NEW T, NEW q \in Seq(T), Len(q) = m, \A n \in 1..m : q[n] = w[n]
  PROVE  ToSet(q) = Above(t.nodes, C, l, w[m + 1])
<1> DEFINE N == t.nodes
           s == w[m + 1]
<1>1. /\ Len(w) \in Nat \ {0} /\ w \in Seq(Used(N))
      /\ \A n \in 1..Len(w) : l \in C[w[n]]
      /\ \A i \in Used(N) : l \in C[i] => \E n \in 1..Len(w) : w[n] = i
      /\ \A a, b \in 1..Len(w) : a < b => BitOf(N[w[a]]) < BitOf(N[w[b]])
  BY DEF Reach
<1>2. m + 1 \in 1..Len(w) /\ \A n \in 1..m : n \in 1..Len(w) /\ n < m + 1
  BY <1>1
<1>3. \A n \in 1..Len(w) : w[n] \in Used(N) /\ BitOf(N[w[n]]) \in Nat
  <2>1. \A n \in 1..Len(w) : w[n] \in Used(N)
    BY <1>1
  <2> QED BY <2>1, BitRange, TrieAssumption DEF Used, Tree
<1>4. ToSet(q) = {w[n] : n \in 1..m}
  BY DEF ToSet
<1>5. ASSUME NEW n \in 1..m PROVE w[n] \in Above(N, C, l, s)
  BY <1>1, <1>2, <1>3 DEF Above
<1>6. ASSUME NEW i \in Above(N, C, l, s) PROVE \E n \in 1..m : w[n] = i
  <2>1. i \in Used(N) /\ l \in C[i] /\ BitOf(N[i]) < BitOf(N[s])
    BY DEF Above
  <2>2. PICK n \in 1..Len(w) : w[n] = i
    BY <1>1, <2>1
  <2>3. n # m + 1 /\ ~(m + 1 < n)
    <3>1. ~(BitOf(N[s]) < BitOf(N[i])) /\ i # s
      BY <1>2, <1>3, <2>1, <2>2
    <3> QED BY <1>1, <1>2, <2>2, <3>1
  <2>4. n \in 1..m
    BY <1>2, <2>3
  <2> QED BY <2>2, <2>4
<1> DEFINE A == Above(N, C, l, s)
<1>7. (\A n \in 1..m : w[n] \in A) /\ \A i \in A : \E n \in 1..m : w[n] = i
  BY <1>5, <1>6
<1> HIDE DEF A
<1>8. {w[n] : n \in 1..m} = A
  BY <1>7
<1> QED BY <1>4, <1>8 DEF A

-----------------------------------------------------------------------------
(* What a trie of the entries e is *)

PresentIn(e) == {k \in TrieKeys : e[k] # <<>>}

TrieOk(t, C, e) ==
  /\ Arena(t) /\ Tree(t.nodes, t.root, C, PresentIn(e)) /\ Leaves(t.nodes, C, e) /\ Clean(t.nodes)
  /\ IsFiniteSet(PresentIn(e)) /\ t.len = Cardinality(PresentIn(e))

Entries(e) == e = [k \in TrieKeys |-> e[k]]

Enter(e, k, y) == [e EXCEPT ![k] = y]

LEMMA EntriesPut ==
  ASSUME NEW e, Entries(e), NEW k \in TrieKeys, NEW y
  PROVE  /\ Entries(Enter(e, k, y)) /\ Enter(e, k, y)[k] = y
         /\ \A m \in TrieKeys : m # k => Enter(e, k, y)[m] = e[m]
         /\ y # <<>> => PresentIn(Enter(e, k, y)) = PresentIn(e) \cup {k}
         /\ y = <<>> => PresentIn(Enter(e, k, y)) = PresentIn(e) \ {k}
<1> DEFINE e1 == Enter(e, k, y)
<1>1. Entries(e1) /\ e1[k] = y /\ \A m \in TrieKeys : m # k => e1[m] = e[m]
  BY DEF Entries, Enter
<1> HIDE DEF e1
<1>2. /\ y # <<>> => PresentIn(e1) = PresentIn(e) \cup {k}
      /\ y = <<>> => PresentIn(e1) = PresentIn(e) \ {k}
  BY <1>1 DEF PresentIn
<1> QED BY <1>1, <1>2 DEF e1

\* Trie::set of a key that has a leaf.
LEMMA SetLeaf ==
  ASSUME NEW t, NEW C, NEW e, TrieOk(t, C, e), Entries(e), NEW k \in TrieKeys, NEW w, NEW x,
         Reach(t, C, PresentIn(e), k, w, x, k), NEW v, NEW e1, e1 = Enter(e, k, <<v>>),
         NEW d, d = leaf_digest(k, v)
  PROVE  /\ TrieOk(mark([t EXCEPT !.nodes[x].digest = d], Front(w)), C, e1)
         /\ t.nodes[x].digest = d => TrieOk(t, C, e1)
<1> DEFINE N == t.nodes
           P == PresentIn(e)
           y == [N[x] EXCEPT !.digest = d]
           M == [N EXCEPT ![x] = y]
           t1 == [t EXCEPT !.nodes = M]
           S == Above(N, C, k, x)
<1>1. /\ Arena(t) /\ Tree(N, t.root, C, P) /\ Leaves(N, C, e) /\ Clean(N)
      /\ IsFiniteSet(P) /\ t.len = Cardinality(P) /\ P \subseteq TrieKeys
  BY DEF TrieOk, PresentIn
<1>2. /\ w \in Seq(Used(N)) /\ Len(w) \in Nat \ {0} /\ x = w[Len(w)] /\ x \in Used(N)
      /\ N[x].kind = "leaf" /\ k = N[x].key /\ k \in P /\ C[x] = {k}
  BY DEF Reach
<1>3. x \in DOMAIN N /\ IsLeafNode(N[x])
  BY <1>1, <1>2, NodeKinds DEF Used, Tree
<1>4. y = Leaf(k, d)
  <2>1. N[x] = [kind |-> "leaf", key |-> k, digest |-> N[x].digest]
    BY <1>2, <1>3 DEF IsLeafNode, Leaf
  <2> DEFINE z == N[x]
             o == N[x].digest
  <2> HIDE DEF z, o
  <2>2. z = [kind |-> "leaf", key |-> k, digest |-> o]
    BY <2>1 DEF z, o
  <2>3. [z EXCEPT !.digest = d] = [kind |-> "leaf", key |-> k, digest |-> d]
    BY <2>2, SMTT(30)
  <2> QED BY <2>3 DEF z, Leaf
<1>5. e1[k] = <<v>> /\ (\A m \in TrieKeys : m # k => e1[m] = e[m]) /\ PresentIn(e1) = P
  <2>1. e1[k] = <<v>> /\ (\A m \in TrieKeys : m # k => e1[m] = e[m]) /\ (<<v>> # <<>> => PresentIn(e1) = P \cup {k})
    BY EntriesPut
  <2> HIDE DEF P
  <2> QED BY <1>2, <2>1
<1>6. DOMAIN M = DOMAIN N /\ M = [i \in DOMAIN N |-> M[i]] /\ M[x] = Leaf(k, d)
      /\ \A i \in DOMAIN N : i # x => M[i] = N[i]
  BY <1>3, <1>4
<1> HIDE DEF M, y
<1>7. M[x].kind = "leaf" /\ M[x].key = k /\ M[x].digest = d /\ IsLeafNode(M[x]) /\ M[x] # Freed
  BY <1>6, LeafFields
<1>8. \A i \in DOMAIN N : Like(N[i], M[i])
  BY <1>2, <1>6, <1>7 DEF Like
<1>9. Nodes(M)
  BY <1>1, <1>6, <1>7 DEF Nodes, Tree
<1>10. Tree(M, t.root, C, P) /\ Used(M) = Used(N)
  <2> HIDE DEF P
  <2> QED BY <1>1, <1>6, <1>8, <1>9, LikeTree
<1>11. ASSUME NEW Q, DOMAIN Q = DOMAIN N, \A i \in DOMAIN N : Like(N[i], Q[i]),
              \A i \in DOMAIN N : i # x => Q[i].digest = N[i].digest, Q[x].digest = d
       PROVE  Leaves(Q, C, e1)
  <2> SUFFICES ASSUME NEW i \in DOMAIN N, N[i].kind = "leaf"
               PROVE  /\ Q[i].key \in TrieKeys /\ e1[Q[i].key] # <<>> /\ C[i] = {Q[i].key}
                      /\ Q[i].digest = leaf_digest(Q[i].key, e1[Q[i].key][1])
    BY <1>11 DEF Leaves, Like
  <2>1. Q[i].key = N[i].key
    BY <1>11 DEF Like
  <2>2. /\ N[i].key \in TrieKeys /\ e[N[i].key] # <<>> /\ C[i] = {N[i].key}
        /\ N[i].digest = leaf_digest(N[i].key, e[N[i].key][1])
    BY <1>1 DEF Leaves
  <2>3. CASE N[i].key = k
    <3>1. \A j \in Used(N) : k \in C[j] /\ N[j].kind = "leaf" => j = x
      <4> SUFFICES ASSUME NEW j \in Used(N), k \in C[j], N[j].kind = "leaf", j # x PROVE FALSE
        OBVIOUS
      <4>1. PICK n \in 1..Len(w) : w[n] = j
        BY DEF Reach
      <4>2. n # Len(w)
        BY <1>2, <4>1
      <4>3. n \in 1..(Len(w) - 1)
        BY <1>2, <4>2
      <4>4. N[w[n]].kind = "branch"
        BY <4>3 DEF Reach
      <4> QED BY <4>1, <4>4
    <3>2. i \in Used(N)
      BY DEF Used
    <3>3. i = x
      BY <2>2, <2>3, <3>1, <3>2
    <3>4. Q[i].digest = d
      BY <1>11, <3>3
    <3> QED BY <1>5, <2>1, <2>2, <2>3, <3>4
  <2>4. CASE N[i].key # k
    <3>1. i # x
      BY <1>2, <2>4
    <3>2. Q[i].digest = N[i].digest
      BY <1>11, <3>1
    <3> QED BY <1>5, <2>1, <2>2, <2>4, <3>2
  <2> QED BY <2>3, <2>4
<1>12. ASSUME N[x].digest = d PROVE TrieOk(t, C, e1)
  <2>1. Leaves(N, C, e1)
    BY <1>11, <1>12 DEF Like
  <2> QED BY <1>1, <1>5, <2>1 DEF TrieOk
<1>13. t1.nodes = M /\ t1.free = t.free /\ t1.root = t.root /\ t1.len = t.len /\ IsTrie(t1)
  <2> HIDE DEF t1
  <2>1. t1 = TrieOf(M, t.free, t.root, t.len)
    BY <1>1, TrieExcept DEF Arena, t1
  <2> QED BY <2>1, TrieFields
<1>14. [t EXCEPT !.nodes[x].digest = d] = t1
  BY DEF M, y
<1> HIDE DEF t1
<1>15. Arena(t1)
  <2>1. \A i \in DOMAIN N : M[i] = Freed <=> N[i] = Freed
    <3>1. N[x] # Freed
      BY <1>2, <1>3, NodeKinds, <1>1 DEF Tree
    <3> QED BY <1>6, <1>7, <3>1
  <2> QED BY <1>1, <1>6, <1>13, <2>1, ArenaRefilled
<1>16. ToSet(Front(w)) = S
  <2> DEFINE m == Len(w) - 1
             q == Front(w)
  <2>1. m \in 0..(Len(w) - 1) /\ m + 1 = Len(w)
    BY <1>2
  <2>2. q \in Seq(Used(N)) /\ Len(q) = m /\ \A n \in 1..m : q[n] = w[n]
    BY <1>2, FrontOf
  <2> HIDE DEF q, m
  <2>3. ToSet(q) = Above(N, C, k, w[m + 1])
    BY <1>1, <2>1, <2>2, PrefixAbove
  <2> QED BY <1>2, <2>1, <2>3 DEF q
<1>17. \A i \in DOMAIN M : BitOf(M[i]) = BitOf(N[i])
  BY <1>6, <1>8 DEF Like, BitOf
<1>18. /\ Upward(M, S) /\ \A i \in S : i \in DOMAIN M /\ M[i].kind = "branch"
  <2>1. Above(M, C, k, x) = S
    BY <1>3, <1>6, <1>10, <1>17 DEF Above, Used
  <2> HIDE DEF P
  <2>2. x \in Used(M)
    BY <1>2, <1>10
  <2> QED BY <1>1, <1>10, <2>1, <2>2, AboveUp
<1>19. CleanBut(M, S)
  <2> SUFFICES ASSUME NEW i \in DOMAIN M, i \notin S, M[i].kind = "branch", ~M[i].dirty
               PROVE  /\ M[i].digest = branch_digest(M[i].bit, M[M[i].left].digest, M[M[i].right].digest)
                      /\ M[M[i].left].kind = "branch" => ~M[M[i].left].dirty
                      /\ M[M[i].right].kind = "branch" => ~M[M[i].right].dirty
    BY DEF CleanBut
  <2>1. i \in DOMAIN N /\ M[i] = N[i] /\ i # x
    BY <1>6, <1>7
  <2>2. ASSUME NEW c, c = N[i].left \/ c = N[i].right PROVE c \in DOMAIN N /\ c # x
    <3>1. c \in Used(N) /\ C[c] \subseteq C[i] /\ N[i].bit < BitOf(N[c])
      BY <1>1, <2>1, <2>2, ChildBelow DEF Tree
    <3>2. c = x => i \in S
      BY <1>2, <2>1, <3>1 DEF Above, Used, BitOf
    <3> QED BY <3>1, <3>2 DEF Used
  <2>3. M[N[i].left] = N[N[i].left] /\ M[N[i].right] = N[N[i].right]
    BY <1>6, <2>2
  <2>4. /\ N[i].digest = branch_digest(N[i].bit, N[N[i].left].digest, N[N[i].right].digest)
        /\ N[N[i].left].kind = "branch" => ~N[N[i].left].dirty
        /\ N[N[i].right].kind = "branch" => ~N[N[i].right].dirty
    BY <1>1, <2>1 DEF Clean
  <2> QED BY <2>1, <2>3, <2>4
<1> DEFINE u == mark(t1, Front(w))
<1>20. /\ Arena(u) /\ u.root = t.root /\ u.len = t.len /\ Clean(u.nodes)
       /\ Tree(u.nodes, t.root, C, P) /\ DOMAIN u.nodes = DOMAIN M
       /\ \A i \in DOMAIN M : Like(M[i], u.nodes[i]) /\ u.nodes[i].digest = M[i].digest
  <2> DEFINE path == Front(w)
             A == ToSet(path)
  <2> HIDE DEF P, S, u
  <2>1. CleanBut(M, A) /\ Upward(M, A) /\ \A i \in A : i \in DOMAIN M /\ M[i].kind = "branch"
    BY <1>16, <1>18, <1>19
  <2> HIDE DEF path
  <2>2. u = mark(t1, path)
    BY DEF u, path
  <2>3. Tree(t1.nodes, t.root, C, P)
    BY <1>10, <1>13
  <2>4. MarkAt(t1.nodes, path)
    BY <1>13, <2>1 DEF MarkAt
  <2>5. Marked(t1, u, t.root, C, P)
    BY <1>15, <2>2, <2>3, <2>4, MarkCleans
  <2> QED BY <1>13, <2>5 DEF Marked
<1> HIDE DEF u
<1>21. Leaves(u.nodes, C, e1)
  <2>1. \A i \in DOMAIN N : Like(N[i], u.nodes[i])
    BY <1>6, <1>8, <1>20 DEF Like
  <2> QED BY <1>3, <1>6, <1>7, <1>11, <1>20, <2>1
<1>22. TrieOk(u, C, e1)
  BY <1>1, <1>5, <1>20, <1>21 DEF TrieOk
<1> QED BY <1>12, <1>14, <1>22 DEF u

-----------------------------------------------------------------------------
(* A leaf and a branch are grafted *)

\* s is the top node below which k leaves the walk of l, at bit j; q is above it.
Site(N, R, C, P, k, l, j, s, q) ==
  LET A == Above(N, C, l, s)
  IN /\ k \in TrieKeys /\ k \notin P /\ l \in P /\ j \in 1..Width /\ k[j] # l[j] /\ Agree(k, l, j)
     /\ s \in Used(N) /\ l \in C[s] /\ j < BitOf(N[s])
     /\ \A i \in A : N[i].bit < j /\ (Child(N[i], l) \in A \/ (i = q /\ Child(N[i], l) = s))
     /\ IF R = s THEN A = {} ELSE R \in A /\ q \in A /\ Child(N[q], l) = s

\* M is N with the new leaf at x and the new branch at b, put above s.
Grafted(N, M, R, k, d, j, s, q, x, b) ==
  /\ x \notin Used(N) /\ b \notin Used(N) /\ x # b /\ DOMAIN M = DOMAIN N \cup {x, b}
  /\ M[x] = Leaf(k, d)
  /\ M[b] = IF k[j] = 1 THEN BranchOf(j, s, x, EMPTY, TRUE) ELSE BranchOf(j, x, s, EMPTY, TRUE)
  /\ \A i \in DOMAIN N : i # x /\ i # b /\ (R = s \/ i # q) => M[i] = N[i]
  /\ R # s => M[q] = IF N[q].left = s
                     THEN BranchOf(N[q].bit, b, N[q].right, N[q].digest, N[q].dirty)
                     ELSE BranchOf(N[q].bit, N[q].left, b, N[q].digest, N[q].dirty)

GraftKeys(N, M, C, k, l, s, x, b) ==
  [i \in DOMAIN M |-> IF i = x THEN {k} ELSE IF i = b THEN C[s] \cup {k}
                      ELSE IF i \in Above(N, C, l, s) THEN C[i] \cup {k} ELSE C[i]]

\* The fields of the nodes after a graft.
GraftFields(N, M, R, A, k, d, j, s, q, x, b) ==
  /\ M[x].kind = "leaf" /\ M[x].key = k /\ M[x].digest = d /\ IsLeafNode(M[x])
  /\ M[b].kind = "branch" /\ M[b].bit = j /\ M[b].dirty = TRUE /\ IsBranchNode(M[b])
  /\ k[j] = 1 => M[b].left = s /\ M[b].right = x
  /\ k[j] # 1 => M[b].left = x /\ M[b].right = s
  /\ \A i \in Used(N) : i \in DOMAIN M /\ i # x /\ i # b
  /\ \A i \in Used(N) :
       /\ M[i].kind = N[i].kind /\ M[i].digest = N[i].digest
       /\ N[i].kind = "branch" => IsBranchNode(M[i]) /\ M[i].bit = N[i].bit /\ M[i].dirty = N[i].dirty
       /\ R = s \/ i # q => M[i] = N[i]
  /\ R # s => /\ N[q].left = s => M[q].left = b /\ M[q].right = N[q].right
              /\ N[q].left # s => M[q].left = N[q].left /\ M[q].right = b

LEMMA GraftHas ==
  ASSUME NEW N, NEW R, NEW C, NEW P, P \subseteq TrieKeys, Tree(N, R, C, P), NEW k, NEW l, NEW j, NEW s, NEW q,
         Site(N, R, C, P, k, l, j, s, q), NEW M, NEW d, NEW x, NEW b, Grafted(N, M, R, k, d, j, s, q, x, b)
  PROVE  GraftFields(N, M, R, Above(N, C, l, s), k, d, j, s, q, x, b)
<1> DEFINE A == Above(N, C, l, s)
<1>1. M[x].kind = "leaf" /\ M[x].key = k /\ M[x].digest = d /\ IsLeafNode(M[x])
  BY LeafFields DEF Grafted
<1>2. j \in 1..Width
  BY DEF Site
<1>3. /\ M[b].kind = "branch" /\ M[b].bit = j /\ M[b].dirty = TRUE /\ IsBranchNode(M[b])
      /\ k[j] = 1 => M[b].left = s /\ M[b].right = x
      /\ k[j] # 1 => M[b].left = x /\ M[b].right = s
  <2>1. CASE k[j] = 1
    <3>1. M[b] = BranchOf(j, s, x, EMPTY, TRUE)
      BY <2>1 DEF Grafted
    <3>2. IsBranchNode(M[b])
      BY <1>2, <3>1, BranchNew
    <3>3. M[b].kind = "branch" /\ M[b].bit = j /\ M[b].dirty = TRUE /\ M[b].left = s /\ M[b].right = x
      BY <3>1 DEF BranchOf
    <3> QED BY <2>1, <3>2, <3>3
  <2>2. CASE k[j] # 1
    <3>1. M[b] = BranchOf(j, x, s, EMPTY, TRUE)
      BY <2>2 DEF Grafted
    <3>2. IsBranchNode(M[b])
      BY <1>2, <3>1, BranchNew
    <3>3. M[b].kind = "branch" /\ M[b].bit = j /\ M[b].dirty = TRUE /\ M[b].left = x /\ M[b].right = s
      BY <3>1 DEF BranchOf
    <3> QED BY <2>2, <3>2, <3>3
  <2> QED BY <2>1, <2>2
<1>4. \A i \in Used(N) : i \in DOMAIN M /\ i # x /\ i # b /\ i \in DOMAIN N
  BY DEF Grafted, Used
<1>5. \A i \in Used(N) : R = s \/ i # q => M[i] = N[i]
  BY <1>4 DEF Grafted
<1>6. ASSUME R # s
      PROVE  /\ q \in Used(N) /\ M[q].kind = N[q].kind /\ M[q].digest = N[q].digest
             /\ IsBranchNode(M[q]) /\ M[q].bit = N[q].bit /\ M[q].dirty = N[q].dirty
             /\ N[q].left = s => M[q].left = b /\ M[q].right = N[q].right
             /\ N[q].left # s => M[q].left = N[q].left /\ M[q].right = b
  <2>1. q \in A /\ s \in Used(N)
    BY <1>6 DEF Site
  <2>2. q \in Used(N) /\ N[q].kind = "branch"
    <3>1. \A i \in A : N[i].kind = "branch"
      BY <2>1, AboveUp
    <3> QED BY <2>1, <3>1 DEF Above
  <2>3. IsBranchNode(N[q])
    BY <1>4, <2>2, NodeKinds DEF Tree
  <2>4. N[q].bit \in 1..Width /\ N[q].dirty \in BOOLEAN
    BY <2>3 DEF IsBranchNode
  <2>5. CASE N[q].left = s
    <3> DEFINE y == N[q].dirty
    <3>1. M[q] = BranchOf(N[q].bit, b, N[q].right, N[q].digest, y)
      BY <1>6, <2>5 DEF Grafted
    <3> HIDE DEF y
    <3>2. IsBranchNode(M[q])
      BY <2>4, <3>1, BranchNew DEF y
    <3>3. /\ M[q].kind = "branch" /\ M[q].bit = N[q].bit /\ M[q].left = b /\ M[q].right = N[q].right
          /\ M[q].digest = N[q].digest /\ M[q].dirty = y
      BY <3>1, BranchFields
    <3> QED BY <2>2, <2>5, <3>2, <3>3 DEF y
  <2>6. CASE N[q].left # s
    <3> DEFINE y == N[q].dirty
    <3>1. M[q] = BranchOf(N[q].bit, N[q].left, b, N[q].digest, y)
      BY <1>6, <2>6 DEF Grafted
    <3> HIDE DEF y
    <3>2. IsBranchNode(M[q])
      BY <2>4, <3>1, BranchNew DEF y
    <3>3. /\ M[q].kind = "branch" /\ M[q].bit = N[q].bit /\ M[q].left = N[q].left /\ M[q].right = b
          /\ M[q].digest = N[q].digest /\ M[q].dirty = y
      BY <3>1, BranchFields
    <3> QED BY <2>2, <2>6, <3>2, <3>3 DEF y
  <2> QED BY <2>5, <2>6
<1>7. ASSUME NEW i \in Used(N)
      PROVE  /\ M[i].kind = N[i].kind /\ M[i].digest = N[i].digest
             /\ N[i].kind = "branch" => IsBranchNode(M[i]) /\ M[i].bit = N[i].bit /\ M[i].dirty = N[i].dirty
  <2>1. CASE R = s \/ i # q
    <3>1. M[i] = N[i]
      BY <1>5, <2>1
    <3>2. N[i].kind = "branch" => IsBranchNode(N[i])
      BY <1>4, NodeKinds DEF Tree
    <3> QED BY <3>1, <3>2
  <2>2. CASE R # s /\ i = q
    BY <1>6, <2>2
  <2> QED BY <2>1, <2>2
<1> QED BY <1>1, <1>3, <1>4, <1>5, <1>6, <1>7 DEF GraftFields

LEMMA SiteKeys ==
  ASSUME NEW N, NEW R, NEW C, NEW P, P \subseteq TrieKeys, Tree(N, R, C, P), NEW k, NEW l, NEW j, NEW s, NEW q,
         Site(N, R, C, P, k, l, j, s, q), NEW e, Leaves(N, C, e)
  PROVE  \A m \in C[s] : Agree(m, l, j + 1)
<1>1. s \in Used(N) /\ l \in C[s] /\ j < BitOf(N[s]) /\ j \in 1..Width /\ s \in DOMAIN N
  BY DEF Site, Used
<1>2. CASE N[s].kind = "branch"
  <2>1. \A m \in C[s] : Agree(m, l, N[s].bit)
    BY <1>1, <1>2 DEF Tree, Parts
  <2>2. N[s].bit \in 1..Width /\ BitOf(N[s]) = N[s].bit
    BY <1>1, <1>2, BitRange DEF Tree
  <2> QED BY <1>1, <2>1, <2>2 DEF Agree
<1>3. CASE N[s].kind # "branch"
  <2>1. N[s].kind = "leaf"
    BY <1>1, <1>3, NodeKinds DEF Tree, Used
  <2>2. C[s] = {l}
    BY <1>1, <2>1 DEF Leaves
  <2> QED BY <2>2 DEF Agree
<1> QED BY <1>2, <1>3

LEMMA GraftTree ==
  ASSUME NEW N, NEW R, NEW C, NEW P, P \subseteq TrieKeys, Tree(N, R, C, P), NEW e, Leaves(N, C, e),
         NEW k, NEW l, NEW j, NEW s, NEW q,
         Site(N, R, C, P, k, l, j, s, q), NEW M, NEW d, NEW x, NEW b, Grafted(N, M, R, k, d, j, s, q, x, b)
  PROVE  /\ Tree(M, IF R = s THEN b ELSE R, GraftKeys(N, M, C, k, l, s, x, b), P \cup {k})
         /\ Used(M) = Used(N) \cup {x, b} /\ Upward(M, Above(N, C, l, s))
<1> DEFINE A == Above(N, C, l, s)
           D == GraftKeys(N, M, C, k, l, s, x, b)
           R3 == IF R = s THEN b ELSE R
<1>1. GraftFields(N, M, R, A, k, d, j, s, q, x, b)
  BY GraftHas
<1>2. /\ M[x].kind = "leaf" /\ IsLeafNode(M[x])
      /\ M[b].kind = "branch" /\ M[b].bit = j /\ IsBranchNode(M[b])
      /\ k[j] = 1 => M[b].left = s /\ M[b].right = x
      /\ k[j] # 1 => M[b].left = x /\ M[b].right = s
      /\ \A i \in Used(N) : i \in DOMAIN M /\ i # x /\ i # b
      /\ \A i \in Used(N) : M[i].kind = N[i].kind
      /\ \A i \in Used(N) : N[i].kind = "branch" => IsBranchNode(M[i]) /\ M[i].bit = N[i].bit
      /\ \A i \in Used(N) : R = s \/ i # q => M[i] = N[i]
      /\ R # s => /\ N[q].left = s => M[q].left = b /\ M[q].right = N[q].right
                  /\ N[q].left # s => M[q].left = N[q].left /\ M[q].right = b
  BY <1>1 DEF GraftFields
<1>3. x \in DOMAIN M /\ b \in DOMAIN M /\ x # b /\ DOMAIN M = DOMAIN N \cup {x, b}
      /\ \A i \in DOMAIN N : i # x /\ i # b /\ (R = s \/ i # q) => M[i] = N[i]
  BY DEF Grafted
<1>4. /\ k \in TrieKeys /\ k \notin P /\ l \in P /\ j \in 1..Width /\ k[j] # l[j] /\ Agree(k, l, j)
      /\ s \in Used(N) /\ l \in C[s] /\ j < BitOf(N[s])
      /\ \A i \in A : N[i].bit < j /\ (Child(N[i], l) \in A \/ (i = q /\ Child(N[i], l) = s))
      /\ R = s => A = {}
      /\ R # s => R \in A /\ q \in A /\ Child(N[q], l) = s
  BY DEF Site
<1>5. \A i \in A : i \in Used(N) /\ i \in DOMAIN N /\ N[i].kind = "branch" /\ l \in C[i] /\ N[i].bit \in 1..Width
  <2>1. \A i \in A : i \in DOMAIN N /\ N[i].kind = "branch"
    BY <1>4, AboveUp
  <2>2. \A i \in A : i \in Used(N) /\ l \in C[i]
    BY DEF Above
  <2> QED BY <2>1, <2>2, BitRange DEF Tree
<1>6. s \notin A /\ \A i \in Used(N) : i \in DOMAIN N
  BY <1>4, BitRange, TrieAssumption DEF Above, Tree, Used
<1>7. Used(M) = Used(N) \cup {x, b}
  <2>1. ASSUME NEW i \in DOMAIN M, i # x, i # b, M[i].kind # "freed" PROVE i \in Used(N)
    <3>1. i \in DOMAIN N
      BY <1>3, <2>1
    <3>2. R # s => q \in Used(N)
      BY <1>4, <1>5
    <3>3. CASE R = s \/ i # q
      BY <1>3, <2>1, <3>1, <3>3 DEF Used
    <3>4. CASE R # s /\ i = q
      BY <3>2, <3>4
    <3> QED BY <3>3, <3>4
  <2>2. \A i \in Used(N) : i \in DOMAIN M /\ M[i].kind # "freed"
    BY <1>2 DEF Used
  <2>3. x \in Used(M) /\ b \in Used(M)
    BY <1>2, <1>3 DEF Used
  <2>4. \A i \in Used(M) : i \in DOMAIN M /\ M[i].kind # "freed"
    BY DEF Used
  <2>5. \A i \in Used(N) : i \in Used(M)
    BY <2>2 DEF Used
  <2> QED BY <2>1, <2>3, <2>4, <2>5
<1>8. Nodes(M)
  <2> SUFFICES ASSUME NEW i \in DOMAIN M PROVE IsLeafNode(M[i]) \/ IsBranchNode(M[i]) \/ M[i] = Freed
    BY DEF Nodes
  <2>1. CASE i = x \/ i = b
    BY <1>2, <2>1
  <2>2. CASE i # x /\ i # b /\ (R = s \/ i # q)
    <3>1. i \in DOMAIN N /\ M[i] = N[i]
      BY <1>3, <2>2
    <3> QED BY <3>1 DEF Tree, Nodes
  <2>3. CASE R # s /\ i = q
    BY <1>2, <1>4, <1>5, <2>3
  <2> QED BY <2>1, <2>2, <2>3
<1>9. /\ D[x] = {k} /\ D[b] = C[s] \cup {k}
      /\ \A i \in Used(N) : D[i] = IF i \in A THEN C[i] \cup {k} ELSE C[i]
  BY <1>2, <1>3 DEF GraftKeys
<1>10. D[s] = C[s]
  BY <1>4, <1>6, <1>9
<1> HIDE DEF D, A
<1>11. ASSUME NEW i \in Used(N), N[i].kind = "branch"
       PROVE  /\ N[i].left \in Used(N) /\ N[i].right \in Used(N) /\ N[i].bit \in 1..Width
              /\ C[N[i].left] = {m \in C[i] : m[N[i].bit] = 0}
              /\ C[N[i].right] = {m \in C[i] : m[N[i].bit] = 1}
              /\ \A m, n \in C[i] : Agree(m, n, N[i].bit)
  BY <1>6, <1>11, BitRange DEF Tree, Parts
<1>12. ASSUME NEW i \in A
       PROVE  /\ k[N[i].bit] = l[N[i].bit] /\ k[N[i].bit] \in {0, 1}
              /\ \A m \in C[i] : Agree(m, k, N[i].bit) /\ Agree(k, m, N[i].bit)
  <2>1. N[i].bit \in 1..Width /\ N[i].bit < j /\ l \in C[i]
    BY <1>4, <1>5
  <2>2. \A m \in C[i] : Agree(m, l, N[i].bit)
    BY <1>5, <1>11
  <2>3. k[N[i].bit] \in {0, 1}
    BY <1>4, <2>1, KeyBits
  <2> QED BY <1>4, <2>1, <2>2, <2>3 DEF Agree
<1>13. ASSUME NEW i \in Used(N), N[i].kind = "branch", NEW c \in A, c = N[i].left \/ c = N[i].right
       PROVE  i \in A
  <2>1. Upward(N, A)
    BY <1>4, AboveUp DEF A
  <2> QED BY <1>6, <1>13, <2>1 DEF Upward
<1>14. Parts(M, D)
  <2> SUFFICES ASSUME NEW i \in DOMAIN M, M[i].kind = "branch"
               PROVE  /\ M[i].left \in Used(M) /\ M[i].right \in Used(M)
                      /\ D[M[i].left] = {m \in D[i] : m[M[i].bit] = 0}
                      /\ D[M[i].right] = {m \in D[i] : m[M[i].bit] = 1}
                      /\ \A m, n \in D[i] : Agree(m, n, M[i].bit)
    BY DEF Parts
  <2>1. CASE i = b
    <3>1. \A m \in C[s] : Agree(m, l, j + 1)
      BY SiteKeys
    <3>2. \A m \in C[s] : m[j] = l[j] /\ Agree(m, l, j)
      BY <1>4, <3>1 DEF Agree
    <3>3. k[j] \in {0, 1} /\ l[j] \in {0, 1}
      BY <1>4, KeyBits
    <3>4. \A m, n \in C[s] \cup {k} : Agree(m, n, j)
      BY <1>4, <3>2 DEF Agree
    <3>5. CASE k[j] = 1
      <4>1. M[i].left = s /\ M[i].right = x /\ M[i].bit = j
        BY <1>2, <2>1, <3>5
      <4>2. {m \in C[s] \cup {k} : m[j] = 0} = C[s] /\ {m \in C[s] \cup {k} : m[j] = 1} = {k}
        BY <1>4, <3>2, <3>3, <3>5
      <4> QED BY <1>4, <1>7, <1>9, <1>10, <2>1, <3>4, <4>1, <4>2
    <3>6. CASE k[j] = 0
      <4>1. M[i].left = x /\ M[i].right = s /\ M[i].bit = j
        BY <1>2, <2>1, <3>6
      <4>2. {m \in C[s] \cup {k} : m[j] = 1} = C[s] /\ {m \in C[s] \cup {k} : m[j] = 0} = {k}
        BY <1>4, <3>2, <3>3, <3>6
      <4> QED BY <1>4, <1>7, <1>9, <1>10, <2>1, <3>4, <4>1, <4>2
    <3> QED BY <3>3, <3>5, <3>6
  <2>2. ASSUME i # b PROVE i \in Used(N) /\ N[i].kind = "branch" /\ M[i].bit = N[i].bit /\ i # x
    <3>1. i # x /\ i \in Used(M)
      BY <1>2 DEF Used
    <3> QED BY <1>2, <1>7, <2>2, <3>1
  <2>3. CASE i # b /\ i \notin A
    <3>1. i \in Used(N) /\ N[i].kind = "branch" /\ M[i].bit = N[i].bit
      BY <2>2, <2>3
    <3>2. M[i] = N[i]
      BY <1>2, <1>4, <2>3, <3>1
    <3>3. N[i].left \notin A /\ N[i].right \notin A
      BY <1>13, <2>3, <3>1
    <3>4. D[i] = C[i] /\ D[N[i].left] = C[N[i].left] /\ D[N[i].right] = C[N[i].right]
      BY <1>9, <1>11, <2>3, <3>1, <3>3
    <3> QED BY <1>7, <1>11, <3>1, <3>2, <3>4
  <2>4. CASE i \in A
    <3>1. i \in Used(N) /\ N[i].kind = "branch" /\ M[i].bit = N[i].bit /\ i # b
      BY <1>2, <1>5, <2>4
    <3>2. D[i] = C[i] \cup {k}
      BY <1>9, <2>4, <3>1
    <3>3. /\ N[i].left \in Used(N) /\ N[i].right \in Used(N) /\ N[i].bit \in 1..Width
          /\ C[N[i].left] = {m \in C[i] : m[N[i].bit] = 0}
          /\ C[N[i].right] = {m \in C[i] : m[N[i].bit] = 1}
          /\ \A m, n \in C[i] : Agree(m, n, N[i].bit)
      BY <1>11, <3>1
    <3>4. \A m, n \in C[i] \cup {k} : Agree(m, n, N[i].bit)
      BY <1>12, <2>4, <3>3 DEF Agree
    <3>5. k[N[i].bit] = l[N[i].bit] /\ k[N[i].bit] \in {0, 1} /\ l \in C[i]
      BY <1>5, <1>12, <2>4
    <3>6. Child(N[i], l) \in A \/ (i = q /\ Child(N[i], l) = s)
      BY <1>4, <2>4
    <3>7. R # s /\ (i = q => Child(N[i], l) = s)
      BY <1>4, <2>4
    <3>8. \A c \in A : l \in C[c]
      BY <1>5
    <3>9. M[i].left \in Used(M) /\ M[i].right \in Used(M)
      <4>1. i # q => M[i] = N[i]
        BY <1>2, <3>1
      <4> QED BY <1>2, <1>7, <3>3, <3>7, <4>1
    <3>10. CASE l[N[i].bit] = 0
      <4>1. Child(N[i], l) = N[i].left /\ l \notin C[N[i].right]
        BY <3>3, <3>10 DEF Child
      <4>2. N[i].right \notin A /\ D[N[i].right] = C[N[i].right] /\ N[i].right # s
        BY <1>4, <1>9, <3>3, <3>8, <4>1
      <4>3. M[i].right = N[i].right /\ D[M[i].left] = C[N[i].left] \cup {k}
        <5>1. CASE i # q
          BY <1>2, <1>9, <3>1, <3>3, <3>6, <4>1, <5>1
        <5>2. CASE i = q
          BY <1>2, <1>9, <3>7, <4>1, <5>2
        <5> QED BY <5>1, <5>2
      <4>4. /\ {m \in C[i] \cup {k} : m[N[i].bit] = 0} = C[N[i].left] \cup {k}
            /\ {m \in C[i] \cup {k} : m[N[i].bit] = 1} = C[N[i].right]
        BY <3>3, <3>5, <3>10
      <4> QED BY <3>1, <3>2, <3>4, <3>9, <4>2, <4>3, <4>4
    <3>11. CASE l[N[i].bit] = 1
      <4>1. Child(N[i], l) = N[i].right /\ l \notin C[N[i].left]
        BY <3>3, <3>11 DEF Child
      <4>2. N[i].left \notin A /\ D[N[i].left] = C[N[i].left] /\ N[i].left # s
        BY <1>4, <1>9, <3>3, <3>8, <4>1
      <4>3. M[i].left = N[i].left /\ D[M[i].right] = C[N[i].right] \cup {k}
        <5>1. CASE i # q
          BY <1>2, <1>9, <3>1, <3>3, <3>6, <4>1, <5>1
        <5>2. CASE i = q
          BY <1>2, <1>9, <3>7, <4>1, <4>2, <5>2
        <5> QED BY <5>1, <5>2
      <4>4. /\ {m \in C[i] \cup {k} : m[N[i].bit] = 1} = C[N[i].right] \cup {k}
            /\ {m \in C[i] \cup {k} : m[N[i].bit] = 0} = C[N[i].left]
        BY <3>3, <3>5, <3>11
      <4> QED BY <3>1, <3>2, <3>4, <3>9, <4>2, <4>3, <4>4
    <3> QED BY <3>5, <3>10, <3>11
  <2> QED BY <2>1, <2>3, <2>4
<1>15. Holds(M, D, P \cup {k})
  <2>1. \A i \in Used(N) : C[i] # {} /\ C[i] \subseteq P
    BY DEF Tree, Holds
  <2> SUFFICES ASSUME NEW i \in Used(M) PROVE D[i] # {} /\ D[i] \in SUBSET (P \cup {k})
    BY DEF Holds
  <2>2. CASE i \in Used(N)
    BY <1>9, <2>1, <2>2
  <2>3. CASE i = x \/ i = b
    BY <1>4, <1>9, <2>1, <2>3
  <2> QED BY <1>7, <2>2, <2>3
<1>16. Rooted(M, R3, D, P \cup {k})
  <2>1. P # {}
    BY <1>4
  <2>2. R \in Used(N) /\ C[R] = P
    BY <2>1 DEF Tree, Rooted
  <2>3. R3 \in Used(M) /\ D[R3] = P \cup {k}
    BY <1>4, <1>7, <1>9, <2>2
  <2> QED BY <2>3 DEF Rooted
<1>17. Parented(M, R3)
  <2> SUFFICES ASSUME NEW i \in Used(M), i # R3
               PROVE  \E p \in DOMAIN M : M[p].kind = "branch" /\ (i = M[p].left \/ i = M[p].right)
    BY DEF Parented
  <2>1. CASE i = x \/ i = s
    BY <1>2, <1>3, <2>1
  <2>2. CASE i = b
    <3>1. R # s
      BY <2>2
    <3>2. q \in A /\ q \in DOMAIN M /\ M[q].kind = "branch"
      BY <1>2, <1>4, <1>5, <3>1
    <3> QED BY <1>2, <2>2, <3>1, <3>2
  <2>3. CASE i # x /\ i # b /\ i # s
    <3>1. i \in Used(N) /\ i # R
      BY <1>7, <2>3
    <3>2. PICK p \in DOMAIN N : N[p].kind = "branch" /\ (i = N[p].left \/ i = N[p].right)
      BY <3>1 DEF Tree, Parented
    <3>3. p \in Used(N) /\ p \in DOMAIN M /\ M[p].kind = "branch"
      BY <1>2, <3>2 DEF Used
    <3>4. i = M[p].left \/ i = M[p].right
      <4>1. CASE R = s \/ p # q
        BY <1>2, <3>2, <3>3, <4>1
      <4>2. CASE R # s /\ p = q
        <5>1. N[q].left = s \/ N[q].right = s
          BY <1>4, <4>2 DEF Child
        <5> QED BY <1>2, <2>3, <3>2, <4>2, <5>1
      <4> QED BY <4>1, <4>2
    <3> QED BY <3>3, <3>4
  <2> QED BY <2>1, <2>2, <2>3
<1>18. Upward(M, A)
  <2> SUFFICES ASSUME NEW i \in DOMAIN M, M[i].kind = "branch", NEW c \in A, c = M[i].left \/ c = M[i].right
               PROVE  i \in A
    BY DEF Upward
  <2>1. c \in Used(N) /\ c # x /\ c # b /\ c # s
    BY <1>2, <1>5, <1>6
  <2>2. i # b
    BY <1>2, <2>1
  <2>3. i \in Used(N) /\ N[i].kind = "branch"
    <3>1. i # x /\ i \in Used(M)
      BY <1>2 DEF Used
    <3> QED BY <1>2, <1>7, <2>2, <3>1
  <2>4. CASE R = s \/ i # q
    <3>1. M[i] = N[i]
      BY <1>2, <2>3, <2>4
    <3> QED BY <1>13, <2>3, <3>1
  <2>5. CASE R # s /\ i = q
    BY <1>4, <2>5
  <2> QED BY <2>4, <2>5
<1> QED BY <1>7, <1>8, <1>14, <1>15, <1>16, <1>17, <1>18 DEF Tree, A, D

LEMMA GraftUsed ==
  ASSUME NEW N, NEW R, NEW C, NEW P, P \subseteq TrieKeys, Tree(N, R, C, P), NEW k, NEW l, NEW j, NEW s, NEW q,
         Site(N, R, C, P, k, l, j, s, q), NEW M, NEW d, NEW x, NEW b, Grafted(N, M, R, k, d, j, s, q, x, b)
  PROVE  \A i \in DOMAIN M : M[i].kind # "freed" => i \in Used(N) \/ i = x \/ i = b
<1> SUFFICES ASSUME NEW i \in DOMAIN M, i # x, i # b, M[i].kind # "freed" PROVE i \in Used(N)
  OBVIOUS
<1>1. i \in DOMAIN N
  BY DEF Grafted
<1>2. R # s => q \in Used(N)
  BY DEF Site, Above
<1>3. CASE R = s \/ i # q
  BY <1>1, <1>3 DEF Used, Grafted
<1>4. CASE R # s /\ i = q
  BY <1>2, <1>4
<1> QED BY <1>3, <1>4

LEMMA GraftLeaves ==
  ASSUME NEW N, NEW R, NEW C, NEW e, Entries(e), Tree(N, R, C, PresentIn(e)), Leaves(N, C, e),
         NEW k, NEW l, NEW j, NEW s, NEW q, NEW v,
         Site(N, R, C, PresentIn(e), k, l, j, s, q), NEW M, NEW x, NEW b,
         Grafted(N, M, R, k, leaf_digest(k, v), j, s, q, x, b)
  PROVE  Leaves(M, GraftKeys(N, M, C, k, l, s, x, b), Enter(e, k, <<v>>))
<1> DEFINE A == Above(N, C, l, s)
           D == GraftKeys(N, M, C, k, l, s, x, b)
           P == PresentIn(e)
           e1 == Enter(e, k, <<v>>)
           d == leaf_digest(k, v)
<1>1. P \subseteq TrieKeys
  BY DEF PresentIn
<1>p. Tree(N, R, C, P) /\ Site(N, R, C, P, k, l, j, s, q) /\ Grafted(N, M, R, k, d, j, s, q, x, b)
  OBVIOUS
<1>2. GraftFields(N, M, R, A, k, d, j, s, q, x, b)
  BY <1>1, GraftHas
<1>3. /\ M[x].kind = "leaf" /\ M[x].key = k /\ M[x].digest = d
      /\ M[b].kind = "branch" /\ x \in DOMAIN M
      /\ \A i \in Used(N) : i \in DOMAIN M /\ i # x /\ i # b
      /\ \A i \in Used(N) : M[i].kind = N[i].kind
      /\ \A i \in Used(N) : R = s \/ i # q => M[i] = N[i]
  BY <1>2 DEF GraftFields, Grafted
<1>4. k \in TrieKeys /\ k \notin P /\ s \in Used(N) /\ (R # s => q \in A)
  BY DEF Site
<1>5. \A i \in A : i \in Used(N) /\ N[i].kind = "branch"
  <2>1. \A i \in A : N[i].kind = "branch"
    BY <1>1, <1>4, AboveUp
  <2> QED BY <2>1 DEF Above
<1>6. \A i \in DOMAIN M : M[i].kind # "freed" => i \in Used(N) \/ i = x \/ i = b
  <2> HIDE DEF P, d
  <2> QED BY <1>1, <1>p, GraftUsed
<1>7. e1[k] = <<v>> /\ \A m \in TrieKeys : m # k => e1[m] = e[m]
  BY <1>4, EntriesPut
<1> SUFFICES ASSUME NEW i \in DOMAIN M, M[i].kind = "leaf"
             PROVE  /\ M[i].key \in TrieKeys /\ e1[M[i].key] # <<>> /\ D[i] = {M[i].key}
                    /\ M[i].digest = leaf_digest(M[i].key, e1[M[i].key][1])
  BY DEF Leaves
<1> HIDE DEF e1
<1>8. CASE i = x
  <2>1. D[x] = {k}
    BY <1>3 DEF GraftKeys
  <2> QED BY <1>3, <1>4, <1>7, <1>8, <2>1
<1>9. CASE i # x
  <2>1. i \in Used(N) /\ N[i].kind = "leaf" /\ i \in DOMAIN N
    <3>1. i # b
      BY <1>3
    <3> QED BY <1>3, <1>6, <1>9, <3>1 DEF Used
  <2>2. i \notin A /\ M[i] = N[i]
    BY <1>3, <1>4, <1>5, <2>1
  <2>3. D[i] = C[i]
    BY <1>3, <2>1, <2>2 DEF GraftKeys
  <2>4. /\ N[i].key \in TrieKeys /\ e[N[i].key] # <<>> /\ C[i] = {N[i].key}
        /\ N[i].digest = leaf_digest(N[i].key, e[N[i].key][1])
    BY <2>1 DEF Leaves
  <2>5. N[i].key # k
    BY <1>4, <2>4 DEF PresentIn
  <2>6. e1[N[i].key] = e[N[i].key]
    BY <1>7, <2>4, <2>5
  <2> HIDE DEF D
  <2> QED BY <2>2, <2>3, <2>4, <2>6
<1> QED BY <1>8, <1>9

LEMMA GraftClean ==
  ASSUME NEW N, NEW R, NEW C, NEW P, P \subseteq TrieKeys, Tree(N, R, C, P), NEW e, Leaves(N, C, e), Clean(N),
         NEW k, NEW l, NEW j, NEW s, NEW q,
         Site(N, R, C, P, k, l, j, s, q), NEW M, NEW d, NEW x, NEW b, Grafted(N, M, R, k, d, j, s, q, x, b)
  PROVE  CleanBut(M, Above(N, C, l, s))
<1> DEFINE A == Above(N, C, l, s)
<1>1. GraftFields(N, M, R, A, k, d, j, s, q, x, b)
  BY GraftHas
<1>2. /\ M[x].kind = "leaf" /\ M[b].dirty = TRUE
      /\ \A i \in Used(N) : M[i].kind = N[i].kind /\ M[i].digest = N[i].digest
      /\ \A i \in Used(N) : N[i].kind = "branch" => M[i].dirty = N[i].dirty
      /\ \A i \in Used(N) : R = s \/ i # q => M[i] = N[i]
  BY <1>1 DEF GraftFields
<1>3. \A i \in DOMAIN M : M[i].kind # "freed" => i \in Used(N) \/ i = x \/ i = b
  BY GraftUsed
<1>4. R # s => q \in A
  BY DEF Site
<1> HIDE DEF A
<1> SUFFICES ASSUME NEW i \in DOMAIN M, i \notin A, M[i].kind = "branch", ~M[i].dirty
             PROVE  /\ M[i].digest = branch_digest(M[i].bit, M[M[i].left].digest, M[M[i].right].digest)
                    /\ M[M[i].left].kind = "branch" => ~M[M[i].left].dirty
                    /\ M[M[i].right].kind = "branch" => ~M[M[i].right].dirty
  BY DEF CleanBut, A
<1>5. i \in Used(N)
  <2>1. M[i].kind # "freed" /\ i # x /\ i # b
    BY <1>2
  <2> QED BY <1>3, <2>1
<1>6. M[i] = N[i] /\ i \in DOMAIN N
  BY <1>2, <1>4, <1>5 DEF Used
<1>7. N[i].left \in Used(N) /\ N[i].right \in Used(N)
  BY <1>6 DEF Tree, Parts
<1>8. /\ N[i].digest = branch_digest(N[i].bit, N[N[i].left].digest, N[N[i].right].digest)
      /\ N[N[i].left].kind = "branch" => ~N[N[i].left].dirty
      /\ N[N[i].right].kind = "branch" => ~N[N[i].right].dirty
  BY <1>6 DEF Clean
<1> QED BY <1>2, <1>6, <1>7, <1>8

LEMMA MaxUpto ==
  ASSUME NEW n \in Nat, NEW s \in SUBSET (0..n), s # {}
  PROVE  Max(s) \in s /\ \A y \in s : y <= Max(s)
<1> DEFINE T == {n - y : y \in s}
<1>0. \A y \in s : y \in Int /\ n - y \in Nat
  OBVIOUS
<1>1. T \in SUBSET Nat /\ T # {}
  BY <1>0
<1>2. PICK m \in T : \A z \in T : m <= z
  <2> HIDE DEF T
  <2> QED BY <1>1, LeastNatural
<1>3. PICK x \in s : m = n - x
  BY <1>2
<1>4. ASSUME NEW y \in s PROVE x >= y
  <2>1. n - y \in T
    OBVIOUS
  <2>2. n - x <= n - y
    <3> HIDE DEF T
    <3> QED BY <1>2, <1>3, <2>1
  <2> QED BY <1>0, <2>2
<1>5. Max(s) \in s /\ \A y \in s : Max(s) >= y
  BY <1>3, <1>4, Zenon DEF Max
<1> QED BY <1>5

\* j is the first bit in which k and l differ.
Differ(k, l, j) == j \in 1..Width /\ k[j] # l[j] /\ Agree(k, l, j)

LEMMA FirstDiff ==
  ASSUME NEW k \in TrieKeys, NEW l \in TrieKeys, k # l
  PROVE  Differ(k, l, first_diff_bit(k, l))
<1> DEFINE Z == {i \in 1..Width : k[i] # l[i]}
           j == first_diff_bit(k, l)
<1>1. Z # {} /\ Z \in SUBSET Nat
  <2>1. k \in [1..Width -> {0, 1}] /\ l \in [1..Width -> {0, 1}]
    BY TrieAssumption
  <2>2. (\A i \in 1..Width : k[i] = l[i]) => k = l
    <3>1. k = [i \in 1..Width |-> k[i]] /\ l = [i \in 1..Width |-> l[i]]
      BY <2>1
    <3> QED BY <3>1, Zenon
  <2>3. Z # {}
    BY <2>2
  <2>4. Z \in SUBSET Nat
    BY TrieAssumption
  <2> QED BY <2>3, <2>4
<1>2. PICK i \in Z : \A y \in Z : i <= y
  <2> HIDE DEF Z
  <2> QED BY <1>1, LeastNatural
<1>3. j \in Z /\ \A y \in Z : j <= y
  BY <1>2, Zenon DEF first_diff_bit, Min
<1> HIDE DEF j
<1>4. Agree(k, l, j)
  <2> SUFFICES ASSUME NEW c \in 1..(j - 1), k[c] # l[c] PROVE FALSE
    BY DEF Agree
  <2>1. c \in 1..Width /\ ~(j <= c)
    BY <1>3, TrieAssumption
  <2> QED BY <1>3, <2>1
<1> QED BY <1>3, <1>4 DEF j, Differ

\* The branches of the path up to `kept` decide on bits before j, those after it do not.
KeptOf(N, path, j) == Max({n \in 0..Len(path) : n = 0 \/ N[path[n]].bit < j})

Kept(N, path, j, kept) ==
  /\ kept \in 0..Len(path) /\ (kept = 0 \/ N[path[kept]].bit < j)
  /\ \A n \in 1..Len(path) : N[path[n]].bit < j => n <= kept

LEMMA KeptFound ==
  ASSUME NEW N, NEW path, Len(path) \in Nat, NEW j
  PROVE  Kept(N, path, j, KeptOf(N, path, j))
<1> DEFINE W == {n \in 0..Len(path) : n = 0 \/ N[path[n]].bit < j}
           kept == KeptOf(N, path, j)
<1>1. W \in SUBSET (0..Len(path)) /\ 0 \in W
  OBVIOUS
<1>2. kept = Max(W)
  BY DEF KeptOf
<1> HIDE DEF W, kept
<1>3. kept \in W /\ \A n \in W : n <= kept
  BY <1>1, <1>2, MaxUpto
<1>4. \A n \in 1..Len(path) : N[path[n]].bit < j => n \in W
  BY DEF W
<1>5. kept \in 0..Len(path) /\ (kept = 0 \/ N[path[kept]].bit < j)
  BY <1>3 DEF W
<1> QED BY <1>3, <1>4, <1>5 DEF Kept, kept

IsFront(w, path, T) ==
  path \in Seq(T) /\ Len(path) = Len(w) - 1 /\ \A n \in 1..(Len(w) - 1) : path[n] = w[n]

\* The first `kept` branches of the path are those above the site.
SiteOf(t, C, P, k, l, j, w, path, kept) ==
  /\ kept \in 0..(Len(w) - 1) /\ (kept = 0 <=> t.root = w[kept + 1])
  /\ Site(t.nodes, t.root, C, P, k, l, j, w[kept + 1], w[kept])
  /\ SubSeq(path, 1, kept) \in Seq(Used(t.nodes)) /\ Len(SubSeq(path, 1, kept)) = kept
  /\ \A n \in 1..kept : SubSeq(path, 1, kept)[n] = w[n]
  /\ ToSet(SubSeq(path, 1, kept)) = Above(t.nodes, C, l, w[kept + 1])

\* Where a key that has no leaf leaves the walk.
LEMMA SiteFound ==
  ASSUME NEW t, NEW C, NEW P, P \subseteq TrieKeys, Tree(t.nodes, t.root, C, P), NEW k \in TrieKeys,
         NEW w, NEW x, NEW l, Reach(t, C, P, k, w, x, l), l # k,
         NEW j, Differ(k, l, j), NEW path, IsFront(w, path, Used(t.nodes)),
         NEW kept, Kept(t.nodes, path, j, kept)
  PROVE  SiteOf(t, C, P, k, l, j, w, path, kept)
<1> DEFINE N == t.nodes
           s == w[kept + 1]
           A == Above(N, C, l, s)
<1>1. /\ w \in Seq(Used(N)) /\ Len(w) \in Nat \ {0} /\ w[1] = t.root
      /\ x = w[Len(w)] /\ x \in Used(N) /\ N[x].kind = "leaf" /\ l = N[x].key
      /\ l \in P /\ C[x] = {l}
      /\ \A n \in 1..Len(w) : l \in C[w[n]]
      /\ \A m, n \in 1..Len(w) : m < n => BitOf(N[w[m]]) < BitOf(N[w[n]])
      /\ \A n \in 1..(Len(w) - 1) :
           /\ N[w[n]].kind = "branch" /\ w[n + 1] = Child(N[w[n]], k)
           /\ k[N[w[n]].bit] = l[N[w[n]].bit]
      /\ k \in P => l = k
  BY DEF Reach
<1>2. path \in Seq(Used(N)) /\ Len(path) = Len(w) - 1 /\ \A n \in 1..(Len(w) - 1) : path[n] = w[n]
  BY DEF IsFront
<1>3. \A n \in 1..Len(w) : w[n] \in Used(N) /\ w[n] \in DOMAIN N /\ BitOf(N[w[n]]) \in 1..(Width + 1)
  <2>1. \A n \in 1..Len(w) : w[n] \in Used(N) /\ w[n] \in DOMAIN N
    BY <1>1 DEF Used
  <2> QED BY <2>1, BitRange DEF Tree
<1>4. j \in 1..Width /\ k[j] # l[j] /\ Agree(k, l, j)
  BY DEF Differ
<1>5. /\ kept \in 0..Len(path) /\ (kept = 0 \/ N[path[kept]].bit < j)
      /\ \A n \in 1..Len(path) : N[path[n]].bit < j => n <= kept
  BY DEF Kept
<1>6. kept \in 0..(Len(w) - 1) /\ kept + 1 \in 1..Len(w)
  BY <1>1, <1>2, <1>5
<1>7. \A n \in 1..kept : n \in 1..(Len(w) - 1) /\ n \in 1..Len(w) /\ n + 1 \in 1..Len(w) /\ n < kept + 1
  BY <1>1, <1>6
<1>8. \A n \in 1..(Len(w) - 1) : n \in 1..Len(w) /\ N[w[n]].kind = "branch" /\ BitOf(N[w[n]]) = N[w[n]].bit
  BY <1>1 DEF BitOf
<1>9. \A n \in 1..kept : N[w[n]].bit < j
  <2> SUFFICES ASSUME kept # 0, NEW n \in 1..kept PROVE N[w[n]].bit < j
    BY <1>6
  <2>1. kept \in 1..(Len(w) - 1) /\ kept \in 1..Len(w)
    BY <1>6
  <2>2. N[w[kept]].bit < j
    BY <1>2, <1>5, <2>1
  <2>3. n = kept \/ n < kept
    BY <1>6
  <2>4. n < kept => BitOf(N[w[n]]) < BitOf(N[w[kept]])
    BY <1>1, <1>7, <2>1
  <2>5. BitOf(N[w[n]]) \in 1..(Width + 1) /\ BitOf(N[w[n]]) = N[w[n]].bit
    BY <1>3, <1>7, <1>8
  <2>6. BitOf(N[w[kept]]) \in 1..(Width + 1) /\ BitOf(N[w[kept]]) = N[w[kept]].bit
    BY <1>3, <1>8, <2>1
  <2> QED BY <1>4, <2>2, <2>3, <2>4, <2>5, <2>6, TrieAssumption
<1>10. j < BitOf(N[s])
  <2>1. CASE kept = Len(w) - 1
    <3>1. s = x
      BY <1>1, <2>1
    <3>2. BitOf(N[s]) = Width + 1
      BY <1>1, <3>1 DEF BitOf
    <3> QED BY <1>4, <3>2, TrieAssumption
  <2>2. CASE kept # Len(w) - 1
    <3> DEFINE n == kept + 1
    <3>1. n \in 1..(Len(w) - 1) /\ n \in 1..Len(path) /\ ~(n <= kept)
      BY <1>1, <1>2, <1>6, <2>2
    <3>2. ~(N[path[n]].bit < j)
      BY <1>5, <3>1
    <3>4. path[n] = w[n]
      BY <1>2, <3>1
    <3>5. w[n] \in DOMAIN N /\ N[w[n]].kind = "branch" /\ BitOf(N[w[n]]) = N[w[n]].bit
      BY <1>3, <1>8, <3>1
    <3>6. N[w[n]].bit \in 1..Width
      BY <3>5, BitRange DEF Tree
    <3>7. k[N[w[n]].bit] = l[N[w[n]].bit]
      BY <1>1, <3>1
    <3>8. N[w[n]].bit # j
      BY <1>4, <3>7
    <3> HIDE DEF n
    <3>9. j < BitOf(N[w[n]])
      BY <1>4, <3>2, <3>4, <3>5, <3>6, <3>8, TrieAssumption
    <3> QED BY <3>9 DEF n
  <2> QED BY <2>1, <2>2
<1> DEFINE keep == SubSeq(path, 1, kept)
<1>11. keep \in Seq(Used(N)) /\ Len(keep) = kept /\ \A n \in 1..kept : keep[n] = w[n]
  <2>1. kept \in Nat /\ kept <= Len(path)
    BY <1>1, <1>2, <1>6
  <2>2. keep \in Seq(Used(N)) /\ Len(keep) = kept /\ \A n \in 1..kept : keep[n] = path[n]
    BY <1>2, <2>1
  <2>3. \A n \in 1..kept : path[n] = w[n]
    BY <1>2, <1>7
  <2> HIDE DEF keep
  <2> QED BY <2>2, <2>3
<1> HIDE DEF keep
<1>12. ToSet(keep) = A
  BY <1>6, <1>11, PrefixAbove
<1>13. A = {w[n] : n \in 1..kept}
  <2>1. ToSet(keep) = {keep[n] : n \in 1..kept}
    BY <1>11 DEF ToSet
  <2>2. {keep[n] : n \in 1..kept} = {w[n] : n \in 1..kept}
    BY <1>11
  <2> HIDE DEF A
  <2> QED BY <1>12, <2>1, <2>2, Zenon
<1> HIDE DEF A
<1>14. kept = 0 <=> t.root = s
  <2>1. kept = 0 => t.root = s
    BY <1>1
  <2>2. kept # 0 => t.root # s
    <3> SUFFICES ASSUME kept # 0, w[1] = w[kept + 1] PROVE FALSE
      BY <1>1
    <3>1. 1 \in 1..Len(w) /\ 1 < kept + 1
      BY <1>6
    <3>2. BitOf(N[w[1]]) < BitOf(N[w[kept + 1]])
      BY <1>1, <1>6, <3>1
    <3>3. BitOf(N[w[1]]) \in 1..(Width + 1)
      BY <1>3, <3>1
    <3> QED BY <3>2, <3>3, TrieAssumption
  <2> QED BY <2>1, <2>2
<1>15. ASSUME NEW i \in A
       PROVE  N[i].bit < j /\ (Child(N[i], l) \in A \/ (i = w[kept] /\ Child(N[i], l) = s))
  <2>1. PICK n \in 1..kept : i = w[n]
    BY <1>13
  <2>2. Child(N[i], l) = w[n + 1]
    BY <1>1, <1>7, <2>1 DEF Child
  <2>3. n = kept \/ n + 1 \in 1..kept
    BY <1>6
  <2>4. n + 1 \in 1..kept => w[n + 1] \in A
    BY <1>13
  <2> QED BY <1>9, <2>1, <2>2, <2>3, <2>4
<1>16. kept # 0 => t.root \in A /\ w[kept] \in A /\ Child(N[w[kept]], l) = s
  <2> SUFFICES ASSUME kept # 0 PROVE t.root \in A /\ w[kept] \in A /\ Child(N[w[kept]], l) = s
    OBVIOUS
  <2>1. 1 \in 1..kept /\ kept \in 1..kept
    BY <1>6
  <2>2. Child(N[w[kept]], l) = s
    BY <1>1, <1>7, <2>1 DEF Child
  <2> QED BY <1>1, <1>13, <2>1, <2>2
<1>17. kept = 0 => A = {}
  BY <1>13
<1>18. s \in Used(N) /\ l \in C[s] /\ k \notin P
  BY <1>1, <1>3, <1>6
<1>19. Site(N, t.root, C, P, k, l, j, s, w[kept])
  <2> DEFINE q == w[kept]
             R == t.root
  <2>1. /\ l \in P /\ (R = s => A = {}) /\ (R # s => R \in A /\ q \in A /\ Child(N[q], l) = s)
    BY <1>1, <1>14, <1>16, <1>17
  <2>2. \A i \in A : N[i].bit < j /\ (Child(N[i], l) \in A \/ (i = q /\ Child(N[i], l) = s))
    BY <1>15
  <2>3. A = Above(N, C, l, s)
    BY DEF A
  <2> HIDE DEF s, N, q, R
  <2>4. Site(N, R, C, P, k, l, j, s, q)
    BY <1>4, <1>10, <1>18, <2>1, <2>2, <2>3 DEF Site
  <2> QED BY <2>4 DEF q, R
<1> QED BY <1>6, <1>11, <1>12, <1>14, <1>19 DEF keep, A, SiteOf

LEMMA AllocTwo ==
  ASSUME NEW t, Arena(t), NEW n1, n1 # Freed, n1.kind # "freed", NEW n2, n2 # Freed
  PROVE  LET t1 == alloc(t, n1)
             t2 == alloc(t1, n2)
             x  == Slot(t)
             b  == Slot(t1)
         IN /\ Arena(t2) /\ t2.root = t.root /\ t2.len = t.len
            /\ x \notin Used(t.nodes) /\ b \notin Used(t.nodes) /\ x # b
            /\ DOMAIN t2.nodes = DOMAIN t.nodes \cup {x, b} /\ t2.nodes[x] = n1 /\ t2.nodes[b] = n2
            /\ \A i \in DOMAIN t.nodes : i # x /\ i # b => t2.nodes[i] = t.nodes[i]
<1> DEFINE t1 == alloc(t, n1)
           t2 == alloc(t1, n2)
           x  == Slot(t)
           b  == Slot(t1)
<1>1. /\ Arena(t1) /\ x \notin {i \in DOMAIN t.nodes : t.nodes[i] # Freed}
      /\ t1.nodes = Put(t.nodes, x, n1) /\ t1.root = t.root /\ t1.len = t.len
  BY AllocKeeps
<1> HIDE DEF t1
<1>2. /\ Arena(t2) /\ b \notin {i \in DOMAIN t1.nodes : t1.nodes[i] # Freed}
      /\ t2.nodes = Put(t1.nodes, b, n2) /\ t2.root = t1.root /\ t2.len = t1.len
  BY <1>1, AllocKeeps
<1> HIDE DEF t2, x, b
<1>3. DOMAIN t1.nodes = DOMAIN t.nodes \cup {x} /\ t1.nodes[x] = n1
      /\ \A i \in DOMAIN t.nodes : i # x => t1.nodes[i] = t.nodes[i]
  BY <1>1 DEF Put
<1>4. DOMAIN t2.nodes = DOMAIN t1.nodes \cup {b} /\ t2.nodes[b] = n2
      /\ \A i \in DOMAIN t1.nodes : i # b => t2.nodes[i] = t1.nodes[i]
  BY <1>2 DEF Put
<1>5. \A i \in Used(t.nodes) : i \in DOMAIN t.nodes /\ t.nodes[i] # Freed
  <2>1. Freed.kind = "freed"
    BY DEF Freed
  <2> QED BY <2>1 DEF Used
<1>6. x # b
  BY <1>2, <1>3
<1>7. x \notin Used(t.nodes)
  BY <1>1, <1>5
<1>8. b \notin Used(t.nodes)
  BY <1>2, <1>3, <1>5, <1>7
<1>9. /\ DOMAIN t2.nodes = DOMAIN t.nodes \cup {x, b} /\ t2.nodes[x] = n1 /\ t2.nodes[b] = n2
      /\ \A i \in DOMAIN t.nodes : i # x /\ i # b => t2.nodes[i] = t.nodes[i]
  BY <1>3, <1>4, <1>6
<1> QED BY <1>1, <1>2, <1>6, <1>7, <1>8, <1>9 DEF t1, t2, x, b

\* replace_child below the branch q.
LEMMA ReplaceBelow ==
  ASSUME NEW t, Arena(t), NEW T, NEW keep \in Seq(T), Len(keep) # 0, NEW q, q = keep[Len(keep)],
         q \in DOMAIN t.nodes, IsBranchNode(t.nodes[q]), NEW s, NEW b
  PROVE  LET u == replace_child(t, keep, s, b)
             N == t.nodes
         IN /\ Arena(u) /\ u.root = t.root /\ u.len = t.len /\ DOMAIN u.nodes = DOMAIN N
            /\ \A i \in DOMAIN N : i # q => u.nodes[i] = N[i]
            /\ u.nodes[q] = IF N[q].left = s
                            THEN BranchOf(N[q].bit, b, N[q].right, N[q].digest, N[q].dirty)
                            ELSE BranchOf(N[q].bit, N[q].left, b, N[q].digest, N[q].dirty)
<1> DEFINE u == replace_child(t, keep, s, b)
           N == t.nodes
           y == IF N[q].left = s THEN [N[q] EXCEPT !.left = b] ELSE [N[q] EXCEPT !.right = b]
           z == IF N[q].left = s THEN BranchOf(N[q].bit, b, N[q].right, N[q].digest, N[q].dirty)
                ELSE BranchOf(N[q].bit, N[q].left, b, N[q].digest, N[q].dirty)
           M == [N EXCEPT ![q] = y]
<1>1. keep # <<>> /\ Last(keep) = q
  BY DEF Last
<1>2. u = [t EXCEPT !.nodes = M]
  BY <1>1 DEF replace_child
<1>3. y = z
  BY BranchExcept, ZenonT(30)
<1>4. DOMAIN M = DOMAIN N /\ M[q] = y /\ (\A i \in DOMAIN N : i # q => M[i] = N[i]) /\ M = [i \in DOMAIN N |-> M[i]]
  OBVIOUS
<1>5. z # Freed /\ N[q] # Freed
  <2>1. Freed.kind = "freed"
    BY DEF Freed
  <2>2. N[q].kind = "branch"
    BY DEF IsBranchNode
  <2>3. z.kind = "branch"
    BY DEF BranchOf
  <2> QED BY <2>1, <2>2, <2>3
<1> HIDE DEF M, u, y, z
<1>6. u.nodes = M /\ u.free = t.free /\ u.root = t.root /\ u.len = t.len /\ IsTrie(u)
  <2>1. u = TrieOf(M, t.free, t.root, t.len)
    BY <1>2, TrieExcept DEF Arena
  <2> QED BY <2>1, TrieFields
<1>7. \A i \in DOMAIN N : M[i] = Freed <=> N[i] = Freed
  BY <1>3, <1>4, <1>5
<1>8. Arena(u)
  BY <1>4, <1>6, <1>7, ArenaRefilled
<1>9. M[q] = z
  BY <1>3, <1>4
<1> QED BY <1>4, <1>6, <1>8, <1>9 DEF u, z

LEMMA ReplaceRoot ==
  ASSUME NEW t, Arena(t), NEW s, NEW b
  PROVE  LET u == replace_child(t, <<>>, s, b)
         IN Arena(u) /\ u.root = b /\ u.len = t.len /\ u.nodes = t.nodes
<1> DEFINE u == replace_child(t, <<>>, s, b)
<1>1. u = [t EXCEPT !.root = b]
  BY DEF replace_child
<1> HIDE DEF u
<1>2. u = TrieOf(t.nodes, t.free, b, t.len)
  BY <1>1, TrieExcept DEF Arena
<1>3. u.nodes = t.nodes /\ u.free = t.free /\ u.root = b /\ u.len = t.len /\ IsTrie(u)
  BY <1>2, TrieFields
<1>4. Arena(u)
  BY <1>3 DEF Arena
<1> QED BY <1>3, <1>4 DEF u

LEMMA LenSet ==
  ASSUME NEW t, Arena(t), NEW n
  PROVE  LET u == [t EXCEPT !.len = n]
         IN Arena(u) /\ u.root = t.root /\ u.len = n /\ u.nodes = t.nodes
<1> DEFINE u == [t EXCEPT !.len = n]
<1>1. u = TrieOf(t.nodes, t.free, t.root, n)
  BY TrieExcept DEF Arena
<1> HIDE DEF u
<1>3. u.nodes = t.nodes /\ u.free = t.free /\ u.root = t.root /\ u.len = n /\ IsTrie(u)
  BY <1>1, TrieFields
<1>4. Arena(u)
  BY <1>3 DEF Arena
<1> QED BY <1>3, <1>4 DEF u

\* What is kept of the path: the branches above s, of which q is the last.
KeepAt(t, keep, s, q) ==
  /\ keep \in Seq(Used(t.nodes)) /\ (Len(keep) = 0 <=> t.root = s)
  /\ Len(keep) # 0 => keep[Len(keep)] = q

\* SplitAt up to replace_child is a graft.
GraftStep(t, k, d, j, keep, s, q) ==
  LET x  == Slot(t)
      t1 == alloc(t, Leaf(k, d))
      n2 == IF k[j] = 1 THEN Branch(j, s, x) ELSE Branch(j, x, s)
      t2 == alloc(t1, n2)
      b  == Slot(t1)
      t3 == replace_child(t2, keep, s, b)
  IN /\ Grafted(t.nodes, t3.nodes, t.root, k, d, j, s, q, x, b)
     /\ Arena(t3) /\ t3.len = t.len /\ t3.root = IF t.root = s THEN b ELSE t.root

\* A new leaf and the branch above it.
LEMMA SplitGrafts ==
  ASSUME NEW t, Arena(t), NEW C, NEW P, P \subseteq TrieKeys, Tree(t.nodes, t.root, C, P),
         NEW k, NEW l, NEW j, NEW s, NEW q, Site(t.nodes, t.root, C, P, k, l, j, s, q), NEW d,
         NEW keep, KeepAt(t, keep, s, q)
  PROVE  GraftStep(t, k, d, j, keep, s, q)
<1> DEFINE x  == Slot(t)
           n1 == Leaf(k, d)
           t1 == alloc(t, n1)
           n2 == IF k[j] = 1 THEN Branch(j, s, x) ELSE Branch(j, x, s)
           t2 == alloc(t1, n2)
           b  == Slot(t1)
           t3 == replace_child(t2, keep, s, b)
           N  == t.nodes
           M  == t2.nodes
<1>1. n1 # Freed /\ n1.kind # "freed"
  BY LeafFields
<1>2. n2 = (IF k[j] = 1 THEN BranchOf(j, s, x, EMPTY, TRUE) ELSE BranchOf(j, x, s, EMPTY, TRUE))
  BY DEF Branch, BranchOf
<1>3. n2 # Freed
  <2>1. j \in 1..Width
    BY DEF Site
  <2>2. BranchOf(j, s, x, EMPTY, TRUE) # Freed /\ BranchOf(j, x, s, EMPTY, TRUE) # Freed
    BY <2>1, BranchNew
  <2> HIDE DEF n2
  <2> QED BY <1>2, <2>2
<1> HIDE DEF n1, n2
<1>4. /\ Arena(t2) /\ t2.root = t.root /\ t2.len = t.len
      /\ x \notin Used(N) /\ b \notin Used(N) /\ x # b
      /\ DOMAIN M = DOMAIN N \cup {x, b} /\ M[x] = n1 /\ M[b] = n2
      /\ \A i \in DOMAIN N : i # x /\ i # b => M[i] = N[i]
  BY <1>1, <1>3, AllocTwo
<1> HIDE DEF x, b, t1, t2
<1>5. CASE t.root = s
  <2>1. keep = <<>>
    BY <1>5 DEF KeepAt
  <2> HIDE DEF t3
  <2>2. t3 = replace_child(t2, <<>>, s, b)
    BY <2>1 DEF t3
  <2>3. Arena(t3) /\ t3.root = b /\ t3.len = t2.len /\ t3.nodes = M
    BY <1>4, <2>2, ReplaceRoot
  <2>4. Grafted(N, M, t.root, k, d, j, s, q, x, b)
    BY <1>2, <1>4, <1>5 DEF Grafted, n1
  <2> QED BY <1>4, <1>5, <2>3, <2>4 DEF GraftStep, t1, t2, t3, x, b, n1, n2
<1>6. CASE t.root # s
  <2>1. keep \in Seq(Used(N)) /\ Len(keep) # 0 /\ q = keep[Len(keep)]
    BY <1>6 DEF KeepAt
  <2>2. q \in Used(N) /\ q \in DOMAIN N /\ IsBranchNode(N[q])
    <3>1. q \in Above(N, C, l, s) /\ s \in Used(N)
      BY <1>6 DEF Site
    <3>2. q \in DOMAIN N /\ N[q].kind = "branch"
      BY <3>1, AboveUp
    <3> QED BY <3>2, NodeKinds DEF Tree, Used
  <2>3. M[q] = N[q] /\ q \in DOMAIN M /\ q # x /\ q # b
    BY <1>4, <2>2
  <2> HIDE DEF t3
  <2>4. /\ Arena(t3) /\ t3.root = t2.root /\ t3.len = t2.len /\ DOMAIN t3.nodes = DOMAIN M
        /\ \A i \in DOMAIN M : i # q => t3.nodes[i] = M[i]
        /\ t3.nodes[q] = IF M[q].left = s
                         THEN BranchOf(M[q].bit, b, M[q].right, M[q].digest, M[q].dirty)
                         ELSE BranchOf(M[q].bit, M[q].left, b, M[q].digest, M[q].dirty)
    <3>1. IsBranchNode(M[q])
      BY <2>2, <2>3
    <3> QED BY <1>4, <2>1, <2>3, <3>1, ReplaceBelow DEF t3
  <2>5. Grafted(N, t3.nodes, t.root, k, d, j, s, q, x, b)
    <3> DEFINE L == t3.nodes
               y == N[q].dirty
    <3>1. DOMAIN L = DOMAIN N \cup {x, b} /\ L[x] = n1 /\ L[b] = n2
      BY <1>4, <2>3, <2>4
    <3>2. \A i \in DOMAIN N : i # x /\ i # b /\ i # q => L[i] = N[i]
      BY <1>4, <2>4
    <3>3. L[q] = IF N[q].left = s
                 THEN BranchOf(N[q].bit, b, N[q].right, N[q].digest, y)
                 ELSE BranchOf(N[q].bit, N[q].left, b, N[q].digest, y)
      BY <2>3, <2>4
    <3> HIDE DEF L
    <3> QED BY <1>2, <1>4, <1>6, <3>1, <3>2, <3>3 DEF Grafted, n1, L
  <2> QED BY <1>4, <1>6, <2>4, <2>5 DEF GraftStep, t1, t2, t3, x, b, n1, n2
<1> QED BY <1>5, <1>6

\* Trie::set of a key that has no leaf, in a trie that is not empty.
LEMMA SetSplit ==
  ASSUME NEW t, NEW C, NEW e, TrieOk(t, C, e), Entries(e), NEW k, NEW l, NEW j, NEW s, NEW q, NEW v,
         Site(t.nodes, t.root, C, PresentIn(e), k, l, j, s, q),
         NEW keep, KeepAt(t, keep, s, q),
         ToSet(keep) = Above(t.nodes, C, l, s)
  PROVE  \E D : TrieOk(SplitAt(t, k, leaf_digest(k, v), j, keep, s), D, Enter(e, k, <<v>>))
<1> DEFINE P  == PresentIn(e)
           d  == leaf_digest(k, v)
           e1 == Enter(e, k, <<v>>)
           N  == t.nodes
           A  == Above(N, C, l, s)
           x  == Slot(t)
           t1 == alloc(t, Leaf(k, d))
           n2 == IF k[j] = 1 THEN Branch(j, s, x) ELSE Branch(j, x, s)
           t2 == alloc(t1, n2)
           b  == Slot(t1)
           t3 == replace_child(t2, keep, s, b)
           M  == t3.nodes
           D  == GraftKeys(N, M, C, k, l, s, x, b)
           u  == mark(t3, keep)
           o  == [u EXCEPT !.len = @ + 1]
<1>1. o = SplitAt(t, k, d, j, keep, s)
  BY DEF SplitAt
<1>2. /\ Arena(t) /\ Tree(N, t.root, C, P) /\ Leaves(N, C, e) /\ Clean(N)
      /\ IsFiniteSet(P) /\ t.len = Cardinality(P) /\ P \subseteq TrieKeys
      /\ Site(N, t.root, C, P, k, l, j, s, q) /\ ToSet(keep) = A
  BY DEF TrieOk, PresentIn
<1> HIDE DEF P, d
<1>3. /\ Grafted(N, M, t.root, k, d, j, s, q, x, b)
      /\ Arena(t3) /\ t3.len = t.len /\ t3.root = IF t.root = s THEN b ELSE t.root
  <2>1. GraftStep(t, k, d, j, keep, s, q)
    BY <1>2, SplitGrafts
  <2> QED BY <2>1 DEF GraftStep
<1> HIDE DEF o, u, D, t3, t2, t1, x, b, n2, A
<1>4. Tree(M, t3.root, D, P \cup {k}) /\ Upward(M, A)
  <2>1. /\ Tree(M, IF t.root = s THEN b ELSE t.root, D, P \cup {k}) /\ Upward(M, A)
    BY <1>2, <1>3, GraftTree, Zenon DEF D, A
  <2> QED BY <1>3, <2>1
<1>5. CleanBut(M, A)
  BY <1>2, <1>3, GraftClean DEF A
<1>6. Leaves(M, D, e1)
  BY <1>2, <1>3, GraftLeaves DEF P, d, D
<1>7. PresentIn(e1) = P \cup {k} /\ k \notin P /\ k \in TrieKeys
  <2>1. k \notin P /\ k \in TrieKeys
    BY <1>2 DEF Site
  <2>2. <<v>> # <<>>
    OBVIOUS
  <2> QED BY <2>1, <2>2, EntriesPut DEF P
<1>8. \A i \in A : i \in DOMAIN M /\ M[i].kind = "branch"
  <2>1. GraftFields(N, M, t.root, A, k, d, j, s, q, x, b)
    BY <1>2, <1>3, GraftHas DEF A
  <2>2. \A i \in A : i \in DOMAIN N /\ N[i].kind = "branch"
    <3>1. s \in Used(N)
      BY <1>2 DEF Site
    <3> QED BY <1>2, <3>1, AboveUp DEF A
  <2> QED BY <2>1, <2>2 DEF GraftFields, Used
<1>9. /\ Arena(u) /\ u.root = t3.root /\ u.len = t3.len /\ Clean(u.nodes)
      /\ Tree(u.nodes, t3.root, D, P \cup {k}) /\ DOMAIN u.nodes = DOMAIN M
      /\ \A i \in DOMAIN M : Like(M[i], u.nodes[i]) /\ u.nodes[i].digest = M[i].digest
  <2> DEFINE P1 == P \cup {k}
  <2>1. Tree(M, t3.root, D, P1)
    BY <1>4
  <2> HIDE DEF P1
  <2>2. MarkAt(M, keep)
    BY <1>2, <1>4, <1>5, <1>8 DEF MarkAt
  <2>3. /\ Arena(u) /\ u.root = t3.root /\ u.len = t3.len /\ Clean(u.nodes)
        /\ Tree(u.nodes, t3.root, D, P1) /\ DOMAIN u.nodes = DOMAIN M
        /\ \A i \in DOMAIN M : Like(M[i], u.nodes[i]) /\ u.nodes[i].digest = M[i].digest
    <3>1. Marked(t3, u, t3.root, D, P1)
      BY <1>3, <2>1, <2>2, MarkCleans DEF u
    <3> QED BY <3>1 DEF Marked
  <2> QED BY <2>3 DEF P1
<1>10. Leaves(u.nodes, D, e1)
  <2> HIDE DEF e1
  <2> QED BY <1>6, <1>9 DEF Leaves, Like
<1>11. o.nodes = u.nodes /\ o.root = u.root /\ o.len = u.len + 1 /\ Arena(o)
  BY <1>9, LenSet DEF o
<1>12. IsFiniteSet(P \cup {k}) /\ Cardinality(P \cup {k}) = t.len + 1
  BY <1>2, <1>7, FS_AddElement
<1>13. TrieOk(o, D, e1)
  <2> HIDE DEF e1
  <2> QED BY <1>3, <1>7, <1>9, <1>10, <1>11, <1>12 DEF TrieOk
<1> QED BY <1>1, <1>13 DEF d

LEMMA RootZero ==
  ASSUME NEW t, Arena(t), NEW C, NEW P, Tree(t.nodes, t.root, C, P)
  PROVE  t.root = 0 <=> P = {}
<1>1. DOMAIN t.nodes = 1..Len(t.nodes) /\ Len(t.nodes) \in Nat
  BY ArenaDomain
<1>2. P # {} => t.root \in DOMAIN t.nodes
  BY DEF Tree, Rooted, Used
<1>3. P = {} => t.root = 0
  BY DEF Tree, Rooted
<1> QED BY <1>1, <1>2, <1>3

\* Trie::set in an empty trie.
LEMMA SetEmpty ==
  ASSUME NEW t, NEW C, NEW e, TrieOk(t, C, e), Entries(e), NEW k \in TrieKeys, NEW v, t.root = 0
  PROVE  \E D : TrieOk(set(t, k, leaf_digest(k, v)), D, Enter(e, k, <<v>>))
<1> DEFINE P  == PresentIn(e)
           d  == leaf_digest(k, v)
           e1 == Enter(e, k, <<v>>)
           N  == t.nodes
           x  == Slot(t)
           n1 == Leaf(k, d)
           t1 == alloc(t, n1)
           u  == [t1 EXCEPT !.root = x, !.len = 1]
           M  == t1.nodes
           D  == [i \in DOMAIN M |-> {k}]
<1>1. Arena(t) /\ Tree(N, t.root, C, P)
  BY DEF TrieOk
<1>2. set(t, k, d) = u
  BY Zenon DEF set
<1>3. P = {} /\ Used(N) = {}
  <2>1. P = {}
    BY <1>1, RootZero
  <2> HIDE DEF P
  <2> QED BY <1>1, <2>1 DEF Tree, Rooted
<1>4. n1.kind = "leaf" /\ n1.key = k /\ n1.digest = d /\ IsLeafNode(n1) /\ n1 # Freed
  BY LeafFields
<1> HIDE DEF n1
<1>5. Arena(t1) /\ M = Put(N, x, n1) /\ t1.root = t.root /\ t1.len = t.len
  BY <1>1, <1>4, AllocKeeps
<1> HIDE DEF t1, x
<1>6. u.nodes = M /\ u.root = x /\ u.len = 1 /\ u.free = t1.free /\ IsTrie(u)
  <2> DEFINE y == [t1 EXCEPT !.root = x]
  <2>0. u = [y EXCEPT !.len = 1] /\ IsTrie(t1)
    BY <1>5 DEF Arena
  <2>2. y = TrieOf(t1.nodes, t1.free, x, t1.len)
    BY <2>0, TrieExcept
  <2> HIDE DEF u, y
  <2>3. IsTrie(y) /\ y.nodes = M /\ y.free = t1.free /\ y.root = x
    BY <2>2, TrieFields
  <2>4. [y EXCEPT !.len = 1] = TrieOf(y.nodes, y.free, y.root, 1)
    BY <2>3, TrieExcept
  <2>1. u = TrieOf(M, t1.free, x, 1)
    BY <2>0, <2>3, <2>4, Zenon
  <2> QED BY <2>1, TrieFields
<1> HIDE DEF u
<1>7. Arena(u)
  BY <1>5, <1>6 DEF Arena
<1>8. x \in DOMAIN M /\ M[x] = n1 /\ \A i \in DOMAIN M : i # x => i \in DOMAIN N /\ M[i] = N[i]
  BY <1>5 DEF Put
<1>9. \A i \in DOMAIN M : i # x => M[i] = Freed /\ M[i].kind = "freed"
  <2>1. \A i \in DOMAIN N : N[i].kind = "freed"
    BY <1>3 DEF Used
  <2> QED BY <1>1, <1>8, <2>1, NodeKinds DEF Tree
<1>10. \A i \in DOMAIN M : M[i].kind = "leaf" => i = x
  BY <1>9
<1>11. \A i \in DOMAIN M : M[i].kind # "branch"
  BY <1>4, <1>8, <1>9
<1>12. Used(M) = {x}
  BY <1>4, <1>8, <1>9 DEF Used
<1>13. e1[k] = <<v>> /\ PresentIn(e1) = {k}
  <2>1. <<v>> # <<>>
    OBVIOUS
  <2>2. PresentIn(e1) = P \cup {k} /\ e1[k] = <<v>>
    BY <2>1, EntriesPut
  <2> HIDE DEF e1, P
  <2> QED BY <1>3, <2>2
<1> HIDE DEF e1, P, M
<1>14. D[x] = {k}
  BY <1>8
<1> HIDE DEF D
<1>15. Tree(M, x, D, {k})
  <2>1. Nodes(M)
    BY <1>4, <1>8, <1>9 DEF Nodes
  <2>2. Parts(M, D) /\ Holds(M, D, {k})
    BY <1>11, <1>12, <1>14 DEF Parts, Holds
  <2>3. Rooted(M, x, D, {k}) /\ Parented(M, x)
    BY <1>12, <1>14 DEF Rooted, Parented
  <2> QED BY <2>1, <2>2, <2>3 DEF Tree
<1>16. Leaves(M, D, e1)
  <2>1. e1[k] # <<>> /\ e1[k][1] = v
    BY <1>13
  <2> QED BY <1>4, <1>8, <1>10, <1>14, <2>1 DEF Leaves, d
<1>17. Clean(M)
  BY <1>11 DEF Clean
<1>18. IsFiniteSet({k}) /\ Cardinality({k}) = 1
  BY FS_Singleton
<1>19. TrieOk(u, D, e1)
  BY <1>6, <1>7, <1>13, <1>15, <1>16, <1>17, <1>18 DEF TrieOk
<1> QED BY <1>2, <1>19 DEF e1

\* Trie::set keeps the trie that of the entries.
LEMMA SetKeeps ==
  ASSUME NEW t, NEW C, NEW e, TrieOk(t, C, e), Entries(e), NEW k \in TrieKeys, NEW v
  PROVE  \E D : TrieOk(set(t, k, leaf_digest(k, v)), D, Enter(e, k, <<v>>))
<1> DEFINE P == PresentIn(e)
           d == leaf_digest(k, v)
           e1 == Enter(e, k, <<v>>)
           N == t.nodes
<1>1. Arena(t) /\ Tree(N, t.root, C, P) /\ Leaves(N, C, e) /\ P \subseteq TrieKeys
  BY DEF TrieOk, PresentIn
<1>2. CASE t.root = 0
  BY <1>2, SetEmpty
<1>3. CASE t.root # 0
  <2>1. P # {}
    BY <1>1, <1>3, RootZero
  <2>2. PICK w, x, l : w = descend(t, k) /\ Reach(t, C, P, k, w, x, l)
    <3> HIDE DEF P
    <3> QED BY <1>1, <2>1, Reaches
  <2> HIDE DEF P
  <2>3. /\ w \in Seq(Used(N)) /\ Len(w) \in Nat \ {0} /\ x = w[Len(w)] /\ x \in Used(N)
        /\ l = N[x].key /\ l \in P
    BY <2>2 DEF Reach
  <2>4. Last(w) = x /\ IsFront(w, Front(w), Used(N))
    BY <2>3, FrontOf DEF IsFront
  <2> DEFINE path == Front(w)
             j == first_diff_bit(k, l)
             kept == KeptOf(N, path, j)
             keep == SubSeq(path, 1, kept)
  <2>5. set(t, k, d) =
          IF l = k
          THEN IF N[x].digest = d THEN t ELSE mark([t EXCEPT !.nodes[x].digest = d], path)
          ELSE SplitAt(t, k, d, j, keep, w[kept + 1])
    <3>1. set(t, k, d) =
            IF N[Last(w)].key = k
            THEN IF N[Last(w)].digest = d THEN t ELSE mark([t EXCEPT !.nodes[Last(w)].digest = d], path)
            ELSE SplitAt(t, k, d, first_diff_bit(k, N[Last(w)].key),
                   SubSeq(path, 1, KeptOf(N, path, first_diff_bit(k, N[Last(w)].key))),
                   w[KeptOf(N, path, first_diff_bit(k, N[Last(w)].key)) + 1])
      BY <1>3, <2>2, Zenon DEF set, KeptOf
    <3> QED BY <2>3, <2>4, <3>1, Zenon
  <2> HIDE DEF path, j, kept, keep
  <2>6. CASE l = k
    <3>1. Reach(t, C, P, k, w, x, k)
      BY <2>2, <2>6
    <3>2. /\ TrieOk(mark([t EXCEPT !.nodes[x].digest = d], path), C, e1)
          /\ N[x].digest = d => TrieOk(t, C, e1)
      BY <3>1, SetLeaf DEF P, path
    <3> DEFINE u == mark([t EXCEPT !.nodes[x].digest = d], path)
    <3> HIDE DEF u
    <3>3. set(t, k, d) = IF N[x].digest = d THEN t ELSE u
      BY <2>5, <2>6, Zenon DEF u
    <3>4. TrieOk(set(t, k, d), C, e1)
      BY <3>2, <3>3 DEF u
    <3> QED BY <3>4
  <2>7. CASE l # k
    <3>1. Differ(k, l, j)
      BY <1>1, <2>3, <2>7, FirstDiff DEF j
    <3>2. Kept(N, path, j, kept)
      <4>1. Len(path) \in Nat
        BY <2>3, <2>4 DEF IsFront, path
      <4> QED BY <4>1, KeptFound DEF kept
    <3>3. IsFront(w, path, Used(N))
      BY <2>4 DEF path
    <3> DEFINE s == w[kept + 1]
               q == w[kept]
    <3>4. /\ kept \in 0..(Len(w) - 1) /\ (kept = 0 <=> t.root = s)
          /\ Site(N, t.root, C, P, k, l, j, s, q)
          /\ keep \in Seq(Used(N)) /\ Len(keep) = kept
          /\ \A n \in 1..kept : keep[n] = w[n]
          /\ ToSet(keep) = Above(N, C, l, s)
      <4>1. SiteOf(t, C, P, k, l, j, w, path, kept)
        BY <1>1, <2>2, <2>7, <3>1, <3>2, <3>3, SiteFound
      <4> QED BY <4>1 DEF SiteOf, keep
    <3>5. KeepAt(t, keep, s, q)
      BY <3>4 DEF KeepAt
    <3> HIDE DEF s, q
    <3>6. \E D : TrieOk(SplitAt(t, k, d, j, keep, s), D, e1)
      BY <3>4, <3>5, SetSplit DEF P
    <3>7. set(t, k, d) = SplitAt(t, k, d, j, keep, s)
      BY <2>5, <2>7, Zenon DEF s
    <3> QED BY <3>6, <3>7
  <2> QED BY <2>6, <2>7
<1> QED BY <1>2, <1>3

-----------------------------------------------------------------------------
(* A leaf and the branch above it are pruned *)

\* x is the leaf of k, q the branch above it, s its other child; g is the branch above q.
Bough(N, R, C, P, k, x, q, g, s) ==
  LET A == Above(N, C, k, q)
  IN /\ k \in P /\ x \in Used(N) /\ N[x].kind = "leaf" /\ C[x] = {k} /\ q \in DOMAIN N /\ N[q].kind = "branch"
     /\ Child(N[q], k) = x /\ s = Sibling(N[q], k)
     /\ \A i \in Used(N) : k \in C[i] => i \in A \/ i = q \/ i = x
     /\ \A i \in A : Child(N[i], k) \in A \/ (i = g /\ Child(N[i], k) = q)
     /\ IF R = q THEN A = {} ELSE R \in A /\ g \in A /\ Child(N[g], k) = q

\* M is N without x and q, s being where q was.
Pruned(N, M, R, x, q, g, s) ==
  /\ DOMAIN M = DOMAIN N /\ M[x] = Freed /\ M[q] = Freed
  /\ \A i \in DOMAIN N : i # x /\ i # q /\ (R = q \/ i # g) => M[i] = N[i]
  /\ R # q => M[g] = IF N[g].left = q
                     THEN BranchOf(N[g].bit, s, N[g].right, N[g].digest, N[g].dirty)
                     ELSE BranchOf(N[g].bit, N[g].left, s, N[g].digest, N[g].dirty)

PruneKeys(N, C, k) == [i \in DOMAIN N |-> C[i] \ {k}]

\* How the keys lie around the bough.
BoughFacts(N, R, C, P, k, x, q, g, s) ==
  LET A == Above(N, C, k, q)
  IN /\ x \in DOMAIN N /\ q \in Used(N) /\ s \in Used(N) /\ s # x /\ s # q /\ x # q
     /\ k \in C[q] /\ k \notin C[s] /\ C[s] = C[q] \ {k} /\ s \notin A /\ q \notin A /\ x \notin A
     /\ (N[q].left = x /\ N[q].right = s) \/ (N[q].left = s /\ N[q].right = x)
     /\ \A i \in A : i \in Used(N) /\ i \in DOMAIN N /\ IsBranchNode(N[i]) /\ N[i].kind = "branch" /\ k \in C[i]
     /\ Upward(N, A)
     /\ R # q => g \in A /\ g # x /\ g # q

LEMMA BoughHas ==
  ASSUME NEW N, NEW R, NEW C, NEW P, P \subseteq TrieKeys, Tree(N, R, C, P), NEW k, NEW x, NEW q, NEW g, NEW s,
         Bough(N, R, C, P, k, x, q, g, s)
  PROVE  BoughFacts(N, R, C, P, k, x, q, g, s)
<1> DEFINE A == Above(N, C, k, q)
<1>1. /\ k \in P /\ x \in Used(N) /\ N[x].kind = "leaf" /\ C[x] = {k} /\ q \in DOMAIN N /\ N[q].kind = "branch"
      /\ Child(N[q], k) = x /\ s = Sibling(N[q], k)
      /\ R # q => g \in A
  BY DEF Bough
<1>2. x \in DOMAIN N /\ q \in Used(N) /\ x # q
  BY <1>1 DEF Used
<1>3. /\ N[q].left \in Used(N) /\ N[q].right \in Used(N)
      /\ C[N[q].left] = {m \in C[q] : m[N[q].bit] = 0}
      /\ C[N[q].right] = {m \in C[q] : m[N[q].bit] = 1}
  BY <1>1 DEF Tree, Parts
<1>4. N[q].bit \in 1..Width
  BY <1>1, BitRange DEF Tree
<1>5. C[q] \subseteq TrieKeys
  BY <1>2 DEF Tree, Holds
<1>6. \A m \in C[q] : m[N[q].bit] \in {0, 1}
  BY <1>4, <1>5, KeyBits
<1>7. (N[q].left = x /\ N[q].right = s) \/ (N[q].left = s /\ N[q].right = x)
  BY <1>1 DEF Child, Sibling
<1>8. k \in C[q] /\ k \notin C[s] /\ C[s] = C[q] \ {k} /\ s \in Used(N) /\ s # x
  <2>1. CASE N[q].left = x /\ N[q].right = s
    BY <1>1, <1>3, <1>6, <2>1
  <2>2. CASE N[q].left = s /\ N[q].right = x
    BY <1>1, <1>3, <1>6, <2>2
  <2> QED BY <1>7, <2>1, <2>2
<1>9. \A i \in A : i \in DOMAIN N /\ N[i].kind = "branch" /\ i \in Used(N) /\ k \in C[i] /\ i # q
  <2>1. \A i \in A : i \in DOMAIN N /\ N[i].kind = "branch"
    BY <1>2, AboveUp
  <2>2. \A i \in A : i \in Used(N) /\ k \in C[i] /\ BitOf(N[i]) < BitOf(N[q])
    BY DEF Above
  <2>3. BitOf(N[q]) \in 1..Width
    BY <1>1, BitRange DEF Tree
  <2> QED BY <2>1, <2>2, <2>3
<1>10. \A i \in A : IsBranchNode(N[i])
  BY <1>9, NodeKinds DEF Tree
<1>11. Upward(N, A)
  BY <1>2, AboveUp
<1> HIDE DEF A
<1>12. s \notin A /\ q \notin A /\ x \notin A /\ s # q
  BY <1>1, <1>8, <1>9
<1>13. R # q => g \in A /\ g # x /\ g # q
  BY <1>1, <1>9
<1> QED BY <1>2, <1>7, <1>8, <1>9, <1>10, <1>11, <1>12, <1>13 DEF BoughFacts, A

PruneFields(N, M, R, x, q, g, s) ==
  /\ M[x].kind = "freed" /\ M[q].kind = "freed"
  /\ Used(M) = Used(N) \ {x, q} /\ Nodes(M)
  /\ \A i \in Used(N) : i # x /\ i # q =>
       /\ M[i].kind = N[i].kind /\ M[i].digest = N[i].digest
       /\ N[i].kind = "branch" => M[i].bit = N[i].bit /\ M[i].dirty = N[i].dirty
       /\ R = q \/ i # g => M[i] = N[i]
  /\ R # q => /\ N[g].left = q => M[g].left = s /\ M[g].right = N[g].right
              /\ N[g].left # q => M[g].left = N[g].left /\ M[g].right = s

LEMMA PruneHas ==
  ASSUME NEW N, NEW R, NEW C, NEW P, P \subseteq TrieKeys, Tree(N, R, C, P), NEW k, NEW x, NEW q, NEW g, NEW s,
         Bough(N, R, C, P, k, x, q, g, s), NEW M, Pruned(N, M, R, x, q, g, s)
  PROVE  PruneFields(N, M, R, x, q, g, s)
<1> DEFINE A == Above(N, C, k, q)
<1>1. BoughFacts(N, R, C, P, k, x, q, g, s)
  BY BoughHas
<1>2. /\ x \in DOMAIN N /\ q \in DOMAIN N /\ x # q
      /\ R # q => g \in Used(N) /\ g \in DOMAIN N /\ IsBranchNode(N[g]) /\ N[g].kind = "branch" /\ g # x /\ g # q
  BY <1>1 DEF BoughFacts, Used
<1>3. /\ DOMAIN M = DOMAIN N /\ M[x] = Freed /\ M[q] = Freed
      /\ \A i \in DOMAIN N : i # x /\ i # q /\ (R = q \/ i # g) => M[i] = N[i]
  BY DEF Pruned
<1>4. M[x].kind = "freed" /\ M[q].kind = "freed"
  BY <1>3 DEF Freed
<1>5. ASSUME R # q
      PROVE  /\ M[g].kind = "branch" /\ M[g].digest = N[g].digest /\ M[g].bit = N[g].bit
             /\ M[g].dirty = N[g].dirty /\ IsBranchNode(M[g])
             /\ N[g].left = q => M[g].left = s /\ M[g].right = N[g].right
             /\ N[g].left # q => M[g].left = N[g].left /\ M[g].right = s
  <2> DEFINE y == N[g].dirty
  <2>1. y \in BOOLEAN /\ N[g].bit \in 1..Width
    BY <1>2, <1>5 DEF IsBranchNode
  <2>2. M[g] = IF N[g].left = q THEN BranchOf(N[g].bit, s, N[g].right, N[g].digest, y)
               ELSE BranchOf(N[g].bit, N[g].left, s, N[g].digest, y)
    BY <1>5 DEF Pruned
  <2> HIDE DEF y
  <2>3. IsBranchNode(M[g])
    BY <2>1, <2>2, BranchNew
  <2>4. CASE N[g].left = q
    <3>1. M[g] = BranchOf(N[g].bit, s, N[g].right, N[g].digest, y)
      BY <2>2, <2>4
    <3> QED BY <2>3, <2>4, <3>1, BranchFields DEF y
  <2>5. CASE N[g].left # q
    <3>1. M[g] = BranchOf(N[g].bit, N[g].left, s, N[g].digest, y)
      BY <2>2, <2>5
    <3> QED BY <2>3, <2>5, <3>1, BranchFields DEF y
  <2> QED BY <2>4, <2>5
<1>6. Nodes(M)
  <2> SUFFICES ASSUME NEW i \in DOMAIN M PROVE IsLeafNode(M[i]) \/ IsBranchNode(M[i]) \/ M[i] = Freed
    BY DEF Nodes
  <2>1. CASE i = x \/ i = q
    BY <1>3, <2>1
  <2>2. CASE R # q /\ i = g
    BY <1>5, <2>2
  <2>3. CASE i # x /\ i # q /\ (R = q \/ i # g)
    <3>1. M[i] = N[i] /\ i \in DOMAIN N
      BY <1>3, <2>3
    <3> QED BY <3>1 DEF Tree, Nodes
  <2> QED BY <2>1, <2>2, <2>3
<1>7. ASSUME NEW i \in DOMAIN N, i # x, i # q
      PROVE  /\ M[i].kind = N[i].kind
             /\ N[i].kind # "freed" => M[i].digest = N[i].digest
             /\ N[i].kind = "branch" => M[i].bit = N[i].bit /\ M[i].dirty = N[i].dirty
             /\ R = q \/ i # g => M[i] = N[i]
  <2>1. CASE R = q \/ i # g
    <3>1. M[i] = N[i]
      BY <1>3, <1>7, <2>1
    <3> QED BY <3>1
  <2>2. CASE R # q /\ i = g
    BY <1>2, <1>5, <2>2
  <2> QED BY <2>1, <2>2
<1>8. Used(M) = Used(N) \ {x, q}
  BY <1>3, <1>4, <1>7 DEF Used
<1>9. \A i \in Used(N) : i \in DOMAIN N /\ N[i].kind # "freed"
  BY DEF Used
<1> QED BY <1>4, <1>5, <1>6, <1>7, <1>8, <1>9 DEF PruneFields

LEMMA PruneTree ==
  ASSUME NEW N, NEW R, NEW C, NEW P, P \subseteq TrieKeys, Tree(N, R, C, P), NEW k, NEW x, NEW q, NEW g, NEW s,
         Bough(N, R, C, P, k, x, q, g, s), NEW M, Pruned(N, M, R, x, q, g, s)
  PROVE  /\ Tree(M, IF R = q THEN s ELSE R, PruneKeys(N, C, k), P \ {k})
         /\ Upward(M, Above(N, C, k, q))
<1> DEFINE A == Above(N, C, k, q)
           D == PruneKeys(N, C, k)
           R3 == IF R = q THEN s ELSE R
<1>1. BoughFacts(N, R, C, P, k, x, q, g, s) /\ PruneFields(N, M, R, x, q, g, s)
  BY BoughHas, PruneHas
<1>2. /\ x \in DOMAIN N /\ q \in Used(N) /\ s \in Used(N) /\ s # x /\ s # q /\ x # q
      /\ k \in C[q] /\ k \notin C[s] /\ C[s] = C[q] \ {k} /\ s \notin A /\ q \notin A /\ x \notin A
      /\ (N[q].left = x /\ N[q].right = s) \/ (N[q].left = s /\ N[q].right = x)
      /\ \A i \in A : i \in Used(N) /\ i \in DOMAIN N /\ N[i].kind = "branch" /\ k \in C[i]
      /\ Upward(N, A)
      /\ R # q => g \in A /\ g # x /\ g # q
  BY <1>1 DEF BoughFacts
<1>3. /\ M[x].kind = "freed" /\ M[q].kind = "freed" /\ Used(M) = Used(N) \ {x, q} /\ Nodes(M)
      /\ \A i \in Used(N) : i # x /\ i # q =>
           /\ M[i].kind = N[i].kind
           /\ N[i].kind = "branch" => M[i].bit = N[i].bit
           /\ R = q \/ i # g => M[i] = N[i]
      /\ R # q => /\ N[g].left = q => M[g].left = s /\ M[g].right = N[g].right
                  /\ N[g].left # q => M[g].left = N[g].left /\ M[g].right = s
  BY <1>1 DEF PruneFields
<1>4. /\ k \in P /\ N[x].kind = "leaf" /\ C[x] = {k} /\ x \in Used(N)
      /\ \A i \in Used(N) : k \in C[i] => i \in A \/ i = q \/ i = x
      /\ \A i \in A : Child(N[i], k) \in A \/ (i = g /\ Child(N[i], k) = q)
      /\ R = q => A = {}
      /\ R # q => R \in A /\ g \in A /\ Child(N[g], k) = q
  BY DEF Bough
<1>5. DOMAIN M = DOMAIN N /\ \A i \in Used(N) : i \in DOMAIN N
  BY DEF Pruned, Used
<1>6. \A i \in Used(N) : D[i] = C[i] \ {k}
  BY <1>5 DEF PruneKeys
<1> HIDE DEF A, D
<1>7. ASSUME NEW i \in Used(N), N[i].kind = "branch"
      PROVE  /\ N[i].left \in Used(N) /\ N[i].right \in Used(N) /\ N[i].bit \in 1..Width
             /\ C[N[i].left] = {m \in C[i] : m[N[i].bit] = 0}
             /\ C[N[i].right] = {m \in C[i] : m[N[i].bit] = 1}
             /\ \A m, n \in C[i] : Agree(m, n, N[i].bit)
  BY <1>5, <1>7, BitRange DEF Tree, Parts
<1>8. \A i \in Used(N) : C[i] # {} /\ C[i] \subseteq P
  BY DEF Tree, Holds
\* The children of a branch that stays.
<1>9. ASSUME NEW i \in Used(M), M[i].kind = "branch"
      PROVE  /\ i \in Used(N) /\ N[i].kind = "branch" /\ M[i].bit = N[i].bit
             /\ M[i].left \in Used(M) /\ M[i].right \in Used(M)
             /\ D[M[i].left] = C[N[i].left] \ {k} /\ D[M[i].right] = C[N[i].right] \ {k}
  <2>1. i \in Used(N) /\ i # x /\ i # q /\ N[i].kind = "branch" /\ M[i].bit = N[i].bit
    BY <1>3, <1>9
  <2>2. N[i].left \in Used(N) /\ N[i].right \in Used(N)
    BY <1>7, <2>1
  <2>3. D[s] = C[q] \ {k} /\ s \in Used(M)
    BY <1>2, <1>3, <1>6
  <2>4. CASE i \notin A
    <3>1. k \notin C[i]
      BY <1>4, <2>1, <2>4
    <3>2. k \notin C[N[i].left] /\ k \notin C[N[i].right]
      BY <1>7, <2>1, <3>1
    <3>3. N[i].left \in Used(M) /\ N[i].right \in Used(M)
      BY <1>2, <1>3, <1>4, <2>2, <3>2
    <3>4. M[i] = N[i]
      BY <1>2, <1>3, <2>1, <2>4
    <3> QED BY <1>6, <2>1, <2>2, <3>3, <3>4
  <2>5. CASE i \in A
    <3> DEFINE c == Child(N[i], k)
               o == Sibling(N[i], k)
    <3>1. (c = N[i].left /\ o = N[i].right) \/ (c = N[i].right /\ o = N[i].left)
      BY DEF Child, Sibling
    <3>2. k \notin C[o]
      <4>1. CASE k[N[i].bit] = 1
        <5>1. o = N[i].left
          BY <4>1 DEF Sibling
        <5> QED BY <1>7, <2>1, <4>1, <5>1
      <4>2. CASE k[N[i].bit] # 1
        <5>1. o = N[i].right
          BY <4>2 DEF Sibling
        <5> QED BY <1>7, <2>1, <4>2, <5>1
      <4> QED BY <4>1, <4>2
    <3>3. c \in A \/ (i = g /\ c = q)
      BY <1>4, <2>5
    <3>g. R # q /\ (i = g => c = q)
      BY <1>4, <2>5
    <3> HIDE DEF c, o
    <3>4. o \in Used(M) /\ D[o] = C[o] \ {k} /\ o # q
      BY <1>2, <1>3, <1>4, <1>6, <2>2, <3>1, <3>2
    <3>5. CASE i # g
      <4>1. M[i] = N[i] /\ c \in A
        BY <1>3, <2>1, <3>3, <3>5
      <4>2. c \in Used(M) /\ D[c] = C[c] \ {k}
        BY <1>2, <1>3, <1>6, <4>1
      <4> QED BY <2>1, <3>1, <3>4, <4>1, <4>2
    <3>6. CASE i = g
      <4>1. c = q
        BY <3>g, <3>6
      <4>2. CASE N[i].left = q
        <5>1. M[i].left = s /\ M[i].right = N[i].right /\ N[i].right = o
          BY <1>3, <3>1, <3>4, <3>6, <3>g, <4>1, <4>2
        <5> QED BY <2>1, <2>3, <3>4, <4>2, <5>1
      <4>3. CASE N[i].left # q
        <5>1. M[i].left = N[i].left /\ M[i].right = s /\ N[i].left = o /\ N[i].right = q
          BY <1>3, <3>1, <3>6, <3>g, <4>1, <4>3
        <5> QED BY <2>1, <2>3, <3>4, <5>1
      <4> QED BY <4>2, <4>3
    <3> QED BY <3>5, <3>6
  <2> QED BY <2>4, <2>5
<1>10. Parts(M, D)
  <2> SUFFICES ASSUME NEW i \in DOMAIN M, M[i].kind = "branch"
               PROVE  /\ M[i].left \in Used(M) /\ M[i].right \in Used(M)
                      /\ D[M[i].left] = {m \in D[i] : m[M[i].bit] = 0}
                      /\ D[M[i].right] = {m \in D[i] : m[M[i].bit] = 1}
                      /\ \A m, n \in D[i] : Agree(m, n, M[i].bit)
    BY DEF Parts
  <2>1. i \in Used(M)
    BY DEF Used
  <2>2. /\ i \in Used(N) /\ N[i].kind = "branch" /\ M[i].bit = N[i].bit
        /\ M[i].left \in Used(M) /\ M[i].right \in Used(M)
        /\ D[M[i].left] = C[N[i].left] \ {k} /\ D[M[i].right] = C[N[i].right] \ {k}
    BY <1>9, <2>1
  <2>3. D[i] = C[i] \ {k}
    BY <1>6, <2>2
  <2>4. /\ C[N[i].left] = {m \in C[i] : m[N[i].bit] = 0}
        /\ C[N[i].right] = {m \in C[i] : m[N[i].bit] = 1}
        /\ \A m, n \in C[i] : Agree(m, n, N[i].bit)
    BY <1>7, <2>2
  <2> DEFINE z == N[i].bit
             S == C[i]
  <2>5. {m \in S : m[z] = 0} \ {k} = {m \in S \ {k} : m[z] = 0} /\ {m \in S : m[z] = 1} \ {k} = {m \in S \ {k} : m[z] = 1}
    OBVIOUS
  <2> QED BY <2>2, <2>3, <2>4, <2>5
<1>11. \A i \in Used(M) : i \in Used(N) /\ i # x /\ i # q
  BY <1>3
<1>12. Holds(M, D, P \ {k})
  <2> SUFFICES ASSUME NEW i \in Used(M) PROVE D[i] # {} /\ D[i] \in SUBSET (P \ {k})
    BY DEF Holds
  <2>1. D[i] = C[i] \ {k} /\ C[i] # {} /\ C[i] \subseteq P
    BY <1>6, <1>8, <1>11
  <2>2. CASE i \notin A
    <3>1. k \notin C[i]
      BY <1>4, <1>11, <2>2
    <3> QED BY <2>1, <3>1
  <2>3. CASE i \in A
    <3>1. i \in Used(N) /\ N[i].kind = "branch"
      BY <1>2, <2>3
    <3>2. /\ N[i].left \in Used(N) /\ N[i].right \in Used(N)
          /\ C[N[i].left] = {m \in C[i] : m[N[i].bit] = 0}
          /\ C[N[i].right] = {m \in C[i] : m[N[i].bit] = 1}
      BY <1>7, <3>1
    <3>3. C[N[i].left] # {} /\ C[N[i].right] # {}
      BY <1>8, <3>2
    <3>4. \E m, n \in C[i] : m # n
      BY <3>2, <3>3
    <3> QED BY <2>1, <3>4
  <2> QED BY <2>2, <2>3
<1>13. Rooted(M, R3, D, P \ {k})
  <2>1. R \in Used(N) /\ C[R] = P
    BY <1>4 DEF Tree, Rooted
  <2>2. R3 \in Used(M) /\ D[R3] = P \ {k}
    BY <1>2, <1>3, <1>4, <1>6, <2>1
  <2>3. P \ {k} # {}
    BY <1>12, <2>2 DEF Holds
  <2> QED BY <2>2, <2>3 DEF Rooted
<1>14. Parented(M, R3)
  <2> SUFFICES ASSUME NEW i \in Used(M), i # R3
               PROVE  \E p \in DOMAIN M : M[p].kind = "branch" /\ (i = M[p].left \/ i = M[p].right)
    BY DEF Parented
  <2>0. i \in Used(N) /\ i # x /\ i # q
    BY <1>11
  <2>1. CASE i = s
    <3>1. R # q
      BY <2>1
    <3>2. g \in DOMAIN M /\ M[g].kind = "branch"
      BY <1>2, <1>3, <1>5, <3>1
    <3> QED BY <1>3, <2>1, <3>1, <3>2
  <2>2. CASE i # s
    <3>1. i # R
      BY <2>0
    <3>2. PICK p \in DOMAIN N : N[p].kind = "branch" /\ (i = N[p].left \/ i = N[p].right)
      BY <2>0, <3>1 DEF Tree, Parented
    <3>3. p \in Used(N) /\ p # x /\ p # q
      BY <1>2, <1>4, <2>0, <2>2, <3>2 DEF Used
    <3>4. M[p].kind = "branch" /\ p \in DOMAIN M
      BY <1>3, <1>5, <3>2, <3>3
    <3>5. CASE R = q \/ p # g
      BY <1>3, <3>2, <3>3, <3>4, <3>5
    <3>6. CASE R # q /\ p = g
      <4>1. N[g].left = q \/ N[g].right = q
        BY <1>4, <3>6 DEF Child
      <4> QED BY <1>3, <2>0, <3>2, <3>4, <3>6, <4>1
    <3> QED BY <3>5, <3>6
  <2> QED BY <2>1, <2>2
<1>15. Upward(M, A)
  <2> SUFFICES ASSUME NEW i \in DOMAIN M, M[i].kind = "branch", NEW c \in A, c = M[i].left \/ c = M[i].right
               PROVE  i \in A
    BY DEF Upward
  <2>1. i \in Used(M) /\ i \in Used(N) /\ i # x /\ i # q /\ c # s
    BY <1>2, <1>3 DEF Used
  <2>2. N[i].kind = "branch" /\ i \in DOMAIN N
    BY <1>3, <1>5, <2>1
  <2>3. CASE R = q \/ i # g
    <3>1. M[i] = N[i]
      BY <1>3, <2>1, <2>3
    <3> QED BY <1>2, <2>2, <3>1 DEF Upward
  <2>4. CASE R # q /\ i = g
    BY <1>2, <2>4
  <2> QED BY <2>3, <2>4
<1> QED BY <1>3, <1>10, <1>12, <1>13, <1>14, <1>15 DEF Tree, A, D

LEMMA PruneLeaves ==
  ASSUME NEW N, NEW R, NEW C, NEW P, P \subseteq TrieKeys, Tree(N, R, C, P), NEW k, NEW x, NEW q, NEW g, NEW s,
         Bough(N, R, C, P, k, x, q, g, s), NEW M, Pruned(N, M, R, x, q, g, s),
         NEW e, Leaves(N, C, e), Entries(e), k \in TrieKeys
  PROVE  Leaves(M, PruneKeys(N, C, k), Enter(e, k, <<>>))
<1> DEFINE A == Above(N, C, k, q)
           D == PruneKeys(N, C, k)
           e1 == Enter(e, k, <<>>)
<1>1. BoughFacts(N, R, C, P, k, x, q, g, s) /\ PruneFields(N, M, R, x, q, g, s)
  BY BoughHas, PruneHas
<1>2. /\ \A i \in A : N[i].kind = "branch"
      /\ R # q => g \in A
  BY <1>1 DEF BoughFacts
<1>3. /\ Used(M) = Used(N) \ {x, q}
      /\ \A i \in Used(N) : i # x /\ i # q =>
           /\ M[i].kind = N[i].kind
           /\ R = q \/ i # g => M[i] = N[i]
  BY <1>1 DEF PruneFields
<1>4. \A i \in Used(N) : k \in C[i] => i \in A \/ i = q \/ i = x
  BY DEF Bough
<1>5. \A m \in TrieKeys : m # k => e1[m] = e[m]
  BY EntriesPut
<1> HIDE DEF e1, A
<1> SUFFICES ASSUME NEW i \in DOMAIN M, M[i].kind = "leaf"
             PROVE  /\ M[i].key \in TrieKeys /\ e1[M[i].key] # <<>> /\ D[i] = {M[i].key}
                    /\ M[i].digest = leaf_digest(M[i].key, e1[M[i].key][1])
  BY DEF Leaves, e1
<1>6. i \in Used(N) /\ i # x /\ i # q /\ i \in DOMAIN N
  BY <1>3 DEF Used
<1>7. N[i].kind = "leaf" /\ i \notin A
  BY <1>2, <1>3, <1>6
<1>8. M[i] = N[i]
  BY <1>2, <1>3, <1>6, <1>7
<1>9. k \notin C[i]
  BY <1>4, <1>6, <1>7
<1>10. /\ N[i].key \in TrieKeys /\ e[N[i].key] # <<>> /\ C[i] = {N[i].key}
       /\ N[i].digest = leaf_digest(N[i].key, e[N[i].key][1])
  BY <1>6, <1>7 DEF Leaves
<1>11. D[i] = {N[i].key} /\ N[i].key # k
  <2>1. D[i] = C[i] \ {k}
    BY <1>6 DEF PruneKeys
  <2> HIDE DEF D
  <2> QED BY <1>9, <1>10, <2>1
<1>12. e1[N[i].key] = e[N[i].key]
  BY <1>5, <1>10, <1>11
<1> HIDE DEF D
<1> QED BY <1>8, <1>10, <1>11, <1>12

LEMMA PruneClean ==
  ASSUME NEW N, NEW R, NEW C, NEW P, P \subseteq TrieKeys, Tree(N, R, C, P), NEW k, NEW x, NEW q, NEW g, NEW s,
         Bough(N, R, C, P, k, x, q, g, s), NEW M, Pruned(N, M, R, x, q, g, s), Clean(N)
  PROVE  CleanBut(M, Above(N, C, k, q))
<1> DEFINE A == Above(N, C, k, q)
<1>1. BoughFacts(N, R, C, P, k, x, q, g, s) /\ PruneFields(N, M, R, x, q, g, s)
  BY BoughHas, PruneHas
<1>2. /\ k \in C[q] /\ \A i \in A : k \in C[i]
      /\ R # q => g \in A
  BY <1>1 DEF BoughFacts
<1>3. /\ Used(M) = Used(N) \ {x, q}
      /\ \A i \in Used(N) : i # x /\ i # q =>
           /\ M[i].kind = N[i].kind
           /\ R = q \/ i # g => M[i] = N[i]
  BY <1>1 DEF PruneFields
<1>4. C[x] = {k} /\ \A i \in Used(N) : k \in C[i] => i \in A \/ i = q \/ i = x
  BY DEF Bough
<1> HIDE DEF A
<1> SUFFICES ASSUME NEW i \in DOMAIN M, i \notin A, M[i].kind = "branch", ~M[i].dirty
             PROVE  /\ M[i].digest = branch_digest(M[i].bit, M[M[i].left].digest, M[M[i].right].digest)
                    /\ M[M[i].left].kind = "branch" => ~M[M[i].left].dirty
                    /\ M[M[i].right].kind = "branch" => ~M[M[i].right].dirty
  BY DEF CleanBut, A
<1>5. i \in Used(N) /\ i # x /\ i # q /\ i \in DOMAIN N
  BY <1>3 DEF Used
<1>6. M[i] = N[i]
  BY <1>2, <1>3, <1>5
<1>7. k \notin C[i]
  BY <1>4, <1>5
<1>8. ASSUME NEW c, c = N[i].left \/ c = N[i].right PROVE M[c] = N[c]
  <2>1. c \in Used(N) /\ C[c] \subseteq C[i]
    BY <1>5, <1>6, <1>8, ChildBelow DEF Tree
  <2>2. c \notin A /\ c # x /\ c # q
    BY <1>2, <1>4, <1>7, <2>1
  <2> QED BY <1>2, <1>3, <2>1, <2>2
<1>9. M[N[i].left] = N[N[i].left] /\ M[N[i].right] = N[N[i].right]
  BY <1>8
<1>10. /\ N[i].digest = branch_digest(N[i].bit, N[N[i].left].digest, N[N[i].right].digest)
       /\ N[N[i].left].kind = "branch" => ~N[N[i].left].dirty
       /\ N[N[i].right].kind = "branch" => ~N[N[i].right].dirty
  BY <1>5, <1>6 DEF Clean
<1> QED BY <1>6, <1>9, <1>10

\* What is kept of the path: the branches above q, of which g is the last.
RestAt(t, rest, q, g) ==
  /\ rest \in Seq(Used(t.nodes)) /\ (Len(rest) = 0 <=> t.root = q)
  /\ Len(rest) # 0 => rest[Len(rest)] = g

BoughOf(t, C, P, k, w, x) ==
  LET n == Len(w)
      q == w[n - 1]
      g == w[n - 2]
      rest == Front(Front(w))
  IN /\ Bough(t.nodes, t.root, C, P, k, x, q, g, Sibling(t.nodes[q], k))
     /\ RestAt(t, rest, q, g) /\ ToSet(rest) = Above(t.nodes, C, k, q)
     /\ Last(Front(w)) = q /\ Front(w) # <<>>

LEMMA BoughFound ==
  ASSUME NEW t, NEW C, NEW P, P \subseteq TrieKeys, Tree(t.nodes, t.root, C, P), NEW k \in TrieKeys,
         NEW w, NEW x, Reach(t, C, P, k, w, x, k), Len(w) # 1
  PROVE  BoughOf(t, C, P, k, w, x)
<1> DEFINE N == t.nodes
           n == Len(w)
           q == w[n - 1]
           g == w[n - 2]
           path == Front(w)
           rest == Front(path)
           A == Above(N, C, k, q)
<1>1. /\ w \in Seq(Used(N)) /\ n \in Nat \ {0} /\ w[1] = t.root
      /\ x = w[n] /\ x \in Used(N) /\ N[x].kind = "leaf" /\ k \in P /\ C[x] = {k}
      /\ \A m \in 1..n : k \in C[w[m]]
      /\ \A i \in Used(N) : k \in C[i] => \E m \in 1..n : w[m] = i
      /\ \A a, b \in 1..n : a < b => BitOf(N[w[a]]) < BitOf(N[w[b]])
      /\ \A m \in 1..(n - 1) : N[w[m]].kind = "branch" /\ w[m + 1] = Child(N[w[m]], k)
  BY DEF Reach
<1>a. n \in Nat /\ n # 0 /\ n # 1 /\ \A m \in 1..n : w[m] \in Used(N)
  BY <1>1
<1>2. n - 1 \in 1..n /\ n - 1 \in 1..(n - 1) /\ n - 1 \in Nat \ {0} /\ (n - 1) + 1 = n
  <2> HIDE DEF n
  <2> QED BY <1>a
<1>3. path \in Seq(Used(N)) /\ Len(path) = n - 1 /\ (\A m \in 1..(n - 1) : path[m] = w[m])
  BY <1>1, FrontOf
<1> HIDE DEF path, n
<1>4. rest \in Seq(Used(N)) /\ Len(rest) = n - 2 /\ (\A m \in 1..(n - 2) : rest[m] = w[m]) /\ Last(path) = q
  <2>1. Len(path) # 0
    BY <1>2, <1>3
  <2>2. /\ rest \in Seq(Used(N)) /\ Len(rest) = Len(path) - 1 /\ (\A m \in 1..(Len(path) - 1) : rest[m] = path[m])
        /\ Last(path) = path[Len(path)]
    BY <1>3, <2>1, FrontOf
  <2> HIDE DEF rest
  <2>3. \A m \in 1..(n - 2) : m \in 1..(Len(path) - 1) /\ m \in 1..(n - 1)
    BY <1>2, <1>3
  <2>4. Len(rest) = n - 2
    BY <1>2, <1>3, <2>2
  <2>5. \A m \in 1..(n - 2) : rest[m] = w[m]
    BY <1>3, <2>2, <2>3
  <2>6. Last(path) = q
    BY <1>2, <1>3, <2>2
  <2> QED BY <2>2, <2>4, <2>5, <2>6
<1> HIDE DEF rest
<1>5. ToSet(rest) = A
  <2> DEFINE m == n - 2
  <2>1. m \in 0..(n - 1) /\ m + 1 = n - 1 /\ Len(rest) = m
    BY <1>2, <1>4
  <2>2. \A y \in 1..m : rest[y] = w[y]
    BY <1>4
  <2> HIDE DEF m
  <2>3. ToSet(rest) = Above(N, C, k, w[m + 1])
    BY <1>4, <2>1, <2>2, PrefixAbove DEF n
  <2> QED BY <2>1, <2>3
<1>6. A = {w[m] : m \in 1..(n - 2)}
  <2>1. ToSet(rest) = {rest[m] : m \in 1..(n - 2)}
    BY <1>4 DEF ToSet
  <2>2. {rest[m] : m \in 1..(n - 2)} = {w[m] : m \in 1..(n - 2)}
    BY <1>4
  <2> HIDE DEF A
  <2> QED BY <1>5, <2>1, <2>2, Zenon
<1>7. q \in Used(N) /\ q \in DOMAIN N /\ N[q].kind = "branch" /\ Child(N[q], k) = x
  <2>1. q \in Used(N)
    BY <1>a, <1>2
  <2>2. N[w[n - 1]].kind = "branch" /\ w[(n - 1) + 1] = Child(N[w[n - 1]], k)
    BY <1>1, <1>2
  <2> QED BY <1>1, <1>2, <2>1, <2>2 DEF Used
<1> HIDE DEF A
<1>8. ASSUME NEW i \in Used(N), k \in C[i] PROVE i \in A \/ i = q \/ i = x
  <2>1. PICK m \in 1..n : w[m] = i
    BY <1>1, <1>8
  <2>2. m \in 1..(n - 2) \/ m = n - 1 \/ m = n
    BY <1>2
  <2>3. m \in 1..(n - 2) => i \in A
    BY <1>6, <2>1
  <2> QED BY <1>1, <2>1, <2>2, <2>3
<1>9. ASSUME NEW i \in A PROVE Child(N[i], k) \in A \/ (i = g /\ Child(N[i], k) = q)
  <2>1. PICK m \in 1..(n - 2) : i = w[m]
    BY <1>6
  <2>2. m \in 1..(n - 1) /\ (m = n - 2 \/ m + 1 \in 1..(n - 2)) /\ (m = n - 2 => m + 1 = n - 1)
    BY <1>2
  <2>3. Child(N[i], k) = w[m + 1]
    BY <1>1, <2>1, <2>2
  <2>4. m + 1 \in 1..(n - 2) => w[m + 1] \in A
    BY <1>6
  <2> QED BY <2>1, <2>2, <2>3, <2>4
<1>10. CASE n = 2
  <2>1. t.root = q /\ A = {} /\ Len(rest) = 0
    BY <1>1, <1>4, <1>6, <1>10
  <2>2. Bough(N, t.root, C, P, k, x, q, g, Sibling(N[q], k))
    BY <1>1, <1>7, <1>8, <1>9, <2>1 DEF Bough, A
  <2>3. RestAt(t, rest, q, g)
    BY <1>4, <2>1 DEF RestAt
  <2>4. path # <<>>
    BY <1>2, <1>3
  <2> QED BY <1>4, <1>5, <2>2, <2>3, <2>4 DEF BoughOf, path, rest, n, A
<1>11. CASE n # 2
  <2>1. n - 2 \in 1..(n - 2) /\ 1 \in 1..(n - 2) /\ n - 2 # 0 /\ n - 2 \in 1..(n - 1) /\ (n - 2) + 1 = n - 1
        /\ 1 \in 1..n /\ 1 < n - 1
    BY <1>2, <1>11
  <2>2. t.root \in A /\ g \in A
    BY <1>1, <1>6, <2>1
  <2>3. Child(N[g], k) = q
    BY <1>1, <2>1
  <2>4. t.root # q
    <3>1. BitOf(N[w[1]]) < BitOf(N[w[n - 1]])
      BY <1>1, <1>2, <2>1
    <3>2. BitOf(N[q]) \in 1..(Width + 1)
      BY <1>7, BitRange DEF Tree
    <3> QED BY <1>1, <3>1, <3>2, TrieAssumption
  <2>5. Bough(N, t.root, C, P, k, x, q, g, Sibling(N[q], k))
    <3> HIDE DEF g, q
    <3> QED BY <1>1, <1>7, <1>8, <1>9, <2>2, <2>3, <2>4 DEF Bough, A
  <2>6. RestAt(t, rest, q, g)
    BY <1>4, <2>1, <2>4 DEF RestAt
  <2>7. path # <<>>
    BY <1>2, <1>3
  <2> QED BY <1>4, <1>5, <2>5, <2>6, <2>7 DEF BoughOf, path, rest, n, A
<1> QED BY <1>10, <1>11

\* The nodes are given back and the sibling takes their place.
PruneStep(t, x, q, rest, g, s) ==
  LET t1 == [release(t, x) EXCEPT !.len = @ - 1]
      t2 == release(t1, q)
      t3 == replace_child(t2, rest, q, s)
  IN /\ Pruned(t.nodes, t3.nodes, t.root, x, q, g, s)
     /\ Arena(t3) /\ t3.len = t.len - 1 /\ t3.root = IF t.root = q THEN s ELSE t.root

LEMMA PruneDone ==
  ASSUME NEW t, Arena(t), NEW C, NEW P, P \subseteq TrieKeys, Tree(t.nodes, t.root, C, P), NEW k, NEW x, NEW q, NEW g,
         NEW s, Bough(t.nodes, t.root, C, P, k, x, q, g, s), NEW rest, RestAt(t, rest, q, g)
  PROVE  PruneStep(t, x, q, rest, g, s)
<1> DEFINE N == t.nodes
           t0 == release(t, x)
           t1 == [t0 EXCEPT !.len = @ - 1]
           t2 == release(t1, q)
           t3 == replace_child(t2, rest, q, s)
           M == t2.nodes
<1>0. BoughFacts(N, t.root, C, P, k, x, q, g, s)
  BY BoughHas
<1>1. /\ x \in DOMAIN N /\ q \in DOMAIN N /\ x # q /\ N[x].kind = "leaf" /\ N[q].kind = "branch"
      /\ t.root # q => g \in DOMAIN N /\ IsBranchNode(N[g]) /\ g # x /\ g # q
  BY <1>0 DEF BoughFacts, Bough, Used
<1>2. N[x] # Freed /\ N[q] # Freed
  BY <1>1, NodeKinds DEF Tree
<1>3. Arena(t0) /\ t0.nodes = [N EXCEPT ![x] = Freed] /\ t0.root = t.root /\ t0.len = t.len
  BY <1>1, <1>2, FreeKeeps
<1> HIDE DEF t0
<1>4. Arena(t1) /\ t1.nodes = t0.nodes /\ t1.root = t.root /\ t1.len = t.len - 1
  BY <1>3, LenSet
<1> HIDE DEF t1
<1>5. q \in DOMAIN t1.nodes /\ t1.nodes[q] # Freed
  BY <1>1, <1>2, <1>3, <1>4
<1>6. Arena(t2) /\ M = [t1.nodes EXCEPT ![q] = Freed] /\ t2.root = t.root /\ t2.len = t.len - 1
  BY <1>4, <1>5, FreeKeeps
<1> HIDE DEF t2
<1>7. /\ DOMAIN M = DOMAIN N /\ M[x] = Freed /\ M[q] = Freed
      /\ \A i \in DOMAIN N : i # x /\ i # q => M[i] = N[i]
  BY <1>1, <1>3, <1>4, <1>6
<1>8. CASE t.root = q
  <2>1. rest = <<>>
    BY <1>8 DEF RestAt
  <2> HIDE DEF t3
  <2>2. t3 = replace_child(t2, <<>>, q, s)
    BY <2>1 DEF t3
  <2>3. Arena(t3) /\ t3.root = s /\ t3.len = t2.len /\ t3.nodes = M
    BY <1>6, <2>2, ReplaceRoot
  <2>4. Pruned(N, M, t.root, x, q, g, s)
    BY <1>7, <1>8 DEF Pruned
  <2> QED BY <1>6, <1>8, <2>3, <2>4 DEF PruneStep, t0, t1, t2, t3
<1>9. CASE t.root # q
  <2>1. rest \in Seq(Used(N)) /\ Len(rest) # 0 /\ g = rest[Len(rest)]
    BY <1>9 DEF RestAt
  <2>2. M[g] = N[g] /\ g \in DOMAIN M /\ IsBranchNode(M[g])
    BY <1>1, <1>7, <1>9
  <2> HIDE DEF t3
  <2>3. /\ Arena(t3) /\ t3.root = t2.root /\ t3.len = t2.len /\ DOMAIN t3.nodes = DOMAIN M
        /\ \A i \in DOMAIN M : i # g => t3.nodes[i] = M[i]
        /\ t3.nodes[g] = IF M[g].left = q
                         THEN BranchOf(M[g].bit, s, M[g].right, M[g].digest, M[g].dirty)
                         ELSE BranchOf(M[g].bit, M[g].left, s, M[g].digest, M[g].dirty)
    BY <1>6, <2>1, <2>2, ReplaceBelow DEF t3
  <2>4. Pruned(N, t3.nodes, t.root, x, q, g, s)
    <3> DEFINE L == t3.nodes
               y == N[g].dirty
    <3>1. DOMAIN L = DOMAIN N /\ L[x] = Freed /\ L[q] = Freed
      BY <1>1, <1>7, <1>9, <2>3
    <3>2. \A i \in DOMAIN N : i # x /\ i # q /\ i # g => L[i] = N[i]
      BY <1>7, <2>3
    <3>3. L[g] = IF N[g].left = q
                 THEN BranchOf(N[g].bit, s, N[g].right, N[g].digest, y)
                 ELSE BranchOf(N[g].bit, N[g].left, s, N[g].digest, y)
      BY <2>2, <2>3
    <3> HIDE DEF L
    <3> QED BY <1>9, <3>1, <3>2, <3>3 DEF Pruned, L
  <2> QED BY <1>6, <1>9, <2>3, <2>4 DEF PruneStep, t0, t1, t2, t3
<1> QED BY <1>8, <1>9

\* Trie::remove of a key below a branch.
LEMMA RemovePrunes ==
  ASSUME NEW t, NEW C, NEW e, TrieOk(t, C, e), Entries(e), NEW k \in TrieKeys, NEW x, NEW q, NEW g, NEW s,
         Bough(t.nodes, t.root, C, PresentIn(e), k, x, q, g, s), NEW rest, RestAt(t, rest, q, g),
         ToSet(rest) = Above(t.nodes, C, k, q)
  PROVE  LET t1 == [release(t, x) EXCEPT !.len = @ - 1]
             t2 == release(t1, q)
         IN TrieOk(mark(replace_child(t2, rest, q, s), rest), PruneKeys(t.nodes, C, k), Enter(e, k, <<>>))
<1> DEFINE P  == PresentIn(e)
           e1 == Enter(e, k, <<>>)
           N  == t.nodes
           A  == Above(N, C, k, q)
           t1 == [release(t, x) EXCEPT !.len = @ - 1]
           t2 == release(t1, q)
           t3 == replace_child(t2, rest, q, s)
           M  == t3.nodes
           D  == PruneKeys(N, C, k)
           u  == mark(t3, rest)
<1>2. /\ Arena(t) /\ Tree(N, t.root, C, P) /\ Leaves(N, C, e) /\ Clean(N)
      /\ IsFiniteSet(P) /\ t.len = Cardinality(P) /\ P \subseteq TrieKeys
      /\ Bough(N, t.root, C, P, k, x, q, g, s) /\ ToSet(rest) = A
  BY DEF TrieOk, PresentIn
<1> HIDE DEF P
<1>3. /\ Pruned(N, M, t.root, x, q, g, s)
      /\ Arena(t3) /\ t3.len = t.len - 1 /\ t3.root = IF t.root = q THEN s ELSE t.root
  <2>1. PruneStep(t, x, q, rest, g, s)
    BY <1>2, PruneDone
  <2> QED BY <2>1 DEF PruneStep
<1> HIDE DEF u, D, t3, t2, t1, A
<1>4. Tree(M, t3.root, D, P \ {k}) /\ Upward(M, A)
  <2>1. /\ Tree(M, IF t.root = q THEN s ELSE t.root, D, P \ {k}) /\ Upward(M, A)
    BY <1>2, <1>3, PruneTree, Zenon DEF D, A
  <2> QED BY <1>3, <2>1
<1>5. CleanBut(M, A)
  BY <1>2, <1>3, PruneClean DEF A
<1>6. Leaves(M, D, e1)
  BY <1>2, <1>3, PruneLeaves DEF D
<1>7. PresentIn(e1) = P \ {k} /\ k \in P
  <2>1. k \in P
    BY <1>2 DEF Bough
  <2> QED BY <2>1, EntriesPut DEF P
<1>8. \A i \in A : i \in DOMAIN M /\ M[i].kind = "branch"
  <2>1. BoughFacts(N, t.root, C, P, k, x, q, g, s) /\ PruneFields(N, M, t.root, x, q, g, s)
    BY <1>2, <1>3, BoughHas, PruneHas
  <2>2. DOMAIN M = DOMAIN N
    BY <1>3 DEF Pruned
  <2> QED BY <2>1, <2>2 DEF BoughFacts, PruneFields, A
<1>9. /\ Arena(u) /\ u.root = t3.root /\ u.len = t3.len /\ Clean(u.nodes)
      /\ Tree(u.nodes, t3.root, D, P \ {k}) /\ DOMAIN u.nodes = DOMAIN M
      /\ \A i \in DOMAIN M : Like(M[i], u.nodes[i]) /\ u.nodes[i].digest = M[i].digest
  <2> DEFINE P1 == P \ {k}
  <2>1. Tree(M, t3.root, D, P1)
    BY <1>4
  <2> HIDE DEF P1
  <2>2. MarkAt(M, rest)
    BY <1>2, <1>4, <1>5, <1>8 DEF MarkAt
  <2>3. Marked(t3, u, t3.root, D, P1)
    BY <1>3, <2>1, <2>2, MarkCleans DEF u
  <2> QED BY <2>3 DEF Marked, P1
<1>10. Leaves(u.nodes, D, e1)
  <2> HIDE DEF e1
  <2> QED BY <1>6, <1>9 DEF Leaves, Like
<1>11. IsFiniteSet(P \ {k}) /\ Cardinality(P \ {k}) = t.len - 1
  BY <1>2, <1>7, FS_RemoveElement
<1>12. TrieOk(u, D, e1)
  <2> HIDE DEF e1
  <2> QED BY <1>3, <1>7, <1>9, <1>10, <1>11 DEF TrieOk
<1> QED BY <1>12 DEF u, t3, t2, t1, D

\* Trie::remove of the last key.
LEMMA RemoveLast ==
  ASSUME NEW t, NEW C, NEW e, TrieOk(t, C, e), Entries(e), NEW k \in TrieKeys, NEW w, NEW x,
         Reach(t, C, PresentIn(e), k, w, x, k), Len(w) = 1
  PROVE  TrieOk([[release(t, x) EXCEPT !.len = @ - 1] EXCEPT !.root = 0], C, Enter(e, k, <<>>))
<1> DEFINE P  == PresentIn(e)
           e1 == Enter(e, k, <<>>)
           N  == t.nodes
           t0 == release(t, x)
           t1 == [t0 EXCEPT !.len = @ - 1]
           u  == [t1 EXCEPT !.root = 0]
           M  == t0.nodes
<1>1. /\ Arena(t) /\ Tree(N, t.root, C, P)
      /\ IsFiniteSet(P) /\ t.len = Cardinality(P) /\ P \subseteq TrieKeys
  BY DEF TrieOk, PresentIn
<1>2. /\ x = w[1] /\ w[1] = t.root /\ x \in Used(N) /\ N[x].kind = "leaf" /\ k \in P /\ C[x] = {k}
      /\ \A i \in Used(N) : k \in C[i] => i = x
  BY DEF Reach
<1>3. P = {k}
  <2> HIDE DEF P
  <2> QED BY <1>1, <1>2 DEF Tree, Rooted
<1> HIDE DEF P
<1>4. \A i \in Used(N) : i = x
  BY <1>1, <1>2, <1>3 DEF Tree, Holds
<1>5. x \in DOMAIN N /\ N[x] # Freed
  BY <1>1, <1>2, NodeKinds DEF Tree, Used
<1>6. Arena(t0) /\ M = [N EXCEPT ![x] = Freed] /\ t0.root = t.root /\ t0.len = t.len
  BY <1>1, <1>5, FreeKeeps
<1> HIDE DEF t0
<1>7. Arena(t1) /\ t1.nodes = M /\ t1.len = t.len - 1
  BY <1>6, LenSet
<1> HIDE DEF t1
<1>8. Arena(u) /\ u.nodes = M /\ u.root = 0 /\ u.len = t.len - 1
  <2> HIDE DEF u
  <2>1. u = TrieOf(t1.nodes, t1.free, 0, t1.len)
    <3>1. IsTrie(t1)
      BY <1>7 DEF Arena
    <3> QED BY <3>1, TrieExcept DEF u
  <2>2. u.nodes = t1.nodes /\ u.free = t1.free /\ u.root = 0 /\ u.len = t1.len /\ IsTrie(u)
    BY <2>1, TrieFields
  <2> QED BY <1>7, <2>2 DEF Arena
<1> HIDE DEF u
<1>9. \A i \in DOMAIN M : M[i] = Freed /\ M[i].kind = "freed"
  <2>1. \A i \in DOMAIN N : i # x => N[i].kind = "freed"
    BY <1>4 DEF Used
  <2>2. \A i \in DOMAIN N : i # x => N[i] = Freed
    BY <1>1, <2>1, NodeKinds DEF Tree
  <2>3. Freed.kind = "freed"
    BY DEF Freed
  <2> QED BY <1>5, <1>6, <2>2, <2>3
<1>10. Used(M) = {}
  BY <1>9 DEF Used
<1>11. PresentIn(e1) = {}
  <2>1. PresentIn(e1) = P \ {k}
    BY EntriesPut DEF P
  <2> HIDE DEF e1
  <2> QED BY <1>3, <2>1
<1>12. Tree(M, 0, C, {})
  <2>1. Nodes(M) /\ Parts(M, C) /\ Holds(M, C, {})
    BY <1>9, <1>10 DEF Nodes, Parts, Holds
  <2>2. Rooted(M, 0, C, {}) /\ Parented(M, 0)
    BY <1>10 DEF Rooted, Parented
  <2> QED BY <2>1, <2>2 DEF Tree
<1>13. Leaves(M, C, e1) /\ Clean(M)
  BY <1>9 DEF Leaves, Clean
<1>14. u.len = 0
  <2>1. Cardinality({k}) = 1
    BY FS_Singleton
  <2> QED BY <1>1, <1>3, <1>8, <2>1
<1>15. IsFiniteSet({}) /\ Cardinality({}) = 0
  BY FS_EmptySet
<1>16. TrieOk(u, C, e1)
  <2> HIDE DEF e1
  <2> QED BY <1>8, <1>11, <1>12, <1>13, <1>14, <1>15 DEF TrieOk
<1> QED BY <1>16, Zenon DEF u, t1, t0

\* Trie::remove keeps the trie that of the entries.
LEMMA RemoveKeeps ==
  ASSUME NEW t, NEW C, NEW e, TrieOk(t, C, e), Entries(e), NEW k \in TrieKeys
  PROVE  \E D : TrieOk(remove(t, k), D, Enter(e, k, <<>>))
<1> DEFINE P == PresentIn(e)
           e1 == Enter(e, k, <<>>)
           N == t.nodes
<1>1. Arena(t) /\ Tree(N, t.root, C, P) /\ Leaves(N, C, e) /\ P \subseteq TrieKeys
  BY DEF TrieOk, PresentIn
<1>2. k \notin P => e1 = e
  <2>1. e[k] = <<>> => e1 = e
    BY DEF Enter, Entries
  <2> QED BY <2>1 DEF PresentIn
<1> HIDE DEF e1
<1>3. CASE t.root = 0
  <2>1. P = {}
    BY <1>1, <1>3, RootZero
  <2>2. remove(t, k) = t
    BY <1>3 DEF remove
  <2>3. e1 = e
    BY <1>2, <2>1
  <2> QED BY <2>2, <2>3 DEF e1
<1>4. CASE t.root # 0
  <2>1. P # {}
    BY <1>1, <1>4, RootZero
  <2>2. PICK w, x, l : w = descend(t, k) /\ Reach(t, C, P, k, w, x, l)
    <3> HIDE DEF P
    <3> QED BY <1>1, <2>1, Reaches
  <2> HIDE DEF P
  <2>3. /\ w \in Seq(Used(N)) /\ Len(w) \in Nat \ {0} /\ x = w[Len(w)] /\ l = N[x].key /\ (k \in P => l = k)
    BY <2>2 DEF Reach
  <2>4. Last(w) = x /\ w # <<>> /\ Front(w) \in Seq(Used(N)) /\ Len(Front(w)) = Len(w) - 1
    BY <2>3, FrontOf
  <2> DEFINE path == Front(w)
             rest == Front(path)
             t1 == [release(t, x) EXCEPT !.len = @ - 1]
             q == Last(path)
             s == Sibling(N[q], k)
  <2>5. remove(t, k) =
          IF l # k THEN t
          ELSE IF path = <<>> THEN [t1 EXCEPT !.root = 0]
          ELSE mark(replace_child(release(t1, q), rest, q, s), rest)
    <3>1. remove(t, k) =
            IF w = <<>> \/ N[Last(w)].key # k THEN t
            ELSE IF path = <<>> THEN [[release(t, Last(w)) EXCEPT !.len = @ - 1] EXCEPT !.root = 0]
            ELSE mark(replace_child(release([release(t, Last(w)) EXCEPT !.len = @ - 1], q), rest, q, s), rest)
      BY <1>4, <2>2, Zenon DEF remove
    <3> QED BY <2>3, <2>4, <3>1, Zenon
  <2> HIDE DEF path, rest, t1, q, s
  <2>6. CASE l # k
    <3>1. remove(t, k) = t /\ e1 = e
      BY <1>2, <2>3, <2>5, <2>6, Zenon DEF P
    <3> QED BY <3>1 DEF e1
  <2>7. CASE l = k
    <3>1. Reach(t, C, P, k, w, x, k)
      BY <2>2, <2>7
    <3>2. CASE Len(w) = 1
      <4>1. path = <<>>
        BY <2>4, <3>2 DEF path
      <4>2. TrieOk([t1 EXCEPT !.root = 0], C, e1)
        BY <3>1, <3>2, RemoveLast DEF t1, P, e1
      <4>3. remove(t, k) = [t1 EXCEPT !.root = 0]
        BY <2>5, <2>7, <4>1, Zenon
      <4> QED BY <4>2, <4>3, Zenon DEF e1
    <3>3. CASE Len(w) # 1
      <4>1. BoughOf(t, C, P, k, w, x)
        BY <1>1, <3>1, <3>3, BoughFound
      <4> DEFINE g == w[Len(w) - 2]
      <4>2. /\ Bough(N, t.root, C, P, k, x, q, g, s) /\ RestAt(t, rest, q, g) /\ path # <<>>
            /\ ToSet(rest) = Above(N, C, k, q)
        BY <4>1, Zenon DEF BoughOf, path, rest, q, s
      <4> HIDE DEF g
      <4>3. TrieOk(mark(replace_child(release(t1, q), rest, q, s), rest), PruneKeys(N, C, k), e1)
        BY <4>2, RemovePrunes DEF t1, P, e1
      <4>4. remove(t, k) = mark(replace_child(release(t1, q), rest, q, s), rest)
        BY <2>5, <2>7, <4>2, Zenon
      <4> QED BY <4>3, <4>4, Zenon DEF e1
    <3> QED BY <3>2, <3>3
  <2> QED BY <2>6, <2>7
<1> QED BY <1>3, <1>4

-----------------------------------------------------------------------------
(* Trie::hash *)

\* One call of Trie::hash, h being what the calls for the children return.
HashAt(t, h, i) ==
  IF IsBranch(t, i) /\ t.nodes[i].dirty
  THEN [digest |-> branch_digest(t.nodes[i].bit, h[t.nodes[i].left].digest, h[t.nodes[i].right].digest),
        stale  |-> {i} \cup h[t.nodes[i].left].stale \cup h[t.nodes[i].right].stale]
  ELSE [digest |-> t.nodes[i].digest, stale |-> {}]

IsHash(h, t) == h = [i \in DOMAIN t.nodes |-> HashAt(t, h, i)]

\* The recursion of Trie::hash ends.
LEMMA HashExists ==
  ASSUME NEW t, NEW R, NEW C, NEW P, P \subseteq TrieKeys, Tree(t.nodes, R, C, P)
  PROVE  IsHash(hash(t), t)
<1> DEFINE N == t.nodes
           Upto(m, g) == \A i \in DOMAIN N : Width + 1 - BitOf(N[i]) <= m => g[i] = HashAt(t, g, i)
           T == {m \in Nat : \E g : Upto(m, g)}
<1> Width \in Nat
  BY TrieAssumption
<1>1. \A i \in DOMAIN N : BitOf(N[i]) \in 1..(Width + 1)
  BY BitRange DEF Tree
<1>2. \A i \in DOMAIN N : N[i].kind = "branch" =>
        /\ N[i].left \in DOMAIN N /\ N[i].right \in DOMAIN N
        /\ BitOf(N[i]) < BitOf(N[N[i].left]) /\ BitOf(N[i]) < BitOf(N[N[i].right])
  <2> SUFFICES ASSUME NEW i \in DOMAIN N, N[i].kind = "branch"
               PROVE  \A c : c = N[i].left \/ c = N[i].right => c \in DOMAIN N /\ BitOf(N[i]) < BitOf(N[c])
    OBVIOUS
  <2> SUFFICES ASSUME NEW c, c = N[i].left \/ c = N[i].right PROVE c \in DOMAIN N /\ BitOf(N[i]) < BitOf(N[c])
    OBVIOUS
  <2>1. c \in Used(N) /\ N[i].bit < BitOf(N[c])
    BY ChildBelow DEF Tree
  <2> QED BY <2>1 DEF Used, BitOf
<1>3. 0 \in T
  <2> DEFINE g == [i \in DOMAIN N |-> [digest |-> N[i].digest, stale |-> {}]]
  <2>1. ASSUME NEW i \in DOMAIN N, Width + 1 - BitOf(N[i]) <= 0 PROVE g[i] = HashAt(t, g, i)
    <3>1. BitOf(N[i]) = Width + 1
      BY <1>1, <2>1
    <3>2. N[i].kind # "branch"
      BY <3>1, BitRange DEF Tree
    <3> QED BY <3>2 DEF HashAt, IsBranch
  <2>2. Upto(0, g)
    <3> HIDE DEF g
    <3> QED BY <2>1
  <2> HIDE DEF Upto, g
  <2> QED BY <2>2
<1>4. ASSUME NEW m \in Nat, m \in T PROVE m + 1 \in T
  <2>1. PICK g : Upto(m, g)
    BY <1>4
  <2> DEFINE h == [i \in DOMAIN N |-> HashAt(t, g, i)]
  <2>2. ASSUME NEW i \in DOMAIN N, Width + 1 - BitOf(N[i]) <= m + 1 PROVE h[i] = HashAt(t, h, i)
    <3>1. CASE N[i].kind = "branch"
      <4> DEFINE a == N[i].left
                 b == N[i].right
      <4>1. /\ a \in DOMAIN N /\ Width + 1 - BitOf(N[a]) <= m
            /\ b \in DOMAIN N /\ Width + 1 - BitOf(N[b]) <= m
        <5> HIDE DEF a, b
        <5>1. a \in DOMAIN N /\ b \in DOMAIN N /\ BitOf(N[i]) < BitOf(N[a]) /\ BitOf(N[i]) < BitOf(N[b])
          BY <1>2, <3>1 DEF a, b
        <5>2. BitOf(N[i]) \in Int /\ BitOf(N[a]) \in Int /\ BitOf(N[b]) \in Int
          BY <1>1, <5>1
        <5> QED BY <2>2, <5>1, <5>2
      <4>2. h[a] = g[a] /\ h[b] = g[b]
        BY <2>1, <4>1
      <4>3. HashAt(t, h, i) = HashAt(t, g, i)
        <5> HIDE DEF h
        <5> QED BY <4>2, SMTT(30) DEF HashAt
      <4> QED BY <4>3
    <3>2. CASE N[i].kind # "branch"
      BY <3>2, ZenonT(30) DEF HashAt, IsBranch
    <3> QED BY <3>1, <3>2
  <2>3. Upto(m + 1, h)
    <3> HIDE DEF h
    <3> QED BY <2>2
  <2> HIDE DEF Upto, h
  <2> QED BY <2>3
<1>5. Width \in T
  <2> HIDE DEF T
  <2> QED BY <1>3, <1>4, Induction
<1>6. PICK g : Upto(Width, g)
  BY <1>5
<1>7. \A i \in DOMAIN N : g[i] = HashAt(t, g, i)
  BY <1>1, <1>6
<1> DEFINE h == [i \in DOMAIN N |-> g[i]]
<1>8. IsHash(h, t)
  <2>1. ASSUME NEW i \in DOMAIN N PROVE h[i] = HashAt(t, h, i)
    <3>1. N[i].kind = "branch" => h[N[i].left] = g[N[i].left] /\ h[N[i].right] = g[N[i].right]
      BY <1>2
    <3>2. HashAt(t, h, i) = HashAt(t, g, i)
      <4> HIDE DEF h
      <4> QED BY <3>1 DEF HashAt, IsBranch
    <3> QED BY <1>7, <3>2
  <2>2. h = [i \in DOMAIN N |-> h[i]]
    OBVIOUS
  <2> HIDE DEF h
  <2> QED BY <2>1, <2>2 DEF IsHash
<1> DEFINE c == CHOOSE f : IsHash(f, t)
<1>9. IsHash(c, t)
  <2> HIDE DEF h
  <2> QED BY <1>8, Zenon
<1>10. hash(t) = c
  BY Zenon DEF hash, IsHash, HashAt
<1> HIDE DEF c
<1> QED BY <1>9, <1>10

\* What Trie::hash returns for a node in use.
HashOf(t, H) ==
  \A i \in Used(t.nodes) :
    LET n == t.nodes[i]
    IN /\ n.kind = "leaf" => H[i].digest = n.digest /\ H[i].stale = {}
       /\ n.kind = "branch" => H[i].digest = branch_digest(n.bit, H[n.left].digest, H[n.right].digest)
       /\ n.kind = "branch" /\ ~n.dirty => H[i].digest = n.digest /\ H[i].stale = {}
       /\ n.kind = "branch" /\ n.dirty => H[i].stale = {i} \cup H[n.left].stale \cup H[n.right].stale

LEMMA Hashes ==
  ASSUME NEW t, NEW R, NEW C, NEW P, P \subseteq TrieKeys, Tree(t.nodes, R, C, P), Clean(t.nodes)
  PROVE  HashOf(t, hash(t))
<1> DEFINE N == t.nodes
           H == hash(t)
<1>1. \A i \in DOMAIN N : H[i] = HashAt(t, H, i)
  <2>1. IsHash(H, t)
    BY HashExists
  <2> HIDE DEF H
  <2> QED BY <2>1 DEF IsHash
<1> HIDE DEF H
<1>2. ASSUME NEW i \in DOMAIN N
      PROVE  /\ N[i].kind # "branch" \/ ~N[i].dirty => H[i].digest = N[i].digest /\ H[i].stale = {}
             /\ N[i].kind = "branch" /\ N[i].dirty =>
                  /\ H[i].digest = branch_digest(N[i].bit, H[N[i].left].digest, H[N[i].right].digest)
                  /\ H[i].stale = {i} \cup H[N[i].left].stale \cup H[N[i].right].stale
  <2> DEFINE d == branch_digest(N[i].bit, H[N[i].left].digest, H[N[i].right].digest)
             S == {i} \cup H[N[i].left].stale \cup H[N[i].right].stale
             o == N[i].digest
             y == N[i].kind = "branch" /\ N[i].dirty
  <2>1. H[i] = HashAt(t, H, i)
    BY <1>1
  <2>2. HashAt(t, H, i) = IF y THEN [digest |-> d, stale |-> S] ELSE [digest |-> o, stale |-> {}]
    BY DEF HashAt, IsBranch
  <2> HIDE DEF d, S, o, y
  <2>3. y => H[i].digest = d /\ H[i].stale = S
    BY <2>1, <2>2
  <2>4. ~y => H[i].digest = o /\ H[i].stale = {}
    BY <2>1, <2>2
  <2> QED BY <2>3, <2>4 DEF d, S, o, y
<1>3. ASSUME NEW i \in DOMAIN N, N[i].kind = "branch", ~N[i].dirty
      PROVE  H[i].digest = branch_digest(N[i].bit, H[N[i].left].digest, H[N[i].right].digest)
  <2>1. N[i].left \in DOMAIN N /\ N[i].right \in DOMAIN N
    BY <1>3 DEF Tree, Parts, Used
  <2>2. /\ N[i].digest = branch_digest(N[i].bit, N[N[i].left].digest, N[N[i].right].digest)
        /\ N[N[i].left].kind = "branch" => ~N[N[i].left].dirty
        /\ N[N[i].right].kind = "branch" => ~N[N[i].right].dirty
    BY <1>3 DEF Clean
  <2>3. H[N[i].left].digest = N[N[i].left].digest /\ H[N[i].right].digest = N[N[i].right].digest
    BY <1>2, <2>1, <2>2
  <2>4. H[i].digest = N[i].digest
    BY <1>2, <1>3
  <2> QED BY <2>2, <2>3, <2>4
<1>4. ASSUME NEW i \in Used(N)
      PROVE  /\ N[i].kind = "leaf" => H[i].digest = N[i].digest /\ H[i].stale = {}
             /\ N[i].kind = "branch" => H[i].digest = branch_digest(N[i].bit, H[N[i].left].digest, H[N[i].right].digest)
             /\ N[i].kind = "branch" /\ ~N[i].dirty => H[i].digest = N[i].digest /\ H[i].stale = {}
             /\ N[i].kind = "branch" /\ N[i].dirty => H[i].stale = {i} \cup H[N[i].left].stale \cup H[N[i].right].stale
  <2>1. i \in DOMAIN N
    BY DEF Used
  <2> QED BY <1>2, <1>3, <2>1
<1> QED BY <1>4 DEF HashOf, H

\* The branches hashed are marked, and with a branch all marked ones below it are hashed.
Staled(N, S) ==
  /\ \A i \in S : i \in Used(N) /\ N[i].kind = "branch" /\ N[i].dirty
  /\ \A i \in S : \A c \in {N[i].left, N[i].right} : N[c].kind = "branch" /\ N[c].dirty => c \in S

LEMMA StaleClosed ==
  ASSUME NEW t, NEW R, NEW C, NEW P, P \subseteq TrieKeys, Tree(t.nodes, R, C, P), NEW H, HashOf(t, H)
  PROVE  \A i \in Used(t.nodes) :
           Staled(t.nodes, H[i].stale) /\ (t.nodes[i].kind = "branch" /\ t.nodes[i].dirty => i \in H[i].stale)
<1> DEFINE N == t.nodes
           Good(i) == Staled(N, H[i].stale) /\ (N[i].kind = "branch" /\ N[i].dirty => i \in H[i].stale)
           T == {m \in Nat : \A i \in Used(N) : Width + 1 - BitOf(N[i]) <= m => Good(i)}
<1> Width \in Nat
  BY TrieAssumption
<1>1. \A i \in Used(N) : i \in DOMAIN N /\ BitOf(N[i]) \in 1..(Width + 1) /\ (N[i].kind = "leaf" \/ N[i].kind = "branch")
  BY BitRange, NodeKinds DEF Tree, Used
<1>2. ASSUME NEW i \in Used(N), N[i].kind = "branch", NEW c, c = N[i].left \/ c = N[i].right
      PROVE  c \in Used(N) /\ BitOf(N[i]) < BitOf(N[c])
  <2>1. c \in Used(N) /\ N[i].bit < BitOf(N[c])
    BY <1>1, <1>2, ChildBelow DEF Tree
  <2> QED BY <1>2, <2>1 DEF BitOf
<1>3. ASSUME NEW i \in Used(N), N[i].kind = "leaf" \/ (N[i].kind = "branch" /\ ~N[i].dirty) PROVE Good(i)
  <2>1. H[i].stale = {}
    BY <1>3 DEF HashOf
  <2> QED BY <1>3, <2>1 DEF Staled
<1>4. ASSUME NEW i \in Used(N), N[i].kind = "branch", N[i].dirty, Good(N[i].left), Good(N[i].right) PROVE Good(i)
  <2> DEFINE a == N[i].left
             b == N[i].right
             S == H[a].stale
             Q == H[b].stale
  <2>1. H[i].stale = {i} \cup S \cup Q
    BY <1>4 DEF HashOf
  <2>2. Staled(N, S) /\ Staled(N, Q)
    BY <1>4
  <2>3. (N[a].kind = "branch" /\ N[a].dirty => a \in S) /\ (N[b].kind = "branch" /\ N[b].dirty => b \in Q)
    BY <1>4
  <2>4. {N[i].left, N[i].right} = {a, b}
    OBVIOUS
  <2> HIDE DEF a, b, S, Q
  <2>5. Staled(N, {i} \cup S \cup Q)
    BY <1>4, <2>2, <2>3, <2>4, ZenonT(30) DEF Staled
  <2> QED BY <2>1, <2>5
<1> HIDE DEF Good
<1>5. 0 \in T
  <2> SUFFICES ASSUME NEW i \in Used(N), Width + 1 - BitOf(N[i]) <= 0 PROVE Good(i)
    OBVIOUS
  <2>1. BitOf(N[i]) = Width + 1
    BY <1>1
  <2>2. N[i].kind # "branch"
    BY <1>1, <2>1, BitRange DEF Tree
  <2> QED BY <1>1, <1>3, <2>2
<1>6. ASSUME NEW m \in Nat, m \in T PROVE m + 1 \in T
  <2> SUFFICES ASSUME NEW i \in Used(N), Width + 1 - BitOf(N[i]) <= m + 1 PROVE Good(i)
    OBVIOUS
  <2>1. CASE N[i].kind = "branch" /\ N[i].dirty
    <3>1. ASSUME NEW c, c = N[i].left \/ c = N[i].right PROVE Good(c)
      <4>1. c \in Used(N) /\ BitOf(N[i]) < BitOf(N[c])
        BY <1>2, <2>1, <3>1
      <4>2. BitOf(N[i]) \in Int /\ BitOf(N[c]) \in Int
        BY <1>1, <4>1
      <4>3. Width + 1 - BitOf(N[c]) <= m
        BY <4>1, <4>2
      <4> QED BY <1>6, <4>1, <4>3
    <3>2. Good(N[i].left) /\ Good(N[i].right)
      BY <3>1
    <3> QED BY <1>4, <2>1, <3>2
  <2>2. CASE ~(N[i].kind = "branch" /\ N[i].dirty)
    BY <1>1, <1>3, <2>2
  <2> QED BY <2>1, <2>2
<1>7. Width \in T
  <2> HIDE DEF T
  <2> QED BY <1>5, <1>6, Induction
<1>8. \A i \in Used(N) : Good(i)
  BY <1>1, <1>7
<1> QED BY <1>8 DEF Good

LEMMA BranchHashed ==
  ASSUME NEW n, IsBranchNode(n), NEW d
  PROVE  [n EXCEPT !.digest = d, !.dirty = FALSE] = BranchOf(n.bit, n.left, n.right, d, FALSE)
<1> DEFINE m == [n EXCEPT !.digest = d]
<1>1. [n EXCEPT !.digest = d, !.dirty = FALSE] = [m EXCEPT !.dirty = FALSE]
  OBVIOUS
<1>2. m = BranchOf(n.bit, n.left, n.right, d, n.dirty)
  BY BranchExcept
<1>3. n.bit \in 1..Width /\ n.dirty \in BOOLEAN
  BY DEF IsBranchNode
<1> HIDE DEF m
<1>4. IsBranchNode(m)
  BY <1>2, <1>3, BranchNew
<1>5. m.bit = n.bit /\ m.left = n.left /\ m.right = n.right /\ m.digest = d
  BY <1>2 DEF BranchOf
<1>6. [m EXCEPT !.dirty = FALSE] = BranchOf(m.bit, m.left, m.right, m.digest, FALSE)
  BY <1>4, BranchExcept
<1>7. BranchOf(m.bit, m.left, m.right, m.digest, FALSE) = BranchOf(n.bit, n.left, n.right, d, FALSE)
  BY <1>5
<1> QED BY <1>1, <1>6, <1>7, Zenon

\* No branch is marked.
Unmarked(N) == \A i \in Used(N) : N[i].kind = "branch" => ~N[i].dirty

\* u is t with its marked branches hashed.
Rehashed(t, u, C, e) ==
  /\ TrieOk(u, C, e) /\ Unmarked(u.nodes) /\ u.root = t.root
  /\ t.root # 0 => root(t) = u.nodes[u.root].digest

\* Trie::root hashes all that is marked, and keeps the trie that of the entries.
LEMMA HashedKeeps ==
  ASSUME NEW t, NEW C, NEW e, TrieOk(t, C, e)
  PROVE  Rehashed(t, Hashed(t), C, e)
<1> DEFINE P == PresentIn(e)
           N == t.nodes
           u == Hashed(t)
           H == hash(t)
           S == H[t.root].stale
           M == [i \in DOMAIN N |-> IF i \in S THEN [N[i] EXCEPT !.digest = H[i].digest, !.dirty = FALSE] ELSE N[i]]
<1>1. Arena(t) /\ Tree(N, t.root, C, P) /\ Leaves(N, C, e) /\ Clean(N) /\ P \subseteq TrieKeys
  BY DEF TrieOk, PresentIn
<1>2. CASE t.root = 0
  <2>1. u = t
    BY <1>2 DEF Hashed
  <2>2. P = {}
    BY <1>1, <1>2, RootZero
  <2>3. Used(N) = {}
    BY <1>1, <2>2 DEF Tree, Rooted
  <2>4. Unmarked(N)
    BY <2>3 DEF Unmarked
  <2> QED BY <1>2, <2>1, <2>4 DEF Rehashed
<1>3. CASE t.root # 0
  <2> DEFINE R == t.root
  <2>1. R \in Used(N)
    <3>1. P # {}
      BY <1>1, <1>3, RootZero
    <3> QED BY <1>1, <3>1 DEF Tree, Rooted
  <2>2. HashOf(t, H)
    <3> HIDE DEF P
    <3> QED BY <1>1, Hashes
  <2>3. Staled(N, S) /\ (N[R].kind = "branch" /\ N[R].dirty => R \in S)
    <3> HIDE DEF P, H
    <3> QED BY <1>1, <2>1, <2>2, StaleClosed
  <2>4. u = [t EXCEPT !.nodes = M]
    BY <1>3 DEF Hashed
  <2>5. root(t) = H[R].digest
    BY <1>3 DEF root
  <2> HIDE DEF H
  <2>6. DOMAIN M = DOMAIN N /\ M = [i \in DOMAIN N |-> M[i]] /\ \A i \in DOMAIN N : i \notin S => M[i] = N[i]
    OBVIOUS
  <2>7. \A i \in S : i \in Used(N) /\ i \in DOMAIN N /\ N[i].kind = "branch" /\ N[i].dirty
    BY <2>3 DEF Staled, Used
  <2>8. ASSUME NEW i \in S
        PROVE  M[i] = BranchOf(N[i].bit, N[i].left, N[i].right, H[i].digest, FALSE) /\ N[i].bit \in 1..Width
    <3>1. IsBranchNode(N[i]) /\ i \in DOMAIN N
      BY <1>1, <2>7, NodeKinds DEF Tree
    <3>2. M[i] = [N[i] EXCEPT !.digest = H[i].digest, !.dirty = FALSE]
      BY <3>1
    <3>3. [N[i] EXCEPT !.digest = H[i].digest, !.dirty = FALSE]
             = BranchOf(N[i].bit, N[i].left, N[i].right, H[i].digest, FALSE)
      BY <3>1, BranchHashed
    <3> HIDE DEF M
    <3>4. M[i] = BranchOf(N[i].bit, N[i].left, N[i].right, H[i].digest, FALSE)
      BY <3>2, <3>3, Zenon
    <3>5. N[i].bit \in 1..Width
      BY <3>1 DEF IsBranchNode
    <3> QED BY <3>4, <3>5
  <2> HIDE DEF M, u, S
  <2>9. ASSUME NEW i \in S
        PROVE  /\ M[i].kind = "branch" /\ M[i].bit = N[i].bit /\ M[i].left = N[i].left /\ M[i].right = N[i].right
               /\ M[i].digest = H[i].digest /\ M[i].dirty = FALSE /\ IsBranchNode(M[i])
    <3>1. M[i] = BranchOf(N[i].bit, N[i].left, N[i].right, H[i].digest, FALSE) /\ N[i].bit \in 1..Width
      BY <2>8
    <3>2. IsBranchNode(M[i])
      BY <3>1, BranchNew
    <3>3. /\ M[i].kind = "branch" /\ M[i].bit = N[i].bit /\ M[i].left = N[i].left /\ M[i].right = N[i].right
          /\ M[i].digest = H[i].digest
      BY <3>1 DEF BranchOf
    <3>4. M[i].dirty = FALSE
      BY <3>1 DEF BranchOf
    <3> QED BY <3>2, <3>3, <3>4
  <2>10. u.nodes = M /\ u.free = t.free /\ u.root = t.root /\ u.len = t.len /\ IsTrie(u)
    <3>1. u = TrieOf(M, t.free, t.root, t.len)
      BY <1>1, <2>4, TrieExcept DEF Arena
    <3> QED BY <3>1, TrieFields
  <2>11. \A i \in DOMAIN N : Like(N[i], M[i])
    BY <2>6, <2>7, <2>9 DEF Like
  <2>12. Nodes(M)
    BY <1>1, <2>6, <2>9 DEF Tree, Nodes
  <2>13. Tree(M, t.root, C, P) /\ Used(M) = Used(N)
    <3> HIDE DEF P
    <3> QED BY <1>1, <2>6, <2>11, <2>12, LikeTree
  <2>14. Arena(u)
    <3>1. \A i \in DOMAIN N : M[i] = Freed <=> N[i] = Freed
      <4>1. Freed.kind = "freed"
        BY DEF Freed
      <4> QED BY <2>6, <2>7, <2>9, <4>1
    <3> QED BY <1>1, <2>6, <2>10, <3>1, ArenaRefilled
  <2>15. Leaves(M, C, e)
    <3> SUFFICES ASSUME NEW i \in DOMAIN M, M[i].kind = "leaf"
                 PROVE  /\ M[i].key \in TrieKeys /\ e[M[i].key] # <<>> /\ C[i] = {M[i].key}
                        /\ M[i].digest = leaf_digest(M[i].key, e[M[i].key][1])
      BY DEF Leaves
    <3>1. i \in DOMAIN N /\ M[i] = N[i]
      BY <2>6, <2>9
    <3> QED BY <1>1, <3>1 DEF Leaves
  \* The digest stored after hashing, and the one Trie::hash returned.
  <2>16. ASSUME NEW i \in Used(N), i \in S \/ N[i].kind = "leaf" \/ ~N[i].dirty PROVE M[i].digest = H[i].digest
    <3>1. i \in DOMAIN N /\ (N[i].kind = "leaf" \/ N[i].kind = "branch")
      BY <1>1, NodeKinds DEF Tree, Used
    <3>2. CASE i \in S
      BY <2>9, <3>2
    <3>3. CASE i \notin S
      <4>1. M[i] = N[i]
        BY <2>6, <3>1, <3>3
      <4>2. H[i].digest = N[i].digest
        BY <2>2, <2>16, <3>1, <3>3 DEF HashOf
      <4> QED BY <4>1, <4>2
    <3> QED BY <3>2, <3>3
  <2>17. Clean(M)
    <3> SUFFICES ASSUME NEW i \in DOMAIN M, M[i].kind = "branch", ~M[i].dirty
                 PROVE  /\ M[i].digest = branch_digest(M[i].bit, M[M[i].left].digest, M[M[i].right].digest)
                        /\ M[M[i].left].kind = "branch" => ~M[M[i].left].dirty
                        /\ M[M[i].right].kind = "branch" => ~M[M[i].right].dirty
      BY DEF Clean
    <3>1. CASE i \in S
      <4>1. i \in Used(N) /\ i \in DOMAIN N /\ N[i].kind = "branch"
        BY <2>7, <3>1
      <4>2. N[i].left \in Used(N) /\ N[i].right \in Used(N)
        BY <1>1, <4>1 DEF Tree, Parts
      <4>3. ASSUME NEW c \in {N[i].left, N[i].right}
            PROVE  M[c].digest = H[c].digest /\ (M[c].kind = "branch" => ~M[c].dirty)
        <5>1. c \in Used(N) /\ c \in DOMAIN N /\ (N[c].kind = "leaf" \/ N[c].kind = "branch")
          BY <1>1, <4>2, NodeKinds DEF Tree, Used
        <5>2. N[c].kind = "branch" /\ N[c].dirty => c \in S
          BY <2>3, <3>1 DEF Staled
        <5>3. M[c].digest = H[c].digest
          BY <2>16, <5>1, <5>2
        <5>4. CASE c \in S
          BY <2>9, <5>3, <5>4
        <5>5. CASE c \notin S
          BY <2>6, <5>1, <5>2, <5>3, <5>5
        <5> QED BY <5>4, <5>5
      <4>4. H[i].digest = branch_digest(N[i].bit, H[N[i].left].digest, H[N[i].right].digest)
        BY <2>2, <4>1 DEF HashOf
      <4>5. M[i].bit = N[i].bit /\ M[i].left = N[i].left /\ M[i].right = N[i].right /\ M[i].digest = H[i].digest
        BY <2>9, <3>1
      <4>6. /\ M[N[i].left].digest = H[N[i].left].digest /\ (M[N[i].left].kind = "branch" => ~M[N[i].left].dirty)
            /\ M[N[i].right].digest = H[N[i].right].digest /\ (M[N[i].right].kind = "branch" => ~M[N[i].right].dirty)
        BY <4>3
      <4> QED BY <4>4, <4>5, <4>6
    <3>2. CASE i \notin S
      <4>1. i \in DOMAIN N /\ M[i] = N[i]
        BY <2>6, <3>2
      <4>2. /\ N[i].digest = branch_digest(N[i].bit, N[N[i].left].digest, N[N[i].right].digest)
            /\ N[N[i].left].kind = "branch" => ~N[N[i].left].dirty
            /\ N[N[i].right].kind = "branch" => ~N[N[i].right].dirty
        BY <1>1, <4>1 DEF Clean
      <4>3. N[i].left \in DOMAIN N /\ N[i].right \in DOMAIN N
        BY <1>1, <4>1 DEF Tree, Parts, Used
      <4>4. N[i].left \notin S /\ N[i].right \notin S
        BY <2>7, <4>2
      <4>5. M[N[i].left] = N[N[i].left] /\ M[N[i].right] = N[N[i].right]
        BY <2>6, <4>3, <4>4
      <4> QED BY <4>1, <4>2, <4>5
    <3> QED BY <3>1, <3>2
  <2>18. N[R].kind = "branch" => ~M[R].dirty
    <3>1. CASE R \in S
      BY <2>9, <3>1
    <3>2. CASE R \notin S
      <4>1. M[R] = N[R]
        BY <2>1, <2>6, <3>2 DEF Used
      <4> QED BY <2>3, <3>2, <4>1
    <3> QED BY <3>1, <3>2
  <2>19. M[R].digest = H[R].digest
    <3>1. R \in S \/ N[R].kind = "leaf" \/ ~N[R].dirty
      <4>1. N[R].kind = "leaf" \/ N[R].kind = "branch"
        BY <1>1, <2>1, NodeKinds DEF Tree, Used
      <4> QED BY <2>3, <4>1
    <3> QED BY <2>1, <2>16, <3>1
  <2>20. Unmarked(M)
    <3> DEFINE bad == {i \in Used(M) : M[i].kind = "branch" /\ M[i].dirty}
    <3> SUFFICES ASSUME bad # {} PROVE FALSE
      BY DEF Unmarked
    <3>1. \A i \in Used(M) : i \in DOMAIN M /\ BitOf(M[i]) \in Nat
      BY <2>13, BitRange, TrieAssumption DEF Tree, Used
    <3>2. PICK i \in bad : \A j \in bad : BitOf(M[i]) <= BitOf(M[j])
      <4> DEFINE T == {BitOf(M[j]) : j \in bad}
      <4>1. T \in SUBSET Nat /\ T # {}
        BY <3>1
      <4>2. PICK b \in T : \A y \in T : b <= y
        <5> HIDE DEF T
        <5> QED BY <4>1, LeastNatural
      <4> QED BY <4>2
    <3>3. i # t.root
      <4>1. N[R].kind = M[R].kind
        BY <2>1, <2>11 DEF Like, Used
      <4> QED BY <2>18, <3>2, <4>1
    <3>4. PICK p \in DOMAIN M : M[p].kind = "branch" /\ (i = M[p].left \/ i = M[p].right)
      BY <2>13, <3>2, <3>3 DEF Tree, Parented
    <3>5. M[p].bit < BitOf(M[i])
      <4> HIDE DEF P
      <4> QED BY <1>1, <2>13, <3>4, ChildBelow DEF Tree
    <3>6. p \in Used(M) /\ BitOf(M[p]) = M[p].bit
      BY <3>4 DEF Used, BitOf
    <3>7. p \notin bad
      BY <3>1, <3>2, <3>5, <3>6
    <3>8. ~M[p].dirty
      BY <3>4, <3>6, <3>7
    <3>9. M[i].kind = "branch" => ~M[i].dirty
      BY <2>17, <3>4, <3>8 DEF Clean
    <3> QED BY <3>2, <3>9
  <2>21. TrieOk(u, C, e)
    <3>1. t.len = Cardinality(P) /\ IsFiniteSet(P)
      BY DEF TrieOk
    <3> QED BY <2>10, <2>13, <2>14, <2>15, <2>17, <3>1 DEF TrieOk
  <2>22. Rehashed(t, u, C, e)
    BY <2>5, <2>10, <2>19, <2>20, <2>21 DEF Rehashed
  <2> QED BY <2>22 DEF u
<1> QED BY <1>2, <1>3

-----------------------------------------------------------------------------
(* The digest that a set of keys determines *)

Multi(S) == S # {} /\ ~\E k \in S : S = {k}

CanonAt(g, S) ==
  IF S = {} THEN EMPTY
  ELSE IF \E k \in S : S = {k} THEN Claim(CHOOSE k \in S : TRUE)[1]
  ELSE branch_digest(SplitBit(S), g[{k \in S : k[SplitBit(S)] = 0}], g[{k \in S : k[SplitBit(S)] = 1}])

IsCanon(g) == g = [S \in SUBSET TrieKeys |-> CanonAt(g, S)]

\* b is the first bit in which keys of S differ.
Splits(S, b) ==
  /\ b \in 1..Width /\ (\E k, l \in S : k[b] # l[b])
  /\ \A k, l \in S : Agree(k, l, b)

LEMMA SplitsAt ==
  ASSUME NEW S \in SUBSET TrieKeys, Multi(S)
  PROVE  Splits(S, SplitBit(S))
<1> DEFINE Z == {b \in 1..Width : \E k, l \in S : k[b] # l[b]}
           j == SplitBit(S)
<1>1. PICK k, l \in S : k # l
  BY DEF Multi
<1>2. Differ(k, l, first_diff_bit(k, l))
  BY <1>1, FirstDiff
<1>3. Z # {} /\ Z \in SUBSET Nat
  <2>1. first_diff_bit(k, l) \in Z
    BY <1>2 DEF Differ
  <2>2. Z \in SUBSET Nat
    BY TrieAssumption
  <2> QED BY <2>1, <2>2
<1>4. PICK i \in Z : \A y \in Z : i <= y
  <2> HIDE DEF Z
  <2> QED BY <1>3, LeastNatural
<1>5. j \in Z /\ \A y \in Z : j <= y
  BY <1>4, Zenon DEF SplitBit, Min
<1> HIDE DEF j
<1>6. ASSUME NEW m \in S, NEW n \in S PROVE Agree(m, n, j)
  <2> SUFFICES ASSUME NEW c \in 1..(j - 1), m[c] # n[c] PROVE FALSE
    BY DEF Agree
  <2>1. c \in 1..Width /\ ~(j <= c)
    BY <1>5, TrieAssumption
  <2> QED BY <1>5, <2>1
<1>7. j \in 1..Width /\ \E m, n \in S : m[j] # n[j]
  BY <1>5
<1> QED BY <1>6, <1>7 DEF Splits, j

LEMMA SplitsOnce ==
  ASSUME NEW S \in SUBSET TrieKeys, NEW b, Splits(S, b)
  PROVE  Multi(S) /\ SplitBit(S) = b
<1>1. PICK k, l \in S : k[b] # l[b]
  BY DEF Splits
<1>2. Multi(S)
  BY <1>1 DEF Multi
<1> DEFINE c == SplitBit(S)
<1>3. Splits(S, c)
  BY <1>2, SplitsAt
<1> HIDE DEF c
<1>4. /\ b \in 1..Width /\ c \in 1..Width /\ (\A m, n \in S : Agree(m, n, b) /\ Agree(m, n, c))
      /\ (\E m, n \in S : m[c] # n[c])
  BY <1>3 DEF Splits
<1>5. ~(c < b)
  BY <1>4 DEF Agree
<1>6. ~(b < c)
  BY <1>1, <1>4 DEF Agree
<1>7. c = b
  BY <1>4, <1>5, <1>6, TrieAssumption
<1> QED BY <1>2, <1>7 DEF c

\* The keys on one side of the split.
Side(S, z) == {k \in S : k[SplitBit(S)] = z}

LEMMA SideDeeper ==
  ASSUME NEW S \in SUBSET TrieKeys, Multi(S), NEW z, Multi(Side(S, z))
  PROVE  SplitBit(S) < SplitBit(Side(S, z))
<1> DEFINE b == SplitBit(S)
           Q == Side(S, z)
           c == SplitBit(Q)
<1>1. Q \subseteq S /\ (\A m, n \in Q : m[b] = n[b]) /\ Q \in SUBSET TrieKeys
  BY DEF Side
<1>2. Splits(S, b) /\ Splits(Q, c)
  BY <1>1, SplitsAt
<1> HIDE DEF b, c, Q
<1>3. /\ b \in 1..Width /\ c \in 1..Width /\ (\A m, n \in S : Agree(m, n, b)) /\ (\E m, n \in Q : m[c] # n[c])
  BY <1>2 DEF Splits
<1>4. ~(c < b)
  BY <1>1, <1>3 DEF Agree
<1>5. c # b
  BY <1>1, <1>3
<1>6. b < c
  BY <1>3, <1>4, <1>5, TrieAssumption
<1> QED BY <1>6 DEF b, c, Q

Height(S) == IF Multi(S) THEN Width + 1 - SplitBit(S) ELSE 0

LEMMA Heights ==
  ASSUME NEW S \in SUBSET TrieKeys
  PROVE  /\ Height(S) \in 0..Width
         /\ Multi(S) => \A z : Height(Side(S, z)) < Height(S)
<1> Width \in Nat
  BY TrieAssumption
<1>1. \A Q \in SUBSET TrieKeys : Multi(Q) => SplitBit(Q) \in 1..Width
  BY SplitsAt DEF Splits
<1>2. Height(S) \in 0..Width
  BY <1>1 DEF Height
<1>3. ASSUME Multi(S), NEW z PROVE Height(Side(S, z)) < Height(S)
  <2> DEFINE Q == Side(S, z)
  <2>1. Q \in SUBSET TrieKeys
    BY DEF Side
  <2> HIDE DEF Q
  <2>2. SplitBit(S) \in 1..Width /\ Height(S) = Width + 1 - SplitBit(S)
    BY <1>1, <1>3 DEF Height
  <2>3. CASE Multi(Q)
    <3>1. SplitBit(Q) \in 1..Width /\ Height(Q) = Width + 1 - SplitBit(Q)
      BY <1>1, <2>1, <2>3 DEF Height
    <3>2. SplitBit(S) < SplitBit(Q)
      BY <1>3, <2>3, SideDeeper DEF Q
    <3> HIDE DEF Height
    <3>3. Height(Q) < Height(S)
      BY <2>2, <3>1, <3>2
    <3> QED BY <3>3 DEF Q
  <2>4. CASE ~Multi(Q)
    <3>1. Height(Q) = 0
      BY <2>4 DEF Height
    <3>2. Height(Q) < Height(S)
      BY <2>2, <3>1
    <3> QED BY <3>2 DEF Q
  <2> QED BY <2>3, <2>4
<1> QED BY <1>2, <1>3

LEMMA CanonSame ==
  ASSUME NEW g, NEW h, NEW S \in SUBSET TrieKeys,
         Multi(S) => g[Side(S, 0)] = h[Side(S, 0)] /\ g[Side(S, 1)] = h[Side(S, 1)]
  PROVE  CanonAt(g, S) = CanonAt(h, S)
BY DEF CanonAt, Multi, Side

\* The recursion of Canonical ends.
LEMMA CanonExists == IsCanon(Canonical)
<1> DEFINE Upto(m, g) == \A S \in SUBSET TrieKeys : Height(S) <= m => g[S] = CanonAt(g, S)
           T == {m \in Nat : \E g : Upto(m, g)}
<1> Width \in Nat
  BY TrieAssumption
<1>1. \A S \in SUBSET TrieKeys : Height(S) \in 0..Width
  BY Heights
<1>2. ASSUME NEW S \in SUBSET TrieKeys, Multi(S), NEW z PROVE Side(S, z) \in SUBSET TrieKeys /\ Height(Side(S, z)) < Height(S)
  BY <1>2, Heights DEF Side
<1>3. 0 \in T
  <2> DEFINE a == [S \in SUBSET TrieKeys |-> EMPTY]
             g == [S \in SUBSET TrieKeys |-> CanonAt(a, S)]
  <2>1. ASSUME NEW S \in SUBSET TrieKeys, Height(S) <= 0 PROVE g[S] = CanonAt(g, S)
    <3>1. ~Multi(S)
      <4> SUFFICES ASSUME Multi(S) PROVE FALSE
        OBVIOUS
      <4>1. Side(S, 0) \in SUBSET TrieKeys /\ Height(Side(S, 0)) < Height(S)
        BY <1>2
      <4>2. Height(Side(S, 0)) \in 0..Width /\ Height(S) \in 0..Width
        BY <1>1, <4>1
      <4> QED BY <2>1, <4>1, <4>2
    <3>2. CanonAt(a, S) = CanonAt(g, S)
      <4> HIDE DEF a, g
      <4> QED BY <3>1, CanonSame
    <3> QED BY <3>2
  <2>2. Upto(0, g)
    <3> HIDE DEF g
    <3> QED BY <2>1
  <2> HIDE DEF Upto, g
  <2> QED BY <2>2
<1>4. ASSUME NEW m \in Nat, m \in T PROVE m + 1 \in T
  <2>1. PICK g : Upto(m, g)
    BY <1>4
  <2> DEFINE h == [S \in SUBSET TrieKeys |-> CanonAt(g, S)]
  <2>2. ASSUME NEW S \in SUBSET TrieKeys, Height(S) <= m + 1 PROVE h[S] = CanonAt(h, S)
    <3>1. ASSUME Multi(S), NEW z PROVE g[Side(S, z)] = h[Side(S, z)]
      <4>1. Side(S, z) \in SUBSET TrieKeys /\ Height(Side(S, z)) < Height(S)
        BY <1>2, <3>1
      <4>2. Height(Side(S, z)) \in Int /\ Height(S) \in Int
        BY <1>1, <4>1
      <4>3. Height(Side(S, z)) <= m
        BY <2>2, <4>1, <4>2
      <4> QED BY <2>1, <4>1, <4>3
    <3>2. CanonAt(g, S) = CanonAt(h, S)
      <4> HIDE DEF h
      <4> QED BY <3>1, CanonSame
    <3> QED BY <3>2
  <2>3. Upto(m + 1, h)
    <3> HIDE DEF h
    <3> QED BY <2>2
  <2> HIDE DEF Upto, h
  <2> QED BY <2>3
<1>5. Width \in T
  <2> HIDE DEF T
  <2> QED BY <1>3, <1>4, Induction
<1>6. PICK g : Upto(Width, g)
  BY <1>5
<1>7. \A S \in SUBSET TrieKeys : g[S] = CanonAt(g, S)
  BY <1>1, <1>6
<1> DEFINE h == [S \in SUBSET TrieKeys |-> g[S]]
<1>8. IsCanon(h)
  <2>1. ASSUME NEW S \in SUBSET TrieKeys PROVE h[S] = CanonAt(h, S)
    <3>1. ASSUME NEW z PROVE g[Side(S, z)] = h[Side(S, z)]
      <4>1. Side(S, z) \in SUBSET TrieKeys
        BY DEF Side
      <4> QED BY <4>1
    <3>2. CanonAt(g, S) = CanonAt(h, S)
      <4> HIDE DEF h
      <4> QED BY <3>1, CanonSame
    <3> QED BY <1>7, <3>2
  <2>2. h = [S \in SUBSET TrieKeys |-> h[S]]
    OBVIOUS
  <2> HIDE DEF h
  <2> QED BY <2>1, <2>2 DEF IsCanon
<1> DEFINE c == CHOOSE f : IsCanon(f)
<1>9. IsCanon(c)
  <2> HIDE DEF h
  <2> QED BY <1>8, Zenon
<1>10. Canonical = c
  BY Zenon DEF Canonical, IsCanon, CanonAt
<1> HIDE DEF c
<1> QED BY <1>9, <1>10

LEMMA CanonLeaf ==
  ASSUME NEW k \in TrieKeys, entries[k] # <<>>
  PROVE  Canonical[{k}] = leaf_digest(k, entries[k][1])
<1>1. Canonical[{k}] = CanonAt(Canonical, {k})
  <2> DEFINE c == Canonical
             S == {k}
  <2>1. IsCanon(c) /\ S \in SUBSET TrieKeys
    BY CanonExists
  <2> HIDE DEF c, S
  <2>2. c[S] = CanonAt(c, S)
    BY <2>1 DEF IsCanon
  <2> QED BY <2>2 DEF c, S
<1>2. (CHOOSE m \in {k} : TRUE) = k
  OBVIOUS
<1>3. CanonAt(Canonical, {k}) = Claim(CHOOSE m \in {k} : TRUE)[1]
  <2>1. {k} # {} /\ \E m \in {k} : {k} = {m}
    OBVIOUS
  <2> QED BY <2>1, Zenon DEF CanonAt
<1>4. Claim(k)[1] = leaf_digest(k, entries[k][1])
  BY DEF Claim
<1> QED BY <1>1, <1>2, <1>3, <1>4, Zenon

LEMMA CanonBranch ==
  ASSUME NEW S \in SUBSET TrieKeys, NEW b, Splits(S, b)
  PROVE  Canonical[S] = branch_digest(b, Canonical[{k \in S : k[b] = 0}], Canonical[{k \in S : k[b] = 1}])
<1> DEFINE c == Canonical
<1>1. IsCanon(c)
  BY CanonExists
<1> HIDE DEF c
<1>2. c[S] = CanonAt(c, S)
  BY <1>1 DEF IsCanon
<1>3. Multi(S) /\ SplitBit(S) = b
  BY SplitsOnce
<1>4. CanonAt(c, S) = branch_digest(SplitBit(S), c[{k \in S : k[SplitBit(S)] = 0}], c[{k \in S : k[SplitBit(S)] = 1}])
  BY <1>3, Zenon DEF CanonAt, Multi
<1>5. c[S] = branch_digest(b, c[{k \in S : k[b] = 0}], c[{k \in S : k[b] = 1}])
  BY <1>2, <1>3, <1>4, Zenon
<1> QED BY <1>5 DEF c

LEMMA CanonEmpty == Canonical[{}] = EMPTY
<1> DEFINE c == Canonical
           S == {}
<1>1. IsCanon(c) /\ S \in SUBSET TrieKeys
  BY CanonExists
<1> HIDE DEF c
<1>2. c[S] = CanonAt(c, S)
  <2> HIDE DEF S
  <2> QED BY <1>1 DEF IsCanon
<1>3. CanonAt(c, S) = EMPTY
  BY Zenon DEF CanonAt
<1> QED BY <1>2, <1>3 DEF c

\* The keys below a branch first differ in its bit.
LEMMA BranchSplits ==
  ASSUME NEW N, NEW R, NEW C, NEW P, P \subseteq TrieKeys, Tree(N, R, C, P), NEW i \in Used(N), N[i].kind = "branch"
  PROVE  Splits(C[i], N[i].bit) /\ C[i] \in SUBSET TrieKeys
<1>1. i \in DOMAIN N
  BY DEF Used
<1>2. /\ N[i].left \in Used(N) /\ N[i].right \in Used(N)
      /\ C[N[i].left] = {k \in C[i] : k[N[i].bit] = 0}
      /\ C[N[i].right] = {k \in C[i] : k[N[i].bit] = 1}
      /\ \A k, l \in C[i] : Agree(k, l, N[i].bit)
  BY <1>1 DEF Tree, Parts
<1>3. C[N[i].left] # {} /\ C[N[i].right] # {} /\ C[i] \in SUBSET TrieKeys
  BY <1>2 DEF Tree, Holds
<1>4. N[i].bit \in 1..Width
  BY <1>1, BitRange DEF Tree
<1>5. \E k, l \in C[i] : k[N[i].bit] # l[N[i].bit]
  <2>1. PICK k \in C[i] : k[N[i].bit] = 0
    BY <1>2, <1>3
  <2>2. PICK l \in C[i] : l[N[i].bit] = 1
    BY <1>2, <1>3
  <2> QED BY <2>1, <2>2
<1> QED BY <1>2, <1>3, <1>4, <1>5 DEF Splits

\* Trie::hash gives each node the digest that its keys determine.
LEMMA HashCanonical ==
  ASSUME NEW t, NEW C, TrieOk(t, C, entries)
  PROVE  \A i \in Used(t.nodes) : hash(t)[i].digest = Canonical[C[i]]
<1> DEFINE N == t.nodes
           H == hash(t)
           P == PresentIn(entries)
           Good(i) == H[i].digest = Canonical[C[i]]
           T == {m \in Nat : \A i \in Used(N) : Width + 1 - BitOf(N[i]) <= m => Good(i)}
<1> Width \in Nat
  BY TrieAssumption
<1>0. Tree(N, t.root, C, P) /\ Leaves(N, C, entries) /\ Clean(N) /\ P \subseteq TrieKeys
  BY DEF TrieOk, PresentIn
<1> HIDE DEF P
<1>1. \A i \in Used(N) : i \in DOMAIN N /\ BitOf(N[i]) \in 1..(Width + 1) /\ (N[i].kind = "leaf" \/ N[i].kind = "branch")
  BY <1>0, BitRange, NodeKinds DEF Tree, Used
<1>2. HashOf(t, H)
  BY <1>0, Hashes
<1> HIDE DEF H
<1>3. ASSUME NEW i \in Used(N), N[i].kind = "leaf" PROVE Good(i)
  <2>1. H[i].digest = N[i].digest
    BY <1>2, <1>3 DEF HashOf
  <2>2. /\ N[i].key \in TrieKeys /\ entries[N[i].key] # <<>> /\ C[i] = {N[i].key}
        /\ N[i].digest = leaf_digest(N[i].key, entries[N[i].key][1])
    BY <1>0, <1>1, <1>3 DEF Leaves
  <2>3. Canonical[{N[i].key}] = leaf_digest(N[i].key, entries[N[i].key][1])
    BY <2>2, CanonLeaf
  <2> QED BY <2>1, <2>2, <2>3, Zenon
<1>4. ASSUME NEW i \in Used(N), N[i].kind = "branch", Good(N[i].left), Good(N[i].right) PROVE Good(i)
  <2>1. H[i].digest = branch_digest(N[i].bit, H[N[i].left].digest, H[N[i].right].digest)
    BY <1>2, <1>4 DEF HashOf
  <2>2. Splits(C[i], N[i].bit) /\ C[i] \in SUBSET TrieKeys
    BY <1>0, <1>4, BranchSplits
  <2>3. Canonical[C[i]] = branch_digest(N[i].bit, Canonical[{k \in C[i] : k[N[i].bit] = 0}],
                                                  Canonical[{k \in C[i] : k[N[i].bit] = 1}])
    BY <2>2, CanonBranch
  <2>4. /\ C[N[i].left] = {k \in C[i] : k[N[i].bit] = 0}
        /\ C[N[i].right] = {k \in C[i] : k[N[i].bit] = 1}
    BY <1>0, <1>1, <1>4 DEF Tree, Parts
  <2> QED BY <1>4, <2>1, <2>3, <2>4, Zenon
<1> HIDE DEF Good
<1>5. 0 \in T
  <2> SUFFICES ASSUME NEW i \in Used(N), Width + 1 - BitOf(N[i]) <= 0 PROVE Good(i)
    OBVIOUS
  <2>1. BitOf(N[i]) = Width + 1
    BY <1>1
  <2>2. N[i].kind # "branch"
    BY <1>0, <1>1, <2>1, BitRange DEF Tree
  <2> QED BY <1>1, <1>3, <2>2
<1>6. ASSUME NEW m \in Nat, m \in T PROVE m + 1 \in T
  <2> SUFFICES ASSUME NEW i \in Used(N), Width + 1 - BitOf(N[i]) <= m + 1 PROVE Good(i)
    OBVIOUS
  <2>1. CASE N[i].kind = "branch"
    <3>1. ASSUME NEW c, c = N[i].left \/ c = N[i].right PROVE Good(c)
      <4>1. c \in Used(N) /\ BitOf(N[i]) < BitOf(N[c])
        <5>1. c \in Used(N) /\ N[i].bit < BitOf(N[c])
          BY <1>0, <1>1, <2>1, <3>1, ChildBelow DEF Tree
        <5> QED BY <2>1, <5>1 DEF BitOf
      <4>2. BitOf(N[i]) \in Int /\ BitOf(N[c]) \in Int
        BY <1>1, <4>1
      <4>3. Width + 1 - BitOf(N[c]) <= m
        BY <4>1, <4>2
      <4> QED BY <1>6, <4>1, <4>3
    <3>2. Good(N[i].left) /\ Good(N[i].right)
      BY <3>1
    <3> QED BY <1>4, <2>1, <3>2
  <2>2. CASE N[i].kind # "branch"
    BY <1>1, <1>3, <2>2
  <2> QED BY <2>1, <2>2
<1>7. Width \in T
  <2> HIDE DEF T
  <2> QED BY <1>5, <1>6, Induction
<1>8. \A i \in Used(N) : Good(i)
  BY <1>1, <1>7
<1> QED BY <1>8 DEF Good, H

\* Trie::root answers the digest that the entries determine.
LEMMA RootCanon ==
  ASSUME NEW t, NEW C, TrieOk(t, C, entries)
  PROVE  root(t) = Canonical[Present]
<1> DEFINE P == PresentIn(entries)
<1>0. Arena(t) /\ Tree(t.nodes, t.root, C, P)
  BY DEF TrieOk
<1>1. Present = P
  BY DEF Present, PresentIn
<1> HIDE DEF P
<1>2. CASE t.root = 0
  <2>1. P = {}
    BY <1>0, <1>2, RootZero
  <2>2. root(t) = EMPTY
    BY <1>2 DEF root
  <2> QED BY <1>1, <2>1, <2>2, CanonEmpty, Zenon
<1>3. CASE t.root # 0
  <2>1. P # {}
    BY <1>0, <1>3, RootZero
  <2>2. t.root \in Used(t.nodes) /\ C[t.root] = P
    BY <1>0, <2>1 DEF Tree, Rooted
  <2>3. root(t) = hash(t)[t.root].digest
    BY <1>3 DEF root
  <2>4. hash(t)[t.root].digest = Canonical[C[t.root]]
    BY <2>2, HashCanonical
  <2> QED BY <1>1, <2>2, <2>3, <2>4, Zenon
<1> QED BY <1>2, <1>3

-----------------------------------------------------------------------------
(* What holds of the trie of the entries *)

\* The nodes in use are those that lead to a key.
LEMMA UsedLead ==
  ASSUME NEW t, NEW C, NEW P, P \subseteq TrieKeys, Tree(t.nodes, t.root, C, P), P # {}, NEW e, Leaves(t.nodes, C, e)
  PROVE  UNION {ToSet(descend(t, k)) : k \in TrieKeys} = Used(t.nodes)
<1> DEFINE N == t.nodes
<1>1. ASSUME NEW k \in TrieKeys PROVE ToSet(descend(t, k)) \subseteq Used(N)
  <2>1. PICK w, x, l : w = descend(t, k) /\ Reach(t, C, P, k, w, x, l)
    BY Reaches
  <2>2. w \in Seq(Used(N))
    BY <2>1 DEF Reach
  <2>3. DOMAIN w = 1..Len(w) /\ \A n \in 1..Len(w) : w[n] \in Used(N)
    BY <2>2
  <2>4. ToSet(w) \subseteq Used(N)
    BY <2>3 DEF ToSet
  <2> QED BY <2>1, <2>4
<1>2. ASSUME NEW i \in Used(N) PROVE \E k \in TrieKeys : i \in ToSet(descend(t, k))
  <2>1. PICK l \in C[i] : l \in P
    BY DEF Tree, Holds
  <2>2. l \in TrieKeys
    BY <2>1
  <2>3. PICK w, x, m : w = descend(t, l) /\ Reach(t, C, P, l, w, x, m)
    BY <2>2, Reaches
  <2>4. m = l /\ w \in Seq(Used(N))
    BY <2>1, <2>3 DEF Reach
  <2>5. PICK n \in 1..Len(w) : w[n] = i
    BY <2>1, <2>3, <2>4 DEF Reach
  <2>6. DOMAIN w = 1..Len(w)
    BY <2>4
  <2>7. i \in ToSet(w)
    BY <2>5, <2>6 DEF ToSet
  <2> QED BY <2>2, <2>3, <2>7
<1> QED BY <1>1, <1>2

\* A node in use has one place: it is the root, or it is below one branch, on one side.
LEMMA OnePlace ==
  ASSUME NEW t, NEW C, NEW P, P \subseteq TrieKeys, Tree(t.nodes, t.root, C, P), NEW e, Leaves(t.nodes, C, e),
         NEW i \in Used(t.nodes), t.nodes[i].kind = "branch",
         NEW c, c = t.nodes[i].left \/ c = t.nodes[i].right
  PROVE  /\ c \in Used(t.nodes) /\ c # t.root
         /\ \A j \in Used(t.nodes) :
              t.nodes[j].kind = "branch" /\ (c = t.nodes[j].left \/ c = t.nodes[j].right) => j = i
<1> DEFINE N == t.nodes
<1>1. ASSUME NEW j \in Used(N), N[j].kind = "branch", c = N[j].left \/ c = N[j].right
      PROVE  /\ c \in Used(N) /\ C[c] \subseteq C[j]
             /\ \A l \in C[c] : c = Child(N[j], l)
  <2>1. j \in DOMAIN N
    BY DEF Used
  <2>2. c \in Used(N) /\ C[c] \subseteq C[j]
    BY <1>1, <2>1, ChildBelow DEF Tree
  <2>3. ASSUME NEW l \in C[c] PROVE c = Child(N[j], l)
    <3>1. l \in C[j]
      BY <2>2
    <3>2. \A d : (d = N[j].left \/ d = N[j].right) /\ l \in C[d] => d = Child(N[j], l)
      BY <1>1, <2>1, <3>1, ChildHolds DEF Tree
    <3> QED BY <1>1, <3>2
  <2> QED BY <2>2, <2>3
<1>2. c \in Used(N) /\ C[c] \subseteq C[i]
  BY <1>1
<1>3. PICK l \in C[c] : l \in P
  BY <1>2 DEF Tree, Holds
<1>4. PICK w, x, m : w = descend(t, l) /\ Reach(t, C, P, l, w, x, m)
  <2>1. l \in TrieKeys /\ P # {}
    BY <1>3
  <2> QED BY <2>1, Reaches
<1>5. /\ m = l /\ Len(w) \in Nat \ {0} /\ w[1] = t.root /\ N[w[Len(w)]].kind = "leaf"
      /\ \A n \in 1..Len(w) : w[n] \in Used(N)
      /\ \A a, b \in 1..Len(w) : a < b => BitOf(N[w[a]]) < BitOf(N[w[b]])
      /\ \A n \in 1..(Len(w) - 1) : w[n + 1] = Child(N[w[n]], l)
  BY <1>3, <1>4 DEF Reach
<1>6. \A j \in Used(N) : l \in C[j] => \E n \in 1..Len(w) : w[n] = j
  BY <1>4, <1>5 DEF Reach
<1>7. \A a, b \in 1..Len(w) : w[a] = w[b] => a = b
  <2> SUFFICES ASSUME NEW a \in 1..Len(w), NEW b \in 1..Len(w), w[a] = w[b] PROVE a = b
    OBVIOUS
  <2>1. BitOf(N[w[a]]) \in Int /\ BitOf(N[w[b]]) \in Int
    <3>1. w[a] \in DOMAIN N /\ w[b] \in DOMAIN N
      BY <1>5 DEF Used
    <3> QED BY <3>1, BitRange, TrieAssumption DEF Tree
  <2>2. a < b \/ b < a \/ a = b
    BY <1>5
  <2> QED BY <1>5, <2>1, <2>2
<1>8. ASSUME NEW j \in Used(N), N[j].kind = "branch", c = N[j].left \/ c = N[j].right
      PROVE  \E a \in 1..(Len(w) - 1) : w[a] = j /\ w[a + 1] = c
  <2>1. C[c] \subseteq C[j] /\ c = Child(N[j], l)
    BY <1>1, <1>8
  <2>2. PICK a \in 1..Len(w) : w[a] = j
    BY <1>6, <2>1
  <2>3. a # Len(w)
    BY <1>5, <1>8, <2>2
  <2>4. a \in 1..(Len(w) - 1)
    BY <1>5, <2>3
  <2> QED BY <1>5, <2>1, <2>2, <2>4
<1>9. PICK a \in 1..(Len(w) - 1) : w[a] = i /\ w[a + 1] = c
  BY <1>8
<1>10. c # t.root
  <2>1. 1 \in 1..Len(w) /\ a + 1 \in 1..Len(w) /\ a + 1 # 1
    BY <1>5
  <2> QED BY <1>5, <1>7, <1>9, <2>1
<1>11. ASSUME NEW j \in Used(N), N[j].kind = "branch", c = N[j].left \/ c = N[j].right PROVE j = i
  <2>1. PICK b \in 1..(Len(w) - 1) : w[b] = j /\ w[b + 1] = c
    BY <1>8, <1>11
  <2>2. a + 1 \in 1..Len(w) /\ b + 1 \in 1..Len(w)
    BY <1>5
  <2>3. a + 1 = b + 1
    BY <1>7, <1>9, <2>1, <2>2
  <2> QED BY <1>9, <2>1, <2>3
<1> QED BY <1>2, <1>10, <1>11

\* The sides of a branch are not the same node.
LEMMA TwoSides ==
  ASSUME NEW N, NEW R, NEW C, NEW P, P \subseteq TrieKeys, Tree(N, R, C, P), NEW i \in Used(N), N[i].kind = "branch"
  PROVE  N[i].left # N[i].right
<1>1. i \in DOMAIN N
  BY DEF Used
<1>2. /\ N[i].left \in Used(N) /\ N[i].right \in Used(N)
      /\ C[N[i].left] = {k \in C[i] : k[N[i].bit] = 0}
      /\ C[N[i].right] = {k \in C[i] : k[N[i].bit] = 1}
  BY <1>1 DEF Tree, Parts
<1>3. C[N[i].left] # {}
  BY <1>2 DEF Tree, Holds
<1> QED BY <1>2, <1>3

\* Trie::get answers for the entries.
LEMMA GetClaims ==
  ASSUME NEW t, NEW C, TrieOk(t, C, entries), NEW k \in TrieKeys
  PROVE  get(t, k) = Claim(k)
<1> DEFINE P == PresentIn(entries)
           N == t.nodes
<1>1. Arena(t) /\ Tree(N, t.root, C, P) /\ Leaves(N, C, entries) /\ P \subseteq TrieKeys
  BY DEF TrieOk, PresentIn
<1>2. k \in P <=> entries[k] # <<>>
  BY DEF PresentIn
<1> HIDE DEF P
<1>3. CASE t.root = 0
  <2>1. P = {}
    BY <1>1, <1>3, RootZero
  <2> QED BY <1>2, <1>3, <2>1 DEF get, Claim
<1>4. CASE t.root # 0
  <2>1. P # {}
    BY <1>1, <1>4, RootZero
  <2>2. PICK w, x, l : w = descend(t, k) /\ Reach(t, C, P, k, w, x, l)
    BY <1>1, <2>1, Reaches
  <2>3. /\ w \in Seq(Used(N)) /\ Len(w) \in Nat \ {0} /\ x = w[Len(w)] /\ x \in Used(N)
        /\ N[x].kind = "leaf" /\ l = N[x].key /\ l \in P /\ (k \in P => l = k)
    BY <2>2 DEF Reach
  <2>4. Last(w) = x
    BY <2>3 DEF Last
  <2>5. N[x].digest = leaf_digest(l, entries[l][1])
    <3>1. x \in DOMAIN N
      BY <2>3 DEF Used
    <3>2. N[x].digest = leaf_digest(N[x].key, entries[N[x].key][1])
      BY <1>1, <2>3, <3>1 DEF Leaves
    <3> QED BY <2>3, <3>2
  <2>6. get(t, k) = IF N[x].key = k THEN <<N[x].digest>> ELSE <<>>
    BY <1>4, <2>2, <2>4 DEF get
  <2>7. CASE k \in P
    <3>1. l = k
      BY <2>3, <2>7
    <3> QED BY <1>2, <2>3, <2>5, <2>6, <2>7, <3>1 DEF Claim
  <2>8. CASE k \notin P
    <3>1. l # k
      BY <2>3, <2>8
    <3> QED BY <1>2, <2>3, <2>6, <2>8, <3>1 DEF Claim
  <2> QED BY <2>7, <2>8
<1> QED BY <1>3, <1>4

LEMMA ArenaOk ==
  ASSUME NEW C, TrieOk(trie, C, entries)
  PROVE  ArenaExact
<1> DEFINE P == PresentIn(entries)
           N == trie.nodes
           f == trie.free
<1>1. Arena(trie) /\ Tree(N, trie.root, C, P) /\ Leaves(N, C, entries) /\ P \subseteq TrieKeys
  BY DEF TrieOk, PresentIn
<1>2. trie.len = Cardinality(Present)
  BY DEF TrieOk, Present, PresentIn
<1>3. \A k \in TrieKeys : get(trie, k) = Claim(k)
  BY GetClaims
<1> HIDE DEF P
<1>4. Reached = Used(N)
  <2>1. CASE trie.root = 0
    <3>1. P = {}
      BY <1>1, <2>1, RootZero
    <3>2. Used(N) = {}
      BY <1>1, <3>1 DEF Tree, Rooted
    <3> QED BY <2>1, <3>2 DEF Reached
  <2>2. CASE trie.root # 0
    <3>1. P # {}
      BY <1>1, <2>2, RootZero
    <3>2. UNION {ToSet(descend(trie, k)) : k \in TrieKeys} = Used(N)
      BY <1>1, <3>1, UsedLead
    <3> QED BY <2>2, <3>2 DEF Reached
  <2> QED BY <2>1, <2>2
<1>5. f \in Seq(DOMAIN N) /\ DOMAIN f = 1..Len(f)
  BY <1>1, ArenaDomain
<1>6. \A i \in DOMAIN N : N[i] = Freed <=> i \in ToSet(f)
  BY <1>1, <1>5 DEF Arena, Freeds, ToSet
<1>7. \A i \in DOMAIN N : N[i] = Freed <=> i \notin Used(N)
  BY <1>1, NodeKinds DEF Tree, Used
<1>8. ToSet(f) \subseteq DOMAIN N /\ Used(N) \subseteq DOMAIN N
  BY <1>5 DEF ToSet, Used
<1>9. Used(N) \cup ToSet(f) = DOMAIN N /\ Used(N) \cap ToSet(f) = {}
  BY <1>6, <1>7, <1>8
<1>10. \A m, n \in DOMAIN f : f[m] = f[n] => m = n
  BY <1>1, <1>5 DEF Arena, Freeds
<1>11. ASSUME NEW i \in Used(N)
       PROVE  /\ Below(i) \subseteq Used(N) \ {trie.root}
              /\ IsBranch(trie, i) => N[i].left # N[i].right
  <2>1. ASSUME NEW c \in Below(i) PROVE N[i].kind = "branch" /\ (c = N[i].left \/ c = N[i].right)
    BY DEF Below, IsBranch
  <2>2. ASSUME NEW c \in Below(i) PROVE c \in Used(N) /\ c # trie.root
    BY <1>1, <2>1, OnePlace
  <2>3. IsBranch(trie, i) => N[i].left # N[i].right
    BY <1>1, TwoSides DEF IsBranch
  <2> QED BY <2>2, <2>3
<1>12. ASSUME NEW i \in Used(N), NEW j \in Used(N), i # j PROVE Below(i) \cap Below(j) = {}
  <2> SUFFICES ASSUME NEW c, c \in Below(i), c \in Below(j) PROVE FALSE
    OBVIOUS
  <2>1. N[i].kind = "branch" /\ (c = N[i].left \/ c = N[i].right)
    BY DEF Below, IsBranch
  <2>2. N[j].kind = "branch" /\ (c = N[j].left \/ c = N[j].right)
    BY DEF Below, IsBranch
  <2>3. j = i
    BY <1>1, <2>1, <2>2, OnePlace
  <2> QED BY <1>12, <2>3
<1> HIDE DEF N, f
<1> QED BY <1>2, <1>3, <1>4, <1>9, <1>10, <1>11, <1>12 DEF ArenaExact, N, f

-----------------------------------------------------------------------------
(* TrieProof::verify *)

LEMMA DigestKinds ==
  ASSUME NEW k, NEW v, NEW l, NEW y, NEW b, NEW x, NEW z, NEW c, NEW q, NEW r
  PROVE  /\ leaf_digest(k, v) # branch_digest(b, x, z) /\ leaf_digest(k, v) # EMPTY
         /\ branch_digest(b, x, z) # EMPTY
         /\ leaf_digest(k, v) = leaf_digest(l, y) => k = l /\ v = y
         /\ branch_digest(b, x, z) = branch_digest(c, q, r) => b = c /\ x = q /\ z = r
BY DEF leaf_digest, branch_digest, EMPTY

\* The digest after the n lowest steps, g being those before.
LiftAt(p, k, g, n) ==
  IF n = 0 THEN p.terminal[2]
  ELSE IF k[p.steps[Len(p.steps) + 1 - n].bit] = 1
       THEN branch_digest(p.steps[Len(p.steps) + 1 - n].bit, p.steps[Len(p.steps) + 1 - n].sibling, g[n - 1])
       ELSE branch_digest(p.steps[Len(p.steps) + 1 - n].bit, g[n - 1], p.steps[Len(p.steps) + 1 - n].sibling)

IsLift(g, p, k) == g = [n \in 0..Len(p.steps) |-> LiftAt(p, k, g, n)]

\* What TrieProof::verify asks, g being its digests.
Accepts(g, p, rt, k, c) ==
  IF p.terminal = <<>>
  THEN c = <<>> /\ p.steps = <<>> /\ rt = EMPTY
  ELSE /\ IF c = <<>> THEN p.terminal[1] # k
          ELSE p.terminal[1] = k /\ p.terminal[2] = c[1]
       /\ \A n \in 1..(Len(p.steps) - 1) : p.steps[n].bit < p.steps[n + 1].bit
       /\ rt = g[Len(p.steps)]

\* The loop of TrieProof::verify runs: its function exists.
LEMMA LiftExists ==
  ASSUME NEW p, Len(p.steps) \in Nat, NEW k
  PROVE  \E g : IsLift(g, p, k) /\ \A rt, c : verify(p, rt, k, c) <=> Accepts(g, p, rt, k, c)
<1> DEFINE L == Len(p.steps)
           Upto(m, g) == \A n \in 0..L : n <= m => g[n] = LiftAt(p, k, g, n)
           T == {m \in Nat : \E g : Upto(m, g)}
<1>0. ASSUME NEW g, NEW h, NEW n \in 0..L, n # 0 => g[n - 1] = h[n - 1] PROVE LiftAt(p, k, g, n) = LiftAt(p, k, h, n)
  BY <1>0 DEF LiftAt
<1>1. 0 \in T
  <2> DEFINE g == [n \in 0..L |-> p.terminal[2]]
  <2>1. Upto(0, g)
    BY DEF LiftAt
  <2> HIDE DEF Upto, g
  <2> QED BY <2>1
<1>2. ASSUME NEW m \in Nat, m \in T PROVE m + 1 \in T
  <2>1. PICK g : Upto(m, g)
    BY <1>2
  <2> DEFINE h == [n \in 0..L |-> LiftAt(p, k, g, n)]
  <2>2. ASSUME NEW n \in 0..L, n <= m + 1 PROVE h[n] = LiftAt(p, k, h, n)
    <3>1. n # 0 => n - 1 \in 0..L /\ n - 1 <= m
      BY <2>2
    <3>2. n # 0 => g[n - 1] = h[n - 1]
      BY <2>1, <3>1
    <3>3. h[n] = LiftAt(p, k, g, n)
      OBVIOUS
    <3> HIDE DEF h, L
    <3> QED BY <1>0, <3>2, <3>3
  <2>3. Upto(m + 1, h)
    <3> HIDE DEF h
    <3> QED BY <2>2
  <2> HIDE DEF Upto, h
  <2> QED BY <2>3
<1>3. L \in T
  <2> HIDE DEF T
  <2> QED BY <1>1, <1>2, Induction
<1>4. PICK g : Upto(L, g)
  BY <1>3
<1> DEFINE h == [n \in 0..L |-> g[n]]
<1>5. IsLift(h, p, k)
  <2>1. ASSUME NEW n \in 0..L PROVE h[n] = LiftAt(p, k, h, n)
    <3>1. n # 0 => n - 1 \in 0..L
      OBVIOUS
    <3>2. h[n] = LiftAt(p, k, g, n)
      BY <1>4
    <3>3. n # 0 => g[n - 1] = h[n - 1]
      BY <3>1
    <3> HIDE DEF h, L
    <3> QED BY <1>0, <3>2, <3>3
  <2>2. h = [n \in 0..L |-> h[n]]
    OBVIOUS
  <2> HIDE DEF h
  <2> QED BY <2>1, <2>2 DEF IsLift
<1> DEFINE f == CHOOSE d : IsLift(d, p, k)
<1>6. IsLift(f, p, k)
  <2> HIDE DEF h
  <2> QED BY <1>5, Zenon
<1>7. \A rt, c : verify(p, rt, k, c) <=> Accepts(f, p, rt, k, c)
  BY Zenon DEF verify, Accepts, IsLift, LiftAt
<1> HIDE DEF f
<1> QED BY <1>6, <1>7

\* What Trie::prove makes, at any time.
Made(p) ==
  /\ Len(p.steps) \in Nat
  /\ p.terminal = <<>> \/ \E q, v : p.terminal = <<q, leaf_digest(q, v)>>

\* The digests of TrieProof::verify, where they give the root, are those of the
\* nodes that lead to the key.
LEMMA LiftFollows ==
  ASSUME NEW t, NEW C, NEW P, NEW k, NEW w, NEW x, NEW l, Reach(t, C, P, k, w, x, l),
         NEW H, HashOf(t, H), NEW p, Made(p), p.terminal # <<>>, NEW g, IsLift(g, p, k),
         g[Len(p.steps)] = H[t.root].digest,
         NEW y, H[x].digest = leaf_digest(l, y)
  PROVE  p.terminal = <<l, leaf_digest(l, y)>>
<1> DEFINE N == t.nodes
           L == Len(p.steps)
           W == Len(w)
           T == {m \in Nat : m <= L => m + 1 <= W /\ g[L - m] = H[w[m + 1]].digest}
<1>0. PICK q, v : p.terminal = <<q, leaf_digest(q, v)>>
  BY DEF Made
<1>1. /\ L \in Nat /\ W \in Nat \ {0} /\ w[1] = t.root /\ x = w[W]
      /\ \A n \in 1..W : w[n] \in Used(N)
      /\ \A n \in 1..(W - 1) : N[w[n]].kind = "branch" /\ w[n + 1] = Child(N[w[n]], k)
  BY DEF Made, Reach
<1>2. \A n \in 0..L : g[n] = LiftAt(p, k, g, n)
  BY DEF IsLift
<1>3. \A n \in 1..(W - 1) :
         H[w[n]].digest = branch_digest(N[w[n]].bit, H[N[w[n]].left].digest, H[N[w[n]].right].digest)
  <2> SUFFICES ASSUME NEW n \in 1..(W - 1)
               PROVE  H[w[n]].digest = branch_digest(N[w[n]].bit, H[N[w[n]].left].digest, H[N[w[n]].right].digest)
    OBVIOUS
  <2>1. w[n] \in Used(N) /\ N[w[n]].kind = "branch"
    BY <1>1
  <2> QED BY <2>1 DEF HashOf
<1> HIDE DEF L, W, N
<1>4. 0 \in T
  BY <1>1 DEF L
<1>5. ASSUME NEW m \in Nat, m \in T PROVE m + 1 \in T
  <2> SUFFICES ASSUME m + 1 <= L PROVE m + 2 <= W /\ g[L - (m + 1)] = H[w[m + 2]].digest
    OBVIOUS
  <2> DEFINE n == L - m
             s == p.steps[m + 1]
             d == g[n - 1]
  <2>1. /\ n \in 0..L /\ n # 0 /\ L + 1 - n = m + 1 /\ L - (m + 1) = n - 1
        /\ m + 1 <= W /\ m + 1 \in 1..W /\ (m + 1) + 1 = m + 2
    BY <1>1, <1>5
  <2>2. g[n] = H[w[m + 1]].digest
    BY <1>1, <1>5
  <2>3. g[n] = LiftAt(p, k, g, n)
    BY <1>2, <2>1
  <2> HIDE DEF n
  <2>4. g[n] = IF k[s.bit] = 1 THEN branch_digest(s.bit, s.sibling, d) ELSE branch_digest(s.bit, d, s.sibling)
    BY <2>1, <2>3 DEF LiftAt, L
  <2> HIDE DEF s, d
  <2>5. m + 1 # W
    <3>1. H[w[W]].digest = leaf_digest(l, y)
      BY <1>1
    <3> SUFFICES ASSUME m + 1 = W PROVE FALSE
      OBVIOUS
    <3>2. g[n] = leaf_digest(l, y)
      BY <2>2, <3>1
    <3> QED BY <2>4, <3>2, DigestKinds
  <2>6. m + 1 \in 1..(W - 1) /\ m + 2 <= W
    BY <1>1, <2>1, <2>5
  <2> DEFINE i == w[m + 1]
             a == H[N[i].left].digest
             b == H[N[i].right].digest
  <2>7. g[n] = branch_digest(N[i].bit, a, b) /\ w[m + 2] = Child(N[i], k)
    <3>1. w[(m + 1) + 1] = Child(N[i], k)
      BY <1>1, <2>6
    <3> QED BY <1>3, <2>1, <2>2, <2>6, <3>1
  <2>8. CASE k[s.bit] = 1
    <3>1. branch_digest(s.bit, s.sibling, d) = branch_digest(N[i].bit, a, b)
      BY <2>4, <2>7, <2>8
    <3> HIDE DEF a, b, i
    <3>2. s.bit = N[i].bit /\ d = b
      BY <3>1, DigestKinds
    <3>3. w[m + 2] = N[i].right
      BY <2>7, <2>8, <3>2 DEF Child
    <3>4. d = H[w[m + 2]].digest
      BY <3>2, <3>3 DEF b
    <3> QED BY <2>1, <2>6, <3>4 DEF d
  <2>9. CASE k[s.bit] # 1
    <3>1. branch_digest(s.bit, d, s.sibling) = branch_digest(N[i].bit, a, b)
      BY <2>4, <2>7, <2>9
    <3> HIDE DEF a, b, i
    <3>2. s.bit = N[i].bit /\ d = a
      BY <3>1, DigestKinds
    <3>3. w[m + 2] = N[i].left
      BY <2>7, <2>9, <3>2 DEF Child
    <3>4. d = H[w[m + 2]].digest
      BY <3>2, <3>3 DEF a
    <3> QED BY <2>1, <2>6, <3>4 DEF d
  <2> QED BY <2>8, <2>9
<1>6. L \in T
  <2> HIDE DEF T
  <2> QED BY <1>1, <1>4, <1>5, Induction
<1>7. L + 1 <= W /\ g[0] = H[w[L + 1]].digest
  BY <1>1, <1>6
<1>8. g[0] = leaf_digest(q, v)
  <2>1. g[0] = LiftAt(p, k, g, 0)
    BY <1>1, <1>2
  <2> QED BY <1>0, <2>1 DEF LiftAt
<1>9. L + 1 = W
  <2> SUFFICES ASSUME L + 1 \in 1..(W - 1) PROVE FALSE
    BY <1>1, <1>7
  <2> DEFINE i == w[L + 1]
  <2>1. H[i].digest = branch_digest(N[i].bit, H[N[i].left].digest, H[N[i].right].digest)
    BY <1>3
  <2>2. leaf_digest(q, v) = branch_digest(N[i].bit, H[N[i].left].digest, H[N[i].right].digest)
    BY <1>7, <1>8, <2>1
  <2> HIDE DEF i
  <2> QED BY <2>2, DigestKinds
<1>10. leaf_digest(q, v) = leaf_digest(l, y)
  BY <1>1, <1>7, <1>8, <1>9
<1>11. q = l /\ v = y
  BY <1>10, DigestKinds
<1> QED BY <1>0, <1>11

LEMMA VerifySound ==
  ASSUME NEW C, TrieOk(trie, C, entries), NEW p, Made(p), NEW k \in TrieKeys, NEW c,
         verify(p, root(trie), k, c), c = <<>> \/ \E d : c = <<d>>
  PROVE  c = Claim(k)
<1> DEFINE P == PresentIn(entries)
           N == trie.nodes
           H == hash(trie)
<1>1. Arena(trie) /\ Tree(N, trie.root, C, P) /\ Leaves(N, C, entries) /\ Clean(N) /\ P \subseteq TrieKeys
  BY DEF TrieOk, PresentIn
<1>2. k \in P <=> entries[k] # <<>>
  BY DEF PresentIn
<1> HIDE DEF P
<1>3. PICK g : IsLift(g, p, k) /\ \A rt, b : verify(p, rt, k, b) <=> Accepts(g, p, rt, k, b)
  BY LiftExists DEF Made
<1>4. Accepts(g, p, root(trie), k, c)
  BY <1>3
<1>5. CASE trie.root = 0
  <2>1. P = {} /\ root(trie) = EMPTY
    BY <1>1, <1>5, RootZero DEF root
  <2>2. Claim(k) = <<>>
    BY <1>2, <2>1 DEF Claim
  <2>3. p.terminal = <<>>
    <3> SUFFICES ASSUME p.terminal # <<>> PROVE FALSE
      OBVIOUS
    <3> DEFINE L == Len(p.steps)
    <3>1. g[L] = EMPTY /\ L \in Nat
      BY <1>4, <2>1 DEF Accepts, Made
    <3>2. PICK q, v : p.terminal = <<q, leaf_digest(q, v)>>
      BY DEF Made
    <3>3. g[L] = LiftAt(p, k, g, L)
      BY <1>3, <3>1 DEF IsLift
    <3>4. g[L] # EMPTY
      <4>1. CASE L = 0
        <5>1. g[L] = leaf_digest(q, v)
          BY <3>2, <3>3, <4>1 DEF LiftAt
        <5> QED BY <5>1, DigestKinds
      <4>2. CASE L # 0
        <5>1. \E b, x, z : g[L] = branch_digest(b, x, z)
          <6> HIDE DEF L
          <6> QED BY <3>3, <4>2 DEF LiftAt
        <5> QED BY <5>1, DigestKinds
      <4> QED BY <4>1, <4>2
    <3> QED BY <3>1, <3>4
  <2> QED BY <1>4, <2>2, <2>3 DEF Accepts
<1>6. CASE trie.root # 0
  <2>1. P # {}
    BY <1>1, <1>6, RootZero
  <2>2. PICK w, x, l : w = descend(trie, k) /\ Reach(trie, C, P, k, w, x, l)
    BY <1>1, <2>1, Reaches
  <2>3. /\ x \in Used(N) /\ N[x].kind = "leaf" /\ l = N[x].key /\ l \in P /\ (k \in P => l = k)
        /\ trie.root \in Used(N)
    BY <1>1, <2>1, <2>2 DEF Reach, Tree, Rooted
  <2>4. HashOf(trie, H) /\ root(trie) = H[trie.root].digest
    BY <1>1, <1>6, Hashes DEF root
  <2> HIDE DEF H
  <2> DEFINE y == entries[l][1]
  <2>5. H[x].digest = leaf_digest(l, y)
    <3>1. x \in DOMAIN N /\ H[x].digest = N[x].digest
      BY <2>3, <2>4 DEF Used, HashOf
    <3>2. N[x].digest = leaf_digest(N[x].key, entries[N[x].key][1])
      BY <1>1, <2>3, <3>1 DEF Leaves
    <3> QED BY <2>3, <3>1, <3>2
  <2>6. p.terminal # <<>>
    <3> SUFFICES ASSUME p.terminal = <<>> PROVE FALSE
      OBVIOUS
    <3>1. H[trie.root].digest = EMPTY
      BY <1>4, <2>4 DEF Accepts
    <3>2. CASE N[trie.root].kind = "branch"
      <4>1. \E b, a, z : H[trie.root].digest = branch_digest(b, a, z)
        BY <2>3, <2>4, <3>2 DEF HashOf
      <4> QED BY <3>1, <4>1, DigestKinds
    <3>3. CASE N[trie.root].kind = "leaf"
      <4>1. trie.root \in DOMAIN N /\ H[trie.root].digest = N[trie.root].digest
        BY <2>3, <2>4, <3>3 DEF HashOf, Used
      <4>2. \E b, z : N[trie.root].digest = leaf_digest(b, z)
        BY <1>1, <3>3, <4>1 DEF Leaves
      <4> QED BY <3>1, <4>1, <4>2, DigestKinds
    <3>4. N[trie.root].kind = "branch" \/ N[trie.root].kind = "leaf"
      BY <1>1, <2>3, NodeKinds DEF Tree, Used
    <3> QED BY <3>2, <3>3, <3>4
  <2>7. g[Len(p.steps)] = H[trie.root].digest
    BY <1>4, <2>4, <2>6 DEF Accepts
  <2> HIDE DEF y
  <2>8. p.terminal = <<l, leaf_digest(l, y)>>
    BY <1>3, <2>2, <2>4, <2>5, <2>6, <2>7, LiftFollows
  <2>9. IF c = <<>> THEN l # k ELSE l = k /\ leaf_digest(l, y) = c[1]
    BY <1>4, <2>8 DEF Accepts
  <2>10. CASE c = <<>>
    BY <1>2, <2>3, <2>9, <2>10 DEF Claim
  <2>11. CASE c # <<>>
    <3>1. l = k /\ c = <<leaf_digest(l, y)>>
      BY <2>9, <2>11
    <3> QED BY <1>2, <2>3, <3>1 DEF Claim, y
  <2> QED BY <2>10, <2>11
<1> QED BY <1>5, <1>6

\* A proof of k along its walk w to the leaf x of l.
ProofAlong(p, N, k, w, x, l) ==
  /\ Len(p.steps) = Len(w) - 1
  /\ \A n \in 1..(Len(w) - 1) :
       p.steps[n].bit = N[w[n]].bit /\ p.steps[n].sibling = N[Sibling(N[w[n]], k)].digest
  /\ p.terminal = <<l, N[x].digest>>

LEMMA PathAlong ==
  ASSUME NEW t, NEW C, NEW P, NEW k, NEW w, NEW x, NEW l, w = descend(t, k), Reach(t, C, P, k, w, x, l), t.root # 0
  PROVE  ProofAlong(PathProof(t, k), t.nodes, k, w, x, l)
<1> DEFINE N == t.nodes
           At(n) == [bit |-> N[w[n]].bit, sibling |-> N[Sibling(N[w[n]], k)].digest]
           q == [n \in 1..(Len(w) - 1) |-> At(n)]
           p == PathProof(t, k)
<1>1. Len(w) \in Nat \ {0} /\ w \in Seq(Used(N)) /\ x = w[Len(w)] /\ l = N[x].key
  BY DEF Reach
<1>2. Last(w) = x
  BY <1>1 DEF Last
<1>3. p = [steps |-> q, terminal |-> <<N[Last(w)].key, N[Last(w)].digest>>]
  BY Zenon DEF PathProof
<1> HIDE DEF p
<1>4. p.steps = q /\ p.terminal = <<l, N[x].digest>>
  <2> HIDE DEF q
  <2> QED BY <1>1, <1>2, <1>3
<1>5. \A n \in 1..(Len(w) - 1) : q[n].bit = N[w[n]].bit /\ q[n].sibling = N[Sibling(N[w[n]], k)].digest
  OBVIOUS
<1>6. Len(q) = Len(w) - 1
  <2>1. IsVector(q, Len(w) - 1)
    BY DEF IsVector
  <2> DEFINE m == Len(w) - 1
  <2>2. m \in Nat
    BY <1>1
  <2> HIDE DEF q, m
  <2>3. Len(q) = m
    BY <2>1, <2>2, VectorOf DEF m
  <2> QED BY <2>3 DEF m
<1> HIDE DEF q
<1>7. ProofAlong(p, N, k, w, x, l)
  BY <1>4, <1>5, <1>6 DEF ProofAlong
<1> QED BY <1>7 DEF p

\* The proof that Trie::prove makes passes for the entry.
LEMMA VerifyComplete ==
  ASSUME NEW C, TrieOk(trie, C, entries), NEW k \in TrieKeys
  PROVE  verify(prove(trie, k), root(trie), k, Claim(k)) /\ Made(prove(trie, k))
<1> DEFINE P == PresentIn(entries)
           u == Hashed(trie)
           N == u.nodes
           p == PathProof(u, k)
           rt == root(trie)
<1>0. prove(trie, k) = p
  BY DEF prove
<1>1. Rehashed(trie, u, C, entries)
  BY HashedKeeps
<1> HIDE DEF u
<1>2. /\ Arena(u) /\ Tree(N, u.root, C, P) /\ Leaves(N, C, entries) /\ Clean(N) /\ P \subseteq TrieKeys
      /\ Unmarked(N) /\ u.root = trie.root /\ (u.root # 0 => rt = N[u.root].digest)
  BY <1>1 DEF Rehashed, TrieOk, PresentIn
<1>3. k \in P <=> entries[k] # <<>>
  BY DEF PresentIn
<1> HIDE DEF P
<1>4. CASE u.root = 0
  <2>1. P = {} /\ rt = EMPTY
    BY <1>2, <1>4, RootZero DEF root
  <2>2. Claim(k) = <<>>
    BY <1>3, <2>1 DEF Claim
  <2>3. p = [steps |-> <<>>, terminal |-> <<>>]
    BY <1>4 DEF PathProof
  <2> HIDE DEF p, rt
  <2>4. p.steps = <<>> /\ p.terminal = <<>> /\ Len(p.steps) \in Nat
    BY <2>3
  <2>5. Made(p)
    BY <2>4 DEF Made
  <2>6. PICK g : IsLift(g, p, k) /\ \A r, b : verify(p, r, k, b) <=> Accepts(g, p, r, k, b)
    BY <2>4, LiftExists
  <2>7. Accepts(g, p, rt, k, Claim(k))
    BY <2>1, <2>2, <2>4 DEF Accepts
  <2> QED BY <1>0, <2>5, <2>6, <2>7 DEF rt
<1>5. CASE u.root # 0
  <2>1. P # {}
    BY <1>2, <1>5, RootZero
  <2>2. PICK w, x, l : w = descend(u, k) /\ Reach(u, C, P, k, w, x, l)
    BY <1>2, <2>1, Reaches
  <2>3. ProofAlong(p, N, k, w, x, l)
    BY <1>5, <2>2, PathAlong
  <2> HIDE DEF p, rt
  <2> DEFINE W == Len(w)
             L == Len(p.steps)
  <2>4. /\ W \in Nat \ {0} /\ w[1] = u.root /\ x = w[W] /\ x \in Used(N)
        /\ N[x].kind = "leaf" /\ l = N[x].key /\ l \in P /\ (k \in P => l = k)
        /\ \A n \in 1..W : w[n] \in Used(N)
        /\ \A m, n \in 1..W : m < n => BitOf(N[w[m]]) < BitOf(N[w[n]])
        /\ \A n \in 1..(W - 1) : N[w[n]].kind = "branch" /\ w[n + 1] = Child(N[w[n]], k)
    BY <2>2 DEF Reach
  <2>5. /\ L = W - 1 /\ p.terminal = <<l, N[x].digest>>
        /\ \A n \in 1..(W - 1) :
             p.steps[n].bit = N[w[n]].bit /\ p.steps[n].sibling = N[Sibling(N[w[n]], k)].digest
    BY <2>3 DEF ProofAlong
  <2>6. N[x].digest = leaf_digest(l, entries[l][1])
    <3>1. x \in DOMAIN N
      BY <2>4 DEF Used
    <3>2. N[x].digest = leaf_digest(N[x].key, entries[N[x].key][1])
      BY <1>2, <2>4, <3>1 DEF Leaves
    <3> QED BY <2>4, <3>2
  <2>7. Made(p) /\ L \in Nat
    BY <2>4, <2>5, <2>6 DEF Made
  <2>8. PICK g : IsLift(g, p, k) /\ \A r, b : verify(p, r, k, b) <=> Accepts(g, p, r, k, b)
    BY <2>7, LiftExists
  <2>9. \A n \in 0..L : g[n] = LiftAt(p, k, g, n)
    BY <2>8 DEF IsLift
  <2>10. ASSUME NEW n \in 1..(W - 1)
         PROVE  N[w[n]].digest = branch_digest(N[w[n]].bit, N[N[w[n]].left].digest, N[N[w[n]].right].digest)
    <3>1. w[n] \in Used(N) /\ w[n] \in DOMAIN N /\ N[w[n]].kind = "branch"
      BY <2>4 DEF Used
    <3>2. ~N[w[n]].dirty
      BY <1>2, <3>1 DEF Unmarked
    <3> QED BY <1>2, <3>1, <3>2 DEF Clean
  <2> DEFINE T == {n \in Nat : n <= L => g[n] = N[w[W - n]].digest}
  <2> HIDE DEF W, N
  <2>11. 0 \in T
    <3>1. g[0] = LiftAt(p, k, g, 0)
      BY <2>7, <2>9
    <3>2. g[0] = N[x].digest
      BY <2>5, <3>1 DEF LiftAt
    <3>3. W - 0 = W
      BY <2>4
    <3> QED BY <2>4, <3>2, <3>3
  <2>12. ASSUME NEW n \in Nat, n \in T PROVE n + 1 \in T
    <3> SUFFICES ASSUME n + 1 <= L PROVE g[n + 1] = N[w[W - (n + 1)]].digest
      OBVIOUS
    <3> DEFINE m == W - (n + 1)
               s == p.steps[m]
               i == w[m]
               d == g[n]
    <3>0. W \in Nat /\ L = W - 1
      BY <2>4, <2>5
    <3>1. /\ m \in 1..(W - 1) /\ m + 1 = W - n /\ n <= L /\ n + 1 \in 0..L /\ n + 1 # 0
          /\ L + 1 - (n + 1) = m /\ (n + 1) - 1 = n
      <4> HIDE DEF L, T
      <4> QED BY <3>0
    <3>2. d = N[w[m + 1]].digest
      BY <2>12, <3>1
    <3>3. g[n + 1] = LiftAt(p, k, g, n + 1)
      BY <2>9, <3>1
    <3> HIDE DEF m
    <3>4. g[n + 1] = IF k[s.bit] = 1 THEN branch_digest(s.bit, s.sibling, d) ELSE branch_digest(s.bit, d, s.sibling)
      BY <3>1, <3>3 DEF LiftAt
    <3>5. s.bit = N[i].bit /\ s.sibling = N[Sibling(N[i], k)].digest /\ w[m + 1] = Child(N[i], k)
      BY <2>4, <2>5, <3>1
    <3>6. N[i].digest = branch_digest(N[i].bit, N[N[i].left].digest, N[N[i].right].digest)
      BY <2>10, <3>1
    <3> HIDE DEF s, i, d
    <3>7. CASE k[s.bit] = 1
      <4>1. d = N[N[i].right].digest /\ s.sibling = N[N[i].left].digest
        BY <3>2, <3>5, <3>7 DEF Child, Sibling
      <4>2. g[n + 1] = N[i].digest
        BY <3>4, <3>5, <3>6, <3>7, <4>1
      <4> QED BY <4>2 DEF i, m
    <3>8. CASE k[s.bit] # 1
      <4>1. d = N[N[i].left].digest /\ s.sibling = N[N[i].right].digest
        BY <3>2, <3>5, <3>8 DEF Child, Sibling
      <4>2. g[n + 1] = N[i].digest
        BY <3>4, <3>5, <3>6, <3>8, <4>1
      <4> QED BY <4>2 DEF i, m
    <3> QED BY <3>7, <3>8
  <2>13. L \in T
    <3> HIDE DEF T, L
    <3> QED BY <2>7, <2>11, <2>12, Induction
  <2>14. g[L] = rt
    <3>1. W - L = 1 /\ g[L] = N[w[W - L]].digest
      BY <2>4, <2>5, <2>7, <2>13
    <3> QED BY <1>2, <1>5, <2>4, <3>1
  <2>15. \A n \in 1..(L - 1) : p.steps[n].bit < p.steps[n + 1].bit
    <3> SUFFICES ASSUME NEW n \in 1..(L - 1) PROVE p.steps[n].bit < p.steps[n + 1].bit
      OBVIOUS
    <3>1. n \in 1..(W - 1) /\ n + 1 \in 1..(W - 1) /\ n \in 1..W /\ n + 1 \in 1..W /\ n < n + 1
      BY <2>4, <2>5
    <3>2. p.steps[n].bit = N[w[n]].bit /\ p.steps[n + 1].bit = N[w[n + 1]].bit
      BY <2>5, <3>1
    <3>3. N[w[n]].kind = "branch" /\ N[w[n + 1]].kind = "branch"
      BY <2>4, <3>1
    <3>4. BitOf(N[w[n]]) < BitOf(N[w[n + 1]])
      BY <2>4, <3>1
    <3> QED BY <3>2, <3>3, <3>4 DEF BitOf
  <2>16. IF Claim(k) = <<>> THEN p.terminal[1] # k ELSE p.terminal[1] = k /\ p.terminal[2] = Claim(k)[1]
    <3>1. p.terminal[1] = l /\ p.terminal[2] = leaf_digest(l, entries[l][1])
      BY <2>5, <2>6
    <3>2. CASE k \in P
      <4>1. l = k /\ Claim(k) = <<leaf_digest(k, entries[k][1])>>
        BY <1>3, <2>4, <3>2 DEF Claim
      <4> QED BY <3>1, <4>1
    <3>3. CASE k \notin P
      <4>1. l # k /\ Claim(k) = <<>>
        BY <1>3, <2>4, <3>3 DEF Claim
      <4> QED BY <3>1, <4>1
    <3> QED BY <3>2, <3>3
  <2>17. p.terminal # <<>>
    BY <2>5
  <2>18. Accepts(g, p, rt, k, Claim(k))
    BY <2>14, <2>15, <2>16, <2>17 DEF Accepts
  <2> QED BY <1>0, <2>7, <2>8, <2>18 DEF rt
<1> QED BY <1>4, <1>5

\* What holds at all times: the trie is that of the entries, and the client's
\* proof is one that Trie::prove made.
TrieInductive ==
  /\ Entries(entries) /\ \E C : TrieOk(trie, C, entries)
  /\ held = <<>> \/ \E p : held = <<p>> /\ Made(p)

LEMMA TrieStart ==
  ASSUME TrieInit PROVE TrieInductive
<1> DEFINE C == <<>>
<1>1. trie = New /\ Entries(entries) /\ PresentIn(entries) = {} /\ held = <<>>
  BY DEF TrieInit, Entries, PresentIn
<1>2. trie.nodes = <<>> /\ trie.free = <<>> /\ trie.root = 0 /\ trie.len = 0 /\ IsTrie(trie)
  BY <1>1 DEF New, IsTrie
<1>3. DOMAIN trie.nodes = {} /\ Used(trie.nodes) = {}
  BY <1>2 DEF Used
<1>4. Arena(trie)
  <2>1. IsVector(trie.nodes, 0) /\ Len(trie.nodes) = 0
    BY <1>2 DEF IsVector
  <2>2. Freeds(trie.nodes, trie.free)
    BY <1>2, <1>3 DEF Freeds
  <2> QED BY <1>2, <2>1, <2>2 DEF Arena
<1>5. Tree(trie.nodes, trie.root, C, {})
  BY <1>2, <1>3 DEF Tree, Nodes, Parts, Holds, Rooted, Parented
<1>6. Leaves(trie.nodes, C, entries) /\ Clean(trie.nodes)
  BY <1>3 DEF Leaves, Clean
<1>7. IsFiniteSet({}) /\ Cardinality({}) = 0
  BY FS_EmptySet
<1>8. TrieOk(trie, C, entries)
  BY <1>1, <1>2, <1>4, <1>5, <1>6, <1>7 DEF TrieOk
<1> QED BY <1>1, <1>8 DEF TrieInductive

LEMMA TrieSteps ==
  ASSUME TrieInductive, [TrieNext]_trieVars PROVE TrieInductive'
<1>0. Entries(entries) /\ (held = <<>> \/ \E p : held = <<p>> /\ Made(p))
  BY DEF TrieInductive
<1>1. PICK C : TrieOk(trie, C, entries)
  BY DEF TrieInductive
<1>2. ASSUME NEW k \in TrieKeys, NEW v \in Vals[k], Set(k, v) PROVE TrieInductive'
  <2>1. trie' = set(trie, k, leaf_digest(k, v)) /\ entries' = Enter(entries, k, <<v>>) /\ held' = held
    BY <1>2 DEF Set, Enter
  <2>2. \E D : TrieOk(trie', D, entries')
    BY <1>0, <1>1, <2>1, SetKeeps
  <2>3. Entries(entries')
    BY <1>0, <2>1, EntriesPut
  <2> QED BY <1>0, <2>1, <2>2, <2>3 DEF TrieInductive
<1>3. ASSUME NEW k \in TrieKeys, Unset(k) PROVE TrieInductive'
  <2>1. trie' = remove(trie, k) /\ entries' = Enter(entries, k, <<>>) /\ held' = held
    BY <1>3 DEF Unset, Enter
  <2>2. \E D : TrieOk(trie', D, entries')
    BY <1>0, <1>1, <2>1, RemoveKeeps
  <2>3. Entries(entries')
    BY <1>0, <2>1, EntriesPut
  <2> QED BY <1>0, <2>1, <2>2, <2>3 DEF TrieInductive
<1>4. ASSUME trie' = Hashed(trie), entries' = entries PROVE TrieOk(trie', C, entries')
  <2>1. TrieOk(Hashed(trie), C, entries)
    BY <1>1, HashedKeeps DEF Rehashed
  <2> QED BY <1>4, <2>1
<1>5. ASSUME Root PROVE TrieInductive'
  <2>1. TrieOk(trie', C, entries') /\ held' = held /\ entries' = entries
    BY <1>4, <1>5 DEF Root
  <2> QED BY <1>0, <2>1 DEF TrieInductive
<1>6. ASSUME NEW k \in TrieKeys, Prove(k) PROVE TrieInductive'
  <2>1. TrieOk(trie', C, entries') /\ held' = <<prove(trie, k)>> /\ entries' = entries
    BY <1>4, <1>6 DEF Prove
  <2>2. Made(prove(trie, k))
    BY <1>1, VerifyComplete
  <2> QED BY <1>0, <2>1, <2>2 DEF TrieInductive
<1>7. ASSUME UNCHANGED trieVars PROVE TrieInductive'
  <2>1. trie' = trie /\ entries' = entries /\ held' = held
    BY <1>7 DEF trieVars
  <2> QED BY <1>0, <1>1, <2>1 DEF TrieInductive
<1> QED BY <1>2, <1>3, <1>5, <1>6, <1>7 DEF TrieNext

LEMMA TrieInvariant == TrieSpec => []TrieInductive
<1>1. TrieInit => TrieInductive
  BY TrieStart
<1>2. TrieInductive /\ [TrieNext]_trieVars => TrieInductive'
  BY TrieSteps
<1> QED BY <1>1, <1>2, PTL DEF TrieSpec

\* Trie::root answers the digest of the present entries, whatever the keys, their
\* width and the order of set, remove, root and prove before.
THEOREM RootIsCanonical == TrieSpec => []RootCanonical
<1>1. TrieInductive => RootCanonical
  BY RootCanon DEF TrieInductive, RootCanonical
<1> QED BY <1>1, TrieInvariant, PTL

\* Trie::set and Trie::remove neither leak a slot of the arena nor free one that
\* leads to a key, and Trie::len and Trie::get answer for the entries.
THEOREM ArenaIsExact == TrieSpec => []ArenaExact
<1>1. TrieInductive => ArenaExact
  BY ArenaOk DEF TrieInductive
<1> QED BY <1>1, TrieInvariant, PTL

\* A proof of Trie::prove passes TrieProof::verify under a later root only for what
\* is true then, and under the present root for exactly that.
THEOREM ProofsAlwaysBind == TrieSpec => []ProofsBind
<1>1. ASSUME TrieInductive PROVE ProofsBind
  <2>1. PICK C : TrieOk(trie, C, entries)
    BY <1>1 DEF TrieInductive
  <2>2. \A k \in TrieKeys : verify(prove(trie, k), root(trie), k, Claim(k))
    BY <2>1, VerifyComplete
  <2>3. ASSUME held # <<>>, NEW k \in TrieKeys, NEW c \in {<<>>} \cup {<<leaf_digest(k, v)>> : v \in Vals[k]},
               verify(held[1], root(trie), k, c)
        PROVE  c = Claim(k)
    <3>1. PICK p : held = <<p>> /\ Made(p)
      BY <1>1, <2>3 DEF TrieInductive
    <3>2. held[1] = p
      BY <3>1
    <3>3. verify(p, root(trie), k, c)
      BY <2>3, <3>2
    <3>4. c = <<>> \/ \E d : c = <<d>>
      BY <2>3
    <3> QED BY <2>1, <3>1, <3>3, <3>4, VerifySound
  <2> QED BY <2>2, <2>3 DEF ProofsBind
<1> QED BY <1>1, TrieInvariant, PTL
=============================================================================
