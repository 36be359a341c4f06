-------------------------- MODULE ShardStoreProofs --------------------------
(***************************************************************************)
(* What the operations of a WriteBuffer keep, for any entries, values and  *)
(* limits; that a TieredStore of two of them implements one map; and the   *)
(* invariants of a MemStore and of a UnimemStore.                          *)
(***************************************************************************)
EXTENDS TieredStore, MemState, UnimemState, FoldTheorems, FiniteSetTheorems,
        SequenceTheorems, TLAPS

\* What a batch of changes leaves of a row r of e, read off the index.
Row(b, e, r) ==
  IF e \in b.deleted THEN <<>>
  ELSE IF IsStaged(b, e) THEN <<b.dirty[b.positions[e]].value>>
  ELSE r

\* A buffer whose staging can be trusted.
Sound(b) == b \in Buffers /\ Exact(b) /\ WithinLimits(b)

\* The values of the assumption, one by one.
LEMMA Constants ==
  /\ MAX_PENDING_KEYS \in Nat /\ MAX_PENDING_ELEMENTS \in Nat
  /\ IsFiniteSet(Persistent)
  /\ \A e \in Persistent : e \notin Local
  /\ \A v \in Values : Len(v) \in Nat
  BY EntriesAssumption

\* The changes of a batch are what the index of the buffer finds.
LEMMA ChangesExact ==
  ASSUME NEW b \in Buffers, Exact(b), NEW r \in [Persistent -> Option],
         NEW e \in Persistent
  PROVE  Applied(Changes(b), r)[e] = Row(b, e, r[e])
<1> DEFINE Of(f) == {i \in DOMAIN b.dirty : b.dirty[i].key = f}
           Latest(f) == CHOOSE i \in Of(f) : \A j \in Of(f) : j <= i
<1>1. b.dirty \in Seq(Elements) /\ b.positions \in [Persistent -> Nat]
  BY DEF Buffers
<1>2. ASSUME IsStaged(b, e) PROVE Of(e) = {b.positions[e]}
  BY <1>1, <1>2 DEF Exact
<1>3. ASSUME ~IsStaged(b, e) PROVE Of(e) = {}
  <2>1. \A i \in DOMAIN b.dirty : i # 0
    BY <1>1
  <2> QED BY <1>3, <2>1 DEF Exact, IsStaged
<1>4. ASSUME IsStaged(b, e) PROVE Latest(e) = b.positions[e]
  <2>1. b.positions[e] \in Nat
    BY <1>1
  <2> QED BY <1>2, <1>4, <2>1
<1>5. Changes(b) = [f \in b.deleted \cup {g \in Persistent : Of(g) # {}} |->
                      IF f \in b.deleted THEN <<>> ELSE <<b.dirty[Latest(f)].value>>]
  BY DEF Changes
<1>6. Applied(Changes(b), r)[e] =
        IF e \in DOMAIN Changes(b) THEN Changes(b)[e] ELSE r[e]
  BY DEF Applied
<1> HIDE DEF Of, Latest
<1>7. CASE e \in b.deleted
  BY <1>5, <1>6, <1>7 DEF Row
<1>8. CASE e \notin b.deleted /\ IsStaged(b, e)
  BY <1>2, <1>4, <1>5, <1>6, <1>8 DEF Row
<1>9. CASE e \notin b.deleted /\ ~IsStaged(b, e)
  BY <1>3, <1>5, <1>6, <1>9 DEF Row
<1> QED BY <1>7, <1>8, <1>9

\* A put stages its value and disturbs the staging of no other entry.
LEMMA PutSound ==
  ASSUME NEW b, Sound(b), NEW e \in Entries, NEW v \in Values, CanPut(b, e, v)
  PROVE  /\ Sound(Put(b, e, v))
         /\ Put(b, e, v).cache = [b.cache EXCEPT ![e] = <<v>>]
         /\ \A f \in Persistent, r \in Option :
              Row(Put(b, e, v), f, r) = IF f = e THEN <<v>> ELSE Row(b, f, r)
<1> DEFINE c == Put(b, e, v)
<1>0. /\ b.cache \in [Entries -> Option] /\ b.dirty \in Seq(Elements)
      /\ b.deleted \subseteq Persistent /\ b.positions \in [Persistent -> Nat]
      /\ b.elements \in Int /\ Exact(b) /\ WithinLimits(b)
      /\ IsFiniteSet(b.deleted) /\ Cardinality(b.deleted) \in Nat
  BY FS_Subset, FS_CardinalityType, Constants DEF Sound, Buffers
<1>1. CASE e \in Local
  <2>1. c = [b EXCEPT !.cache[e] = <<v>>] /\ e \notin Persistent
    BY <1>1, Constants DEF Put
  <2> HIDE DEF c
  <2>2. c \in Buffers
    <3>1. [b.cache EXCEPT ![e] = <<v>>] \in [Entries -> Option]
      BY <1>0 DEF Option
    <3> QED BY <2>1, <3>1 DEF Sound, Buffers
  <2>3. /\ c.dirty = b.dirty /\ c.deleted = b.deleted
        /\ c.positions = b.positions /\ c.elements = b.elements
        /\ c.cache = [b.cache EXCEPT ![e] = <<v>>]
    BY <2>1 DEF Sound, Buffers
  <2>4. Sound(c)
    BY <1>0, <2>2, <2>3 DEF Sound, Exact, WithinLimits, IsStaged
  <2>5. \A f \in Persistent, r \in Option :
          Row(c, f, r) = IF f = e THEN <<v>> ELSE Row(b, f, r)
    BY <2>1, <2>3 DEF Row, IsStaged
  <2> QED BY <2>3, <2>4, <2>5 DEF c
<1>2. CASE e \in Persistent
  <2> DEFINE x == [key |-> e, value |-> v]
  <2>1. /\ c.cache = [b.cache EXCEPT ![e] = <<v>>]
        /\ c.deleted = b.deleted \ {e}
        /\ c.elements = ElementsWith(b, e, v)
        /\ c.dirty = IF IsStaged(b, e) THEN [b.dirty EXCEPT ![b.positions[e]] = x]
                     ELSE Append(b.dirty, x)
        /\ c.positions = IF IsStaged(b, e) THEN b.positions
                         ELSE [b.positions EXCEPT ![e] = Len(b.dirty) + 1]
        /\ c = [cache |-> c.cache, deleted |-> c.deleted, elements |-> c.elements,
                dirty |-> c.dirty, positions |-> c.positions]
    BY <1>2, Constants DEF Put
  <2>2. x \in Elements /\ Len(v) \in Nat
    BY <1>2, Constants DEF Elements
  <2> HIDE DEF c, x
  <2>3. ElementsWith(b, e, v) \in Int /\ ElementsWith(b, e, v) <= MAX_PENDING_ELEMENTS
    <3>1. IsStaged(b, e) => Len(b.dirty[b.positions[e]].value) \in Nat
      BY <1>0, <1>2, Constants DEF Exact, Elements
    <3>2. ElementsWith(b, e, v) \in Int
      <4> DEFINE old == IF IsStaged(b, e) THEN Len(b.dirty[b.positions[e]].value) ELSE 0
      <4>1. old \in Int
        BY <3>1
      <4> HIDE DEF old
      <4>2. b.elements - old + Len(v) \in Int
        BY <1>0, <2>2, <4>1
      <4> QED BY <4>2 DEF ElementsWith, old
    <3> QED BY <1>2, <3>2 DEF CanPut
  <2>4. c.cache \in [Entries -> Option]
    BY <1>0, <2>1 DEF Option
  <2>5. IsFiniteSet(c.deleted) /\ Cardinality(c.deleted) \in Nat
        /\ Cardinality(c.deleted) =
             IF e \in b.deleted THEN Cardinality(b.deleted) - 1 ELSE Cardinality(b.deleted)
    <3>1. /\ IsFiniteSet(b.deleted \ {e})
          /\ Cardinality(b.deleted \ {e}) =
               IF e \in b.deleted THEN Cardinality(b.deleted) - 1
               ELSE Cardinality(b.deleted)
      BY <1>0, FS_RemoveElement
    <3>2. c.deleted = b.deleted \ {e}
      BY <2>1
    <3>3. Cardinality(b.deleted \ {e}) \in Nat
      BY <3>1, FS_CardinalityType
    <3> QED BY <3>1, <3>2, <3>3
  <2>6. check_key_capacity(b, e)
    BY <1>2 DEF CanPut
  <2>7. CASE IsStaged(b, e)
    <3> DEFINE p == b.positions[e]
    <3>1. p \in DOMAIN b.dirty /\ b.dirty[p].key = e /\ e \notin b.deleted
      BY <1>0, <1>2, <2>7 DEF Exact
    <3>2. /\ c.dirty = [b.dirty EXCEPT ![p] = x] /\ c.positions = b.positions
          /\ c.deleted = b.deleted
      BY <2>1, <2>7, <3>1
    <3>3. c.dirty \in Seq(Elements) /\ Len(c.dirty) = Len(b.dirty)
          /\ DOMAIN c.dirty = DOMAIN b.dirty
          /\ \A i \in DOMAIN b.dirty : c.dirty[i] = IF i = p THEN x ELSE b.dirty[i]
      BY <1>0, <2>2, <3>1, <3>2
    <3>4. c \in Buffers
      BY <1>0, <2>1, <2>3, <2>4, <3>2, <3>3 DEF Buffers
    <3>5. x.key = e /\ x.value = v
      BY DEF x
    <3>6. \A i \in DOMAIN b.dirty : c.dirty[i].key = b.dirty[i].key
      BY <3>1, <3>3, <3>5
    <3>7. Exact(c)
      BY <1>0, <3>2, <3>3, <3>6 DEF Exact, IsStaged
    <3>8. WithinLimits(c)
      BY <1>0, <2>1, <2>3, <3>2, <3>3 DEF WithinLimits
    <3>9. \A f \in Persistent : f # e /\ IsStaged(b, f) => b.positions[f] # p
      BY <1>0, <3>1 DEF Exact
    <3>10. ASSUME NEW f \in Persistent, NEW r \in Option
           PROVE  Row(c, f, r) = IF f = e THEN <<v>> ELSE Row(b, f, r)
      <4>1. CASE f = e
        BY <2>7, <3>1, <3>2, <3>3, <3>5, <4>1 DEF Row, IsStaged
      <4>2. CASE f # e /\ IsStaged(b, f)
        <5>1. b.positions[f] \in DOMAIN b.dirty /\ c.dirty[b.positions[f]] = b.dirty[b.positions[f]]
          BY <1>0, <3>3, <3>9, <4>2 DEF Exact
        <5> QED BY <3>2, <4>2, <5>1 DEF Row, IsStaged
      <4>3. CASE f # e /\ ~IsStaged(b, f)
        BY <3>2, <4>3 DEF Row, IsStaged
      <4> QED BY <4>1, <4>2, <4>3
    <3> QED BY <2>1, <3>4, <3>7, <3>8, <3>10 DEF Sound, c
  <2>8. CASE ~IsStaged(b, e)
    <3> DEFINE n == Len(b.dirty) + 1
    <3>1. /\ c.dirty = Append(b.dirty, x)
          /\ c.positions = [b.positions EXCEPT ![e] = n]
      BY <2>1, <2>8
    <3>2. /\ c.dirty \in Seq(Elements) /\ Len(c.dirty) = n /\ n \in Nat
          /\ DOMAIN c.dirty = DOMAIN b.dirty \cup {n} /\ n \notin DOMAIN b.dirty
          /\ c.dirty[n] = x /\ \A i \in DOMAIN b.dirty : c.dirty[i] = b.dirty[i]
      BY <1>0, <2>2, <3>1
    <3>3. /\ c.positions \in [Persistent -> Nat] /\ c.positions[e] = n /\ n # 0
          /\ \A f \in Persistent : f # e => c.positions[f] = b.positions[f]
      BY <1>0, <1>2, <3>1, <3>2
    <3> HIDE DEF n
    <3>4. c \in Buffers
      <4>1. c.deleted \subseteq Persistent /\ c.elements \in Int
        BY <1>0, <2>1, <2>3
      <4> QED BY <2>1, <2>4, <3>2, <3>3, <4>1 DEF Buffers
    <3>5. x.key = e /\ x.value = v
      BY DEF x
    <3>6. \A i \in DOMAIN b.dirty : b.dirty[i].key \in Persistent /\ b.dirty[i].key # e
      <4>1. \A i \in DOMAIN b.dirty : i # 0 /\ b.dirty[i] \in Elements
        BY <1>0
      <4> QED BY <1>0, <2>8, <4>1 DEF Exact, IsStaged, Elements
    <3>7. Exact(c)
      <4>1. \A i \in DOMAIN c.dirty : c.positions[c.dirty[i].key] = i
        BY <1>0, <3>2, <3>3, <3>5, <3>6 DEF Exact
      <4>2. \A f \in Persistent : IsStaged(c, f) =>
              c.positions[f] \in DOMAIN c.dirty /\ c.dirty[c.positions[f]].key = f
        BY <1>0, <3>2, <3>3, <3>5 DEF Exact, IsStaged
      <4>3. \A f \in c.deleted : ~IsStaged(c, f)
        BY <1>0, <2>1, <3>3 DEF Exact, IsStaged
      <4> QED BY <4>1, <4>2, <4>3 DEF Exact
    <3>8. WithinLimits(c)
      <4>1. Len(b.dirty) \in Nat /\ n = Len(b.dirty) + 1
        BY <1>0 DEF n
      <4>2. n + Cardinality(c.deleted) <= MAX_PENDING_KEYS
        <5>1. CASE e \in b.deleted
          BY <1>0, <2>5, <4>1, <5>1, Constants DEF WithinLimits
        <5>2. CASE e \notin b.deleted
          BY <1>0, <2>5, <2>6, <2>8, <4>1, <5>2, Constants DEF check_key_capacity
        <5> QED BY <5>1, <5>2
      <4> QED BY <2>1, <2>3, <3>2, <4>2 DEF WithinLimits
    <3>9. ASSUME NEW f \in Persistent, NEW r \in Option
          PROVE  Row(c, f, r) = IF f = e THEN <<v>> ELSE Row(b, f, r)
      <4>1. CASE f = e
        BY <2>1, <3>2, <3>3, <3>5, <4>1 DEF Row, IsStaged
      <4>2. CASE f # e
        <5>1. IsStaged(b, f) => c.dirty[b.positions[f]] = b.dirty[b.positions[f]]
          BY <1>0, <3>2 DEF Exact
        <5> QED BY <2>1, <3>3, <4>2, <5>1 DEF Row, IsStaged
      <4> QED BY <4>1, <4>2
    <3> QED BY <2>1, <3>4, <3>7, <3>8, <3>9 DEF Sound, c
  <2> QED BY <2>7, <2>8
<1> QED BY <1>1, <1>2 DEF Entries

\* A deletion takes its entry out of the staged values, wherever swap_remove
\* moves the last of them, and disturbs the staging of no other entry.
LEMMA DeleteSound ==
  ASSUME NEW b, Sound(b), NEW e \in Entries, CanDelete(b, e)
  PROVE  /\ Sound(Delete(b, e))
         /\ Delete(b, e).cache = [b.cache EXCEPT ![e] = <<>>]
         /\ \A f \in Persistent, r \in Option :
              Row(Delete(b, e), f, r) = IF f = e THEN <<>> ELSE Row(b, f, r)
<1> DEFINE c == Delete(b, e)
           p == b.positions[e]
           n == Len(b.dirty)
           rest == swap_remove(b.dirty, p)
           moved == [f \in Persistent |->
                       IF f = e THEN 0
                       ELSE IF p <= Len(rest) /\ f = rest[p].key THEN p
                       ELSE b.positions[f]]
<1>0. /\ b.cache \in [Entries -> Option] /\ b.dirty \in Seq(Elements)
      /\ b.deleted \subseteq Persistent /\ b.positions \in [Persistent -> Nat]
      /\ b.elements \in Int /\ Exact(b) /\ WithinLimits(b)
      /\ IsFiniteSet(b.deleted) /\ Cardinality(b.deleted) \in Nat
      /\ b \in Buffers /\ n \in Nat /\ DOMAIN b.dirty = 1..n
  BY FS_Subset, FS_CardinalityType, Constants DEF Sound, Buffers
<1>1. [b.cache EXCEPT ![e] = <<>>] \in [Entries -> Option]
  BY <1>0 DEF Option
<1>2. CASE e \in Local
  <2>1. c = [b EXCEPT !.cache[e] = <<>>, !.deleted = @] /\ e \notin Persistent
    BY <1>2, Constants DEF Delete
  <2> HIDE DEF c
  <2>2. /\ c.dirty = b.dirty /\ c.deleted = b.deleted
        /\ c.positions = b.positions /\ c.elements = b.elements
        /\ c.cache = [b.cache EXCEPT ![e] = <<>>] /\ c \in Buffers
    BY <1>0, <1>1, <2>1 DEF Buffers
  <2>3. Sound(c)
    BY <1>0, <2>2 DEF Sound, Exact, WithinLimits, IsStaged
  <2>4. \A f \in Persistent, r \in Option :
          Row(c, f, r) = IF f = e THEN <<>> ELSE Row(b, f, r)
    BY <2>1, <2>2 DEF Row, IsStaged
  <2> QED BY <2>2, <2>3, <2>4 DEF c
<1>3. CASE e \in Persistent
  <2>1. check_key_capacity(b, e) /\ e \notin Local
    BY <1>3, Constants DEF CanDelete
  <2>2. /\ IsFiniteSet(b.deleted \cup {e})
        /\ Cardinality(b.deleted \cup {e}) =
             IF e \in b.deleted THEN Cardinality(b.deleted)
             ELSE Cardinality(b.deleted) + 1
    BY <1>0, FS_AddElement
  <2>3. CASE ~IsStaged(b, e)
    <3>1. c = [b EXCEPT !.cache[e] = <<>>, !.deleted = @ \cup {e}]
      BY <1>3, <2>3 DEF Delete
    <3> HIDE DEF c
    <3>2. /\ c.dirty = b.dirty /\ c.deleted = b.deleted \cup {e}
          /\ c.positions = b.positions /\ c.elements = b.elements
          /\ c.cache = [b.cache EXCEPT ![e] = <<>>] /\ c \in Buffers
      BY <1>0, <1>1, <1>3, <3>1 DEF Buffers
    <3>3. n + Cardinality(c.deleted) <= MAX_PENDING_KEYS
      <4>1. CASE e \in b.deleted
        BY <1>0, <2>2, <3>2, <4>1 DEF WithinLimits
      <4>2. CASE e \notin b.deleted
        BY <1>0, <2>1, <2>2, <2>3, <3>2, <4>2, Constants DEF check_key_capacity
      <4> QED BY <4>1, <4>2
    <3>4. Sound(c)
      BY <1>0, <2>3, <3>2, <3>3 DEF Sound, Exact, WithinLimits, IsStaged
    <3>5. \A f \in Persistent, r \in Option :
            Row(c, f, r) = IF f = e THEN <<>> ELSE Row(b, f, r)
      BY <3>2 DEF Row, IsStaged
    <3> QED BY <3>2, <3>4, <3>5 DEF c
  <2>4. CASE IsStaged(b, e)
    <3>1. /\ p \in 1..n /\ b.dirty[p].key = e /\ e \notin b.deleted
      BY <1>0, <1>3, <2>4 DEF Exact
    <3>2. /\ rest \in Seq(Elements) /\ Len(rest) = n - 1 /\ DOMAIN rest = 1..(n - 1)
          /\ \A j \in 1..(n - 1) : rest[j] = IF j = p THEN b.dirty[n] ELSE b.dirty[j]
      <4>1. \A j \in 1..n : b.dirty[j] \in Elements
        BY <1>0
      <4>2. rest = [j \in 1..(n - 1) |-> IF j = p THEN b.dirty[n] ELSE b.dirty[j]]
        BY DEF swap_remove
      <4> HIDE DEF rest
      <4>3. \A j \in 1..(n - 1) : rest[j] \in Elements
        BY <1>0, <3>1, <4>1, <4>2
      <4> QED BY <1>0, <3>1, <4>2, <4>3
    <3>3. /\ c.dirty = rest /\ c.deleted = b.deleted \cup {e} /\ c.positions = moved
          /\ c.cache = [b.cache EXCEPT ![e] = <<>>]
          /\ c.elements = b.elements - Len(b.dirty[p].value)
          /\ c = [cache |-> c.cache, deleted |-> c.deleted, elements |-> c.elements,
                  dirty |-> c.dirty, positions |-> c.positions]
      <4> DEFINE u == Unstage(b, e)
      <4>1. u = [b EXCEPT !.dirty = rest, !.positions = moved,
                          !.elements = @ - Len(b.dirty[p].value)]
        BY DEF Unstage
      <4>2. c = [u EXCEPT !.cache[e] = <<>>, !.deleted = @ \cup {e}]
        BY <1>3, <2>4 DEF Delete
      <4> HIDE DEF u, c, rest, moved, p
      <4>3. u = [cache |-> b.cache, deleted |-> b.deleted, dirty |-> rest,
                 positions |-> moved, elements |-> b.elements - Len(b.dirty[p].value)]
        BY <1>0, <4>1 DEF Buffers
      <4> QED BY <4>2, <4>3
    <3>4. Len(b.dirty[p].value) \in Nat
      <4>1. b.dirty[p] \in Elements
        BY <1>0, <3>1
      <4> QED BY <4>1, Constants DEF Elements
    <3>5. moved \in [Persistent -> Nat]
      <4>1. p \in Nat
        BY <1>0, <1>3
      <4> HIDE DEF p, rest
      <4> QED BY <1>0, <4>1
    <3>6. \A f \in Persistent : moved[f] =
            IF f = e THEN 0
            ELSE IF p <= Len(rest) /\ f = rest[p].key THEN p ELSE b.positions[f]
      OBVIOUS
    <3> HIDE DEF c, rest, moved
    <3>7. c \in Buffers
      <4>1. c.cache \in [Entries -> Option] /\ c.dirty \in Seq(Elements)
        BY <1>1, <3>2, <3>3
      <4>2. c.deleted \subseteq Persistent /\ c.positions \in [Persistent -> Nat]
        BY <1>0, <1>3, <3>3, <3>5
      <4>3. c.elements \in Int
        <5> DEFINE l == Len(b.dirty[p].value)
        <5> HIDE DEF l
        <5>1. l \in Nat /\ c.elements = b.elements - l
          BY <3>3, <3>4 DEF l
        <5> QED BY <1>0, <5>1
      <4> QED BY <3>3, <4>1, <4>2, <4>3 DEF Buffers
    <3>8. \A j \in 1..n : /\ b.dirty[j].key \in Persistent
                          /\ b.positions[b.dirty[j].key] = j
      <4>1. \A j \in 1..n : b.dirty[j] \in Elements
        BY <1>0
      <4> QED BY <1>0, <4>1 DEF Exact, Elements
    <3>9. \A f \in Persistent : b.positions[f] # 0 =>
            b.positions[f] \in 1..n /\ b.dirty[b.positions[f]].key = f
      BY <1>0 DEF Exact, IsStaged
    <3>10. p <= n - 1 => rest[p] = b.dirty[n] /\ rest[p].key # e
                         /\ b.positions[rest[p].key] = n
      <4> SUFFICES ASSUME p <= n - 1
                   PROVE  rest[p] = b.dirty[n] /\ b.dirty[n].key # e
                          /\ b.positions[b.dirty[n].key] = n
        BY <3>2
      <4>1. n \in 1..n /\ p \in 1..(n - 1)
        BY <1>0, <3>1
      <4>2. b.positions[b.dirty[n].key] = n
        BY <3>8, <4>1
      <4>3. rest[p] = b.dirty[n]
        BY <3>2, <4>1
      <4>4. p # n
        BY <1>0, <3>1
      <4> QED BY <4>2, <4>3, <4>4
    <3>11. \A j \in 1..(n - 1) : moved[rest[j].key] = j
      <4> SUFFICES ASSUME NEW j \in 1..(n - 1) PROVE moved[rest[j].key] = j
        OBVIOUS
      <4>1. CASE j = p
        BY <1>0, <3>1, <3>2, <3>6, <3>8, <3>10, <4>1
      <4>2. CASE j # p
        <5>1. rest[j] = b.dirty[j] /\ b.dirty[j].key \in Persistent
              /\ b.positions[b.dirty[j].key] = j /\ b.dirty[j].key # e
          BY <1>0, <3>1, <3>2, <3>8, <4>2
        <5>2. ~(p <= Len(rest) /\ b.dirty[j].key = rest[p].key)
          BY <1>0, <3>2, <3>10, <5>1
        <5> QED BY <3>6, <5>1, <5>2
      <4> QED BY <4>1, <4>2
    <3>12. ASSUME NEW f \in Persistent, f # e, b.positions[f] # 0
           PROVE  /\ moved[f] \in 1..(n - 1)
                  /\ rest[moved[f]] = b.dirty[b.positions[f]]
      <4>1. b.positions[f] \in 1..n /\ b.dirty[b.positions[f]].key = f
        BY <3>9, <3>12
      <4>2. b.positions[f] # p
        BY <3>1, <3>12, <4>1
      <4>3. CASE p <= n - 1 /\ f = rest[p].key
        BY <1>0, <3>1, <3>2, <3>6, <3>10, <3>12, <4>3
      <4>4. CASE ~(p <= n - 1 /\ f = rest[p].key)
        <5>1. moved[f] = b.positions[f]
          BY <3>2, <3>6, <3>12, <4>4
        <5>2. b.positions[f] # n
          BY <1>0, <3>1, <3>10, <4>1, <4>2, <4>4
        <5> QED BY <1>0, <3>2, <4>1, <4>2, <5>1, <5>2
      <4> QED BY <4>3, <4>4
    <3>13. ASSUME NEW f \in Persistent, f = e \/ b.positions[f] = 0
           PROVE  moved[f] = 0
      BY <1>0, <3>1, <3>2, <3>6, <3>10, <3>13
    <3>14. Exact(c)
      <4>1. \A f \in Persistent : c.positions[f] # 0 =>
              c.positions[f] \in DOMAIN c.dirty /\ c.dirty[c.positions[f]].key = f
        BY <3>2, <3>3, <3>9, <3>12, <3>13
      <4>2. \A f \in c.deleted : c.positions[f] = 0
        BY <1>0, <1>3, <3>3, <3>13 DEF Exact, IsStaged
      <4> QED BY <3>2, <3>3, <3>11, <4>1, <4>2 DEF Exact, IsStaged
    <3>15. WithinLimits(c)
      <4>1. c.elements <= MAX_PENDING_ELEMENTS
        <5> DEFINE l == Len(b.dirty[p].value)
        <5> HIDE DEF l
        <5>1. l \in Nat /\ c.elements = b.elements - l
          BY <3>3, <3>4 DEF l
        <5>2. b.elements <= MAX_PENDING_ELEMENTS
          BY <1>0 DEF WithinLimits
        <5> QED BY <1>0, <5>1, <5>2, Constants
      <4>2. Cardinality(c.deleted) = Cardinality(b.deleted) + 1
        BY <2>2, <3>1, <3>3
      <4>3. Len(c.dirty) = n - 1
        BY <3>2, <3>3
      <4>4. n + Cardinality(b.deleted) <= MAX_PENDING_KEYS
        BY <1>0 DEF WithinLimits
      <4>5. Len(c.dirty) + Cardinality(c.deleted) <= MAX_PENDING_KEYS
        BY <1>0, <4>2, <4>3, <4>4, Constants
      <4> QED BY <4>1, <4>5 DEF WithinLimits
    <3>16. ASSUME NEW f \in Persistent, NEW r \in Option
           PROVE  Row(c, f, r) = IF f = e THEN <<>> ELSE Row(b, f, r)
      <4>1. CASE f = e
        BY <3>3, <4>1 DEF Row
      <4>2. CASE f # e /\ b.positions[f] # 0
        <5>1. /\ c.positions[f] # 0
              /\ c.dirty[c.positions[f]] = b.dirty[b.positions[f]]
          BY <1>0, <3>3, <3>12, <4>2
        <5> QED BY <3>3, <4>2, <5>1 DEF Row, IsStaged
      <4>3. CASE f # e /\ b.positions[f] = 0
        <5>1. c.positions[f] = 0
          BY <3>3, <3>13, <4>3
        <5> QED BY <3>3, <4>3, <5>1 DEF Row, IsStaged
      <4> QED BY <4>1, <4>2, <4>3
    <3> QED BY <3>3, <3>7, <3>14, <3>15, <3>16 DEF Sound, c
  <2> QED BY <2>3, <2>4
<1> QED BY <1>2, <1>3 DEF Entries

\* A commit leaves nothing staged.
LEMMA ClearSound ==
  ASSUME NEW b, Sound(b)
  PROVE  /\ Sound(clear_pending(b)) /\ clear_pending(b).cache = b.cache
         /\ \A f \in Persistent, r \in Option : Row(clear_pending(b), f, r) = r
<1> DEFINE c == clear_pending(b)
<1>1. /\ c.dirty = <<>> /\ c.deleted = {} /\ c.elements = 0 /\ c.cache = b.cache
      /\ c.positions = [e \in Persistent |-> 0]
      /\ c = [cache |-> c.cache, deleted |-> c.deleted, elements |-> c.elements,
              dirty |-> c.dirty, positions |-> c.positions]
  <2>1. c = [b EXCEPT !.dirty = <<>>, !.deleted = {}, !.elements = 0,
                      !.positions = [e \in Persistent |-> 0]]
    BY DEF clear_pending
  <2>2. b = [cache |-> b.cache, deleted |-> b.deleted, elements |-> b.elements,
             dirty |-> b.dirty, positions |-> b.positions]
    BY DEF Sound, Buffers
  <2> HIDE DEF c
  <2>3. c = [cache |-> b.cache, deleted |-> {}, elements |-> 0, dirty |-> <<>>,
             positions |-> [e \in Persistent |-> 0]]
    BY <2>1, <2>2
  <2> QED BY <2>3
<1> HIDE DEF c
<1>2. c \in Buffers
  <2>1. b.cache \in [Entries -> Option] /\ <<>> \in Seq(Elements)
    BY DEF Sound, Buffers
  <2>2. [e \in Persistent |-> 0] \in [Persistent -> Nat]
    OBVIOUS
  <2>3. /\ c.cache \in [Entries -> Option] /\ c.dirty \in Seq(Elements)
        /\ c.deleted \in SUBSET Persistent /\ c.positions \in [Persistent -> Nat]
        /\ c.elements \in Int
    BY <1>1, <2>1, <2>2
  <2>4. c = [cache |-> c.cache, deleted |-> c.deleted, elements |-> c.elements,
             dirty |-> c.dirty, positions |-> c.positions]
    BY <1>1
  <2> QED BY <2>3, <2>4 DEF Buffers
<1>3. Cardinality({}) = 0
  BY FS_EmptySet
<1>4. Len(c.dirty) = 0 /\ DOMAIN c.dirty = {}
  BY <1>1
<1>5. Exact(c) /\ WithinLimits(c)
  BY <1>1, <1>3, <1>4, Constants DEF Exact, WithinLimits, IsStaged
<1>6. \A f \in Persistent, r \in Option : Row(c, f, r) = r
  BY <1>1 DEF Row, IsStaged
<1> QED BY <1>1, <1>2, <1>5, <1>6 DEF Sound, c

\* The cache a caller writes in place is no part of the staging.
LEMMA CacheApart ==
  ASSUME NEW b, Sound(b), NEW e \in Entries, NEW v \in Values
  PROVE  /\ Sound([b EXCEPT !.cache[e] = <<v>>])
         /\ [b EXCEPT !.cache[e] = <<v>>].cache = [b.cache EXCEPT ![e] = <<v>>]
         /\ \A f \in Persistent, r \in Option :
              Row([b EXCEPT !.cache[e] = <<v>>], f, r) = Row(b, f, r)
<1> DEFINE c == [b EXCEPT !.cache[e] = <<v>>]
<1>1. [b.cache EXCEPT ![e] = <<v>>] \in [Entries -> Option]
  BY DEF Sound, Buffers, Option
<1>2. /\ c.dirty = b.dirty /\ c.deleted = b.deleted /\ c.elements = b.elements
      /\ c.positions = b.positions /\ c.cache = [b.cache EXCEPT ![e] = <<v>>]
      /\ c \in Buffers
  BY <1>1 DEF Sound, Buffers
<1> HIDE DEF c
<1>3. Sound(c)
  BY <1>2 DEF Sound, Exact, WithinLimits, IsStaged
<1>4. \A f \in Persistent, r \in Option : Row(c, f, r) = Row(b, f, r)
  BY <1>2 DEF Row, IsStaged
<1> QED BY <1>2, <1>3, <1>4 DEF c

\* A buffer that was just made.
LEMMA NewSound ==
  /\ Sound(NewBuffer) /\ \A e \in Entries : NewBuffer.cache[e] = <<>>
  /\ \A f \in Persistent, r \in Option : Row(NewBuffer, f, r) = r
<1> DEFINE b == NewBuffer
<1>1. /\ b.dirty = <<>> /\ b.deleted = {} /\ b.elements = 0
      /\ b.cache = [e \in Entries |-> <<>>]
      /\ b.positions = [e \in Persistent |-> 0] /\ b \in Buffers
  BY DEF NewBuffer, Buffers, Option
<1> HIDE DEF b
<1>2. Len(b.dirty) = 0 /\ DOMAIN b.dirty = {} /\ Cardinality({}) = 0
  BY <1>1, FS_EmptySet
<1>3. Sound(b)
  BY <1>1, <1>2, Constants DEF Sound, Exact, WithinLimits, IsStaged
<1>4. \A f \in Persistent, r \in Option : Row(b, f, r) = r
  BY <1>1 DEF Row, IsStaged
<1> QED BY <1>1, <1>3, <1>4 DEF b

\* Once its batch is on disk a buffer holds local values only.
LEMMA FinishSound ==
  ASSUME NEW b, Sound(b)
  PROVE  /\ Sound(finish(b))
         /\ \A e \in Persistent : finish(b).cache[e] = <<>>
         /\ \A f \in Persistent, r \in Option : Row(finish(b), f, r) = r
<1> DEFINE c == clear_pending(b)
           d == finish(b)
<1>1. /\ Sound(c) /\ c.cache = b.cache
      /\ \A f \in Persistent, r \in Option : Row(c, f, r) = r
  BY ClearSound
<1>2. d = [c EXCEPT !.cache = [e \in Entries |-> IF e \in Local THEN @[e] ELSE <<>>]]
  BY DEF finish
<1> HIDE DEF c, d
<1>3. c.cache \in [Entries -> Option] /\ c \in Buffers
  BY <1>1 DEF Sound, Buffers
<1>4. [e \in Entries |-> IF e \in Local THEN c.cache[e] ELSE <<>>] \in [Entries -> Option]
  BY <1>3 DEF Option
<1>5. /\ d.dirty = c.dirty /\ d.deleted = c.deleted /\ d.elements = c.elements
      /\ d.positions = c.positions
      /\ d.cache = [e \in Entries |-> IF e \in Local THEN c.cache[e] ELSE <<>>]
      /\ d \in Buffers
  BY <1>2, <1>3, <1>4 DEF Buffers
<1>6. Sound(d)
  BY <1>1, <1>5 DEF Sound, Exact, WithinLimits, IsStaged
<1>7. \A f \in Persistent, r \in Option : Row(d, f, r) = r
  BY <1>1, <1>5 DEF Row, IsStaged
<1>8. \A e \in Persistent : d.cache[e] = <<>>
  BY <1>5, Constants DEF Entries
<1> QED BY <1>6, <1>7, <1>8 DEF d

\* A buffer with nothing staged changes no row.
LEMMA NothingPending ==
  ASSUME NEW b, Sound(b), ~has_pending(b), NEW e \in Persistent, NEW r \in Option
  PROVE  Row(b, e, r) = r
<1>1. b.dirty = <<>> /\ b.deleted = {} /\ Exact(b)
  BY DEF Sound, has_pending
<1>2. DOMAIN b.dirty = {}
  BY <1>1
<1> QED BY <1>1, <1>2 DEF Exact, Row

LEMMA RowOption ==
  ASSUME NEW b, Sound(b), NEW e \in Persistent, NEW r \in Option
  PROVE  Row(b, e, r) \in Option
<1> SUFFICES ASSUME e \notin b.deleted, IsStaged(b, e)
             PROVE  b.dirty[b.positions[e]].value \in Values
  BY DEF Row, Option
<1>1. b.dirty \in Seq(Elements) /\ b.positions[e] \in DOMAIN b.dirty
  BY DEF Sound, Exact, Buffers
<1>2. b.dirty[b.positions[e]] \in Elements
  BY <1>1
<1> QED BY <1>2 DEF Elements

\* The rows after a commit of the buffer b.
LEMMA RowsWritten ==
  ASSUME NEW b, Sound(b), NEW r \in [Persistent -> Option]
  PROVE  /\ Applied(Changes(b), r) \in [Persistent -> Option]
         /\ \A e \in Persistent : Applied(Changes(b), r)[e] = Row(b, e, r[e])
<1>1. \A e \in Persistent : Applied(Changes(b), r)[e] = Row(b, e, r[e])
  BY ChangesExact DEF Sound
<1>2. \A e \in Persistent : Row(b, e, r[e]) \in Option
  BY RowOption
<1>3. Applied(Changes(b), r) = [e \in Persistent |-> Applied(Changes(b), r)[e]]
  BY DEF Applied
<1> QED BY <1>1, <1>2, <1>3

LEMMA AppliedTwice ==
  ASSUME NEW c, NEW r
  PROVE  Applied(c, Applied(c, r)) = Applied(c, r)
  BY DEF Applied

\* The buffer c is b with o for the entry e.
Stages(b, c, e, o) ==
  /\ Sound(c)
  /\ \A f \in Entries : c.cache[f] = IF f = e THEN o ELSE b.cache[f]
  /\ \A f \in Persistent, r \in Option : Row(c, f, r) = IF f = e THEN o ELSE Row(b, f, r)

LEMMA PutStages ==
  ASSUME NEW b, Sound(b), NEW e \in Entries, NEW v \in Values, CanPut(b, e, v)
  PROVE  Stages(b, Put(b, e, v), e, <<v>>)
<1>1. b.cache \in [Entries -> Option]
  BY DEF Sound, Buffers
<1> DEFINE c == Put(b, e, v)
<1>2. /\ Sound(c) /\ c.cache = [b.cache EXCEPT ![e] = <<v>>]
      /\ \A f \in Persistent, r \in Option : Row(c, f, r) = IF f = e THEN <<v>> ELSE Row(b, f, r)
  BY PutSound
<1> HIDE DEF c
<1>3. \A f \in Entries : c.cache[f] = IF f = e THEN <<v>> ELSE b.cache[f]
  BY <1>1, <1>2
<1>4. Stages(b, c, e, <<v>>)
  BY <1>2, <1>3 DEF Stages
<1> QED BY <1>4 DEF c

LEMMA DeleteStages ==
  ASSUME NEW b, Sound(b), NEW e \in Entries, CanDelete(b, e)
  PROVE  Stages(b, Delete(b, e), e, <<>>)
<1>1. b.cache \in [Entries -> Option]
  BY DEF Sound, Buffers
<1> DEFINE c == Delete(b, e)
<1>2. /\ Sound(c) /\ c.cache = [b.cache EXCEPT ![e] = <<>>]
      /\ \A f \in Persistent, r \in Option : Row(c, f, r) = IF f = e THEN <<>> ELSE Row(b, f, r)
  BY DeleteSound
<1> HIDE DEF c
<1>3. \A f \in Entries : c.cache[f] = IF f = e THEN <<>> ELSE b.cache[f]
  BY <1>1, <1>2
<1>4. Stages(b, c, e, <<>>)
  BY <1>2, <1>3 DEF Stages
<1> QED BY <1>4 DEF c

-----------------------------------------------------------------------------
(* Two tiers *)

\* Everything cached is staged: a disk tier keeps nothing it has committed.
CacheStaged(b) == \A e \in Persistent : b.cache[e] = Row(b, e, <<>>)

Tiers ==
  /\ attached \in BOOLEAN /\ failure \in BOOLEAN /\ poisoned \in BOOLEAN
  /\ poisoned => attached
  /\ cold \in [Persistent -> Option] /\ rows \in [Persistent -> Option]
  /\ Sound(hot) /\ Sound(warm) /\ CacheStaged(warm)

\* HOT caches nothing but what WARM would answer, except for the entry that is
\* being written in place.
Coherent ==
  attached /\ ~failure =>
    \A e \in Persistent : hot.cache[e] # <<>> /\ borrowed # <<e>> =>
      hot.cache[e] = Row(warm, e, rows[e])

\* The marker names a batch that is in the rows, and a commit that the caller
\* has to resolve has frozen the store.
Resolvable ==
  /\ marker # <<>> => marker = <<marker[1]>> /\ Applied(marker[1], rows) = rows
  /\ unresolved # <<>> => failure
  /\ MarkerResolves

TieredInductive == Tiers /\ Coherent /\ Resolvable

LEMMA TieredInit == Init => TieredInductive
<1> SUFFICES ASSUME Init PROVE TieredInductive
  OBVIOUS
<1>1. Tiers
  <2>1. NoRows \in [Persistent -> Option]
    BY DEF NoRows, Option
  <2>2. <<>> \in Option
    BY DEF Option
  <2>3. CacheStaged(NewBuffer)
    BY <2>2, NewSound DEF CacheStaged, Entries
  <2> QED BY <2>1, <2>3, NewSound, ArchivesAssumption DEF Init, Tiers
<1> QED BY <1>1 DEF Init, TieredInductive, Coherent, Resolvable, MarkerResolves

\* What is cached over a row, where everything cached is staged.
LEMMA StagedUnder ==
  ASSUME NEW b, NEW e, NEW r, b.cache[e] = Row(b, e, <<>>)
  PROVE  Row(b, e, r) = IF e \in b.deleted THEN <<>>
                        ELSE IF b.cache[e] # <<>> THEN b.cache[e] ELSE r
<1>1. \A x : <<x>> # <<>>
  OBVIOUS
<1>2. CASE e \in b.deleted
  BY <1>2 DEF Row
<1>3. CASE e \notin b.deleted /\ IsStaged(b, e)
  BY <1>1, <1>3 DEF Row
<1>4. CASE e \notin b.deleted /\ ~IsStaged(b, e)
  BY <1>4 DEF Row
<1> QED BY <1>2, <1>3, <1>4

\* What a disk tier answers is its committed row under what it has staged.
LEMMA WarmReadRow ==
  ASSUME Tiers, NEW e \in Persistent
  PROVE  WarmRead(e) = Row(warm, e, rows[e])
  BY StagedUnder DEF Tiers, CacheStaged, WarmRead

LEMMA ReadCoherent ==
  ASSUME TieredInductive, attached, ~failure, NEW e \in Persistent, borrowed # <<e>>
  PROVE  Read(e) = Row(warm, e, rows[e])
  BY WarmReadRow DEF TieredInductive, Coherent, Read, Owned

\* The invariant after a step that writes no rows.
LEMMA StepStaged ==
  ASSUME TieredInductive, UNCHANGED <<cold, rows, marker, unresolved>>,
         attached' \in BOOLEAN, failure' \in BOOLEAN, poisoned' \in BOOLEAN,
         poisoned' => attached', failure => failure',
         Sound(hot'), Sound(warm'),
         \A e \in Persistent : warm'.cache[e] = Row(warm', e, <<>>),
         attached' /\ ~failure' =>
           \A e \in Persistent : hot'.cache[e] # <<>> /\ borrowed' # <<e>> =>
             hot'.cache[e] = Row(warm', e, rows[e])
  PROVE  TieredInductive'
<1>1. Tiers'
  BY DEF TieredInductive, Tiers, CacheStaged, Sound, Exact, WithinLimits, Row, IsStaged
<1>2. Coherent'
  BY DEF Coherent, Row, IsStaged
<1>3. Resolvable'
  BY DEF TieredInductive, Resolvable, MarkerResolves
<1> QED BY <1>1, <1>2, <1>3 DEF TieredInductive

\* A disk tier with one more change has all it caches staged.
LEMMA WarmStages ==
  ASSUME Tiers, NEW w, NEW e \in Persistent, NEW o, Stages(warm, w, e, o)
  PROVE  \A f \in Persistent : w.cache[f] = Row(w, f, <<>>)
<1>1. <<>> \in Option /\ \A f \in Persistent : f \in Entries
  BY DEF Option, Entries
<1> QED BY <1>1 DEF Stages, Tiers, CacheStaged

\* The facts of the invariant that the actions use.
LEMMA TieredFacts ==
  ASSUME TieredInductive
  PROVE  /\ attached \in BOOLEAN /\ failure \in BOOLEAN /\ poisoned \in BOOLEAN
         /\ poisoned => attached
         /\ Sound(hot) /\ Sound(warm) /\ Tiers
         /\ hot.cache \in [Entries -> Option]
         /\ \A e \in Persistent : e \in Entries /\ rows[e] \in Option
         /\ \A e \in Persistent : warm.cache[e] = Row(warm, e, <<>>)
         /\ attached /\ ~failure /\ Idle =>
              \A e \in Persistent : hot.cache[e] # <<>> => hot.cache[e] = Row(warm, e, rows[e])
<1>1. Tiers /\ Coherent
  BY DEF TieredInductive
<1>2. Sound(hot) /\ Sound(warm) /\ CacheStaged(warm) /\ rows \in [Persistent -> Option]
  BY <1>1 DEF Tiers
<1>3. hot.cache \in [Entries -> Option]
  BY <1>2 DEF Sound, Buffers
<1>4. \A e \in Persistent : e \in Entries /\ rows[e] \in Option
  BY <1>2 DEF Entries
<1>5. \A e \in Persistent : warm.cache[e] = Row(warm, e, <<>>)
  BY <1>2 DEF CacheStaged
<1>6. attached /\ ~failure /\ Idle =>
        \A e \in Persistent : hot.cache[e] # <<>> => hot.cache[e] = Row(warm, e, rows[e])
  BY <1>1 DEF Coherent, Idle
<1>7. /\ attached \in BOOLEAN /\ failure \in BOOLEAN /\ poisoned \in BOOLEAN
      /\ poisoned => attached
  BY <1>1 DEF Tiers
<1> QED BY <1>1, <1>2, <1>3, <1>4, <1>5, <1>6, <1>7

\* A call that stages o for e in both tiers, or freezes the store.
LEMMA BothStaged ==
  ASSUME TieredInductive, NEW e \in Persistent, NEW o, ~failure,
         borrowed \in {<<>>, <<e>>}, borrowed' = <<>>, Kept,
         Stages(warm, warm', e, o),
         \/ Stages(hot, hot', e, o) /\ failure' = FALSE
         \/ hot' = hot /\ failure' = TRUE
  PROVE  TieredInductive'
<1>1. \A f \in Persistent : warm'.cache[f] = Row(warm', f, <<>>)
  BY WarmStages, TieredFacts
<1>2. UNCHANGED <<attached, cold, rows, marker, poisoned, unresolved>>
  BY DEF Kept
<1>3. Sound(warm') /\ Sound(hot')
  BY TieredFacts DEF Stages
<1>4. ASSUME attached', ~failure', NEW f \in Persistent, hot'.cache[f] # <<>>
      PROVE  hot'.cache[f] = Row(warm', f, rows[f])
  <2>1. Stages(hot, hot', e, o) /\ attached
    BY <1>2, <1>4
  <2>2. rows[f] \in Option /\ f \in Entries
    BY TieredFacts
  <2>3. CASE f = e
    BY <2>1, <2>2, <2>3 DEF Stages
  <2>4. CASE f # e
    <3>1. borrowed # <<f>>
      BY <2>4
    <3>2. hot'.cache[f] = hot.cache[f] /\ Row(warm', f, rows[f]) = Row(warm, f, rows[f])
      BY <2>1, <2>2, <2>4 DEF Stages
    <3> QED BY <1>4, <2>1, <3>1, <3>2 DEF TieredInductive, Coherent
  <2> QED BY <2>3, <2>4
<1> QED BY <1>1, <1>2, <1>3, <1>4, TieredFacts, StepStaged

\* A call that stages o for e in HOT alone, where WARM would answer the same.
LEMMA HotStaged ==
  ASSUME TieredInductive, NEW e \in Entries, NEW o, Idle,
         Kept, UNCHANGED <<warm, failure, borrowed>>,
         Stages(hot, hot', e, o),
         Owned(e) /\ o # <<>> => o = Row(warm, e, rows[e])
  PROVE  TieredInductive'
<1>1. UNCHANGED <<attached, cold, rows, marker, poisoned, unresolved, warm, failure, borrowed>>
  BY DEF Kept
<1>2. ASSUME attached', ~failure', NEW f \in Persistent, hot'.cache[f] # <<>>
      PROVE  hot'.cache[f] = Row(warm', f, rows[f])
  <2>1. f \in Entries /\ hot'.cache[f] = IF f = e THEN o ELSE hot.cache[f]
    BY TieredFacts DEF Stages
  <2>2. CASE f = e
    BY <1>1, <1>2, <2>1, <2>2 DEF Owned
  <2>3. CASE f # e
    BY <1>1, <1>2, <2>1, <2>3, TieredFacts
  <2> QED BY <2>2, <2>3
<1> QED BY <1>1, <1>2, TieredFacts, StepStaged DEF Stages

LEMMA PutInductive ==
  ASSUME TieredInductive, NEW e \in Entries, NEW v \in Values, put(e, v)
  PROVE  TieredInductive'
<1>1. ~failure /\ Idle /\ Kept /\ borrowed' = borrowed
  BY DEF put, Readable
<1>2. CASE /\ Owned(e) /\ CanPut(warm, e, v) /\ warm' = Put(warm, e, v)
           /\ StageHot(CanPut(hot, e, v), Put(hot, e, v))
  <2>1. Stages(warm, warm', e, <<v>>)
    BY <1>2, PutStages, TieredFacts
  <2>2. \/ Stages(hot, hot', e, <<v>>) /\ failure' = FALSE
        \/ hot' = hot /\ failure' = TRUE
    BY <1>2, PutStages, TieredFacts DEF StageHot
  <2> QED BY <1>1, <1>2, <2>1, <2>2, BothStaged DEF Idle, Owned
<1>3. CASE /\ Unowned(e) /\ CanPut(hot, e, v) /\ hot' = Put(hot, e, v)
           /\ UNCHANGED <<warm, failure>>
  <2>1. Stages(hot, hot', e, <<v>>)
    BY <1>3, PutStages, TieredFacts
  <2> QED BY <1>1, <1>3, <2>1, HotStaged DEF Unowned
<1> QED BY <1>2, <1>3 DEF put

LEMMA RemoveInductive ==
  ASSUME TieredInductive, NEW e \in Entries, remove(e)
  PROVE  TieredInductive'
<1>1. ~failure /\ Idle /\ Kept /\ borrowed' = borrowed
  BY DEF remove, Readable
<1>2. CASE /\ Owned(e) /\ CanDelete(warm, e) /\ warm' = Delete(warm, e)
           /\ StageHot(CanDelete(hot, e), Delete(hot, e))
  <2>1. Stages(warm, warm', e, <<>>)
    BY <1>2, DeleteStages, TieredFacts
  <2>2. \/ Stages(hot, hot', e, <<>>) /\ failure' = FALSE
        \/ hot' = hot /\ failure' = TRUE
    BY <1>2, DeleteStages, TieredFacts DEF StageHot
  <2> QED BY <1>1, <1>2, <2>1, <2>2, BothStaged DEF Idle, Owned
<1>3. CASE /\ Unowned(e) /\ CanDelete(hot, e) /\ hot' = Delete(hot, e)
           /\ UNCHANGED <<warm, failure>>
  <2>1. Stages(hot, hot', e, <<>>)
    BY <1>3, DeleteStages, TieredFacts
  <2> QED BY <1>1, <1>3, <2>1, HotStaged
<1> QED BY <1>2, <1>3 DEF remove

\* What reads show is a value or none.
LEMMA ReadOption ==
  ASSUME TieredInductive, NEW e \in Entries
  PROVE  Read(e) \in Option
<1>1. <<>> \in Option
  BY DEF Option
<1>2. Owned(e) => WarmRead(e) \in Option
  BY WarmReadRow, RowOption, TieredFacts DEF Owned
<1>3. e \notin Local => cold[e] \in Option
  BY DEF TieredInductive, Tiers, Entries
<1> QED BY <1>1, <1>2, <1>3, TieredFacts DEF Read

LEMMA PromoteInductive ==
  ASSUME TieredInductive, NEW e \in Entries, promote(e)
  PROVE  TieredInductive'
<1>1. PICK v \in Values : Read(e) = <<v>>
  BY ReadOption DEF promote, Option
<1>2. CanPut(hot, e, v) /\ hot' = Put(hot, e, v) /\ Idle /\ ~failure
  BY <1>1 DEF promote, Readable
<1>3. Stages(hot, hot', e, <<v>>)
  BY <1>2, PutStages, TieredFacts
<1>4. Owned(e) => <<v>> = Row(warm, e, rows[e])
  BY <1>1, <1>2, ReadCoherent DEF Owned, Idle
<1> QED BY <1>2, <1>3, <1>4, HotStaged DEF promote

LEMMA EvictInductive ==
  ASSUME TieredInductive, NEW e \in Entries, evict(e)
  PROVE  TieredInductive'
<1>1. Stages(hot, hot', e, <<>>) /\ Idle
  BY DeleteStages, TieredFacts DEF evict
<1> QED BY <1>1, HotStaged DEF evict

LEMMA GetMutInductive ==
  ASSUME TieredInductive, NEW e \in Entries, NEW v \in Values, get_mut(e, v)
  PROVE  TieredInductive'
<1>1. UNCHANGED <<attached, cold, rows, marker, poisoned, unresolved, warm, failure>>
  BY DEF get_mut, Kept
<1>2. Idle /\ hot' = [hot EXCEPT !.cache[e] = <<v>>] /\ borrowed' = <<e>>
  BY DEF get_mut
<1>3. Sound(hot') /\ hot'.cache = [hot.cache EXCEPT ![e] = <<v>>]
  BY <1>2, CacheApart, TieredFacts
<1>4. ASSUME attached', ~failure', NEW f \in Persistent, hot'.cache[f] # <<>>, borrowed' # <<f>>
      PROVE  hot'.cache[f] = Row(warm', f, rows[f])
  <2>1. f # e /\ hot'.cache[f] = hot.cache[f]
    BY <1>2, <1>3, <1>4, TieredFacts
  <2> QED BY <1>1, <1>2, <1>4, <2>1, TieredFacts
<1> QED BY <1>1, <1>3, <1>4, TieredFacts, StepStaged

LEMMA MarkDirtyInductive ==
  ASSUME TieredInductive, NEW e \in Entries, mark_dirty(e)
  PROVE  TieredInductive'
<1>1. ~failure /\ borrowed \in {<<>>, <<e>>} /\ borrowed' = <<>> /\ Kept
  BY DEF mark_dirty
<1>2. CASE e \in Local \/ hot.cache[e] = <<>>
  <2>1. UNCHANGED <<hot, warm, failure, attached, cold, rows, marker, poisoned, unresolved>>
    BY <1>1, <1>2 DEF mark_dirty, Kept
  <2>2. ASSUME attached', ~failure', NEW f \in Persistent, hot'.cache[f] # <<>>
        PROVE  hot'.cache[f] = Row(warm', f, rows[f])
    <3>1. f # e
      BY <1>2, <2>1, <2>2, Constants
    <3>2. borrowed # <<f>>
      BY <1>1, <3>1
    <3> QED BY <2>1, <2>2, <3>2 DEF TieredInductive, Coherent
  <2> QED BY <2>1, <2>2, TieredFacts, StepStaged
<1>3. CASE ~(e \in Local \/ hot.cache[e] = <<>>)
  <2>1. e \in Persistent /\ hot.cache[e] \in Option
    BY <1>3, TieredFacts DEF Entries
  <2>2. PICK v \in Values : hot.cache[e] = <<v>>
    BY <1>3, <2>1 DEF Option
  <2> DEFINE toWarm == ~poisoned /\ CanPut(warm, e, v)
  <2>3. /\ warm' = IF attached /\ toWarm THEN Put(warm, e, v) ELSE warm
        /\ StageHot((attached => toWarm) /\ CanPut(hot, e, v), Put(hot, e, v))
    BY <1>3, <2>2 DEF mark_dirty
  <2>4. CASE attached /\ toWarm
    <3>1. Stages(warm, warm', e, <<v>>)
      BY <2>1, <2>3, <2>4, PutStages, TieredFacts
    <3>2. \/ Stages(hot, hot', e, <<v>>) /\ failure' = FALSE
          \/ hot' = hot /\ failure' = TRUE
      BY <2>1, <2>3, <2>4, PutStages, TieredFacts DEF StageHot
    <3> QED BY <1>1, <2>1, <3>1, <3>2, BothStaged
  <2>5. CASE ~(attached /\ toWarm)
    <3>1. warm' = warm /\ failure' \in BOOLEAN /\ (attached => failure' = TRUE)
      BY <2>3, <2>5 DEF StageHot
    <3>2. Sound(hot')
      <4>1. hot' = hot \/ (CanPut(hot, e, v) /\ hot' = Put(hot, e, v))
        BY <2>3 DEF StageHot
      <4> QED BY <2>1, <4>1, PutStages, TieredFacts DEF Stages
    <3>3. UNCHANGED <<attached, cold, rows, marker, poisoned, unresolved>>
      BY <1>1 DEF Kept
    <3> QED BY <1>1, <3>1, <3>2, <3>3, TieredFacts, StepStaged
  <2> QED BY <2>4, <2>5
<1> QED BY <1>2, <1>3

LEMMA WithWarmInductive ==
  ASSUME TieredInductive, with_warm
  PROVE  TieredInductive'
<1>1. /\ UNCHANGED <<hot, cold, failure, rows, marker, poisoned, borrowed, unresolved>>
      /\ attached' = TRUE /\ warm' = NewBuffer
      /\ \A e \in Persistent : hot.cache[e] = <<>>
  BY DEF with_warm, Attachable
<1>2. /\ Sound(warm') /\ <<>> \in Option
      /\ \A e \in Persistent : warm'.cache[e] = Row(warm', e, <<>>)
  BY <1>1, NewSound DEF Option, Entries
<1> QED BY <1>1, <1>2, TieredFacts, StepStaged

\* A commit of WARM writes what it has staged, if anything.
LEMMA DiskCommitted ==
  ASSUME TieredInductive, DiskCommit(TRUE)
  PROVE  /\ rows' \in [Persistent -> Option]
         /\ \A e \in Persistent : rows'[e] = Row(warm, e, rows[e])
         /\ marker' # <<>> => marker' = <<marker'[1]>> /\ Applied(marker'[1], rows') = rows'
<1>1. rows \in [Persistent -> Option] /\ Sound(warm)
  BY DEF TieredInductive, Tiers
<1>2. CASE has_pending(warm)
  <2>1. rows' = Applied(Changes(warm), rows) /\ marker' = <<Changes(warm)>>
    BY <1>2 DEF DiskCommit, Written
  <2> QED BY <1>1, <2>1, RowsWritten, AppliedTwice
<1>3. CASE ~has_pending(warm)
  <2>1. rows' = rows /\ marker' = marker
    BY <1>3 DEF DiskCommit
  <2>2. \A e \in Persistent : Row(warm, e, rows[e]) = rows[e]
    BY <1>1, <1>3, NothingPending
  <2> QED BY <1>1, <2>1, <2>2 DEF TieredInductive, Resolvable
<1> QED BY <1>2, <1>3

LEMMA CommitInductive ==
  ASSUME TieredInductive, commit
  PROVE  TieredInductive'
<1>1. /\ ~failure /\ Idle /\ hot' = clear_pending(hot)
      /\ UNCHANGED <<attached, cold, failure, poisoned, borrowed, unresolved>>
  BY DEF commit
<1>2. Sound(hot') /\ hot'.cache = hot.cache
  BY <1>1, ClearSound, TieredFacts
<1>3. CASE ~attached
  <2>1. UNCHANGED <<warm, rows, marker>>
    BY <1>3 DEF commit
  <2> QED BY <1>1, <1>2, <1>3, <2>1, TieredFacts, StepStaged
<1>4. CASE attached
  <2>1. warm' = finish(warm) /\ DiskCommit(TRUE)
    BY <1>4 DEF commit
  <2>2. /\ rows' \in [Persistent -> Option]
        /\ \A e \in Persistent : rows'[e] = Row(warm, e, rows[e])
        /\ marker' # <<>> => marker' = <<marker'[1]>> /\ Applied(marker'[1], rows') = rows'
    BY <2>1, DiskCommitted
  <2>3. /\ Sound(warm') /\ \A e \in Persistent : warm'.cache[e] = <<>>
        /\ \A f \in Persistent, r \in Option : Row(warm', f, r) = r
    BY <2>1, FinishSound, TieredFacts
  <2>4. <<>> \in Option /\ \A e \in Persistent : rows'[e] \in Option
    BY <2>2 DEF Option
  <2>5. Tiers'
    <3>1. \A e \in Persistent : warm'.cache[e] = Row(warm', e, <<>>)
      BY <2>3, <2>4
    <3> QED BY <1>1, <1>2, <2>2, <2>3, <3>1 DEF TieredInductive, Tiers, CacheStaged,
               Sound, Exact, WithinLimits, Row, IsStaged
  <2>6. Coherent'
    <3>1. \A e \in Persistent : hot'.cache[e] # <<>> => hot'.cache[e] = Row(warm', e, rows'[e])
      BY <1>1, <1>2, <1>4, <2>2, <2>3, <2>4, TieredFacts
    <3> QED BY <3>1 DEF Coherent, Row, IsStaged
  <2>7. Resolvable'
    BY <1>1, <2>2 DEF TieredInductive, Resolvable, MarkerResolves
  <2> QED BY <2>5, <2>6, <2>7 DEF TieredInductive
<1> QED BY <1>3, <1>4

\* A step that freezes the store: what HOT caches matters no more.
LEMMA Frozen ==
  ASSUME TieredInductive, failure' = TRUE, poisoned' \in BOOLEAN, attached,
         UNCHANGED <<hot, attached, cold>>,
         rows' \in [Persistent -> Option], Sound(warm'),
         \A e \in Persistent : warm'.cache[e] = Row(warm', e, <<>>),
         Resolvable'
  PROVE  TieredInductive'
<1>1. Tiers'
  BY DEF TieredInductive, Tiers, CacheStaged, Sound, Exact, WithinLimits, Row, IsStaged
<1>2. Coherent'
  BY DEF Coherent
<1> QED BY <1>1, <1>2 DEF TieredInductive

LEMMA CommitFailsInductive ==
  ASSUME TieredInductive, CommitFails
  PROVE  TieredInductive'
  BY StepStaged, TieredFacts DEF CommitFails

LEMMA CommitUnknownInductive ==
  ASSUME TieredInductive, CommitUnknown
  PROVE  TieredInductive'
<1>1. /\ attached /\ failure' = TRUE /\ poisoned' = TRUE /\ has_pending(warm)
      /\ unresolved' = <<[id |-> Changes(warm), before |-> rows]>>
      /\ UNCHANGED <<hot, warm, attached, cold, borrowed>>
  BY DEF CommitUnknown, Unresolved
<1>2. rows \in [Persistent -> Option] /\ Sound(warm)
  BY DEF TieredInductive, Tiers
<1>3. PICK done \in BOOLEAN : DiskCommit(done)
  BY DEF CommitUnknown
<1>4. CASE done
  <2>1. rows' = Applied(Changes(warm), rows) /\ marker' = <<Changes(warm)>>
    BY <1>1, <1>3, <1>4 DEF DiskCommit, Written
  <2>2. rows' \in [Persistent -> Option]
    BY <1>2, <2>1, RowsWritten
  <2>3. Applied(marker'[1], rows') = rows'
    BY <2>1, AppliedTwice
  <2>4. Resolvable'
    BY <1>1, <2>1, <2>3 DEF Resolvable, MarkerResolves
  <2> QED BY <1>1, <2>2, <2>4, Frozen, TieredFacts
<1>5. CASE ~done
  <2>1. rows' = rows /\ marker' = marker
    BY <1>3, <1>5 DEF DiskCommit
  <2>2. Resolvable'
    BY <1>1, <2>1 DEF TieredInductive, Resolvable, MarkerResolves
  <2> QED BY <1>1, <1>2, <2>1, <2>2, Frozen, TieredFacts
<1> QED BY <1>3, <1>4, <1>5

LEMMA HotCommitFailsInductive ==
  ASSUME TieredInductive, HotCommitFails
  PROVE  TieredInductive'
<1> DEFINE id == IF has_pending(warm) THEN Changes(warm)
                 ELSE IF marker # <<>> THEN marker[1] ELSE Changes(NewBuffer)
<1>1. /\ attached /\ failure' = TRUE /\ warm' = finish(warm) /\ DiskCommit(TRUE)
      /\ unresolved' = <<[id |-> id, before |-> rows]>>
      /\ UNCHANGED <<hot, attached, cold, poisoned, borrowed>>
  BY DEF HotCommitFails, Unresolved
<1>2. /\ rows' \in [Persistent -> Option]
      /\ marker' # <<>> => marker' = <<marker'[1]>> /\ Applied(marker'[1], rows') = rows'
  BY <1>1, DiskCommitted
<1>3. /\ Sound(warm') /\ <<>> \in Option
      /\ \A e \in Persistent : warm'.cache[e] = Row(warm', e, <<>>)
  BY <1>1, FinishSound, TieredFacts DEF Option
<1>4. IF marker' = <<id>> THEN rows' = Applied(id, rows) ELSE rows' = rows
  <2>1. CASE has_pending(warm)
    BY <1>1, <2>1 DEF DiskCommit, Written
  <2>2. CASE ~has_pending(warm)
    BY <1>1, <1>2, <2>2 DEF DiskCommit
  <2> QED BY <2>1, <2>2
<1> HIDE DEF id
<1>5. Resolvable'
  BY <1>1, <1>2, <1>4 DEF Resolvable, MarkerResolves
<1> QED BY <1>1, <1>2, <1>3, <1>5, Frozen, TieredFacts

LEMMA OwnerFailsInductive ==
  ASSUME TieredInductive, OwnerFails
  PROVE  TieredInductive'
<1>1. /\ attached /\ poisoned' = TRUE
      /\ UNCHANGED <<hot, warm, attached, cold, failure, rows, marker, borrowed, unresolved>>
  BY DEF OwnerFails
<1> QED BY <1>1, StepStaged, TieredFacts DEF TieredInductive, Coherent

LEMMA ReopenInductive ==
  ASSUME TieredInductive, Reopen
  PROVE  TieredInductive'
<1>1. /\ hot' = NewBuffer /\ warm' = NewBuffer /\ attached' = FALSE
      /\ failure' = FALSE /\ poisoned' = FALSE /\ unresolved' = <<>>
      /\ UNCHANGED <<cold, rows, marker>>
  BY DEF Reopen
<1>2. /\ Sound(hot') /\ Sound(warm') /\ <<>> \in Option
      /\ \A e \in Persistent : warm'.cache[e] = Row(warm', e, <<>>)
  BY <1>1, NewSound DEF Option, Entries
<1>3. Tiers'
  BY <1>1, <1>2 DEF TieredInductive, Tiers, CacheStaged, Sound, Exact, WithinLimits, Row, IsStaged
<1>4. Coherent' /\ Resolvable'
  BY <1>1 DEF TieredInductive, Coherent, Resolvable, MarkerResolves
<1> QED BY <1>3, <1>4 DEF TieredInductive

LEMMA TieredNext == TieredInductive /\ [Next]_vars => TieredInductive'
<1> SUFFICES ASSUME TieredInductive, [Next]_vars PROVE TieredInductive'
  OBVIOUS
<1>1. CASE UNCHANGED vars
  BY <1>1, StepStaged, TieredFacts DEF vars, TieredInductive, Coherent
<1>2. CASE Next
  BY <1>2, PutInductive, RemoveInductive, PromoteInductive, EvictInductive, GetMutInductive,
     MarkDirtyInductive, WithWarmInductive, CommitInductive, CommitFailsInductive,
     CommitUnknownInductive, HotCommitFailsInductive, OwnerFailsInductive, ReopenInductive
     DEF Next
<1> QED BY <1>1, <1>2

LEMMA TieredAlways == Spec => []TieredInductive
  BY TieredInit, TieredNext, PTL DEF Spec

\* ScanMatchesReads for any entries, values, limits and archives: a scan that
\* is admitted (tiered.rs:226) shows what the point reads show.
THEOREM ScansMatchReads == Spec => []ScanMatchesReads
<1>1. ASSUME TieredInductive, ~is_poisoned, attached, Idle, ~has_pending(warm),
             NEW e \in Persistent
      PROVE  rows[e] = Read(e)
  <2>1. Read(e) = Row(warm, e, rows[e])
    BY <1>1, ReadCoherent DEF is_poisoned, Idle
  <2>2. Row(warm, e, rows[e]) = rows[e]
    BY <1>1, NothingPending, TieredFacts
  <2> QED BY <2>1, <2>2
<1>2. TieredInductive => ScanMatchesReads
  BY <1>1 DEF ScanMatchesReads
<1> QED BY <1>2, TieredAlways, PTL

\* MarkerResolves, likewise: whenever a commit's outcome is unknown, comparing
\* the marker with the identity of the batch decides it, even if the batch
\* before it had the same identity.
THEOREM MarkerAlwaysResolves == Spec => []MarkerResolves
<1>1. TieredInductive => MarkerResolves
  BY DEF TieredInductive, Resolvable
<1> QED BY <1>1, TieredAlways, PTL

-----------------------------------------------------------------------------
(* A TieredStore implements ShardMap *)

ShardStep == [Shards!Next]_(Shards!shardVars)

LEMMA ShownMaps ==
  /\ Shown = [e \in Entries |-> Shown[e]]
  /\ is_poisoned => Shown = Shards!Opened(rows)
  /\ ~is_poisoned => \A e \in Entries : Shown[e] = Read(e)
  BY DEF Shown, Reads, Read, WarmRead, Owned, Shards!Opened, Shards!Entries, Entries

\* A step that changes what at most one entry shows.
LEMMA SetStep ==
  ASSUME NEW e \in Entries, ~is_poisoned, ~is_poisoned', UNCHANGED <<rows, cold, attached>>,
         \A f \in Entries : f # e => Shown'[f] = Shown[f]
  PROVE  ShardStep
<1>1. Shown = [f \in Entries |-> Shown[f]] /\ Shown' = [f \in Entries |-> Shown'[f]]
  BY DEF Shown, Reads, Read, WarmRead, Owned
<1>2. is_poisoned' = is_poisoned
  BY DEF is_poisoned
<1>3. CASE Shown'[e] = Shown[e]
  <2>1. Shown' = Shown
    BY <1>1, <1>3
  <2> QED BY <1>2, <2>1 DEF ShardStep, Shards!shardVars
<1>4. CASE Shown'[e] # Shown[e]
  <2>1. Shown' = [Shown EXCEPT ![e] = Shown'[e]]
    BY <1>1
  <2>2. Shards!Set(e, Shown'[e])
    BY <1>2, <2>1 DEF Shards!Set
  <2>3. Shards!Next
    BY <1>4, <2>2 DEF Shards!Next, Shards!Entries, Entries
  <2> QED BY <2>3 DEF ShardStep
<1> QED BY <1>3, <1>4

\* A step that freezes the store, with the batch durable or not.
LEMMA FreezeStep ==
  ASSUME is_poisoned', UNCHANGED <<cold, attached>>,
         \/ rows' = rows
         \/ attached /\ ~is_poisoned /\ rows' = [e \in Persistent |-> Shown[e]]
  PROVE  ShardStep
<1>1. Shown' = Shards!Opened(rows')
  BY DEF Shown, Shards!Opened, Shards!Entries, Entries
<1>2. CASE is_poisoned
  <2>1. rows' = rows /\ Shown' = Shown
    BY <1>1, <1>2, ShownMaps
  <2>2. is_poisoned' = is_poisoned
    BY <1>2 DEF is_poisoned
  <2> QED BY <2>1, <2>2 DEF ShardStep, Shards!shardVars
<1>3. CASE ~is_poisoned
  <2>1. is_poisoned' = TRUE
    BY DEF is_poisoned
  <2>2. Shards!Freeze
    BY <1>1, <1>3, <2>1 DEF Shards!Freeze
  <2> QED BY <2>2 DEF ShardStep, Shards!Next
<1> QED BY <1>2, <1>3

\* What an entry shows, in terms of staged rows.
Shows(e, p, h, w, r, c, a) ==
  IF p THEN (IF e \in Persistent THEN r[e] ELSE <<>>)
  ELSE IF h.cache[e] # <<>> THEN h.cache[e]
  ELSE IF a /\ e \in Persistent THEN Row(w, e, r[e])
  ELSE IF e \in Local THEN <<>> ELSE c[e]

LEMMA ShownShows ==
  ASSUME TieredInductive, TieredInductive', NEW e \in Entries
  PROVE  /\ Shown[e] = Shows(e, is_poisoned, hot, warm, rows, cold, attached)
         /\ Shown'[e] = Shows(e, is_poisoned', hot', warm', rows', cold', attached')
<1>1. e \in Persistent => /\ warm.cache[e] = Row(warm, e, <<>>)
                          /\ warm'.cache[e] = Row(warm', e, <<>>)
  BY DEF TieredInductive, Tiers, CacheStaged, Row, IsStaged
<1>2. e \in Persistent =>
        /\ WarmRead(e) = Row(warm, e, rows[e])
        /\ (IF e \in warm'.deleted THEN <<>>
            ELSE IF warm'.cache[e] # <<>> THEN warm'.cache[e] ELSE rows'[e])
           = Row(warm', e, rows'[e])
  BY <1>1, StagedUnder DEF WarmRead
<1>3. Shown[e] = Shows(e, is_poisoned, hot, warm, rows, cold, attached)
  BY <1>2 DEF Shows, Shown, Reads, Read, WarmRead, Owned
<1>4. Shown'[e] = Shows(e, is_poisoned', hot', warm', rows', cold', attached')
  BY <1>2 DEF Shows, Shown, Reads, Read, WarmRead, Owned
<1> QED BY <1>3, <1>4

\* An entry whose tiers did not change shows what it showed.
LEMMA ShowsSame ==
  ASSUME TieredInductive, TieredInductive', ~is_poisoned, ~is_poisoned',
         UNCHANGED <<rows, cold, attached>>, NEW f \in Entries,
         hot'.cache[f] = hot.cache[f],
         attached /\ f \in Persistent => Row(warm', f, rows[f]) = Row(warm, f, rows[f])
  PROVE  Shown'[f] = Shown[f]
  BY ShownShows DEF Shows

\* A call that changes e in the tiers, if it does not freeze the store.
LEMMA StagedStep ==
  ASSUME TieredInductive, TieredInductive', UNCHANGED <<rows, cold, attached>>,
         is_poisoned => is_poisoned', NEW e \in Entries,
         ~is_poisoned' => \A f \in Entries : f # e =>
           /\ hot'.cache[f] = hot.cache[f]
           /\ attached /\ f \in Persistent => Row(warm', f, rows[f]) = Row(warm, f, rows[f])
  PROVE  ShardStep
<1>1. CASE is_poisoned'
  BY <1>1, FreezeStep
<1>2. CASE ~is_poisoned'
  <2>1. \A f \in Entries : f # e => Shown'[f] = Shown[f]
    BY <1>2, ShowsSame
  <2> QED BY <1>2, <2>1, SetStep
<1> QED BY <1>1, <1>2

\* A call that leaves what e shows too.
LEMMA CopiedStep ==
  ASSUME TieredInductive, TieredInductive', UNCHANGED <<rows, cold, attached>>,
         is_poisoned' = is_poisoned,
         ~is_poisoned => \A f \in Entries : Shown'[f] = Shown[f]
  PROVE  ShardStep
<1>1. CASE is_poisoned
  BY <1>1, FreezeStep
<1>2. CASE ~is_poisoned
  <2>1. Shown = [f \in Entries |-> Shown[f]] /\ Shown' = [f \in Entries |-> Shown'[f]]
    BY DEF Shown, Reads, Read, WarmRead, Owned
  <2>2. Shown' = Shown
    BY <1>2, <2>1
  <2> QED BY <2>2 DEF ShardStep, Shards!shardVars
<1> QED BY <1>1, <1>2

LEMMA PutStep ==
  ASSUME TieredInductive, TieredInductive', NEW e \in Entries, NEW v \in Values, put(e, v)
  PROVE  ShardStep
<1>1. UNCHANGED <<attached, cold, rows, poisoned>> /\ ~failure
  BY DEF put, Kept, Readable
<1>2. is_poisoned => is_poisoned'
  BY <1>1 DEF is_poisoned
<1>3. Sound(hot) /\ Sound(warm) /\ \A f \in Persistent : rows[f] \in Option
  BY TieredFacts
<1>4. CASE /\ Owned(e) /\ CanPut(warm, e, v) /\ warm' = Put(warm, e, v)
           /\ StageHot(CanPut(hot, e, v), Put(hot, e, v))
  <2>1. Stages(warm, warm', e, <<v>>)
    BY <1>3, <1>4, PutStages
  <2>2. Stages(hot, hot', e, <<v>>) \/ is_poisoned'
    BY <1>3, <1>4, PutStages DEF StageHot, is_poisoned
  <2> QED BY <1>1, <1>2, <1>3, <2>1, <2>2, StagedStep DEF Stages
<1>5. CASE /\ Unowned(e) /\ CanPut(hot, e, v) /\ hot' = Put(hot, e, v)
           /\ UNCHANGED <<warm, failure>>
  <2>1. Stages(hot, hot', e, <<v>>)
    BY <1>3, <1>5, PutStages
  <2> QED BY <1>1, <1>2, <1>5, <2>1, StagedStep DEF Stages
<1> QED BY <1>4, <1>5 DEF put

LEMMA RemoveStep ==
  ASSUME TieredInductive, TieredInductive', NEW e \in Entries, remove(e)
  PROVE  ShardStep
<1>1. UNCHANGED <<attached, cold, rows, poisoned>> /\ ~failure
  BY DEF remove, Kept, Readable
<1>2. is_poisoned => is_poisoned'
  BY <1>1 DEF is_poisoned
<1>3. Sound(hot) /\ Sound(warm) /\ \A f \in Persistent : rows[f] \in Option
  BY TieredFacts
<1>4. CASE /\ Owned(e) /\ CanDelete(warm, e) /\ warm' = Delete(warm, e)
           /\ StageHot(CanDelete(hot, e), Delete(hot, e))
  <2>1. Stages(warm, warm', e, <<>>)
    BY <1>3, <1>4, DeleteStages
  <2>2. Stages(hot, hot', e, <<>>) \/ is_poisoned'
    BY <1>3, <1>4, DeleteStages DEF StageHot, is_poisoned
  <2> QED BY <1>1, <1>2, <1>3, <2>1, <2>2, StagedStep DEF Stages
<1>5. CASE /\ Unowned(e) /\ CanDelete(hot, e) /\ hot' = Delete(hot, e)
           /\ UNCHANGED <<warm, failure>>
  <2>1. Stages(hot, hot', e, <<>>)
    BY <1>3, <1>5, DeleteStages
  <2> QED BY <1>1, <1>2, <1>5, <2>1, StagedStep DEF Stages
<1> QED BY <1>4, <1>5 DEF remove

\* HOT gets a copy of what e shows, or loses it.
LEMMA MovedStep ==
  ASSUME TieredInductive, TieredInductive', NEW e \in Entries, NEW o, Kept,
         UNCHANGED <<warm, failure>>, Stages(hot, hot', e, o),
         ~is_poisoned => Shown'[e] = Shown[e]
  PROVE  ShardStep
<1>1. UNCHANGED <<attached, cold, rows, poisoned, failure, warm>> /\ is_poisoned' = is_poisoned
  BY DEF Kept, is_poisoned
<1>2. ~is_poisoned => \A f \in Entries : f # e => Shown'[f] = Shown[f]
  BY <1>1, ShowsSame DEF Stages
<1> QED BY <1>1, <1>2, CopiedStep

LEMMA PromoteStep ==
  ASSUME TieredInductive, TieredInductive', NEW e \in Entries, promote(e)
  PROVE  ShardStep
<1>1. PICK v \in Values : Read(e) = <<v>>
  BY ReadOption DEF promote, Option
<1>2. CanPut(hot, e, v) /\ hot' = Put(hot, e, v) /\ Kept /\ UNCHANGED <<warm, failure>>
  BY <1>1 DEF promote
<1>3. Stages(hot, hot', e, <<v>>)
  BY <1>2, PutStages, TieredFacts
<1>4. ~is_poisoned => Shown'[e] = Shown[e]
  <2>1. is_poisoned' = is_poisoned
    BY <1>2 DEF is_poisoned, Kept
  <2>2. hot'.cache[e] = <<v>> /\ <<v>> # <<>>
    BY <1>3 DEF Stages
  <2>3. ~is_poisoned => Shown'[e] = <<v>>
    BY <2>1, <2>2, ShownShows DEF Shows
  <2>4. ~is_poisoned => Shown[e] = <<v>>
    BY <1>1, ShownMaps
  <2> QED BY <2>3, <2>4
<1> QED BY <1>2, <1>3, <1>4, MovedStep

LEMMA EvictStep ==
  ASSUME TieredInductive, TieredInductive', NEW e \in Entries, evict(e)
  PROVE  ShardStep
<1>1. /\ Owned(e) /\ hot.cache[e] # <<>> /\ WarmRead(e) = hot.cache[e]
      /\ CanDelete(hot, e) /\ hot' = Delete(hot, e) /\ Kept /\ UNCHANGED <<warm, failure>>
  BY DEF evict, Evictable
<1>2. Stages(hot, hot', e, <<>>)
  BY <1>1, DeleteStages, TieredFacts
<1>3. ~is_poisoned => Shown'[e] = Shown[e]
  <2>1. is_poisoned' = is_poisoned /\ UNCHANGED <<attached, rows, warm>>
    BY <1>1 DEF is_poisoned, Kept
  <2>2. hot'.cache[e] = <<>>
    BY <1>2 DEF Stages
  <2>3. e \in Persistent /\ attached /\ hot.cache[e] = Row(warm, e, rows[e])
    BY <1>1, WarmReadRow, TieredFacts DEF Owned
  <2>4. ~is_poisoned => Shown'[e] = Row(warm, e, rows[e])
    BY <2>1, <2>2, <2>3, ShownShows DEF Shows
  <2>5. ~is_poisoned => Shown[e] = hot.cache[e]
    BY <1>1, ShownShows DEF Shows
  <2> QED BY <2>3, <2>4, <2>5
<1> QED BY <1>1, <1>2, <1>3, MovedStep

LEMMA GetMutStep ==
  ASSUME TieredInductive, TieredInductive', NEW e \in Entries, NEW v \in Values, get_mut(e, v)
  PROVE  ShardStep
<1>1. UNCHANGED <<attached, cold, rows, poisoned, warm, failure>>
  BY DEF get_mut, Kept
<1>2. hot'.cache = [hot.cache EXCEPT ![e] = <<v>>] /\ hot.cache \in [Entries -> Option]
  BY CacheApart, TieredFacts DEF get_mut
<1>3. is_poisoned' = is_poisoned
  BY <1>1 DEF is_poisoned
<1> QED BY <1>1, <1>2, <1>3, StagedStep

LEMMA MarkDirtyStep ==
  ASSUME TieredInductive, TieredInductive', NEW e \in Entries, mark_dirty(e)
  PROVE  ShardStep
<1>1. ~failure /\ UNCHANGED <<attached, cold, rows, poisoned>>
  BY DEF mark_dirty, Kept
<1>2. is_poisoned => is_poisoned'
  BY <1>1 DEF is_poisoned
<1>3. CASE e \in Local \/ hot.cache[e] = <<>>
  <2>1. UNCHANGED <<hot, warm, failure>>
    BY <1>3 DEF mark_dirty
  <2> QED BY <1>1, <1>2, <2>1, StagedStep
<1>4. CASE ~(e \in Local \/ hot.cache[e] = <<>>)
  <2>1. e \in Persistent /\ hot.cache[e] \in Option
    BY <1>4, TieredFacts DEF Entries
  <2>2. PICK v \in Values : hot.cache[e] = <<v>>
    BY <1>4, <2>1 DEF Option
  <2> DEFINE toWarm == ~poisoned /\ CanPut(warm, e, v)
  <2>3. /\ warm' = IF attached /\ toWarm THEN Put(warm, e, v) ELSE warm
        /\ StageHot((attached => toWarm) /\ CanPut(hot, e, v), Put(hot, e, v))
    BY <1>4, <2>2 DEF mark_dirty
  <2>4. CASE is_poisoned'
    BY <1>1, <2>4, FreezeStep
  <2>5. CASE ~is_poisoned'
    <3>1. (attached => toWarm) /\ CanPut(hot, e, v) /\ hot' = Put(hot, e, v)
      BY <2>3, <2>5 DEF StageHot, is_poisoned
    <3>2. Stages(hot, hot', e, <<v>>)
      BY <3>1, PutStages, TieredFacts
    <3>3. attached => Stages(warm, warm', e, <<v>>)
      BY <2>3, <3>1, PutStages, TieredFacts
    <3> QED BY <1>1, <1>2, <3>2, <3>3, TieredFacts, StagedStep DEF Stages
  <2> QED BY <2>4, <2>5
<1> QED BY <1>3, <1>4

LEMMA WithWarmStep ==
  ASSUME TieredInductive, TieredInductive', with_warm
  PROVE  ShardStep
<1>1. /\ ~attached /\ attached' = TRUE /\ warm' = NewBuffer
      /\ UNCHANGED <<hot, cold, failure, rows, poisoned>>
      /\ \A e \in Persistent : hot.cache[e] = <<>>
  BY DEF with_warm, Attachable
<1>2. is_poisoned' = is_poisoned
  BY <1>1, TieredFacts DEF is_poisoned
<1>3. \A e \in Persistent : Row(warm', e, rows[e]) = rows[e]
  BY <1>1, NewSound, TieredFacts
<1>4. \A e \in Entries : Shown'[e] = IF e \in Persistent THEN rows[e] ELSE Shown[e]
  <2> SUFFICES ASSUME NEW e \in Entries
               PROVE  Shown'[e] = IF e \in Persistent THEN rows[e] ELSE Shown[e]
    OBVIOUS
  <2>1. CASE e \in Persistent
    BY <1>1, <1>3, <2>1, ShownShows DEF Shows
  <2>2. CASE e \notin Persistent
    BY <1>1, <1>2, <2>2, ShownShows DEF Shows
  <2> QED BY <2>1, <2>2
<1>5. Shown' = [e \in Entries |-> Shown'[e]]
  BY DEF Shown, Reads, Read, WarmRead, Owned
<1>6. ~is_poisoned => \A e \in Persistent : Shown[e] = cold[e]
  BY <1>1, ShownShows, Constants DEF Shows, Entries
<1>7. Shards!Attach
  <2>1. Shown' = [e \in Shards!Entries |-> IF e \in Persistent THEN rows[e] ELSE Shown[e]]
    BY <1>4, <1>5 DEF Shards!Entries, Entries
  <2> QED BY <1>1, <1>2, <1>6, <2>1 DEF Shards!Attach
<1> QED BY <1>7 DEF ShardStep, Shards!Next

\* What a commit makes durable is what reads show.
LEMMA CommitRows ==
  ASSUME TieredInductive, TieredInductive', DiskCommit(TRUE), attached, ~is_poisoned, Idle
  PROVE  rows' = [e \in Persistent |-> Shown[e]]
<1>1. \A e \in Persistent : rows'[e] = Row(warm, e, rows[e]) /\ rows' \in [Persistent -> Option]
  BY DiskCommitted
<1>2. \A e \in Persistent : e \in Entries /\ Shown[e] = Row(warm, e, rows[e])
  BY ShownMaps, ReadCoherent DEF is_poisoned, Idle, Entries
<1>3. rows' \in [Persistent -> Option]
  BY DiskCommitted
<1> QED BY <1>1, <1>2, <1>3

LEMMA CommitStep ==
  ASSUME TieredInductive, TieredInductive', commit
  PROVE  ShardStep
<1>1. /\ ~is_poisoned /\ Idle /\ ~failure /\ hot' = clear_pending(hot)
      /\ UNCHANGED <<attached, cold, failure, poisoned>>
  BY DEF commit, is_poisoned
<1>2. hot'.cache = hot.cache /\ is_poisoned' = is_poisoned
  BY <1>1, ClearSound, TieredFacts DEF is_poisoned
<1>3. CASE ~attached
  <2>1. UNCHANGED <<warm, rows>>
    BY <1>3 DEF commit
  <2>2. \A f \in Entries : Shown'[f] = Shown[f]
    BY <1>1, <1>2, <1>3, <2>1, ShowsSame
  <2> QED BY <1>1, <1>2, <2>1, <2>2, CopiedStep
<1>4. CASE attached
  <2>1. warm' = finish(warm) /\ DiskCommit(TRUE)
    BY <1>4 DEF commit
  <2>2. rows' = [e \in Persistent |-> Shown[e]]
    BY <1>1, <1>4, <2>1, CommitRows
  <2>3. \A f \in Persistent : f \in Entries /\ Row(warm', f, rows'[f]) = rows'[f]
    <3>1. \A f \in Persistent : rows'[f] \in Option
      BY <2>1, DiskCommitted
    <3> QED BY <2>1, <3>1, FinishSound, TieredFacts
  <2>4. ASSUME NEW f \in Entries PROVE Shown'[f] = Shown[f]
    <3>1. CASE f \in Persistent
      <4>1. Shown[f] = rows'[f]
        BY <2>2, <3>1
      <4>2. hot.cache[f] # <<>> => hot.cache[f] = Shown[f]
        BY <1>1, ShownShows DEF Shows
      <4> QED BY <1>1, <1>2, <1>4, <2>3, <3>1, <4>1, <4>2, ShownShows DEF Shows
    <3>2. CASE f \notin Persistent
      BY <1>1, <1>2, <3>2, ShownShows DEF Shows
    <3> QED BY <3>1, <3>2
  <2>5. Shown' = Shown
    <3>1. Shown = [f \in Entries |-> Shown[f]] /\ Shown' = [f \in Entries |-> Shown'[f]]
      BY DEF Shown, Reads, Read, WarmRead, Owned
    <3> QED BY <2>4, <3>1
  <2>6. Shards!Commit
    BY <1>1, <1>2, <1>4, <2>2, <2>5 DEF Shards!Commit
  <2> QED BY <2>6 DEF ShardStep, Shards!Next
<1> QED BY <1>3, <1>4

LEMMA FailureStep ==
  ASSUME TieredInductive, TieredInductive', CommitFails \/ CommitUnknown \/ HotCommitFails \/ OwnerFails
  PROVE  ShardStep
<1>1. is_poisoned' /\ UNCHANGED <<cold, attached>>
  <2>1. UNCHANGED <<cold, attached>> /\ (failure' = TRUE \/ (attached /\ poisoned' = TRUE))
    <3>1. CASE CommitFails
      BY <3>1 DEF CommitFails
    <3>2. CASE CommitUnknown
      BY <3>2 DEF CommitUnknown
    <3>3. CASE HotCommitFails
      BY <3>3 DEF HotCommitFails
    <3>4. CASE OwnerFails
      BY <3>4 DEF OwnerFails
    <3> QED BY <3>1, <3>2, <3>3, <3>4
  <2> QED BY <2>1 DEF is_poisoned
<1>2. CASE CommitFails \/ OwnerFails
  BY <1>1, <1>2, FreezeStep DEF CommitFails, OwnerFails
<1>3. CASE CommitUnknown
  <2>1. attached /\ ~is_poisoned /\ Idle /\ \E done \in BOOLEAN : DiskCommit(done)
    BY <1>3 DEF CommitUnknown, is_poisoned
  <2>2. CASE DiskCommit(TRUE)
    BY <1>1, <2>1, <2>2, CommitRows, FreezeStep
  <2>3. CASE DiskCommit(FALSE)
    BY <1>1, <2>3, FreezeStep DEF DiskCommit
  <2> QED BY <2>1, <2>2, <2>3
<1>4. CASE HotCommitFails
  <2>1. attached /\ ~is_poisoned /\ Idle /\ DiskCommit(TRUE)
    BY <1>4 DEF HotCommitFails, is_poisoned
  <2> QED BY <1>1, <2>1, CommitRows, FreezeStep
<1> QED BY <1>2, <1>3, <1>4

LEMMA ReopenStep ==
  ASSUME TieredInductive, TieredInductive', Reopen
  PROVE  ShardStep
<1>1. /\ hot' = NewBuffer /\ attached' = FALSE /\ failure' = FALSE /\ UNCHANGED <<cold, rows>>
  BY DEF Reopen
<1>2. ~is_poisoned' /\ is_poisoned' = FALSE
  BY <1>1 DEF is_poisoned
<1>3. \A e \in Entries : Shown'[e] = IF e \in Persistent THEN cold[e] ELSE <<>>
  <2>1. \A e \in Entries : hot'.cache[e] = <<>>
    BY <1>1, NewSound
  <2>2. \A e \in Entries : e \in Local <=> e \notin Persistent
    BY Constants DEF Entries
  <2> QED BY <1>1, <1>2, <2>1, <2>2, ShownShows DEF Shows
<1>4. Shown' = [e \in Entries |-> Shown'[e]]
  BY DEF Shown, Reads, Read, WarmRead, Owned
<1>5. Shown' = Shards!Opened(cold)
  BY <1>3, <1>4 DEF Shards!Opened, Shards!Entries, Entries
<1> QED BY <1>1, <1>2, <1>5 DEF ShardStep, Shards!Next, Shards!Reopen

LEMMA StepRefines ==
  ASSUME TieredInductive, TieredInductive', [Next]_vars
  PROVE  ShardStep
<1>1. CASE UNCHANGED vars
  <2>1. Shown' = Shown /\ is_poisoned' = is_poisoned /\ UNCHANGED <<rows, cold, attached>>
    BY <1>1 DEF vars, Shown, is_poisoned, Reads, Read, WarmRead, Owned
  <2> QED BY <2>1 DEF ShardStep, Shards!shardVars
<1>2. CASE Next
  BY <1>2, PutStep, RemoveStep, PromoteStep, EvictStep, GetMutStep, MarkDirtyStep, WithWarmStep,
     CommitStep, FailureStep, ReopenStep DEF Next
<1> QED BY <1>1, <1>2

\* ImplementsShardMap for any entries, values, limits and archives: what reads
\* of a TieredStore show is one map, whatever moves between its tiers, and a
\* commit that fails at any point leaves all of the batch durable or nothing.
THEOREM TieredImplementsMap == Spec => ImplementsShardMap
<1>1. Init => Shards!Init
  <2> SUFFICES ASSUME Init PROVE Shards!Init
    OBVIOUS
  <2>1. /\ attached = FALSE /\ is_poisoned = FALSE
    BY DEF Init, is_poisoned
  <2>2. rows \in [Persistent -> Shards!Option] /\ cold \in [Persistent -> Shards!Option]
    BY ArchivesAssumption DEF Init, NoRows, Option, Shards!Option
  <2>3. Shown = Shards!Opened(cold)
    <3>1. \A e \in Entries : hot.cache[e] = <<>>
      BY NewSound DEF Init
    <3>2. \A e \in Entries : e \in Local <=> e \notin Persistent
      BY Constants DEF Entries
    <3>3. Shown = [e \in Entries |-> IF e \in Local THEN <<>> ELSE cold[e]]
      BY <2>1, <3>1 DEF Shown, Reads, Read, WarmRead, Owned
    <3> QED BY <3>2, <3>3 DEF Shards!Opened, Shards!Entries, Entries
  <2> QED BY <2>1, <2>2, <2>3 DEF Shards!Init
<1>2. TieredInductive /\ TieredInductive' /\ [Next]_vars => [Shards!Next]_(Shards!shardVars)
  BY StepRefines DEF ShardStep
<1> QED BY <1>1, <1>2, TieredAlways, PTL DEF Spec, ImplementsShardMap, Shards!Spec

-----------------------------------------------------------------------------
(* A MemStore *)

Mem == INSTANCE MemStore

\* The buffers of MemStore are those of this module.
LEMMA SameBuffers ==
  /\ Mem!Entries = Entries /\ Mem!Option = Option /\ Mem!Buffers = Buffers
  /\ Mem!NewBuffer = NewBuffer
  /\ \A b, e, v : (Mem!CanPut(b, e, v) <=> CanPut(b, e, v)) /\ Mem!Put(b, e, v) = Put(b, e, v)
  /\ \A b, e : (Mem!CanDelete(b, e) <=> CanDelete(b, e)) /\ Mem!Delete(b, e) = Delete(b, e)
  /\ \A b : Mem!clear_pending(b) = clear_pending(b) /\ Mem!Changes(b) = Changes(b)
  /\ \A c, r : Mem!Applied(c, r) = Applied(c, r)
<1>0. /\ \A b, e : Mem!IsStaged(b, e) <=> IsStaged(b, e)
      /\ \A S : Mem!Cardinality(S) = Cardinality(S)
      /\ \A b, e : Mem!check_key_capacity(b, e) <=> check_key_capacity(b, e)
      /\ \A b, e, v : Mem!ElementsWith(b, e, v) = ElementsWith(b, e, v)
  <2>0. \A S : Mem!Cardinality(S) = Cardinality(S)
    BY DEF Mem!Cardinality, Cardinality
  <2>1. \A b, e : Mem!IsStaged(b, e) <=> IsStaged(b, e)
    BY DEF Mem!IsStaged, IsStaged
  <2>2. \A b, e : Mem!check_key_capacity(b, e) <=> check_key_capacity(b, e)
    BY <2>0, <2>1, Zenon DEF Mem!check_key_capacity, check_key_capacity
  <2>3. \A b, e, v : Mem!ElementsWith(b, e, v) = ElementsWith(b, e, v)
    BY DEF Mem!ElementsWith, ElementsWith, Mem!IsStaged, IsStaged
  <2> QED BY <2>0, <2>1, <2>2, <2>3
<1>1. /\ Mem!Entries = Entries /\ Mem!Option = Option /\ Mem!Buffers = Buffers
      /\ Mem!NewBuffer = NewBuffer
  BY DEF Mem!Entries, Entries, Mem!Option, Option, Mem!Buffers, Buffers, Mem!Elements, Elements,
         Mem!NewBuffer, NewBuffer
<1>2. \A b, e, v : Mem!CanPut(b, e, v) <=> CanPut(b, e, v)
  BY <1>0, Zenon DEF Mem!CanPut, CanPut
<1>3. \A b, e, v : Mem!Put(b, e, v) = Put(b, e, v)
  BY DEF Mem!Put, Put, Mem!ElementsWith, ElementsWith, Mem!IsStaged, IsStaged
<1>4. \A b, e : Mem!CanDelete(b, e) <=> CanDelete(b, e)
  BY <1>0, Zenon DEF Mem!CanDelete, CanDelete
<1>5. \A b, e : Mem!Delete(b, e) = Delete(b, e)
  BY DEF Mem!Delete, Delete, Mem!Unstage, Unstage, Mem!swap_remove, swap_remove,
         Mem!IsStaged, IsStaged
<1>6. \A b : Mem!clear_pending(b) = clear_pending(b) /\ Mem!Changes(b) = Changes(b)
  BY DEF Mem!clear_pending, clear_pending, Mem!Changes, Changes
<1>7. \A c, r : Mem!Applied(c, r) = Applied(c, r)
  BY DEF Mem!Applied, Applied
<1> QED BY <1>1, <1>2, <1>3, <1>4, <1>5, <1>6, <1>7

\* The staging is sound and explains the cache.
MemInductive ==
  /\ TypeOK /\ Sound(state)
  /\ \A e \in Persistent \ unmarked :
       Row(state, e, replica[e]) = state.cache[e]

LEMMA MemInit == Mem!Init => MemInductive
<1> SUFFICES ASSUME Mem!Init PROVE MemInductive
  OBVIOUS
<1>1. /\ state.dirty = <<>> /\ state.deleted = {} /\ state.elements = 0
      /\ state.cache = [e \in Entries |-> <<>>]
      /\ state.positions = [e \in Persistent |-> 0] /\ state \in Buffers
      /\ replica = [e \in Persistent |-> <<>>] /\ unmarked = {}
  BY SameBuffers DEF Mem!Init, NewBuffer, Buffers, Option
<1>2. Len(state.dirty) = 0 /\ DOMAIN state.dirty = {} /\ Cardinality({}) = 0
  BY <1>1, FS_EmptySet
<1>3. Sound(state)
  BY <1>1, <1>2, Constants DEF Sound, Exact, WithinLimits, IsStaged
<1>4. TypeOK
  BY <1>1 DEF TypeOK, Option
<1> QED BY <1>1, <1>3, <1>4 DEF MemInductive, Row, IsStaged, Entries

LEMMA MemNext == MemInductive /\ [Mem!Next]_(Mem!vars) => MemInductive'
<1> SUFFICES ASSUME MemInductive, [Mem!Next]_(Mem!vars) PROVE MemInductive'
  OBVIOUS
<1>1. /\ Sound(state) /\ state \in Buffers /\ state.cache \in [Entries -> Option]
      /\ unmarked \subseteq Entries /\ replica \in [Persistent -> Option]
      /\ \A f \in Persistent \ unmarked : Row(state, f, replica[f]) = state.cache[f]
      /\ \A f \in Persistent : f \in Entries /\ replica[f] \in Option
  BY SameBuffers DEF MemInductive, TypeOK, Sound, Buffers, Entries
\* What a call that stages o for e, or nothing for a local e, has to show.
<1>2. ASSUME NEW e \in Entries, NEW o, Sound(state'),
             state'.cache = [state.cache EXCEPT ![e] = o],
             \A f \in Persistent, r \in Option :
               Row(state', f, r) = IF f = e THEN o ELSE Row(state, f, r),
             unmarked' = unmarked \ {e}, replica' = replica
      PROVE  MemInductive'
  <2>1. TypeOK'
    BY <1>1, <1>2 DEF TypeOK, Sound
  <2>2. \A f \in Persistent \ unmarked' : Row(state', f, replica'[f]) = state'.cache[f]
    BY <1>1, <1>2
  <2> QED BY <1>2, <2>1, <2>2 DEF MemInductive, Sound, Exact, WithinLimits, Row, IsStaged
<1>3. ASSUME NEW e \in Entries, NEW v \in Values, CanPut(state, e, v),
             state' = Put(state, e, v), unmarked' = unmarked \ {e}, replica' = replica
      PROVE  MemInductive'
  <2>1. /\ Sound(Put(state, e, v))
        /\ Put(state, e, v).cache = [state.cache EXCEPT ![e] = <<v>>]
        /\ \A f \in Persistent, r \in Option :
             Row(Put(state, e, v), f, r) = IF f = e THEN <<v>> ELSE Row(state, f, r)
    BY <1>1, <1>3, PutSound
  <2>2. /\ Sound(state') /\ state'.cache = [state.cache EXCEPT ![e] = <<v>>]
        /\ \A f \in Persistent, r \in Option :
             Row(state', f, r) = IF f = e THEN <<v>> ELSE Row(state, f, r)
    BY <1>3, <2>1
  <2> QED BY <1>2, <1>3, <2>2
<1>4. ASSUME NEW e \in Entries, Mem!remove(e) PROVE MemInductive'
  <2>1. /\ Sound(Delete(state, e))
        /\ Delete(state, e).cache = [state.cache EXCEPT ![e] = <<>>]
        /\ \A f \in Persistent, r \in Option :
             Row(Delete(state, e), f, r) = IF f = e THEN <<>> ELSE Row(state, f, r)
    BY <1>1, <1>4, DeleteSound, SameBuffers DEF Mem!remove
  <2>2. state' = Delete(state, e) /\ unmarked' = unmarked \ {e} /\ replica' = replica
    BY <1>4, SameBuffers DEF Mem!remove
  <2>3. /\ Sound(state') /\ state'.cache = [state.cache EXCEPT ![e] = <<>>]
        /\ \A f \in Persistent, r \in Option :
             Row(state', f, r) = IF f = e THEN <<>> ELSE Row(state, f, r)
    BY <2>1, <2>2
  <2> QED BY <1>2, <2>2, <2>3
<1>5. ASSUME NEW e \in Entries, NEW v \in Values, Mem!get_mut(e, v) PROVE MemInductive'
  <2>1. /\ Sound(state') /\ state'.cache = [state.cache EXCEPT ![e] = <<v>>]
        /\ \A f \in Persistent, r \in Option : Row(state', f, r) = Row(state, f, r)
        /\ unmarked' = unmarked \cup {e} /\ replica' = replica
    <3>1. /\ state' = [state EXCEPT !.cache[e] = <<v>>]
          /\ unmarked' = unmarked \cup {e} /\ replica' = replica
      BY <1>5 DEF Mem!get_mut
    <3>2. /\ Sound([state EXCEPT !.cache[e] = <<v>>])
          /\ [state EXCEPT !.cache[e] = <<v>>].cache = [state.cache EXCEPT ![e] = <<v>>]
          /\ \A f \in Persistent, r \in Option :
               Row([state EXCEPT !.cache[e] = <<v>>], f, r) = Row(state, f, r)
      BY <1>1, CacheApart
    <3> QED BY <3>1, <3>2
  <2>2. TypeOK'
    BY <1>1, <2>1 DEF TypeOK, Sound
  <2>3. \A f \in Persistent \ unmarked' : Row(state', f, replica'[f]) = state'.cache[f]
    BY <1>1, <2>1
  <2> QED BY <2>1, <2>2, <2>3 DEF MemInductive, Sound, Exact, WithinLimits, Row, IsStaged
<1>6. ASSUME NEW e \in Entries, Mem!mark_dirty(e) PROVE MemInductive'
  <2>1. state.cache[e] \in Option /\ state.cache[e] # <<>>
    BY <1>1, <1>6 DEF Mem!mark_dirty
  <2>2. PICK v \in Values : state.cache[e] = <<v>>
    BY <2>1 DEF Option
  <2>3. CanPut(state, e, v) /\ state' = Put(state, e, v)
        /\ unmarked' = unmarked \ {e} /\ replica' = replica
    BY <1>6, <2>2, SameBuffers DEF Mem!mark_dirty
  <2> QED BY <1>3, <2>3
<1>7. ASSUME Mem!commit PROVE MemInductive'
  <2>1. /\ Sound(state') /\ state'.cache = state.cache /\ unmarked' = unmarked
        /\ \A f \in Persistent, r \in Option : Row(state', f, r) = r
    BY <1>1, <1>7, ClearSound, SameBuffers DEF Mem!commit
  <2>2. Exact(state)
    BY <1>1 DEF Sound
  <2>3. replica' = Applied(Changes(state), replica)
    BY <1>7, SameBuffers DEF Mem!commit
  <2>4. \A f \in Persistent : replica'[f] = Row(state, f, replica[f])
    BY <1>1, <2>2, <2>3, ChangesExact
  <2>5. \A f \in Persistent : Row(state, f, replica[f]) \in Option
    BY <1>1, RowOption
  <2>6. replica' \in [Persistent -> Option]
    <3>1. replica' = [f \in Persistent |-> replica'[f]]
      BY <2>3 DEF Applied
    <3> QED BY <2>4, <2>5, <3>1
  <2>7. TypeOK'
    BY <1>1, <2>1, <2>6 DEF TypeOK, Sound
  <2>8. \A f \in Persistent \ unmarked' : Row(state', f, replica'[f]) = state'.cache[f]
    BY <1>1, <2>1, <2>4, <2>5
  <2> QED BY <2>1, <2>7, <2>8 DEF MemInductive, Sound, Exact, WithinLimits, Row, IsStaged
<1>8. CASE UNCHANGED Mem!vars
  BY <1>8 DEF Mem!vars, MemInductive, TypeOK, Sound, Exact, WithinLimits, Row, IsStaged
<1>9. ASSUME NEW e \in Entries, NEW v \in Values, Mem!put(e, v) PROVE MemInductive'
  BY <1>3, <1>9, SameBuffers DEF Mem!put
<1> QED BY <1>4, <1>5, <1>6, <1>7, <1>8, <1>9, SameBuffers DEF Mem!Next

\* MemStore (storage/mem.rs) keeps its types whatever calls are made of it.
THEOREM TypeCorrect == Mem!Spec => []TypeOK
<1>1. MemInductive => TypeOK
  BY DEF MemInductive
<1> QED BY MemInit, MemNext, <1>1, PTL DEF Mem!Spec

\* The vector of staged values and its index agree after any sequence of
\* puts, deletions, in-place writes and commits (buffer.rs:37-94).
THEOREM IndexExact == Mem!Spec => []PositionsExact
<1>1. MemInductive => PositionsExact
  BY DEF MemInductive, Sound, PositionsExact
<1> QED BY MemInit, MemNext, <1>1, PTL DEF Mem!Spec

\* The pending limits of access.rs:6 are never exceeded.
THEOREM LimitsHold == Mem!Spec => []PendingBounded
<1>1. MemInductive => PendingBounded
  BY DEF MemInductive, Sound, PendingBounded
<1> QED BY MemInit, MemNext, <1>1, PTL DEF Mem!Spec

\* The batches a MemStore commits, followed by what it has staged, always add
\* up to its cache: change_id and the disk commit miss nothing (buffer.rs:110).
THEOREM BatchesComplete == Mem!Spec => []BatchesExplainCache
<1>1. MemInductive => BatchesExplainCache
  BY ChangesExact, SameBuffers DEF MemInductive, Sound, TypeOK, BatchesExplainCache
<1> QED BY MemInit, MemNext, <1>1, PTL DEF Mem!Spec

-----------------------------------------------------------------------------
(* The counter of pending elements.  Size is a fold over a set of          *)
(* positions, so what it computes is shown by induction over their number. *)

\* Size is such a sum.
LEMMA SizeIsSum ==
  ASSUME NEW q, IsFiniteSet(DOMAIN q), \A i \in DOMAIN q : Len(q[i].value) \in Int
  PROVE  \E g : IsSum(g, [i \in DOMAIN q |-> Len(q[i].value)], DOMAIN q) /\ Size(q) = g[DOMAIN q]
<1> DEFINE w == [i \in DOMAIN q |-> Len(q[i].value)]
           S == DOMAIN q
           P(g) == g = [s \in SUBSET S |->
                          IF s = {} THEN 0
                          ELSE Len(q[CHOOSE x \in s : TRUE].value) + g[s \ {CHOOSE x \in s : TRUE}]]
<1>1. ASSUME NEW g PROVE P(g) <=> IsSum(g, w, S)
  <2>1. \A s \in SUBSET S : s # {} => w[Pick(s)] = Len(q[Pick(s)].value)
    BY PickIn
  <2> QED BY <2>1 DEF IsSum, SumAt, Pick
<1>2. \E g : P(g)
  <2>1. PICK g : IsSum(g, w, S)
    <3>1. \A i \in S : w[i] \in Int
      OBVIOUS
    <3> HIDE DEF w
    <3> QED BY <3>1, SumExists
  <2> HIDE DEF P
  <2> QED BY <1>1, <2>1
<1> DEFINE iter == CHOOSE g : P(g)
<1>3. P(iter)
  BY <1>2, Zenon
<1>4. Size(q) = iter[S]
  BY Zenon DEF Size, FoldSeq, FoldFunction, FoldFunctionOnSet, MapThenFoldSet
<1> QED BY <1>1, <1>3, <1>4

\* g sums the elements of the changes q over sets of their positions.
Lengths(q) == [i \in DOMAIN q |-> Len(q[i].value)]
SizeSum(g, q) == IsSum(g, Lengths(q), DOMAIN q) /\ Size(q) = g[DOMAIN q]

LEMMA LengthFacts ==
  ASSUME NEW q \in Seq(Elements)
  PROVE  /\ DOMAIN q = 1..Len(q) /\ IsFiniteSet(DOMAIN q)
         /\ \A i \in DOMAIN q : Lengths(q)[i] = Len(q[i].value) /\ Len(q[i].value) \in Nat
<1>1. DOMAIN q = 1..Len(q) /\ Len(q) \in Nat
  OBVIOUS
<1>2. \A i \in DOMAIN q : q[i] \in Elements
  OBVIOUS
<1>3. IsFiniteSet(DOMAIN q)
  BY <1>1, FS_Interval
<1>4. \A i \in DOMAIN q : Len(q[i].value) \in Nat
  BY <1>2, Constants DEF Elements
<1> QED BY <1>1, <1>3, <1>4 DEF Lengths

LEMMA SizeSummed ==
  ASSUME NEW q \in Seq(Elements) PROVE \E g : SizeSum(g, q)
  BY LengthFacts, SizeIsSum DEF SizeSum, Lengths

\* Taking out a position takes its elements.
LEMMA SizePart ==
  ASSUME NEW q \in Seq(Elements), NEW g, SizeSum(g, q),
         NEW s \in SUBSET DOMAIN q, NEW i \in s
  PROVE  g[s \ {i}] \in Int /\ g[s] = g[s \ {i}] + Len(q[i].value)
<1> DEFINE r == s \ {i}
           w == Lengths(q)
<1>1. r \in SUBSET DOMAIN q /\ i \in DOMAIN q /\ i \notin r /\ s = r \cup {i}
  OBVIOUS
<1>2. IsFiniteSet(DOMAIN q) /\ (\A x \in DOMAIN q : w[x] \in Int) /\ w[i] = Len(q[i].value)
  BY LengthFacts, <1>1
<1>3. IsSum(g, w, DOMAIN q)
  BY DEF SizeSum
<1> HIDE DEF r, w
<1>4. g[r] \in Int /\ g[r \cup {i}] = g[r] + w[i]
  BY <1>1, <1>2, <1>3, SumAdds
<1>5. g[s] = g[r \cup {i}]
  BY <1>1, Zenon
<1>6. g[r] \in Int /\ g[s] = g[r] + Len(q[i].value)
  BY <1>2, <1>4, <1>5
<1> QED BY <1>6 DEF r

LEMMA SizeEmpty == Size(<<>>) = 0
<1>1. <<>> \in Seq(Elements) /\ DOMAIN <<>> = {}
  OBVIOUS
<1>2. PICK g : SizeSum(g, <<>>)
  BY <1>1, SizeSummed
<1>3. g = [s \in SUBSET {} |-> SumAt(g, Lengths(<<>>), s)] /\ Size(<<>>) = g[{}]
  BY <1>1, <1>2 DEF SizeSum, IsSum
<1>4. SumAt(g, Lengths(<<>>), {}) = 0
  BY DEF SumAt
<1> QED BY <1>3, <1>4

LEMMA SizeType ==
  ASSUME NEW q \in Seq(Elements) PROVE Size(q) \in Int
<1>1. CASE q = <<>>
  BY <1>1, SizeEmpty
<1>2. CASE q # <<>>
  <2>1. PICK g : SizeSum(g, q)
    BY SizeSummed
  <2>2. 1 \in DOMAIN q
    BY <1>2
  <2>3. Len(q[1].value) \in Nat
    BY <2>2, LengthFacts
  <2> DEFINE s == DOMAIN q
  <2>4. s \in SUBSET DOMAIN q /\ 1 \in s /\ Size(q) = g[s]
    BY <2>1, <2>2 DEF SizeSum
  <2> HIDE DEF s
  <2>5. g[s \ {1}] \in Int /\ g[s] = g[s \ {1}] + Len(q[1].value)
    BY <2>1, <2>4, SizePart
  <2> QED BY <2>3, <2>4, <2>5
<1> QED BY <1>1, <1>2

\* Two sequences that agree on s have the same sum over it.
LEMMA SameParts ==
  ASSUME NEW q \in Seq(Elements), NEW r \in Seq(Elements), NEW g, NEW h,
         SizeSum(g, q), SizeSum(h, r),
         NEW s \in SUBSET DOMAIN q, s \subseteq DOMAIN r, \A i \in s : q[i] = r[i]
  PROVE  g[s] = h[s]
<1> DEFINE v == Lengths(q)
           w == Lengths(r)
<1>1. IsFiniteSet(DOMAIN q) /\ IsFiniteSet(DOMAIN r)
  BY LengthFacts
<1>2. \A i \in s : v[i] = w[i]
  BY DEF Lengths
<1>3. IsSum(g, v, DOMAIN q) /\ IsSum(h, w, DOMAIN r)
  BY DEF SizeSum
<1> HIDE DEF v, w
<1> QED BY <1>1, <1>2, <1>3, SumUnique

\* The same with a name for the smaller set.
LEMMA SizeWithout ==
  ASSUME NEW q \in Seq(Elements), NEW g, SizeSum(g, q), NEW t \in SUBSET DOMAIN q,
         NEW i \in t, NEW s, s = t \ {i}
  PROVE  g[s] \in Int /\ g[t] = g[s] + Len(q[i].value)
<1>1. g[t \ {i}] \in Int /\ g[t] = g[t \ {i}] + Len(q[i].value)
  BY SizePart
<1>2. g[s] = g[t \ {i}]
  BY Zenon
<1> QED BY <1>1, <1>2

LEMMA SizeLast ==
  ASSUME NEW q \in Seq(Elements), NEW g, SizeSum(g, q), NEW i \in DOMAIN q,
         NEW s, s = DOMAIN q \ {i}
  PROVE  g[s] \in Int /\ Size(q) = g[s] + Len(q[i].value)
<1> DEFINE t == DOMAIN q
<1>1. t \in SUBSET DOMAIN q /\ i \in t /\ s = t \ {i} /\ Size(q) = g[t]
  BY DEF SizeSum
<1> HIDE DEF t
<1> QED BY <1>1, SizeWithout

\* push
LEMMA SizeAppend ==
  ASSUME NEW q \in Seq(Elements), NEW d \in Elements
  PROVE  Size(Append(q, d)) = Size(q) + Len(d.value)
<1> DEFINE r == Append(q, d)
           n == Len(q) + 1
           s == DOMAIN q
<1>1. r \in Seq(Elements) /\ n \in DOMAIN r /\ r[n] = d
  OBVIOUS
<1>2. s \in SUBSET DOMAIN r /\ s = DOMAIN r \ {n} /\ \A i \in s : q[i] = r[i]
  <2>1. Len(q) \in Nat /\ DOMAIN q = 1..Len(q) /\ DOMAIN r = 1..(Len(q) + 1)
    OBVIOUS
  <2>2. \A i \in s : q[i] = r[i]
    OBVIOUS
  <2> HIDE DEF r
  <2> QED BY <2>1, <2>2
<1>3. PICK g : SizeSum(g, q)
  BY SizeSummed
<1>4. s \in SUBSET DOMAIN q /\ s \subseteq DOMAIN r /\ Size(q) = g[s]
  BY <1>2, <1>3 DEF SizeSum
<1> HIDE DEF r, n, s
<1>5. PICK h : SizeSum(h, r)
  BY <1>1, SizeSummed
<1>6. g[s] = h[s]
  BY <1>1, <1>2, <1>3, <1>4, <1>5, SameParts
<1>7. Size(r) = h[s] + Len(r[n].value)
  BY <1>1, <1>2, <1>5, SizeLast
<1> QED BY <1>1, <1>4, <1>6, <1>7 DEF r

\* A staged value replaced.
LEMMA SizeReplace ==
  ASSUME NEW q \in Seq(Elements), NEW k \in DOMAIN q, NEW d \in Elements
  PROVE  Size([q EXCEPT ![k] = d]) = Size(q) - Len(q[k].value) + Len(d.value)
<1> DEFINE r == [q EXCEPT ![k] = d]
           s == DOMAIN q \ {k}
<1>1. r \in Seq(Elements) /\ k \in DOMAIN r /\ r[k] = d
  OBVIOUS
<1>2. /\ s \in SUBSET DOMAIN q /\ s \in SUBSET DOMAIN r /\ s = DOMAIN r \ {k}
      /\ s = DOMAIN q \ {k} /\ \A i \in s : q[i] = r[i]
  OBVIOUS
<1>3. Len(q[k].value) \in Nat /\ Len(d.value) \in Nat
  BY LengthFacts, Constants DEF Elements
<1> HIDE DEF r, s
<1>4. PICK g : SizeSum(g, q)
  BY SizeSummed
<1>5. PICK h : SizeSum(h, r)
  BY <1>1, SizeSummed
<1>6. g[s] = h[s]
  BY <1>1, <1>2, <1>4, <1>5, SameParts
<1>7. g[s] \in Int /\ Size(q) = g[s] + Len(q[k].value)
  BY <1>2, <1>4, SizeLast
<1>8. Size(r) = h[s] + Len(r[k].value)
  BY <1>1, <1>2, <1>5, SizeLast
<1>9. Size(r) = Size(q) - Len(q[k].value) + Len(d.value)
  BY <1>1, <1>3, <1>6, <1>7, <1>8
<1> QED BY <1>9 DEF r

\* swap_remove
LEMMA SizeSwapRemove ==
  ASSUME NEW q \in Seq(Elements), NEW k \in DOMAIN q
  PROVE  Size(swap_remove(q, k)) = Size(q) - Len(q[k].value)
<1> DEFINE r == swap_remove(q, k)
           n == Len(q)
           most == DOMAIN q \ {n}
           s == most \ {k}
<1>1. /\ r \in Seq(Elements) /\ n \in DOMAIN q /\ DOMAIN r = most
      /\ \A i \in s : q[i] = r[i]
      /\ k # n => k \in most /\ r[k] = q[n]
  BY DEF swap_remove
<1>2. /\ most \in SUBSET DOMAIN q /\ most = DOMAIN q \ {n}
      /\ s \in SUBSET DOMAIN q /\ s \in SUBSET most /\ s = most \ {k}
  OBVIOUS
<1>3. Len(q[k].value) \in Nat /\ Len(q[n].value) \in Nat
  BY <1>1, LengthFacts
<1> HIDE DEF r, n, most, s
<1>4. PICK g : SizeSum(g, q)
  BY SizeSummed
<1>5. PICK h : SizeSum(h, r)
  BY <1>1, SizeSummed
<1>6. g[most] \in Int /\ Size(q) = g[most] + Len(q[n].value)
  BY <1>1, <1>2, <1>4, SizeLast
<1>7. Size(r) = h[most]
  <2>1. Size(r) = h[DOMAIN r]
    BY <1>5 DEF SizeSum
  <2> QED BY <1>1, <2>1, Zenon
<1>8. Size(r) = Size(q) - Len(q[k].value)
  <2>1. CASE k = n
    <3>1. most = s
      BY <1>2, <2>1
    <3>2. most \subseteq DOMAIN r /\ \A i \in most : q[i] = r[i]
      BY <1>1, <3>1
    <3>3. g[most] = h[most]
      BY <1>1, <1>2, <1>4, <1>5, <3>2, SameParts
    <3> QED BY <1>3, <1>6, <1>7, <2>1, <3>3
  <2>2. CASE k # n
    <3>1. k \in most
      BY <1>1, <2>2
    <3>2. g[s] \in Int /\ g[most] = g[s] + Len(q[k].value)
      <4>1. most \in SUBSET DOMAIN q /\ s = most \ {k}
        BY <1>2
      <4>2. SizeSum(g, q) /\ k \in most
        BY <1>4, <3>1
      <4>3. ASSUME NEW t \in SUBSET DOMAIN q, NEW i \in t, NEW u, u = t \ {i}
            PROVE  g[u] \in Int /\ g[t] = g[u] + Len(q[i].value)
        BY <1>4, <4>3, SizeWithout
      <4> QED BY <4>1, <4>2, <4>3, Zenon
    <3>4. k \in DOMAIN r /\ s \in SUBSET DOMAIN r /\ s = DOMAIN r \ {k}
      <4>1. DOMAIN r = most
        BY <1>1
      <4> QED BY <1>2, <3>1, <4>1, Zenon
    <3>5. Size(r) = h[s] + Len(r[k].value)
      BY <1>1, <1>5, <3>4, SizeLast
    <3>6. g[s] = h[s]
      BY <1>1, <1>2, <1>4, <1>5, <3>4, SameParts
    <3>7. r[k] = q[n]
      BY <1>1, <2>2
    <3> QED BY <1>3, <1>6, <3>2, <3>5, <3>6, <3>7
  <2> QED BY <2>1, <2>2
<1> QED BY <1>8 DEF r

\* The operations of a buffer count what they stage and give back.
LEMMA BuffersCount ==
  ASSUME NEW b, Sound(b), b.elements = Size(b.dirty), NEW e \in Entries
  PROVE  /\ \A v \in Values : Put(b, e, v).elements = Size(Put(b, e, v).dirty)
         /\ Delete(b, e).elements = Size(Delete(b, e).dirty)
         /\ clear_pending(b).elements = Size(clear_pending(b).dirty)
<1> DEFINE k == b.positions[e]
<1>1. /\ b \in Buffers /\ b.dirty \in Seq(Elements) /\ b.elements \in Int
      /\ e \in Persistent /\ IsStaged(b, e) => k \in DOMAIN b.dirty
  BY DEF Sound, Buffers, Exact
<1>2. \A i \in DOMAIN b.dirty : Len(b.dirty[i].value) \in Nat
  BY <1>1, Constants DEF Elements
<1>3. ASSUME NEW v \in Values PROVE Put(b, e, v).elements = Size(Put(b, e, v).dirty)
  <2> DEFINE d == [key |-> e, value |-> v]
  <2>1. CASE e \in Local
    <3>1. Put(b, e, v).elements = b.elements /\ Put(b, e, v).dirty = b.dirty
      BY <1>1, <2>1 DEF Put, Buffers
    <3> QED BY <3>1
  <2>2. CASE e \notin Local
    <3>1. e \in Persistent /\ d \in Elements /\ d.value = v /\ Len(v) \in Nat
      BY <2>2, Constants DEF Entries, Elements
    <3>2. CASE IsStaged(b, e)
      <4>1. /\ Put(b, e, v).dirty = [b.dirty EXCEPT ![k] = d]
            /\ Put(b, e, v).elements = b.elements - Len(b.dirty[k].value) + Len(v)
        BY <2>2, <3>2 DEF Put, ElementsWith
      <4>2. Size([b.dirty EXCEPT ![k] = d]) = Size(b.dirty) - Len(b.dirty[k].value) + Len(v)
        <5> HIDE DEF d, k
        <5> QED BY <1>1, <3>1, <3>2, SizeReplace
      <4> QED BY <4>1, <4>2
    <3>3. CASE ~IsStaged(b, e)
      <4>1. /\ Put(b, e, v).dirty = Append(b.dirty, d)
            /\ Put(b, e, v).elements = b.elements - 0 + Len(v)
        BY <2>2, <3>3 DEF Put, ElementsWith
      <4>2. Size(Append(b.dirty, d)) = Size(b.dirty) + Len(v)
        <5> HIDE DEF d
        <5> QED BY <1>1, <3>1, SizeAppend
      <4> QED BY <1>1, <3>1, <4>1, <4>2
    <3> QED BY <3>2, <3>3
  <2> QED BY <2>1, <2>2
<1>4. Delete(b, e).elements = Size(Delete(b, e).dirty)
  <2>1. CASE e \in Persistent /\ IsStaged(b, e)
    <3> DEFINE u == Unstage(b, e)
    <3>1. /\ u.dirty = swap_remove(b.dirty, k) /\ u.elements = b.elements - Len(b.dirty[k].value)
          /\ DOMAIN u = DOMAIN b
      BY <1>1 DEF Unstage, Buffers
    <3> HIDE DEF u
    <3>2. Delete(b, e).dirty = u.dirty /\ Delete(b, e).elements = u.elements
      BY <1>1, <2>1, <3>1 DEF Delete, u, Buffers
    <3>3. Size(swap_remove(b.dirty, k)) = Size(b.dirty) - Len(b.dirty[k].value)
      <4> HIDE DEF k
      <4> QED BY <1>1, <2>1, SizeSwapRemove
    <3> QED BY <3>1, <3>2, <3>3
  <2>2. CASE ~(e \in Persistent /\ IsStaged(b, e))
    <3>1. Delete(b, e).dirty = b.dirty /\ Delete(b, e).elements = b.elements
      BY <1>1, <2>2 DEF Delete, Buffers
    <3> QED BY <3>1
  <2> QED BY <2>1, <2>2
<1>5. clear_pending(b).elements = Size(clear_pending(b).dirty)
  <2>1. clear_pending(b).elements = 0 /\ clear_pending(b).dirty = <<>>
    BY <1>1 DEF clear_pending, Buffers
  <2> QED BY <2>1, SizeEmpty
<1> QED BY <1>3, <1>4, <1>5

\* The counter against which MAX_PENDING_ELEMENTS is tested is the number of
\* elements staged, after any sequence of calls (buffer.rs:49 and 84).
THEOREM CounterExact == Mem!Spec => []ElementsCounted
<1>1. Mem!Init => ElementsCounted
  <2> SUFFICES ASSUME Mem!Init PROVE ElementsCounted
    OBVIOUS
  <2>1. state.elements = 0 /\ state.dirty = <<>>
    BY SameBuffers DEF Mem!Init, NewBuffer
  <2> QED BY <2>1, SizeEmpty DEF ElementsCounted
<1>2. MemInductive /\ ElementsCounted /\ [Mem!Next]_(Mem!vars) => ElementsCounted'
  <2> SUFFICES ASSUME MemInductive, ElementsCounted, [Mem!Next]_(Mem!vars)
               PROVE  state'.elements = Size(state'.dirty)
    BY DEF ElementsCounted
  <2>0. /\ Sound(state) /\ state.elements = Size(state.dirty) /\ state \in Buffers
    BY DEF MemInductive, ElementsCounted, Sound
  <2>1. ASSUME NEW e \in Entries, NEW v \in Values, state' = Put(state, e, v)
        PROVE  state'.elements = Size(state'.dirty)
    BY <2>0, <2>1, BuffersCount
  <2>2. ASSUME NEW e \in Entries, NEW v \in Values, Mem!put(e, v)
        PROVE  state'.elements = Size(state'.dirty)
    BY <2>1, <2>2, SameBuffers DEF Mem!put
  <2>3. ASSUME NEW e \in Entries, Mem!remove(e) PROVE state'.elements = Size(state'.dirty)
    BY <2>0, <2>3, BuffersCount, SameBuffers DEF Mem!remove
  <2>4. ASSUME NEW e \in Entries, NEW v \in Values, Mem!get_mut(e, v)
        PROVE  state'.elements = Size(state'.dirty)
    <3>1. state'.elements = state.elements /\ state'.dirty = state.dirty
      BY <2>0, <2>4 DEF Mem!get_mut, Buffers
    <3> QED BY <2>0, <3>1
  <2>5. ASSUME NEW e \in Entries, Mem!mark_dirty(e) PROVE state'.elements = Size(state'.dirty)
    <3>1. state.cache[e] \in Option /\ state.cache[e] # <<>>
      BY <2>0, <2>5 DEF Mem!mark_dirty, Buffers
    <3>2. PICK v \in Values : state.cache[e] = <<v>>
      BY <3>1 DEF Option
    <3> QED BY <2>1, <2>5, <3>2, SameBuffers DEF Mem!mark_dirty
  <2>6. ASSUME Mem!commit PROVE state'.elements = Size(state'.dirty)
    <3>1. state' = clear_pending(state)
      BY <2>6, SameBuffers DEF Mem!commit
    <3>2. clear_pending(state).elements = 0 /\ clear_pending(state).dirty = <<>>
      BY <2>0 DEF clear_pending, Buffers
    <3> QED BY <3>1, <3>2, SizeEmpty
  <2>7. CASE UNCHANGED Mem!vars
    BY <2>0, <2>7 DEF Mem!vars
  <2> QED BY <2>2, <2>3, <2>4, <2>5, <2>6, <2>7, SameBuffers DEF Mem!Next
<1> QED BY <1>1, <1>2, MemInit, MemNext, PTL DEF Mem!Spec

-----------------------------------------------------------------------------
(* The pools of a UnimemStore *)

Uni == INSTANCE UnimemStore

\* Elements in memory, and runs of them.
Elem == Int \cup {Unknown}
Runs == Seq(Elem)

Blocks == [1..Offset(capacity) -> Elem]

SlotOf == [index : 0..(capacity - 1), count : Nat]

\* The slots in use and the free ones are distinct cells below next_slot.
PoolExact(p) ==
  /\ p \in [block : Blocks, next_slot : 0..capacity,
            slots : [Keys -> {<<>>} \cup {<<s>> : s \in SlotOf}],
            free : Seq(0..(capacity - 1))]
  /\ \A k \in Keys : p.slots[k] # <<>> =>
       /\ p.slots[k][1].index < p.next_slot
       /\ \A j \in Keys : p.slots[j] # <<>> /\ p.slots[j][1].index = p.slots[k][1].index => j = k
       /\ \A i \in 1..Len(p.free) : p.free[i] # p.slots[k][1].index
  /\ \A i \in 1..Len(p.free) :
       /\ p.free[i] < p.next_slot
       /\ \A j \in 1..Len(p.free) : p.free[i] = p.free[j] => i = j

\* What a pool shows of a key.
PoolShows(p, k) ==
  IF p.slots[k] = <<>> THEN <<>>
  ELSE <<Slice(p.block, p.slots[k][1].index, p.slots[k][1].count)>>

\* The value of a key, if it is in the pool, lies within its cell.
Narrow(p, k) == p.slots[k] # <<>> => p.slots[k][1].count <= CellElements

LEMMA CellTypes ==
  /\ capacity \in Nat /\ CellElements \in Nat
  /\ \A v \in Vectors : v \in Seq(Int) /\ v \in Runs /\ Len(v) \in Nat
<1>1. ASSUME NEW v \in Seq(Int) PROVE v \in Runs /\ Len(v) \in Nat
  BY <1>1 DEF Runs, Elem
<1> QED BY <1>1, CellsAssumption

\* Cells lie within the block, one behind the other.
LEMMA CellsApart ==
  /\ Offset(capacity) \in Nat
  /\ \A x \in 0..(capacity - 1) : Offset(x) \in Nat /\ Offset(x) + CellElements <= Offset(capacity)
  /\ \A x, y \in 0..(capacity - 1) : x < y => Offset(x) + CellElements <= Offset(y)
<1>1. capacity \in Nat /\ CellElements \in Nat
  BY CellTypes
<1>2. \A c, x, z \in Nat : x * c \in Nat /\ z * c \in Nat /\ (x + 1 + z) * c = x * c + c + z * c
  OBVIOUS
<1>3. ASSUME NEW x \in Nat, NEW y \in Nat, x < y
      PROVE  x * CellElements + CellElements <= y * CellElements
  <2>1. y - x - 1 \in Nat /\ y = x + 1 + (y - x - 1)
    BY <1>3
  <2>2. PICK z \in Nat : y = x + 1 + z
    BY <2>1
  <2>3. /\ x * CellElements \in Nat /\ z * CellElements \in Nat
        /\ y * CellElements = x * CellElements + CellElements + z * CellElements
    BY <1>1, <1>2, <2>2
  <2> QED BY <1>1, <2>3
<1>4. \A x \in 0..(capacity - 1) : x \in Nat /\ x < capacity
  BY <1>1
<1>5. \A x \in Nat : x * CellElements \in Nat
  BY <1>1, <1>2
<1> QED BY <1>1, <1>3, <1>4, <1>5 DEF Offset

LEMMA SliceType ==
  ASSUME NEW b \in Blocks, NEW x \in 0..(capacity - 1), NEW n \in Nat
  PROVE  Slice(b, x, n) \in Runs /\ Len(Slice(b, x, n)) = n
<1> DEFINE f == Slice(b, x, n)
<1>1. Offset(x) \in Nat /\ Offset(capacity) \in Nat
  BY CellsApart
<1>2. f = [i \in 1..n |-> IF Offset(x) + i <= Offset(capacity) THEN b[Offset(x) + i] ELSE Unknown]
  BY DEF Slice
<1>3. ASSUME NEW i \in 1..n PROVE f[i] \in Elem
  <2>1. CASE Offset(x) + i <= Offset(capacity)
    <3>1. Offset(x) + i \in 1..Offset(capacity)
      BY <1>1, <2>1
    <3> QED BY <1>2, <2>1, <3>1 DEF Blocks
  <2>2. CASE ~(Offset(x) + i <= Offset(capacity))
    BY <1>2, <2>2 DEF Elem
  <2> QED BY <2>1, <2>2
<1> HIDE DEF f
<1>4. f \in [1..n -> Elem]
  BY <1>2, <1>3
<1>5. f \in Seq(Elem) /\ Len(f) = n
  BY <1>4
<1> QED BY <1>5 DEF f, Runs

\* A write within a cell shows there, and nowhere else.
LEMMA OverwriteExact ==
  ASSUME NEW b \in Blocks, NEW x \in 0..(capacity - 1), NEW w \in Nat, NEW v \in Seq(Int)
  PROVE  /\ Uni!Overwrite(b, x, w, v) \in Blocks
         /\ Len(v) <= w /\ w <= CellElements => Slice(Uni!Overwrite(b, x, w, v), x, Len(v)) = v
         /\ w <= CellElements =>
              \A y \in 0..(capacity - 1), n \in Nat : y # x /\ n <= CellElements =>
                Slice(Uni!Overwrite(b, x, w, v), y, n) = Slice(b, y, n)
<1> DEFINE c == Uni!Overwrite(b, x, w, v)
           o == Offset(x)
           top == Offset(capacity)
<1>1. /\ o \in Nat /\ top \in Nat /\ o + CellElements <= top /\ Len(v) \in Nat
      /\ CellElements \in Nat /\ \A i \in 1..Len(v) : v[i] \in Int
  BY CellsApart, CellTypes
<1>2. c = [i \in 1..top |-> IF i \in (o + 1)..(o + w)
                            THEN IF i - o <= Len(v) THEN v[i - o] ELSE 0
                            ELSE b[i]]
  BY DEF Uni!Overwrite, Uni!Offset, Offset
<1> HIDE DEF c, o, top
<1>3. c \in Blocks
  <2>1. ASSUME NEW i \in 1..top PROVE c[i] \in Elem
    <3>1. CASE i \in (o + 1)..(o + w) /\ i - o <= Len(v)
      <4>1. i - o \in 1..Len(v)
        BY <1>1, <3>1
      <4> QED BY <1>1, <1>2, <3>1, <4>1 DEF Elem
    <3>2. CASE i \in (o + 1)..(o + w) /\ ~(i - o <= Len(v))
      BY <1>2, <3>2 DEF Elem
    <3>3. CASE i \notin (o + 1)..(o + w)
      BY <1>2, <3>3 DEF Blocks, top
    <3> QED BY <3>1, <3>2, <3>3
  <2> QED BY <1>2, <2>1 DEF Blocks, top
<1>4. ASSUME Len(v) <= w, w <= CellElements PROVE Slice(c, x, Len(v)) = v
  <2> DEFINE f == Slice(c, x, Len(v))
  <2>1. f = [i \in 1..Len(v) |-> IF o + i <= top THEN c[o + i] ELSE Unknown]
    BY DEF Slice, o, top
  <2>2. f \in Runs /\ Len(f) = Len(v)
    BY <1>1, <1>3, SliceType
  <2> HIDE DEF f
  <2>3. ASSUME NEW i \in 1..Len(v) PROVE f[i] = v[i]
    <3>1. /\ o + i \in 1..top /\ o + i <= top /\ o + i \in (o + 1)..(o + w)
          /\ (o + i) - o = i /\ i <= Len(v)
      BY <1>1, <1>4
    <3>2. f[i] = c[o + i]
      BY <2>1, <3>1
    <3>3. c[o + i] = v[(o + i) - o]
      BY <1>2, <3>1
    <3> QED BY <3>1, <3>2, <3>3
  <2>4. v \in Seq(Elem) /\ f \in Seq(Elem)
    BY <2>2 DEF Runs, Elem
  <2>5. f = v
    BY <2>2, <2>3, <2>4, SeqEqual
  <2> QED BY <2>5 DEF f
<1>5. ASSUME w <= CellElements, NEW y \in 0..(capacity - 1), NEW n \in Nat, y # x, n <= CellElements
      PROVE  Slice(c, y, n) = Slice(b, y, n)
  <2> DEFINE q == Offset(y)
  <2>1. q \in Nat /\ q + CellElements <= top /\ (q + CellElements <= o \/ o + CellElements <= q)
    <3>1. x < y \/ y < x
      BY <1>5, CellTypes
    <3> QED BY <3>1, CellsApart DEF o, top
  <2> HIDE DEF q
  <2>2. ASSUME NEW i \in 1..n
        PROVE  q + i \in 1..top /\ q + i \notin (o + 1)..(o + w)
    BY <1>1, <1>5, <2>1
  <2>3. \A i \in 1..n : c[q + i] = b[q + i]
    BY <1>2, <2>2
  <2> QED BY <2>3 DEF Slice, q, top
<1> QED BY <1>3, <1>4, <1>5 DEF c

LEMMA NewPoolExact ==
  ASSUME NEW p, p = [block |-> [i \in 1..Uni!Offset(capacity) |-> 0],
          next_slot |-> 0, slots |-> [k \in Keys |-> <<>>], free |-> <<>>]
  PROVE  PoolExact(p) /\ \A k \in Keys : p.slots[k] = <<>>
<1>1. [i \in 1..Uni!Offset(capacity) |-> 0] \in Blocks /\ capacity \in Nat
  BY CellTypes DEF Uni!Offset, Offset, Blocks, Elem
<1> QED BY <1>1 DEF PoolExact

\* The allocated slot is nobody else's, and no longer free.
LEMMA AllocExact ==
  ASSUME NEW p, PoolExact(p), NEW k \in Keys, Uni!alloc_slot(p, k).index < capacity
  PROVE  LET s == Uni!alloc_slot(p, k)
             q == s.pool
         IN /\ s.index \in 0..(capacity - 1) /\ s.index < q.next_slot
            /\ q \in [block : {p.block}, next_slot : 0..capacity,
                      slots : {p.slots}, free : Seq(0..(capacity - 1))]
            /\ p.next_slot <= q.next_slot
            /\ \A j \in Keys \ {k} : p.slots[j] # <<>> => p.slots[j][1].index # s.index
            /\ \A j \in Keys \ {k} : p.slots[j] # <<>> =>
                 \A i \in 1..Len(q.free) : q.free[i] # p.slots[j][1].index
            /\ \A i \in 1..Len(q.free) :
                 /\ q.free[i] < q.next_slot /\ q.free[i] # s.index
                 /\ \A j \in 1..Len(q.free) : q.free[i] = q.free[j] => i = j
<1> DEFINE s == Uni!alloc_slot(p, k)
           q == s.pool
<1>1. capacity \in Nat
  BY CellTypes
<1>2. /\ p = [block |-> p.block, next_slot |-> p.next_slot, slots |-> p.slots, free |-> p.free]
      /\ p.next_slot \in 0..capacity /\ p.free \in Seq(0..(capacity - 1)) /\ Len(p.free) \in Nat
      /\ \A j \in Keys : p.slots[j] # <<>> => p.slots[j][1].index \in 0..(capacity - 1)
  BY DEF PoolExact, SlotOf
<1>3. \A i \in 1..Len(p.free) : p.free[i] \in 0..(capacity - 1)
  <2> DEFINE B == 0..(capacity - 1)
             f == p.free
  <2>1. f \in Seq(B)
    BY <1>2
  <2> HIDE DEF B, f
  <2>2. \A i \in 1..Len(f) : f[i] \in B
    BY <2>1
  <2> QED BY <2>2 DEF B, f
<1>4. /\ \A l \in Keys : p.slots[l] # <<>> =>
           /\ p.slots[l][1].index < p.next_slot
           /\ \A j \in Keys : p.slots[j] # <<>> /\ p.slots[j][1].index = p.slots[l][1].index => j = l
           /\ \A i \in 1..Len(p.free) : p.free[i] # p.slots[l][1].index
      /\ \A i \in 1..Len(p.free) :
           /\ p.free[i] < p.next_slot
           /\ \A j \in 1..Len(p.free) : p.free[i] = p.free[j] => i = j
  BY DEF PoolExact
<1>5. CASE p.slots[k] # <<>>
  <2>1. q = p /\ s.index = p.slots[k][1].index
    BY <1>5 DEF Uni!alloc_slot
  <2> HIDE DEF s
  <2> QED BY <1>1, <1>2, <1>4, <1>5, <2>1 DEF s
<1>6. CASE p.slots[k] = <<>> /\ p.free # <<>>
  <2> DEFINE n == Len(p.free)
             f == SubSeq(p.free, 1, n - 1)
  <2>1. /\ q = [block |-> p.block, next_slot |-> p.next_slot, slots |-> p.slots, free |-> f]
        /\ s.index = p.free[n]
    BY <1>2, <1>6 DEF Uni!alloc_slot
  <2>2. n \in Nat \ {0}
    BY <1>2, <1>6
  <2>3. f \in Seq(0..(capacity - 1)) /\ Len(f) = n - 1 /\ \A i \in 1..(n - 1) : f[i] = p.free[i]
    <3> DEFINE B == 0..(capacity - 1)
    <3>1. \A i \in 1..(n - 1) : p.free[i] \in B
      BY <1>3, <2>2
    <3>2. n - 1 \in Int /\ 1 \in Int /\ 0 <= n - 1
      BY <2>2
    <3> HIDE DEF n, f, B
    <3>3. /\ SubSeq(p.free, 1, n - 1) \in Seq(B)
          /\ Len(SubSeq(p.free, 1, n - 1)) = IF 1 <= n - 1 THEN n - 1 - 1 + 1 ELSE 0
          /\ \A i \in 1..(n - 1 - 1 + 1) : SubSeq(p.free, 1, n - 1)[i] = p.free[1 + i - 1]
      BY <3>1, <3>2, SubSeqProperties
    <3>4. \A i \in 1..(n - 1) : 1 + i - 1 = i
      OBVIOUS
    <3> QED BY <3>2, <3>3, <3>4 DEF f, B
  <2>4. p.free[n] \in 0..(capacity - 1) /\ p.free[n] < p.next_slot
    <3>1. n \in 1..Len(p.free)
      BY <2>2
    <3> HIDE DEF n
    <3> QED BY <1>3, <1>4, <3>1
  <2>5. \A i \in 1..(n - 1) : i \in 1..n /\ i # n
    BY <2>2
  <2>6. n \in 1..n
    BY <2>2
  <2> HIDE DEF s, n, f
  <2>7. q.free = f /\ q.next_slot = p.next_slot
    BY <2>1
  <2>8. \A i \in 1..Len(f) : /\ f[i] < p.next_slot /\ f[i] # p.free[n]
                             /\ \A j \in 1..Len(f) : f[i] = f[j] => i = j
    BY <1>4, <2>3, <2>5, <2>6 DEF n
  <2>9. \A j \in Keys \ {k} : p.slots[j] # <<>> =>
          p.slots[j][1].index # p.free[n] /\ \A i \in 1..Len(f) : f[i] # p.slots[j][1].index
    BY <1>4, <2>3, <2>5, <2>6 DEF n
  <2> QED BY <1>1, <1>2, <2>1, <2>3, <2>4, <2>7, <2>8, <2>9 DEF s
<1>7. CASE p.slots[k] = <<>> /\ p.free = <<>>
  <2>1. /\ q = [block |-> p.block, next_slot |-> p.next_slot + 1, slots |-> p.slots, free |-> p.free]
        /\ s.index = p.next_slot
    BY <1>2, <1>7 DEF Uni!alloc_slot
  <2> HIDE DEF s
  <2>2. p.next_slot < capacity
    BY <2>1 DEF s
  <2> QED BY <1>1, <1>2, <1>4, <1>7, <2>1, <2>2 DEF s
<1> QED BY <1>5, <1>6, <1>7

\* A put into a pool: the key shows its value if that fits the cell, and the
\* others what they showed.
LEMMA PooledExact ==
  ASSUME NEW p, PoolExact(p), NEW k \in Keys, NEW v \in Vectors,
         Uni!alloc_slot(p, k).index < capacity
  PROVE  LET r == Uni!Pooled(p, k, v)
         IN /\ PoolExact(r) /\ r.slots[k] # <<>> /\ r.slots[k][1].count = Len(v)
            /\ Len(v) <= CellElements => PoolShows(r, k) = <<v>>
            /\ \A j \in Keys \ {k} :
                 /\ r.slots[j] = p.slots[j]
                 /\ Narrow(p, j) => PoolShows(r, j) = PoolShows(p, j)
<1> DEFINE s == Uni!alloc_slot(p, k)
           q == s.pool
           x == s.index
           c == Uni!Overwrite(p.block, x, CellElements, v)
           t == [index |-> x, count |-> Len(v)]
           r == [block |-> c, next_slot |-> q.next_slot,
                 slots |-> [p.slots EXCEPT ![k] = <<t>>], free |-> q.free]
<1>0. capacity \in Nat /\ CellElements \in Nat /\ v \in Seq(Int) /\ Len(v) \in Nat
  BY CellTypes
<1>1. /\ x \in 0..(capacity - 1) /\ x < q.next_slot
      /\ q = [block |-> p.block, next_slot |-> q.next_slot, slots |-> p.slots, free |-> q.free]
      /\ q.next_slot \in 0..capacity /\ q.free \in Seq(0..(capacity - 1))
      /\ p.next_slot <= q.next_slot
      /\ \A j \in Keys \ {k} : p.slots[j] # <<>> => p.slots[j][1].index # x
      /\ \A j \in Keys \ {k} : p.slots[j] # <<>> =>
           \A i \in 1..Len(q.free) : q.free[i] # p.slots[j][1].index
      /\ \A i \in 1..Len(q.free) :
           /\ q.free[i] < q.next_slot /\ q.free[i] # x
           /\ \A j \in 1..Len(q.free) : q.free[i] = q.free[j] => i = j
  BY AllocExact
<1>2. /\ p.block \in Blocks /\ p.next_slot \in 0..capacity
      /\ p.slots \in [Keys -> {<<>>} \cup {<<y>> : y \in SlotOf}]
      /\ \A l \in Keys : p.slots[l] # <<>> =>
           /\ p.slots[l][1].index < p.next_slot /\ p.slots[l][1] \in SlotOf
           /\ p.slots[l][1].index \in 0..(capacity - 1) /\ p.slots[l][1].count \in Nat
           /\ \A j \in Keys : p.slots[j] # <<>> /\ p.slots[j][1].index = p.slots[l][1].index => j = l
  BY DEF PoolExact, SlotOf
<1>3. Uni!Pooled(p, k, v) = r
  <2> HIDE DEF s
  <2>1. Uni!Pooled(p, k, v) =
          [q EXCEPT !.block = Uni!Overwrite(@, x, CellElements, v), !.slots[k] = <<t>>]
    BY DEF Uni!Pooled, s
  <2>2. q = [block |-> p.block, next_slot |-> q.next_slot, slots |-> p.slots, free |-> q.free]
    BY <1>1
  <2>3. q.block = p.block /\ q.slots = p.slots
    BY <2>2
  <2>4. Uni!Overwrite(q.block, x, CellElements, v) = c
    BY <2>3
  <2>5. Uni!Pooled(p, k, v) = [q EXCEPT !.block = c, !.slots[k] = <<t>>]
    BY <2>1, <2>4
  <2> HIDE DEF c, t, x, q
  <2> DEFINE z == [q EXCEPT !.block = c, !.slots[k] = <<t>>]
  <2>6. /\ z.block = c /\ z.next_slot = q.next_slot
        /\ z.slots = [q.slots EXCEPT ![k] = <<t>>] /\ z.free = q.free
        /\ z = [y \in {"block", "next_slot", "slots", "free"} |-> z[y]]
    BY <2>2
  <2> HIDE DEF z
  <2>7. z = r
    BY <2>3, <2>6
  <2> QED BY <2>5, <2>7 DEF z
<1>4. /\ c \in Blocks
      /\ Len(v) <= CellElements /\ CellElements <= CellElements => Slice(c, x, Len(v)) = v
      /\ CellElements <= CellElements =>
           \A y \in 0..(capacity - 1), n \in Nat : y # x /\ n <= CellElements =>
             Slice(c, y, n) = Slice(p.block, y, n)
  <2> DEFINE b == p.block
  <2>1. b \in Blocks /\ x \in 0..(capacity - 1) /\ CellElements \in Nat /\ v \in Seq(Int)
    BY <1>0, <1>1, <1>2
  <2> HIDE DEF s, x, b
  <2>2. /\ Uni!Overwrite(b, x, CellElements, v) \in Blocks
        /\ Len(v) <= CellElements /\ CellElements <= CellElements =>
             Slice(Uni!Overwrite(b, x, CellElements, v), x, Len(v)) = v
        /\ CellElements <= CellElements =>
             \A y \in 0..(capacity - 1), n \in Nat : y # x /\ n <= CellElements =>
               Slice(Uni!Overwrite(b, x, CellElements, v), y, n) = Slice(b, y, n)
    BY <2>1, OverwriteExact
  <2> QED BY <2>2 DEF b
<1>5. \A y \in 0..(capacity - 1), n \in Nat : y # x /\ n <= CellElements =>
        Slice(c, y, n) = Slice(p.block, y, n)
  <2> HIDE DEF s, c
  <2> QED BY <1>0, <1>4
<1>6. t \in SlotOf /\ t.index = x /\ t.count = Len(v)
  BY <1>0, <1>1 DEF SlotOf
<1> HIDE DEF s, c, t
<1>7. /\ r.block = c /\ r.next_slot = q.next_slot /\ r.free = q.free
      /\ r.slots[k] = <<t>> /\ \A j \in Keys \ {k} : r.slots[j] = p.slots[j]
  BY <1>1, <1>2
<1>8. r \in [block : Blocks, next_slot : 0..capacity,
             slots : [Keys -> {<<>>} \cup {<<y>> : y \in SlotOf}], free : Seq(0..(capacity - 1))]
  BY <1>1, <1>2, <1>4, <1>6
<1> HIDE DEF r
<1>9. \A l \in Keys : r.slots[l] # <<>> =>
        /\ r.slots[l][1].index < r.next_slot
        /\ \A j \in Keys : r.slots[j] # <<>> /\ r.slots[j][1].index = r.slots[l][1].index => j = l
        /\ \A i \in 1..Len(r.free) : r.free[i] # r.slots[l][1].index
  <2>1. ASSUME NEW l \in Keys \ {k}, r.slots[l] # <<>>
        PROVE  /\ r.slots[l][1].index < r.next_slot
               /\ \A j \in Keys : r.slots[j] # <<>> /\ r.slots[j][1].index = r.slots[l][1].index => j = l
               /\ \A i \in 1..Len(r.free) : r.free[i] # r.slots[l][1].index
    <3>1. r.slots[l] = p.slots[l] /\ p.slots[l] # <<>> /\ p.slots[l][1].index # x
      BY <1>1, <1>7, <2>1
    <3>2. p.slots[l][1].index < r.next_slot
      <4>1. /\ p.slots[l][1].index < p.next_slot /\ p.slots[l][1].index \in Int /\ p.next_slot \in Int
            /\ q.next_slot \in Int /\ p.next_slot <= q.next_slot /\ r.next_slot = q.next_slot
        BY <1>0, <1>1, <1>2, <1>7, <3>1
      <4> QED BY <4>1
    <3>3. ASSUME NEW j \in Keys, r.slots[j] # <<>>, r.slots[j][1].index = p.slots[l][1].index
          PROVE  j = l
      <4>1. CASE j = k
        BY <1>6, <1>7, <3>1, <3>3, <4>1
      <4>2. CASE j # k
        BY <1>2, <1>7, <3>1, <3>3, <4>2
      <4> QED BY <4>1, <4>2
    <3>4. \A i \in 1..Len(r.free) : r.free[i] # p.slots[l][1].index
      BY <1>1, <1>7, <3>1
    <3> QED BY <3>1, <3>2, <3>3, <3>4
  <2>2. /\ r.slots[k][1].index < r.next_slot
        /\ \A j \in Keys : r.slots[j] # <<>> /\ r.slots[j][1].index = r.slots[k][1].index => j = k
        /\ \A i \in 1..Len(r.free) : r.free[i] # r.slots[k][1].index
    BY <1>1, <1>2, <1>6, <1>7
  <2> QED BY <2>1, <2>2
<1>10. \A i \in 1..Len(r.free) :
         r.free[i] < r.next_slot /\ \A j \in 1..Len(r.free) : r.free[i] = r.free[j] => i = j
  BY <1>1, <1>7
<1>11. PoolExact(r)
  BY <1>8, <1>9, <1>10 DEF PoolExact
<1>12. /\ r.slots[k] # <<>> /\ r.slots[k][1].count = Len(v)
       /\ Len(v) <= CellElements => PoolShows(r, k) = <<v>>
  BY <1>0, <1>4, <1>6, <1>7 DEF PoolShows
<1>13. ASSUME NEW j \in Keys \ {k}, Narrow(p, j) PROVE PoolShows(r, j) = PoolShows(p, j)
  <2>1. r.slots[j] = p.slots[j]
    BY <1>7
  <2>2. p.slots[j] # <<>> =>
          Slice(c, p.slots[j][1].index, p.slots[j][1].count)
            = Slice(p.block, p.slots[j][1].index, p.slots[j][1].count)
    BY <1>1, <1>2, <1>5, <1>13 DEF Narrow
  <2> QED BY <1>7, <2>1, <2>2 DEF PoolShows
<1> QED BY <1>3, <1>7, <1>11, <1>12, <1>13

LEMMA SlotTypes ==
  ASSUME NEW p, PoolExact(p), NEW k \in Keys, p.slots[k] # <<>>
  PROVE  /\ p.block \in Blocks /\ p.slots[k][1].index \in 0..(capacity - 1)
         /\ p.slots[k][1].count \in Nat
<1>1. p.block \in Blocks /\ p.slots[k][1] \in SlotOf
  BY DEF PoolExact
<1> QED BY <1>1 DEF SlotOf

\* A write in place through the slice of a cell.
LEMMA WrittenExact ==
  ASSUME NEW p, PoolExact(p), NEW k \in Keys, NEW v \in Vectors,
         p.slots[k] # <<>>, Len(v) = p.slots[k][1].count
  PROVE  LET r == Uni!Written(p, k, v)
         IN /\ PoolExact(r) /\ r.slots = p.slots
            /\ Len(v) <= CellElements =>
                 /\ PoolShows(r, k) = <<v>>
                 /\ \A j \in Keys \ {k} : Narrow(p, j) => PoolShows(r, j) = PoolShows(p, j)
<1> DEFINE x == p.slots[k][1].index
           r == Uni!Written(p, k, v)
           c == Uni!Overwrite(p.block, x, Len(v), v)
<1>1. /\ p.block \in Blocks /\ x \in 0..(capacity - 1)
      /\ p.next_slot \in 0..capacity /\ p.free \in Seq(0..(capacity - 1))
      /\ p.slots \in [Keys -> {<<>>} \cup {<<y>> : y \in SlotOf}]
      /\ \A j \in Keys : p.slots[j] # <<>> =>
           p.slots[j][1].index \in 0..(capacity - 1) /\ p.slots[j][1].count \in Nat
      /\ \A j \in Keys \ {k} : p.slots[j] # <<>> => p.slots[j][1].index # x
  BY DEF PoolExact, SlotOf
<1>2. p = [block |-> p.block, next_slot |-> p.next_slot, slots |-> p.slots, free |-> p.free]
  BY DEF PoolExact
<1>3. v \in Seq(Int) /\ Len(v) \in Nat /\ CellElements \in Nat
  BY CellTypes
<1> HIDE DEF x
<1>4. /\ c \in Blocks
      /\ Len(v) <= CellElements =>
           /\ Slice(c, x, Len(v)) = v
           /\ \A y \in 0..(capacity - 1), n \in Nat : y # x /\ n <= CellElements =>
                Slice(c, y, n) = Slice(p.block, y, n)
  BY <1>1, <1>3, OverwriteExact
<1>5. r = [p EXCEPT !.block = c]
  BY DEF Uni!Written, x
<1> HIDE DEF c, r
<1>6. /\ r.block = c /\ r.next_slot = p.next_slot
      /\ r.slots = p.slots /\ r.free = p.free
      /\ r = [block |-> r.block, next_slot |-> r.next_slot, slots |-> r.slots, free |-> r.free]
  BY <1>2, <1>5
<1>7. r \in [block : Blocks, next_slot : 0..capacity,
             slots : [Keys -> {<<>>} \cup {<<y>> : y \in SlotOf}], free : Seq(0..(capacity - 1))]
  BY <1>1, <1>4, <1>6
<1>8. PoolExact(r)
  BY <1>6, <1>7 DEF PoolExact
<1>9. Len(v) <= CellElements => PoolShows(r, k) = <<v>>
  BY <1>4, <1>6 DEF PoolShows, x
<1>10. ASSUME Len(v) <= CellElements, NEW j \in Keys \ {k}, Narrow(p, j)
       PROVE  PoolShows(r, j) = PoolShows(p, j)
  <2>1. p.slots[j] # <<>> =>
          Slice(c, p.slots[j][1].index, p.slots[j][1].count)
            = Slice(p.block, p.slots[j][1].index, p.slots[j][1].count)
    BY <1>1, <1>4, <1>10 DEF Narrow
  <2> QED BY <1>6, <2>1 DEF PoolShows
<1> QED BY <1>6, <1>8, <1>9, <1>10 DEF r

\* A removal: the key has no slot, the others show what they showed.
LEMMA FreedExact ==
  ASSUME NEW p, PoolExact(p), NEW k \in Keys, p.slots[k] # <<>>
  PROVE  LET r == Uni!Freed(p, k)
         IN /\ PoolExact(r) /\ r.slots[k] = <<>> /\ r.block = p.block
            /\ \A j \in Keys \ {k} : r.slots[j] = p.slots[j]
<1> DEFINE x == p.slots[k][1].index
           r == Uni!Freed(p, k)
           f == p.free
           n == Len(f)
           B == 0..(capacity - 1)
<1>1. /\ p.block \in Blocks /\ x \in B
      /\ p.next_slot \in 0..capacity /\ f \in Seq(B)
      /\ p.slots \in [Keys -> {<<>>} \cup {<<y>> : y \in SlotOf}]
      /\ x < p.next_slot
      /\ \A j \in Keys \ {k} : p.slots[j] # <<>> =>
           /\ p.slots[j][1].index # x /\ p.slots[j][1].index < p.next_slot
           /\ \A l \in Keys : p.slots[l] # <<>> /\ p.slots[l][1].index = p.slots[j][1].index => l = j
           /\ \A i \in 1..n : f[i] # p.slots[j][1].index
      /\ \A i \in 1..n : /\ f[i] < p.next_slot /\ f[i] # x
                         /\ \A j \in 1..n : f[i] = f[j] => i = j
  BY DEF PoolExact, SlotOf
<1> HIDE DEF x, f, B
<1>2. /\ n \in Nat /\ Append(f, x) \in Seq(B) /\ Len(Append(f, x)) = n + 1
      /\ Append(f, x)[n + 1] = x /\ \A i \in 1..n : Append(f, x)[i] = f[i]
  BY <1>1
<1> DEFINE g == Append(f, x)
<1> HIDE DEF n, g
<1>3. /\ r.block = p.block /\ r.next_slot = p.next_slot
      /\ r.slots = [p.slots EXCEPT ![k] = <<>>] /\ r.free = g
      /\ r = [y \in {"block", "next_slot", "slots", "free"} |-> r[y]]
  <2>1. p = [block |-> p.block, next_slot |-> p.next_slot, slots |-> p.slots, free |-> p.free]
    BY DEF PoolExact
  <2>2. r = [p EXCEPT !.free = Append(@, x), !.slots[k] = <<>>]
    BY DEF x, Uni!Freed
  <2> HIDE DEF r
  <2>3. r = [p EXCEPT !.free = g, !.slots[k] = <<>>]
    BY <2>2 DEF g, f
  <2> QED BY <2>1, <2>3
<1> HIDE DEF r
<1>4. r.slots[k] = <<>> /\ \A j \in Keys \ {k} : r.slots[j] = p.slots[j]
  BY <1>1, <1>3
<1>5. \A i \in 1..Len(g) : i = n + 1 \/ i \in 1..n
  BY <1>2 DEF g
<1>6. \A i \in 1..Len(g) : /\ g[i] < p.next_slot
                           /\ \A j \in 1..Len(g) : g[i] = g[j] => i = j
  <2>1. g[n + 1] = x /\ \A i \in 1..n : g[i] = f[i]
    BY <1>2 DEF g
  <2>2. \A i \in 1..n : /\ g[i] < p.next_slot /\ g[i] # g[n + 1]
                         /\ \A j \in 1..n : g[i] = g[j] => i = j
    BY <1>1, <2>1
  <2>3. g[n + 1] < p.next_slot
    BY <1>1, <2>1
  <2> QED BY <1>5, <2>2, <2>3
<1>7. \A j \in Keys : r.slots[j] # <<>> =>
        /\ r.slots[j][1].index < r.next_slot
        /\ \A l \in Keys : r.slots[l] # <<>> /\ r.slots[l][1].index = r.slots[j][1].index => l = j
        /\ \A i \in 1..Len(r.free) : r.free[i] # r.slots[j][1].index
  BY <1>1, <1>2, <1>3, <1>4, <1>5 DEF g
<1>8. r \in [block : Blocks, next_slot : 0..capacity,
             slots : [Keys -> {<<>>} \cup {<<y>> : y \in SlotOf}], free : Seq(B)]
  <2> DEFINE o == [p.slots EXCEPT ![k] = <<>>]
  <2>1. o \in [Keys -> {<<>>} \cup {<<y>> : y \in SlotOf}] /\ g \in Seq(B)
    BY <1>1, <1>2 DEF g
  <2>2. r = [block |-> p.block, next_slot |-> p.next_slot, slots |-> o, free |-> g]
    BY <1>3
  <2> HIDE DEF o
  <2> QED BY <1>1, <2>1, <2>2
<1>9. PoolExact(r)
  BY <1>3, <1>6, <1>7, <1>8 DEF PoolExact, B
<1> QED BY <1>3, <1>4, <1>9 DEF r

-----------------------------------------------------------------------------
(* Staging *)

StagedPut == [dim : Dims \ {EPHEMERAL}, key : Keys, value : Runs]

\* Two staged changes of one entry.
SameEntry(x, y) == x.dim = y.dim /\ x.key = y.key

\* The last change of each entry in s is its value in w, unless it is in o.
Current(s, o, w) ==
  \A i \in 1..Len(s) :
    /\ <<s[i].dim, s[i].key>> \notin o
    /\ \A j \in 1..Len(s) : SameEntry(s[j], s[i]) => j <= i
    => w[s[i].dim][s[i].key] = <<s[i].value>>

\* w and z agree on every entry but one.
AgreeBut(w, z, d, k) ==
  \A e \in Dims, j \in Keys : e # d \/ j # k => z[e][j] = w[e][j]

LEMMA StageLess ==
  ASSUME NEW s, NEW o, NEW u, NEW w, Current(s, o, w), o \subseteq u
  PROVE  Current(s, u, w)
BY DEF Current

LEMMA StagePut ==
  ASSUME NEW s \in Seq(StagedPut), NEW o, NEW w, NEW z, Current(s, o, w),
         NEW d \in Dims \ {EPHEMERAL}, NEW k \in Keys, NEW v \in Runs,
         AgreeBut(w, z, d, k), z[d][k] = <<v>>, NEW x,
         x = [dim |-> d, key |-> k, value |-> v]
  PROVE  Append(s, x) \in Seq(StagedPut) /\ Current(Append(s, x), o \ {<<d, k>>}, z)
<1> DEFINE n == Len(s)
           t == Append(s, x)
<1>1. x \in StagedPut /\ x.dim = d /\ x.key = k /\ x.value = v
  BY DEF StagedPut
<1>2. /\ n \in Nat /\ t \in Seq(StagedPut) /\ Len(t) = n + 1 /\ t[n + 1] = x
      /\ \A i \in 1..n : t[i] = s[i] /\ s[i] \in StagedPut
  BY <1>1
<1>3. \A i \in 1..n : s[i].dim \in Dims /\ s[i].key \in Keys
  BY <1>2 DEF StagedPut
<1> HIDE DEF n, t
<1>4. ASSUME NEW i \in 1..(n + 1), <<t[i].dim, t[i].key>> \notin o \ {<<d, k>>},
             \A j \in 1..(n + 1) : SameEntry(t[j], t[i]) => j <= i
      PROVE  z[t[i].dim][t[i].key] = <<t[i].value>>
  <2>1. CASE i = n + 1
    BY <1>1, <1>2, <2>1
  <2>2. CASE i # n + 1
    <3>1. i \in 1..n /\ n + 1 \in 1..(n + 1) /\ ~(n + 1 <= i)
      BY <1>2, <2>2
    <3>2. ~SameEntry(x, s[i])
      BY <1>2, <1>4, <3>1
    <3>3. s[i].dim # d \/ s[i].key # k
      BY <1>1, <3>2 DEF SameEntry
    <3>4. <<s[i].dim, s[i].key>> \notin o
      BY <1>2, <1>4, <3>1, <3>3
    <3>5. \A j \in 1..n : SameEntry(s[j], s[i]) => j <= i
      BY <1>2, <1>4, <3>1
    <3>6. w[s[i].dim][s[i].key] = <<s[i].value>>
      BY <3>1, <3>4, <3>5 DEF Current, n
    <3> QED BY <1>2, <1>3, <3>1, <3>3, <3>6 DEF AgreeBut
  <2> QED BY <2>1, <2>2
<1>5. Current(t, o \ {<<d, k>>}, z)
  BY <1>2, <1>4 DEF Current
<1> QED BY <1>2, <1>5 DEF t

\* A write in place that the caller has not marked yet.
LEMMA StageOwed ==
  ASSUME NEW s \in Seq(StagedPut), NEW o, NEW w, NEW z, Current(s, o, w),
         NEW d \in Dims, NEW k \in Keys, AgreeBut(w, z, d, k)
  PROVE  Current(s, o \cup {<<d, k>>}, z)
<1>1. \A i \in 1..Len(s) : s[i].dim \in Dims /\ s[i].key \in Keys
  <2>1. \A i \in 1..Len(s) : s[i] \in StagedPut
    OBVIOUS
  <2> QED BY <2>1 DEF StagedPut
<1>2. ASSUME NEW i \in 1..Len(s), <<s[i].dim, s[i].key>> \notin o \cup {<<d, k>>},
             \A j \in 1..Len(s) : SameEntry(s[j], s[i]) => j <= i
      PROVE  z[s[i].dim][s[i].key] = <<s[i].value>>
  <2>1. s[i].dim # d \/ s[i].key # k
    BY <1>2
  <2>2. w[s[i].dim][s[i].key] = <<s[i].value>>
    BY <1>2 DEF Current
  <2> QED BY <1>1, <2>1, <2>2 DEF AgreeBut
<1> QED BY <1>2 DEF Current

\* A removal takes every staged change of the entry out.
LEMMA StageDrop ==
  ASSUME NEW s \in Seq(StagedPut), NEW o, NEW w, NEW z, Current(s, o, w),
         NEW d \in Dims, NEW k \in Keys, AgreeBut(w, z, d, k), NEW gone,
         gone = {x \in ToSet(s) : x.dim = d /\ x.key = k}
  PROVE  Retain(s, gone) \in Seq(StagedPut) /\ Current(Retain(s, gone), o \ {<<d, k>>}, z)
<1> DEFINE t == Retain(s, gone)
<1>1. t \in Seq(StagedPut) /\ \E h : KeptFrom(t, s, gone, Len(s), h)
  BY RetainKeeps
<1> HIDE DEF t
<1>2. PICK h : KeptFrom(t, s, gone, Len(s), h)
  BY <1>1
<1>3. /\ h \in [1..Len(t) -> 1..Len(s)] /\ \A i \in 1..Len(t) : t[i] = s[h[i]] /\ t[i] \notin gone
      /\ \A i, j \in 1..Len(t) : i < j => h[i] < h[j]
      /\ \A j \in 1..Len(s) : s[j] \notin gone => \E i \in 1..Len(t) : h[i] = j
  BY <1>2 DEF KeptFrom
<1>4. \A i \in 1..Len(s) : /\ s[i].dim \in Dims /\ s[i].key \in Keys
                           /\ s[i] \in gone <=> s[i].dim = d /\ s[i].key = k
  <2>1. \A i \in 1..Len(s) : s[i] \in StagedPut /\ s[i] \in ToSet(s)
    BY DEF ToSet
  <2>2. \A i \in 1..Len(s) : s[i].dim \in Dims /\ s[i].key \in Keys
    BY <2>1 DEF StagedPut
  <2> QED BY <2>1, <2>2
<1>5. ASSUME NEW i \in 1..Len(t), <<t[i].dim, t[i].key>> \notin o \ {<<d, k>>},
             \A j \in 1..Len(t) : SameEntry(t[j], t[i]) => j <= i
      PROVE  z[t[i].dim][t[i].key] = <<t[i].value>>
  <2> DEFINE m == h[i]
  <2>1. m \in 1..Len(s) /\ t[i] = s[m] /\ s[m] \notin gone
    BY <1>3
  <2> HIDE DEF m
  <2>2. s[m].dim # d \/ s[m].key # k
    BY <1>4, <2>1
  <2>3. <<s[m].dim, s[m].key>> \notin o
    BY <1>5, <2>1, <2>2
  <2>4. ASSUME NEW j \in 1..Len(s), SameEntry(s[j], s[m]) PROVE j <= m
    <3>1. s[j] \notin gone
      BY <1>4, <2>1, <2>2, <2>4 DEF SameEntry
    <3>2. PICK l \in 1..Len(t) : h[l] = j
      BY <1>3, <3>1
    <3>3. l <= i
      BY <1>3, <1>5, <2>1, <2>4, <3>2
    <3>4. Len(t) \in Nat /\ (l < i => h[l] < h[i]) /\ h[l] \in Int /\ h[i] \in Int
      BY <1>1, <1>3
    <3>5. l = i \/ l < i
      BY <1>1, <3>3
    <3> QED BY <3>2, <3>4, <3>5 DEF m
  <2>5. w[s[m].dim][s[m].key] = <<s[m].value>>
    BY <2>1, <2>3, <2>4 DEF Current
  <2> QED BY <1>4, <2>1, <2>2, <2>5 DEF AgreeBut
<1>6. Current(t, o \ {<<d, k>>}, z)
  BY <1>5 DEF Current
<1> QED BY <1>1, <1>6 DEF t

-----------------------------------------------------------------------------
(* The unified-memory store *)

Readouts == {<<>>} \cup {<<v>> : v \in Runs}

\* An entry in a pool lies within its cell.
Slim(d, k) == pools[d] # <<>> => Narrow(pools[d][1], k)

\* Pools are exact, and what is not lost is read as the calls left it.
MemoryExact ==
  /\ entries \in [Dims -> [Keys -> Readouts]] /\ view \in [Dims -> [Keys -> Readouts]]
  /\ pools = [d \in Dims |-> pools[d]]
  /\ \A d \in Dims : pools[d] # <<>> => pools[d] = <<pools[d][1]>> /\ PoolExact(pools[d][1])
  /\ \A d \in Dims, k \in Keys : <<d, k>> \notin lost => get(d, k) = view[d][k] /\ Slim(d, k)

UniInductive ==
  /\ MemoryExact
  /\ dirty \in Seq(StagedPut)
  /\ ~panicked => Current(dirty, owed \cup lost, view)

\* A read by the pool, if it has a slot for the key.
LEMMA GetShows ==
  ASSUME NEW d, NEW k
  PROVE  /\ pools[d] # <<>> /\ pools[d][1].slots[k] # <<>> => get(d, k) = PoolShows(pools[d][1], k)
         /\ ~(pools[d] # <<>> /\ pools[d][1].slots[k] # <<>>) => get(d, k) = entries[d][k]
BY DEF get, HasCell, HasPool, PoolShows

LEMMA GetType ==
  ASSUME MemoryExact, NEW d \in Dims, NEW k \in Keys PROVE get(d, k) \in Readouts
<1>1. CASE pools[d] # <<>> /\ pools[d][1].slots[k] # <<>>
  <2> DEFINE p == pools[d][1]
  <2>1. PoolExact(p) /\ p.slots[k] # <<>>
    BY <1>1 DEF MemoryExact
  <2>2. get(d, k) = PoolShows(p, k)
    BY <1>1, GetShows
  <2> HIDE DEF p
  <2>3. Slice(p.block, p.slots[k][1].index, p.slots[k][1].count) \in Runs
    BY <2>1, SlotTypes, SliceType
  <2> DEFINE u == Slice(p.block, p.slots[k][1].index, p.slots[k][1].count)
  <2>4. PoolShows(p, k) = <<u>> /\ u \in Runs
    BY <2>1, <2>3 DEF PoolShows
  <2> HIDE DEF u
  <2> QED BY <2>2, <2>4 DEF Readouts
<1>2. CASE ~(pools[d] # <<>> /\ pools[d][1].slots[k] # <<>>)
  <2>1. get(d, k) = entries[d][k]
    BY <1>2, GetShows
  <2>2. entries \in [Dims -> [Keys -> Readouts]]
    BY DEF MemoryExact
  <2> QED BY <2>1, <2>2
<1> QED BY <1>1, <1>2

LEMMA UniSameGet ==
  /\ \A d, k : Uni!get(d, k) = get(d, k)
  /\ \A d : Uni!HasPool(d) <=> HasPool(d)
  /\ \A d, k : Uni!HasCell(d, k) <=> HasCell(d, k)
BY DEF Uni!get, get, Uni!HasPool, HasPool, Uni!HasCell, HasCell, Uni!Slice, Slice, Uni!Offset, Offset

\* A call that leaves the other dimensions alone, and leaves o of an entry of d
\* if it does not spoil it.
MemoryChange(d, k, o) ==
  /\ entries' \in [Dims -> [Keys -> Readouts]] /\ view' = [view EXCEPT ![d][k] = o]
  /\ pools' = [e \in Dims |-> pools'[e]]
  /\ \A e \in Dims \ {d} : pools'[e] = pools[e] /\ entries'[e] = entries[e]
  /\ pools'[d] # <<>> => pools'[d] = <<pools'[d][1]>> /\ PoolExact(pools'[d][1])
  /\ lost \ {<<d, k>>} \subseteq lost'
  /\ \A j \in Keys \ {k} : <<d, j>> \notin lost' =>
       get(d, j)' = get(d, j) /\ Slim(d, j)'
  /\ <<d, k>> \notin lost' => get(d, k)' = o /\ Slim(d, k)'

LEMMA MemoryStep ==
  ASSUME MemoryExact, NEW d \in Dims, NEW k \in Keys, NEW o \in Readouts, MemoryChange(d, k, o)
  PROVE  MemoryExact' /\ AgreeBut(view, view', d, k) /\ view'[d][k] = o
<1> USE DEF MemoryChange
<1>1. view' \in [Dims -> [Keys -> Readouts]] /\ AgreeBut(view, view', d, k) /\ view'[d][k] = o
  BY DEF MemoryExact, AgreeBut
<1>2. ASSUME NEW e \in Dims, NEW j \in Keys, <<e, j>> \notin lost'
      PROVE  get(e, j)' = view'[e][j] /\ Slim(e, j)'
  <2>1. CASE e = d /\ j = k
    BY <1>1, <1>2, <2>1
  <2>2. CASE e # d \/ j # k
    <3>1. <<e, j>> \notin lost /\ get(e, j) = view[e][j] /\ Slim(e, j) /\ view'[e][j] = view[e][j]
      BY <1>1, <1>2, <2>2 DEF MemoryExact, AgreeBut
    <3>2. CASE e = d
      BY <1>2, <2>2, <3>1, <3>2
    <3>3. CASE e # d
      <4>1. pools'[e] = pools[e] /\ entries'[e] = entries[e]
        BY <3>3
      <4>2. get(e, j)' = get(e, j) /\ Slim(e, j)'
        BY <3>1, <4>1 DEF get, HasCell, HasPool, Slim
      <4> QED BY <3>1, <4>2
    <3> QED BY <3>2, <3>3
  <2> QED BY <2>1, <2>2
<1>3. ASSUME NEW e \in Dims, pools'[e] # <<>>
      PROVE  pools'[e] = <<pools'[e][1]>> /\ PoolExact(pools'[e][1])
  BY <1>3 DEF MemoryExact
<1> QED BY <1>1, <1>2, <1>3 DEF MemoryExact

\* A change of a block of its own, where no cell has the entry.
LEMMA BlockStep ==
  ASSUME MemoryExact, NEW d \in Dims, NEW k \in Keys, NEW o \in Readouts, ~HasCell(d, k),
         entries' = [entries EXCEPT ![d][k] = o], pools' = pools,
         view' = [view EXCEPT ![d][k] = o], lost' = lost \ {<<d, k>>}
  PROVE  MemoryChange(d, k, o)
<1>1. /\ entries \in [Dims -> [Keys -> Readouts]] /\ pools = [e \in Dims |-> pools[e]]
      /\ pools[d] # <<>> => pools[d] = <<pools[d][1]>> /\ PoolExact(pools[d][1])
  BY DEF MemoryExact
<1>2. /\ entries' \in [Dims -> [Keys -> Readouts]] /\ entries'[d][k] = o
      /\ \A j \in Keys \ {k} : entries'[d][j] = entries[d][j]
      /\ \A e \in Dims \ {d} : entries'[e] = entries[e]
  BY <1>1
<1>3. ASSUME NEW j \in Keys \ {k}, <<d, j>> \notin lost' PROVE get(d, j)' = get(d, j) /\ Slim(d, j)'
  <2>1. <<d, j>> \notin lost
    BY <1>3
  <2>2. Slim(d, j)
    BY <2>1 DEF MemoryExact
  <2> QED BY <1>2, <2>2 DEF get, HasCell, HasPool, Slim
<1>4. get(d, k)' = o /\ Slim(d, k)'
  BY <1>2 DEF get, HasCell, HasPool, Slim, Narrow
<1> QED BY <1>1, <1>2, <1>3, <1>4 DEF MemoryChange

\* A change of the pool of d, which had r for p afterwards.
LEMMA PoolStep ==
  ASSUME MemoryExact, NEW d \in Dims, NEW r, PoolExact(r), pools[d] # <<>>,
         pools' = [pools EXCEPT ![d] = <<r>>], entries' = entries
  PROVE  /\ pools' = [e \in Dims |-> pools'[e]] /\ entries' \in [Dims -> [Keys -> Readouts]]
         /\ \A e \in Dims \ {d} : pools'[e] = pools[e] /\ entries'[e] = entries[e]
         /\ pools'[d] # <<>> /\ pools'[d] = <<pools'[d][1]>> /\ PoolExact(pools'[d][1])
         /\ \A j \in Keys :
              /\ r.slots[j] # <<>> => get(d, j)' = PoolShows(r, j)
              /\ r.slots[j] = <<>> => get(d, j)' = entries[d][j]
              /\ Slim(d, j)' <=> Narrow(r, j)
<1>1. pools = [e \in Dims |-> pools[e]] /\ entries \in [Dims -> [Keys -> Readouts]]
  BY DEF MemoryExact
<1>2. /\ pools'[d] = <<r>> /\ pools'[d][1] = r /\ pools'[d] # <<>>
      /\ pools' = [e \in Dims |-> pools'[e]] /\ \A e \in Dims \ {d} : pools'[e] = pools[e]
  BY <1>1
<1>3. ASSUME NEW j \in Keys
      PROVE  /\ r.slots[j] # <<>> => get(d, j)' = PoolShows(r, j)
             /\ r.slots[j] = <<>> => get(d, j)' = entries[d][j]
             /\ Slim(d, j)' <=> Narrow(r, j)
  <2>1. Slim(d, j)' <=> Narrow(r, j)
    BY <1>2 DEF Slim
  <2>2. r.slots[j] # <<>> => get(d, j)' = PoolShows(r, j)
    BY <1>2 DEF get, HasCell, HasPool, PoolShows
  <2>3. r.slots[j] = <<>> => get(d, j)' = entries[d][j]
    BY <1>2 DEF get, HasCell, HasPool
  <2> QED BY <2>1, <2>2, <2>3
<1> QED BY <1>1, <1>2, <1>3

\* A key that keeps its slot, and what the pool shows of it, is read as before.
LEMMA KeptSlot ==
  ASSUME MemoryExact, NEW d \in Dims, NEW k \in Keys, NEW r, pools[d] # <<>>,
         r.slots[k] = pools[d][1].slots[k],
         Narrow(pools[d][1], k) => PoolShows(r, k) = PoolShows(pools[d][1], k),
         <<d, k>> \notin lost,
         r.slots[k] # <<>> => get(d, k)' = PoolShows(r, k),
         r.slots[k] = <<>> => get(d, k)' = entries[d][k]
  PROVE  get(d, k)' = get(d, k) /\ Narrow(r, k)
<1>1. Narrow(pools[d][1], k)
  BY DEF MemoryExact, Slim
<1> QED BY <1>1, GetShows DEF Narrow

LEMMA UniPut ==
  ASSUME UniInductive, NEW d \in Dims, NEW k \in Keys, NEW v \in Vectors, Uni!put(d, k, v)
  PROVE  UniInductive'
<1>0. /\ v \in Runs /\ <<v>> \in Readouts /\ MemoryExact /\ ~panicked
      /\ Current(dirty, owed \cup lost, view) /\ dirty \in Seq(StagedPut)
      /\ Len(v) \in Nat /\ CellElements \in Nat
  BY CellTypes DEF UniInductive, Uni!put, Readouts
<1>1. ASSUME MemoryChange(d, k, <<v>>)
      PROVE  UniInductive'
  <2>1. MemoryExact' /\ AgreeBut(view, view', d, k) /\ view'[d][k] = <<v>>
    BY <1>0, <1>1, MemoryStep
  <2>2. owed' = owed \ {<<d, k>>} /\ dirty' = Uni!Staged(d, k, v)
    BY DEF Uni!put
  <2> DEFINE o == (owed \cup lost) \ {<<d, k>>}
  <2>3. o \subseteq owed' \cup lost'
    BY <1>1, <2>2 DEF MemoryChange
  <2>4. dirty' \in Seq(StagedPut) /\ Current(dirty', o, view')
    <3>1. CASE d # EPHEMERAL
      <4> DEFINE x == [dim |-> d, key |-> k, value |-> v]
      <4>1. dirty' = Append(dirty, x) /\ d \in Dims \ {EPHEMERAL}
        BY <2>2, <3>1 DEF Uni!Staged
      <4> HIDE DEF x
      <4>2. Append(dirty, x) \in Seq(StagedPut) /\ Current(Append(dirty, x), o, view')
        BY <1>0, <2>1, <4>1, StagePut DEF x
      <4> QED BY <4>1, <4>2
    <3>2. CASE d = EPHEMERAL
      <4>1. dirty' = dirty
        BY <2>2, <3>2 DEF Uni!Staged
      <4>2. \A i \in 1..Len(dirty) : /\ dirty[i].dim \in Dims /\ dirty[i].key \in Keys
                                     /\ dirty[i].dim # d
        <5>1. \A i \in 1..Len(dirty) : dirty[i] \in StagedPut
          BY <1>0
        <5> QED BY <3>2, <5>1 DEF StagedPut
      <4>3. ASSUME NEW i \in 1..Len(dirty), <<dirty[i].dim, dirty[i].key>> \notin o,
                   \A j \in 1..Len(dirty) : SameEntry(dirty[j], dirty[i]) => j <= i
            PROVE  view'[dirty[i].dim][dirty[i].key] = <<dirty[i].value>>
        <5>1. <<dirty[i].dim, dirty[i].key>> \notin owed \cup lost
          BY <4>2, <4>3
        <5>2. view[dirty[i].dim][dirty[i].key] = <<dirty[i].value>>
          BY <1>0, <4>3, <5>1 DEF Current
        <5> QED BY <2>1, <4>2, <5>2 DEF AgreeBut
      <4>4. Current(dirty, o, view')
        BY <4>3 DEF Current
      <4> QED BY <1>0, <4>1, <4>4
    <3> QED BY <3>1, <3>2
  <2> HIDE DEF o
  <2>5. Current(dirty', owed' \cup lost', view')
    BY <2>3, <2>4, StageLess
  <2> QED BY <2>1, <2>4, <2>5 DEF UniInductive
<1>2. CASE ~HasPool(d)
  <2>1. /\ entries' = [entries EXCEPT ![d][k] = <<v>>] /\ view' = [view EXCEPT ![d][k] = <<v>>]
        /\ pools' = pools /\ lost' = lost \ {<<d, k>>}
    BY <1>2, UniSameGet DEF Uni!put, Uni!Lost
  <2>2. ~HasCell(d, k)
    BY <1>2 DEF HasCell
  <2>3. MemoryChange(d, k, <<v>>)
    BY <1>0, <2>1, <2>2, BlockStep
  <2> QED BY <1>1, <2>3
<1>3. CASE HasPool(d) /\ Uni!alloc_slot(pools[d][1], k).index >= capacity
  <2>1. /\ pools' = pools /\ view' = view /\ entries' = entries /\ panicked' = TRUE
        /\ lost' = lost
    BY <1>3, UniSameGet DEF Uni!put
  <2>2. MemoryExact'
    BY <1>0, <2>1 DEF MemoryExact, get, HasCell, HasPool, Slim
  <2>3. dirty' \in Seq(StagedPut)
    <3>1. dirty' = Uni!Staged(d, k, v)
      BY DEF Uni!put
    <3>2. d # EPHEMERAL => [dim |-> d, key |-> k, value |-> v] \in StagedPut
      BY <1>0 DEF StagedPut
    <3> QED BY <1>0, <3>1, <3>2 DEF Uni!Staged
  <2> QED BY <2>1, <2>2, <2>3 DEF UniInductive
<1>4. CASE HasPool(d) /\ ~(Uni!alloc_slot(pools[d][1], k).index >= capacity)
  <2> DEFINE p == pools[d][1]
             r == Uni!Pooled(p, k, v)
             wide == Len(v) > CellElements
  <2>1. /\ pools' = [pools EXCEPT ![d] = <<r>>] /\ view' = [view EXCEPT ![d][k] = <<v>>]
        /\ entries' = entries /\ lost' = Uni!Lost(d, k, wide)
    <3> DEFINE full == Uni!alloc_slot(p, k).index >= capacity
    <3>1. Uni!HasPool(d) /\ ~full
      BY <1>4, UniSameGet
    <3>2. /\ entries' = entries
          /\ view' = IF full THEN view ELSE [view EXCEPT ![d][k] = <<v>>]
          /\ pools' = IF full THEN pools ELSE [pools EXCEPT ![d] = <<r>>]
          /\ lost' = IF full THEN lost ELSE Uni!Lost(d, k, wide)
      BY <3>1, Zenon DEF Uni!put
    <3> HIDE DEF r, full, wide
    <3> QED BY <3>1, <3>2
  <2>2. pools[d] # <<>> /\ PoolExact(p)
    BY <1>0, <1>4 DEF MemoryExact, HasPool
  <2>3. Uni!alloc_slot(p, k).index < capacity
    <3>1. PoolExact(p) => Uni!alloc_slot(p, k).index \in Int
      <4>1. capacity \in Nat
        BY CellTypes
      <4>2. PoolExact(p) => /\ p.next_slot \in Int
                            /\ \A i \in 1..Len(p.free) : p.free[i] \in Int
                            /\ p.slots[k] # <<>> => p.slots[k][1].index \in Int
                            /\ p.free # <<>> => Len(p.free) \in 1..Len(p.free)
        <5> HIDE DEF p
        <5> SUFFICES ASSUME PoolExact(p)
                     PROVE  /\ p.next_slot \in Int
                            /\ \A i \in 1..Len(p.free) : p.free[i] \in Int
                            /\ p.slots[k] # <<>> => p.slots[k][1].index \in Int
                            /\ p.free # <<>> => Len(p.free) \in 1..Len(p.free)
          OBVIOUS
        <5>1. /\ p.next_slot \in 0..capacity /\ p.free \in Seq(0..(capacity - 1))
              /\ p.slots[k] # <<>> => p.slots[k][1].index \in 0..(capacity - 1)
          BY DEF PoolExact, SlotOf
        <5>2. 0..capacity \subseteq Int /\ 0..(capacity - 1) \subseteq Int
          BY <4>1
        <5> DEFINE f == p.free
                   B == 0..(capacity - 1)
        <5>3. f \in Seq(B)
          BY <5>1
        <5> HIDE DEF f, B
        <5>4. (\A i \in 1..Len(f) : f[i] \in B) /\ (f # <<>> => Len(f) \in 1..Len(f))
          BY <5>3
        <5>5. (\A i \in 1..Len(f) : f[i] \in Int) /\ (f # <<>> => Len(f) \in 1..Len(f))
          BY <5>2, <5>4 DEF B
        <5> QED BY <5>1, <5>2, <5>5 DEF f
      <4> HIDE DEF p
      <4>3. /\ p.slots[k] # <<>> => Uni!alloc_slot(p, k).index = p.slots[k][1].index
            /\ p.slots[k] = <<>> /\ p.free # <<>> => Uni!alloc_slot(p, k).index = p.free[Len(p.free)]
            /\ p.slots[k] = <<>> /\ p.free = <<>> => Uni!alloc_slot(p, k).index = p.next_slot
        BY DEF Uni!alloc_slot
      <4> QED BY <4>2, <4>3
    <3> QED BY <1>4, <2>2, <3>1, CellTypes
  <2>4. /\ PoolExact(r) /\ r.slots[k] # <<>> /\ r.slots[k][1].count = Len(v)
        /\ Len(v) <= CellElements => PoolShows(r, k) = <<v>>
        /\ \A j \in Keys \ {k} : r.slots[j] = p.slots[j] /\ (Narrow(p, j) => PoolShows(r, j) = PoolShows(p, j))
    <3> HIDE DEF p
    <3> QED BY <2>2, <2>3, PooledExact
  <2> HIDE DEF r
  <2>5. /\ pools' = [e \in Dims |-> pools'[e]] /\ entries' \in [Dims -> [Keys -> Readouts]]
        /\ \A e \in Dims \ {d} : pools'[e] = pools[e] /\ entries'[e] = entries[e]
        /\ pools'[d] = <<pools'[d][1]>> /\ PoolExact(pools'[d][1])
        /\ \A j \in Keys :
             /\ r.slots[j] # <<>> => get(d, j)' = PoolShows(r, j)
             /\ r.slots[j] = <<>> => get(d, j)' = entries[d][j]
             /\ Slim(d, j)' <=> Narrow(r, j)
    BY <1>0, <2>1, <2>2, <2>4, PoolStep
  <2>6. lost' = IF wide THEN lost \cup {<<d, k>>} ELSE lost \ {<<d, k>>}
    BY <2>1 DEF Uni!Lost
  <2>7. ASSUME NEW j \in Keys \ {k}, <<d, j>> \notin lost' PROVE get(d, j)' = get(d, j) /\ Slim(d, j)'
    <3>1. <<d, j>> \notin lost
      BY <2>6, <2>7
    <3>2. get(d, j)' = get(d, j) /\ Narrow(r, j)
      BY <1>0, <2>2, <2>4, <2>5, <3>1, KeptSlot
    <3> QED BY <2>5, <3>2
  <2>8. ASSUME <<d, k>> \notin lost' PROVE get(d, k)' = <<v>> /\ Slim(d, k)'
    <3>1. Len(v) <= CellElements
      BY <1>0, <2>6, <2>8
    <3> QED BY <2>4, <2>5, <3>1 DEF Narrow
  <2>9. lost \ {<<d, k>>} \subseteq lost'
    BY <2>6
  <2>10. MemoryChange(d, k, <<v>>)
    BY <2>1, <2>5, <2>7, <2>8, <2>9 DEF MemoryChange
  <2> QED BY <1>1, <2>10
<1> QED BY <1>2, <1>3, <1>4

LEMMA UniGetMut ==
  ASSUME UniInductive, NEW d \in Dims, NEW k \in Keys, NEW v \in Vectors, Uni!get_mut(d, k, v)
  PROVE  UniInductive'
<1>0. /\ v \in Runs /\ <<v>> \in Readouts /\ MemoryExact /\ ~panicked
      /\ Current(dirty, owed \cup lost, view) /\ dirty \in Seq(StagedPut)
      /\ Len(v) \in Nat /\ CellElements \in Nat
  BY CellTypes DEF UniInductive, Uni!get_mut, Readouts
<1>1. /\ get(d, k) # <<>> /\ Len(v) = Len(get(d, k)[1]) /\ dirty' = dirty /\ panicked' = panicked
      /\ owed' = owed \cup {<<d, k>>} /\ view' = [view EXCEPT ![d][k] = <<v>>]
  BY UniSameGet DEF Uni!get_mut
<1>2. MemoryChange(d, k, <<v>>)
  <2>1. CASE ~HasCell(d, k)
    <3>1. entries' = [entries EXCEPT ![d][k] = <<v>>] /\ pools' = pools /\ lost' = lost \ {<<d, k>>}
      BY <2>1, UniSameGet DEF Uni!get_mut, Uni!Lost
    <3> QED BY <1>0, <1>1, <2>1, <3>1, BlockStep
  <2>2. CASE HasCell(d, k)
    <3> DEFINE p == pools[d][1]
               x == p.slots[k][1].index
               n == p.slots[k][1].count
               r == Uni!Written(p, k, v)
    <3>1. /\ pools' = [pools EXCEPT ![d] = <<r>>] /\ entries' = entries
          /\ lost' = IF Len(v) > CellElements THEN lost \cup Uni!InCells(d) ELSE lost \ {<<d, k>>}
      BY <2>2, UniSameGet DEF Uni!get_mut, Uni!Lost
    <3>2. pools[d] # <<>> /\ PoolExact(p) /\ p.slots[k] # <<>>
      BY <1>0, <2>2 DEF MemoryExact, HasCell, HasPool
    <3>3. get(d, k) = <<Slice(p.block, x, n)>>
      BY <2>2 DEF get
    <3>4. Slice(p.block, x, n) \in Runs /\ Len(Slice(p.block, x, n)) = n
      <4> HIDE DEF p
      <4> QED BY <3>2, SlotTypes, SliceType
    <3>5. Len(v) = n
      <4> DEFINE u == Slice(p.block, x, n)
      <4>1. get(d, k) = <<u>> /\ Len(u) = n
        BY <3>3, <3>4
      <4> HIDE DEF u, n
      <4> QED BY <1>1, <4>1
    <3>6. /\ PoolExact(r) /\ r.slots = p.slots
          /\ Len(v) <= CellElements =>
               /\ PoolShows(r, k) = <<v>>
               /\ \A j \in Keys \ {k} : Narrow(p, j) => PoolShows(r, j) = PoolShows(p, j)
      <4> HIDE DEF p
      <4> QED BY <3>2, <3>5, WrittenExact
    <3> HIDE DEF r
    <3>7. /\ pools' = [e \in Dims |-> pools'[e]] /\ entries' \in [Dims -> [Keys -> Readouts]]
          /\ \A e \in Dims \ {d} : pools'[e] = pools[e] /\ entries'[e] = entries[e]
          /\ pools'[d] = <<pools'[d][1]>> /\ PoolExact(pools'[d][1])
          /\ \A j \in Keys :
               /\ r.slots[j] # <<>> => get(d, j)' = PoolShows(r, j)
               /\ r.slots[j] = <<>> => get(d, j)' = entries[d][j]
               /\ Slim(d, j)' <=> Narrow(r, j)
      BY <1>0, <3>1, <3>2, <3>6, PoolStep
    <3>8. CASE Len(v) > CellElements
      <4>1. ASSUME NEW j \in Keys, <<d, j>> \notin lost' PROVE <<d, j>> \notin lost /\ p.slots[j] = <<>>
        <5>1. <<d, j>> \notin lost /\ <<d, j>> \notin Uni!InCells(d)
          BY <3>1, <3>8, <4>1
        <5>2. ~Uni!HasCell(d, j)
          BY <5>1 DEF Uni!InCells
        <5>3. ~HasCell(d, j)
          BY <5>2, UniSameGet
        <5> QED BY <3>2, <5>1, <5>3 DEF HasCell, HasPool
      <4>2. ASSUME NEW j \in Keys \ {k}, <<d, j>> \notin lost' PROVE get(d, j)' = get(d, j) /\ Slim(d, j)'
        <5>1. <<d, j>> \notin lost /\ p.slots[j] = <<>>
          BY <4>1, <4>2
        <5>2. get(d, j)' = entries[d][j] /\ get(d, j) = entries[d][j]
          BY <3>6, <3>7, <5>1, GetShows
        <5>3. Narrow(r, j)
          BY <3>6, <5>1 DEF Narrow
        <5> QED BY <3>7, <5>2, <5>3
      <4>3. <<d, k>> \in lost'
        BY <3>2, <4>1
      <4>4. lost \ {<<d, k>>} \subseteq lost'
        BY <3>1, <3>8
      <4> QED BY <1>1, <3>7, <4>2, <4>3, <4>4 DEF MemoryChange
    <3>9. CASE Len(v) <= CellElements
      <4>1. lost' = lost \ {<<d, k>>}
        BY <1>0, <3>1, <3>9
      <4>2. ASSUME NEW j \in Keys \ {k}, <<d, j>> \notin lost' PROVE get(d, j)' = get(d, j) /\ Slim(d, j)'
        <5>1. <<d, j>> \notin lost /\ r.slots[j] = p.slots[j]
          BY <3>6, <4>1, <4>2
        <5>2. Narrow(p, j) => PoolShows(r, j) = PoolShows(p, j)
          BY <3>6, <3>9
        <5>3. get(d, j)' = get(d, j) /\ Narrow(r, j)
          BY <1>0, <3>2, <3>7, <5>1, <5>2, KeptSlot
        <5> QED BY <3>7, <5>3
      <4>3. get(d, k)' = <<v>> /\ Narrow(r, k)
        BY <3>2, <3>5, <3>6, <3>7, <3>9 DEF Narrow
      <4> QED BY <1>1, <3>7, <4>1, <4>2, <4>3 DEF MemoryChange
    <3> QED BY <1>0, <3>8, <3>9
  <2> QED BY <2>1, <2>2
<1>3. MemoryExact' /\ AgreeBut(view, view', d, k)
  BY <1>0, <1>2, MemoryStep
<1>4. Current(dirty, (owed \cup lost) \cup {<<d, k>>}, view')
  BY <1>0, <1>3, StageOwed
<1>5. (owed \cup lost) \cup {<<d, k>>} \subseteq owed' \cup lost'
  BY <1>1, <1>2 DEF MemoryChange
<1>6. Current(dirty, owed' \cup lost', view')
  BY <1>4, <1>5, StageLess
<1> QED BY <1>0, <1>1, <1>3, <1>6 DEF UniInductive

LEMMA UniMark ==
  ASSUME UniInductive, NEW d \in Dims, NEW k \in Keys, Uni!mark_dirty(d, k)
  PROVE  UniInductive'
<1> DEFINE v == get(d, k)[1]
           x == [dim |-> d, key |-> k, value |-> v]
           o == owed \cup lost
           w == [view EXCEPT ![d][k] = <<v>>]
<1>1. /\ ~panicked /\ d \in Dims \ {EPHEMERAL} /\ get(d, k) # <<>>
      /\ dirty' = Append(dirty, x) /\ owed' = owed \ {<<d, k>>}
      /\ entries' = entries /\ pools' = pools /\ panicked' = panicked /\ view' = view
      /\ lost' = lost
  BY UniSameGet DEF Uni!mark_dirty, Uni!Staged
<1>2. MemoryExact /\ Current(dirty, o, view) /\ dirty \in Seq(StagedPut)
  BY <1>1 DEF UniInductive
<1>3. v \in Runs /\ get(d, k) = <<v>>
  <2>1. get(d, k) \in Readouts
    BY <1>2, GetType
  <2> QED BY <1>1, <2>1 DEF Readouts
<1>4. MemoryExact'
  BY <1>1, <1>2 DEF MemoryExact, get, HasCell, HasPool, Slim
<1> HIDE DEF v
<1>5. AgreeBut(view, w, d, k) /\ AgreeBut(w, view, d, k) /\ w[d][k] = <<v>>
  BY <1>2 DEF MemoryExact, AgreeBut
<1>6. <<d, k>> \notin lost => view[d][k] = <<v>>
  BY <1>2, <1>3 DEF MemoryExact
<1> HIDE DEF x, o, w
<1>7. Append(dirty, x) \in Seq(StagedPut) /\ Current(Append(dirty, x), o \ {<<d, k>>}, w)
  BY <1>1, <1>2, <1>3, <1>5, StagePut DEF x
<1>8. Current(dirty', owed' \cup lost', view')
  <2>1. CASE <<d, k>> \in lost
    <3>1. Current(Append(dirty, x), (o \ {<<d, k>>}) \cup {<<d, k>>}, view)
      BY <1>5, <1>7, StageOwed
    <3>2. (o \ {<<d, k>>}) \cup {<<d, k>>} \subseteq owed' \cup lost'
      BY <1>1, <2>1 DEF o
    <3> QED BY <1>1, <3>1, <3>2, StageLess
  <2>2. CASE <<d, k>> \notin lost
    <3>1. AgreeBut(view, view, d, k)
      BY DEF AgreeBut
    <3>2. Current(Append(dirty, x), o \ {<<d, k>>}, view)
      BY <1>1, <1>2, <1>3, <1>6, <2>2, <3>1, StagePut DEF x
    <3>3. o \ {<<d, k>>} \subseteq owed' \cup lost'
      BY <1>1 DEF o
    <3> QED BY <1>1, <3>2, <3>3, StageLess
  <2> QED BY <2>1, <2>2
<1> QED BY <1>1, <1>4, <1>7, <1>8 DEF UniInductive

LEMMA UniRemove ==
  ASSUME UniInductive, NEW d \in Dims, NEW k \in Keys, Uni!remove(d, k)
  PROVE  UniInductive'
<1>0. /\ <<>> \in Readouts /\ MemoryExact /\ ~panicked
      /\ Current(dirty, owed \cup lost, view) /\ dirty \in Seq(StagedPut)
  BY DEF UniInductive, Uni!remove, Readouts
<1>1. /\ get(d, k) # <<>> /\ panicked' = panicked /\ dirty' = Uni!Unstaged(d, k)
      /\ owed' = owed \ {<<d, k>>} /\ view' = [view EXCEPT ![d][k] = <<>>]
      /\ lost' = IF HasPool(d) /\ entries[d][k] # <<>>
                 THEN lost \cup {<<d, k>>} ELSE lost \ {<<d, k>>}
  BY UniSameGet DEF Uni!remove, Uni!Lost
<1>2. lost \ {<<d, k>>} \subseteq lost'
  BY <1>1
<1>3. MemoryChange(d, k, <<>>)
  <2>1. CASE ~HasPool(d)
    <3>1. entries' = [entries EXCEPT ![d][k] = <<>>] /\ pools' = pools
      BY <2>1, UniSameGet DEF Uni!remove
    <3>2. ~HasCell(d, k) /\ lost' = lost \ {<<d, k>>}
      BY <1>1, <2>1 DEF HasCell
    <3> QED BY <1>0, <1>1, <3>1, <3>2, BlockStep
  <2>2. CASE HasPool(d) /\ ~HasCell(d, k)
    <3>1. entries' = entries /\ pools' = pools
      BY <2>2, UniSameGet DEF Uni!remove
    <3>2. entries[d][k] # <<>>
      BY <1>1, <2>2 DEF get
    <3>3. lost' = lost \cup {<<d, k>>}
      BY <1>1, <2>2, <3>2
    <3>4. ASSUME NEW j \in Keys, <<d, j>> \notin lost' PROVE get(d, j)' = get(d, j) /\ Slim(d, j)'
      BY <1>0, <3>1, <3>3, <3>4 DEF MemoryExact, get, HasCell, HasPool, Slim
    <3>5. /\ entries' \in [Dims -> [Keys -> Readouts]] /\ pools' = [e \in Dims |-> pools'[e]]
          /\ pools'[d] # <<>> => pools'[d] = <<pools'[d][1]>> /\ PoolExact(pools'[d][1])
      BY <1>0, <3>1 DEF MemoryExact
    <3>6. <<d, k>> \in lost'
      BY <3>3
    <3> QED BY <1>1, <1>2, <3>1, <3>4, <3>5, <3>6 DEF MemoryChange
  <2>3. CASE HasCell(d, k)
    <3> DEFINE p == pools[d][1]
               r == Uni!Freed(p, k)
    <3>1. pools' = [pools EXCEPT ![d] = <<r>>] /\ entries' = entries
      BY <2>3, UniSameGet DEF Uni!remove, HasCell
    <3>2. pools[d] # <<>> /\ PoolExact(p) /\ p.slots[k] # <<>>
      BY <1>0, <2>3 DEF MemoryExact, HasCell, HasPool
    <3>3. /\ PoolExact(r) /\ r.slots[k] = <<>> /\ r.block = p.block
          /\ \A j \in Keys \ {k} : r.slots[j] = p.slots[j]
      <4> HIDE DEF p
      <4> QED BY <3>2, FreedExact
    <3> HIDE DEF r
    <3>4. /\ pools' = [e \in Dims |-> pools'[e]] /\ entries' \in [Dims -> [Keys -> Readouts]]
          /\ \A e \in Dims \ {d} : pools'[e] = pools[e] /\ entries'[e] = entries[e]
          /\ pools'[d] = <<pools'[d][1]>> /\ PoolExact(pools'[d][1])
          /\ \A j \in Keys :
               /\ r.slots[j] # <<>> => get(d, j)' = PoolShows(r, j)
               /\ r.slots[j] = <<>> => get(d, j)' = entries[d][j]
               /\ Slim(d, j)' <=> Narrow(r, j)
      BY <1>0, <3>1, <3>2, <3>3, PoolStep
    <3>5. ASSUME NEW j \in Keys \ {k}, <<d, j>> \notin lost' PROVE get(d, j)' = get(d, j) /\ Slim(d, j)'
      <4>1. <<d, j>> \notin lost
        BY <1>2, <3>5
      <4>2. PoolShows(r, j) = PoolShows(p, j)
        BY <3>3 DEF PoolShows
      <4>3. get(d, j)' = get(d, j) /\ Narrow(r, j)
        BY <1>0, <3>2, <3>3, <3>4, <4>1, <4>2, KeptSlot
      <4> QED BY <3>4, <4>3
    <3>6. ASSUME <<d, k>> \notin lost' PROVE get(d, k)' = <<>> /\ Slim(d, k)'
      <4>1. entries[d][k] = <<>>
        BY <1>1, <2>3, <3>6 DEF HasCell
      <4> QED BY <3>3, <3>4, <4>1 DEF Narrow
    <3> QED BY <1>1, <1>2, <3>4, <3>5, <3>6 DEF MemoryChange
  <2> QED BY <2>1, <2>2, <2>3
<1>4. MemoryExact' /\ AgreeBut(view, view', d, k)
  BY <1>0, <1>3, MemoryStep
<1> DEFINE gone == {x \in ToSet(dirty) : x.dim = d /\ x.key = k}
<1>5. dirty' = Retain(dirty, gone)
  BY <1>1, Zenon DEF Uni!Unstaged, Uni!Retain, Retain, Uni!ToSet, ToSet, Uni!FoldLeft, FoldLeft,
     Uni!MapThenFoldSet, MapThenFoldSet, Uni!Max, Max
<1> HIDE DEF gone
<1>6. dirty' \in Seq(StagedPut) /\ Current(dirty', (owed \cup lost) \ {<<d, k>>}, view')
  BY <1>0, <1>4, <1>5, StageDrop DEF gone
<1>7. (owed \cup lost) \ {<<d, k>>} \subseteq owed' \cup lost'
  BY <1>1, <1>2
<1>8. Current(dirty', owed' \cup lost', view')
  BY <1>6, <1>7, StageLess
<1> QED BY <1>0, <1>1, <1>4, <1>6, <1>8 DEF UniInductive

LEMMA UniInit == Uni!Init => UniInductive
<1> SUFFICES ASSUME Uni!Init PROVE UniInductive
  OBVIOUS
<1>1. /\ entries = [d \in Dims |-> [k \in Keys |-> <<>>]] /\ pools = [d \in Dims |-> <<>>]
      /\ dirty = <<>> /\ view = [d \in Dims |-> [k \in Keys |-> <<>>]]
  BY DEF Uni!Init, Uni!Nothing
<1>2. MemoryExact
  BY <1>1 DEF MemoryExact, get, HasCell, HasPool, Slim, Readouts
<1>3. dirty \in Seq(StagedPut) /\ Current(dirty, owed \cup lost, view)
  BY <1>1 DEF Current
<1> QED BY <1>2, <1>3 DEF UniInductive

LEMMA UniReserve ==
  ASSUME UniInductive, NEW d \in Dims, Uni!reserve_pool(d)
  PROVE  UniInductive'
<1> DEFINE p == [block |-> [i \in 1..Uni!Offset(capacity) |-> 0],
                 next_slot |-> 0, slots |-> [k \in Keys |-> <<>>], free |-> <<>>]
<1>1. /\ pools' = [pools EXCEPT ![d] = <<p>>] /\ entries' = entries /\ dirty' = dirty
      /\ panicked' = panicked /\ owed' = owed /\ view' = view
      /\ lost' = lost \cup Uni!InCells(d) /\ ~panicked
  BY DEF Uni!reserve_pool
<1>2. PoolExact(p) /\ \A k \in Keys : p.slots[k] = <<>>
  BY NewPoolExact
<1> HIDE DEF p
<1>3. /\ MemoryExact /\ dirty \in Seq(StagedPut) /\ Current(dirty, owed \cup lost, view)
  BY <1>1 DEF UniInductive
<1>4. /\ pools'[d] = <<p>> /\ pools'[d][1] = p /\ pools'[d] # <<>>
      /\ pools' = [e \in Dims |-> pools'[e]]
      /\ \A e \in Dims \ {d} : pools'[e] = pools[e]
  BY <1>1, <1>3 DEF MemoryExact
<1>5. MemoryExact'
  <2>1. ASSUME NEW e \in Dims, NEW k \in Keys, <<e, k>> \notin lost'
        PROVE  get(e, k)' = view'[e][k] /\ Slim(e, k)'
    <3>1. <<e, k>> \notin lost /\ <<e, k>> \notin Uni!InCells(d)
      BY <1>1, <2>1
    <3>2. get(e, k) = view[e][k] /\ Slim(e, k)
      BY <1>3, <3>1 DEF MemoryExact
    <3>3. CASE e = d
      <4>1. ~Uni!HasCell(d, k)
        BY <3>1, <3>3 DEF Uni!InCells
      <4>2. get(d, k) = entries[d][k]
        BY <4>1, UniSameGet DEF get
      <4>3. get(d, k)' = entries[d][k]
        BY <1>1, <1>2, <1>4 DEF get, HasCell, HasPool
      <4>4. Slim(d, k)'
        BY <1>2, <1>4 DEF Slim, Narrow
      <4> QED BY <1>1, <3>2, <3>3, <4>2, <4>3, <4>4
    <3>4. CASE e # d
      <4>1. pools'[e] = pools[e] /\ entries' = entries
        BY <1>1, <1>4, <3>4
      <4>2. get(e, k)' = get(e, k) /\ Slim(e, k)'
        BY <3>2, <4>1 DEF get, HasCell, HasPool, Slim
      <4> QED BY <1>1, <3>2, <4>2
    <3> QED BY <3>3, <3>4
  <2>2. ASSUME NEW e \in Dims, pools'[e] # <<>>
        PROVE  pools'[e] = <<pools'[e][1]>> /\ PoolExact(pools'[e][1])
    <3>1. CASE e = d
      BY <1>2, <1>4, <3>1
    <3>2. CASE e # d
      BY <1>3, <1>4, <2>2, <3>2 DEF MemoryExact
    <3> QED BY <3>1, <3>2
  <2> QED BY <1>1, <1>3, <1>4, <2>1, <2>2 DEF MemoryExact
<1>6. owed \cup lost \subseteq owed' \cup lost'
  BY <1>1
<1>7. Current(dirty', owed' \cup lost', view')
  BY <1>1, <1>3, <1>6, StageLess
<1> QED BY <1>1, <1>3, <1>5, <1>7 DEF UniInductive

LEMMA UniNext == UniInductive /\ [Uni!Next]_(Uni!vars) => UniInductive'
<1> SUFFICES ASSUME UniInductive, [Uni!Next]_(Uni!vars) PROVE UniInductive'
  OBVIOUS
<1>1. CASE Uni!commit
  <2>1. /\ dirty' = <<>> /\ entries' = entries /\ pools' = pools /\ view' = view /\ lost' = lost
    BY <1>1 DEF Uni!commit
  <2>2. dirty' \in Seq(StagedPut) /\ Current(dirty', owed' \cup lost', view')
    BY <2>1 DEF Current
  <2> QED BY <2>1, <2>2 DEF UniInductive, MemoryExact, get, HasCell, HasPool, Slim
<1>2. CASE UNCHANGED Uni!vars
  BY <1>2 DEF Uni!vars, UniInductive, MemoryExact, get, HasCell, HasPool, Slim, Current
<1> QED BY <1>1, <1>2, UniPut, UniGetMut, UniMark, UniRemove, UniReserve DEF Uni!Next

\* An entry that no call has spoilt is read as the last put, in-place write or
\* removal left it, for any mix of pools reserved over blocks and over pools and
\* of values narrower and wider than a cell: no two keys of a pool share a cell,
\* whatever was freed and given out again (unimem.rs:48-62).
THEOREM UnimemReadsBack == Uni!Spec => []ReadsBack
<1>1. UniInductive => ReadsBack
  BY DEF UniInductive, MemoryExact, ReadsBack
<1> QED BY <1>1, UniInit, UniNext, PTL DEF Uni!Spec

\* The last change staged for an entry is its current value, but for writes in
\* place that the caller has yet to mark and for entries that a call has spoilt;
\* a removal leaves nothing staged.
THEOREM UnimemStagedIsCurrent == Uni!Spec => []StagedIsCurrent
<1>1. UniInductive => StagedIsCurrent
  <2> SUFFICES ASSUME UniInductive, NEW i \in DOMAIN dirty,
                      <<dirty[i].dim, dirty[i].key>> \notin owed \cup lost, ~panicked,
                      \A j \in DOMAIN dirty :
                        dirty[j].dim = dirty[i].dim /\ dirty[j].key = dirty[i].key => j <= i
               PROVE  get(dirty[i].dim, dirty[i].key) = <<dirty[i].value>>
    BY DEF StagedIsCurrent
  <2>1. /\ dirty \in Seq(StagedPut) /\ MemoryExact /\ Current(dirty, owed \cup lost, view)
    BY DEF UniInductive
  <2>2. DOMAIN dirty = 1..Len(dirty) /\ dirty[i] \in StagedPut
    BY <2>1
  <2>3. dirty[i].dim \in Dims /\ dirty[i].key \in Keys
    BY <2>2 DEF StagedPut
  <2>4. view[dirty[i].dim][dirty[i].key] = <<dirty[i].value>>
    BY <2>1, <2>2 DEF Current, SameEntry
  <2> QED BY <2>1, <2>3, <2>4 DEF MemoryExact
<1> QED BY <1>1, UniInit, UniNext, PTL DEF Uni!Spec

=============================================================================
