-------------------------- MODULE DimensionsProofs --------------------------
(***************************************************************************)
(* CommitmentsCurrent, ListsMirrorSets, SnapshotExact, QueriesBind and     *)
(* QueriesAnswer for every set of keys, records, lists and subjects.  The  *)
(* invariant that makes the first one inductive says which leaves may be   *)
(* behind the map: only those of keys marked dirty.  The second one needs  *)
(* what the loops over a list leave of it, the third one how sums over     *)
(* axons add up.  The last two need where the cells of a serialized table  *)
(* are: a commitment gives its table back, and the walk of the verifier    *)
(* meets the entries where the map's order put them.                       *)
(***************************************************************************)
EXTENDS Query, FoldTheorems, TLAPS

IsKeyed(m) == DOMAIN m = {"map", "leaves", "dirty", "legacy"}

IsIndex(x) == DOMAIN x = {"map", "degrees", "sets", "leaves", "dirty", "legacy"}

\* A key that is not marked has the leaf of its record, or neither.
LeavesSound(d, m) ==
  \A k : k \notin m.dirty =>
    /\ k \in DOMAIN m.leaves <=> k \in DOMAIN m.map
    /\ k \in DOMAIN m.map => m.leaves[k] = leaf(d, k, m.map[k])

LegacySound(d, m) == m.legacy \in {<<>>, <<commit_keyed(d, m.map)>>}

KeyedSound(d, m) == IsKeyed(m) /\ LeavesSound(d, m) /\ LegacySound(d, m)

\* The same of the adjacency.
OuterSound(x) ==
  /\ DOMAIN x.map = DOMAIN x.sets
  /\ \A p : p \notin x.dirty =>
       /\ p \in DOMAIN x.leaves <=> p \in DOMAIN x.map
       /\ p \in DOMAIN x.map => x.leaves[p] = outer_leaf(p, Len(x.map[p]), x.sets[p])

IndexLegacySound(x) == x.legacy \in {<<>>, <<commit_axons(x.map)>>}

IndexSound(x) == IsIndex(x) /\ OuterSound(x) /\ IndexLegacySound(x)

\* The inductive invariant.
Sound ==
  /\ keyed = [d \in KeyedDims |-> keyed[d]]
  /\ \A d \in KeyedDims : KeyedSound(d, keyed[d])
  /\ IndexSound(axons_out)

-----------------------------------------------------------------------------
(* Keyed maps *)

\* f and g agree but for k.
Agree(f, g, k) ==
  \A x : x # k => /\ x \in DOMAIN f <=> x \in DOMAIN g
                  /\ x \in DOMAIN f => f[x] = g[x]

LEMMA PutAgrees ==
  ASSUME NEW f, NEW k, NEW v PROVE Agree(Put(f, k, v), f, k)
BY DEF Agree, Put

LEMMA DelAgrees ==
  ASSUME NEW f, NEW k PROVE Agree(Del(f, k), f, k)
BY DEF Agree, Del

LEMMA NewKeyedSound ==
  ASSUME NEW d PROVE KeyedSound(d, NewKeyed)
BY DEF KeyedSound, IsKeyed, LeavesSound, LegacySound, NewKeyed, Empty

\* Keyed marks the key it changes: what it leaves alone stays right.
LEMMA TouchedSound ==
  ASSUME NEW d, NEW m, NEW k, NEW f, KeyedSound(d, m), Agree(f, m.map, k)
  PROVE  KeyedSound(d, touched([m EXCEPT !.map = f], k))
<1> DEFINE n == touched([m EXCEPT !.map = f], k)
<1>1. IsKeyed(m)
  BY DEF KeyedSound
<1>2. IsKeyed(n)
  BY <1>1 DEF IsKeyed, touched
<1>5. n.map = f /\ n.leaves = m.leaves /\ n.dirty = m.dirty \cup {k} /\ n.legacy = <<>>
  BY <1>1 DEF IsKeyed, touched
<1> HIDE DEF n
<1>3. IsKeyed(n) /\ LegacySound(d, n)
  BY <1>2, <1>5 DEF LegacySound
<1>4. LeavesSound(d, n)
  BY <1>5 DEF KeyedSound, LeavesSound, Agree
<1> QED
  BY <1>3, <1>4 DEF KeyedSound, n

\* flush: no leaf is behind, and the map is what it was.
LEMMA FlushedLeaves ==
  ASSUME NEW d, NEW m, KeyedSound(d, m)
  PROVE  /\ Flushed(d, m).leaves = [k \in DOMAIN m.map |-> leaf(d, k, m.map[k])]
         /\ KeyedSound(d, Flushed(d, m))
<1> DEFINE keys == (DOMAIN m.leaves \ m.dirty) \cup (DOMAIN m.map \cap m.dirty)
           new  == [k \in keys |-> IF k \in m.dirty THEN leaf(d, k, m.map[k]) ELSE m.leaves[k]]
<1> DEFINE n == Flushed(d, m)
<1>1. IsKeyed(n) /\ n.map = m.map /\ n.leaves = new /\ n.dirty = {} /\ n.legacy = m.legacy
  BY DEF Flushed, flush, KeyedSound, IsKeyed
<1>2. keys = DOMAIN m.map
  BY DEF KeyedSound, LeavesSound
<1>3. \A k \in keys : new[k] = leaf(d, k, m.map[k])
  BY DEF KeyedSound, LeavesSound
<1>4. new = [k \in DOMAIN m.map |-> leaf(d, k, m.map[k])]
  BY <1>2, <1>3
<1> HIDE DEF keys, new, n
<1>5. KeyedSound(d, n)
  BY <1>1, <1>4 DEF KeyedSound, LeavesSound, LegacySound
<1> QED
  BY <1>1, <1>4, <1>5 DEF n

LEMMA LegacyReadSound ==
  ASSUME NEW d, NEW m, KeyedSound(d, m)
  PROVE  KeyedSound(d, legacy_commitment(m, commit_keyed(d, m.map)))
<1> DEFINE c == commit_keyed(d, m.map)
           n == legacy_commitment(m, c)
<1>1. IsKeyed(n) /\ n.map = m.map /\ n.leaves = m.leaves /\ n.dirty = m.dirty
  BY DEF legacy_commitment, KeyedSound, IsKeyed
<1>2. n.legacy \in {<<>>, <<c>>}
  BY DEF legacy_commitment, KeyedSound, IsKeyed, LegacySound
<1> HIDE DEF n
<1>3. IsKeyed(n) /\ LegacySound(d, n) /\ LeavesSound(d, n)
  BY <1>1, <1>2 DEF KeyedSound, LeavesSound, LegacySound
<1> QED
  BY <1>3 DEF KeyedSound, n

\* Every mutation of a Keyed keeps it sound.
LEMMA MutationsSound ==
  ASSUME NEW d, NEW m, NEW k, NEW v, NEW w, KeyedSound(d, m)
  PROVE  /\ KeyedSound(d, insert(m, k, v)) /\ KeyedSound(d, remove(m, k))
         /\ KeyedSound(d, get_mut(m, k, v)) /\ KeyedSound(d, entry(m, k, v, w))
         /\ KeyedSound(d, clear(m))
<1> DEFINE u == IF w = <<>> THEN Look(m.map, k, v) ELSE w[1]
<1>1. KeyedSound(d, touched([m EXCEPT !.map = Put(m.map, k, v)], k))
  BY PutAgrees, TouchedSound
<1>2. KeyedSound(d, touched([m EXCEPT !.map = Put(m.map, k, u)], k))
  BY PutAgrees, TouchedSound
<1>3. KeyedSound(d, touched([m EXCEPT !.map = Del(m.map, k)], k))
  BY DelAgrees, TouchedSound
<1> QED
  BY <1>1, <1>2, <1>3, NewKeyedSound DEF insert, remove, get_mut, entry, clear

-----------------------------------------------------------------------------
(* The adjacency *)

LEMMA NewIndexSound == IndexSound(NewIndex)
BY DEF IndexSound, IsIndex, OuterSound, IndexLegacySound, NewIndex, Empty

\* An index whose list and set of p were changed together, p marked.
Relisted(x, f, g, h, p) == mark([x EXCEPT !.map = f, !.sets = g, !.degrees = h], p)

LEMMA RelistedSound ==
  ASSUME NEW x, NEW f, NEW g, NEW h, NEW p, IndexSound(x),
         Agree(f, x.map, p), Agree(g, x.sets, p), p \in DOMAIN f <=> p \in DOMAIN g
  PROVE  IndexSound(Relisted(x, f, g, h, p))
<1> DEFINE y == Relisted(x, f, g, h, p)
<1>1. IsIndex(y)
  BY DEF IndexSound, IsIndex, mark, Relisted
<1>2. /\ y.map = f /\ y.sets = g /\ y.leaves = x.leaves
      /\ y.dirty = x.dirty \cup {p} /\ y.legacy = <<>>
  BY DEF IndexSound, IsIndex, mark, Relisted
<1> HIDE DEF y
<1>3. DOMAIN f = DOMAIN g
  BY DEF IndexSound, OuterSound, Agree
<1>4. OuterSound(y)
  BY <1>2, <1>3 DEF IndexSound, OuterSound, Agree
<1> QED
  BY <1>1, <1>2, <1>4 DEF IndexSound, IndexLegacySound, y

LEMMA FlushedIndexLeaves ==
  ASSUME NEW x, IndexSound(x)
  PROVE  /\ FlushedIndex(x).leaves =
              [p \in DOMAIN x.map |-> outer_leaf(p, Len(x.map[p]), x.sets[p])]
         /\ IndexSound(FlushedIndex(x))
<1> DEFINE keys == (DOMAIN x.leaves \ x.dirty) \cup ((DOMAIN x.map \cap DOMAIN x.sets) \cap x.dirty)
           new  == [p \in keys |-> IF p \in x.dirty THEN outer_leaf(p, Len(x.map[p]), x.sets[p])
                                   ELSE x.leaves[p]]
           y    == FlushedIndex(x)
<1>1. /\ IsIndex(y) /\ y.map = x.map /\ y.sets = x.sets /\ y.leaves = new
      /\ y.dirty = {} /\ y.legacy = x.legacy
  BY DEF FlushedIndex, flush_index, IndexSound, IsIndex
<1>2. keys = DOMAIN x.map
  BY DEF IndexSound, OuterSound
<1>3. \A p \in keys : new[p] = outer_leaf(p, Len(x.map[p]), x.sets[p])
  BY DEF IndexSound, OuterSound
<1>4. new = [p \in DOMAIN x.map |-> outer_leaf(p, Len(x.map[p]), x.sets[p])]
  BY <1>2, <1>3
<1> HIDE DEF keys, new, y
<1>5. IndexSound(y)
  BY <1>1, <1>4 DEF IndexSound, OuterSound, IndexLegacySound
<1> QED
  BY <1>1, <1>4, <1>5 DEF y

LEMMA LegacyAxonsSound ==
  ASSUME NEW x, IndexSound(x)
  PROVE  IndexSound(legacy_commitment(x, commit_axons(x.map)))
<1> DEFINE c == commit_axons(x.map)
           y == legacy_commitment(x, c)
<1>1. /\ IsIndex(y) /\ y.map = x.map /\ y.sets = x.sets /\ y.leaves = x.leaves
      /\ y.dirty = x.dirty
  BY DEF legacy_commitment, IndexSound, IsIndex
<1>2. y.legacy \in {<<>>, <<c>>}
  BY DEF legacy_commitment, IndexSound, IsIndex, IndexLegacySound
<1> HIDE DEF y
<1>3. OuterSound(y) /\ IndexLegacySound(y)
  BY <1>1, <1>2 DEF IndexSound, OuterSound, IndexLegacySound
<1> QED
  BY <1>1, <1>3 DEF IndexSound, y

LEMMA AddSound ==
  ASSUME NEW x, NEW p, NEW a, IndexSound(x) PROVE IndexSound(add(x, p, a))
<1> DEFINE set  == Look(x.sets, p, {})
           list == Look(x.map, p, <<>>)
           f    == Put(x.map, p, Append(list, a))
           g    == Put(x.sets, p, set \cup {a})
           h    == degree_moved(x.degrees, Len(list), Len(list) + 1)
<1>1. IndexSound(Relisted(x, f, g, h, p))
  <2>1. p \in DOMAIN f /\ p \in DOMAIN g
    BY DEF Put
  <2> HIDE DEF h, list, set
  <2> QED
    BY <2>1, PutAgrees, RelistedSound
<1>2. CASE a \in set
  BY <1>2 DEF add
<1>3. CASE a \notin set
  <2>1. add(x, p, a) = Relisted(x, f, g, h, p)
    BY <1>3 DEF add, Relisted, mark, IndexSound, IsIndex
  <2> QED
    BY <1>1, <2>1
<1> QED
  BY <1>2, <1>3

LEMMA RemoveListSound ==
  ASSUME NEW x, NEW p, IndexSound(x) PROVE IndexSound(remove_list(x, p))
<1> DEFINE f == Del(x.map, p)
           g == Del(x.sets, p)
           h == degree_moved(x.degrees, degree(x, p), 0)
<1>1. IndexSound(Relisted(x, f, g, h, p))
  <2>1. p \notin DOMAIN f /\ p \notin DOMAIN g
    BY DEF Del
  <2> HIDE DEF h
  <2> QED
    BY <2>1, DelAgrees, RelistedSound
<1>2. CASE p \in DOMAIN x.map
  <2>1. remove_list(x, p) = Relisted(x, f, g, h, p)
    BY <1>2 DEF remove_list, Relisted, mark, IndexSound, IsIndex
  <2> QED
    BY <1>1, <2>1
<1> QED
  BY <1>2 DEF remove_list

LEMMA InsertListSound ==
  ASSUME NEW x, NEW p, NEW list, IndexSound(x) PROVE IndexSound(insert_list(x, p, list))
<1> DEFINE y == remove_list(x, p)
           f == Put(y.map, p, Firsts(list))
           g == Put(y.sets, p, ToSet(Firsts(list)))
           h == degree_moved(y.degrees, 0, Len(Firsts(list)))
<1>1. IndexSound(y)
  BY RemoveListSound
<1> HIDE DEF y
<1>2. IndexSound(Relisted(y, f, g, h, p))
  <2>1. p \in DOMAIN f /\ p \in DOMAIN g
    BY DEF Put
  <2> HIDE DEF h
  <2> QED
    BY <1>1, <2>1, PutAgrees, RelistedSound
<1>3. insert_list(x, p, list) = (IF Firsts(list) = <<>> THEN y ELSE Relisted(y, f, g, h, p))
  BY DEF insert_list, Relisted, y
<1> QED
  BY <1>1, <1>2, <1>3

LEMMA RemoveAxonSound ==
  ASSUME NEW x, NEW p, NEW a, IndexSound(x) PROVE IndexSound(remove_axon(x, p, a))
<1> DEFINE rest == Retain(x.map[p], {a})
           f    == IF rest = <<>> THEN Del(x.map, p) ELSE Put(x.map, p, rest)
           g    == IF rest = <<>> THEN Del(x.sets, p) ELSE Put(x.sets, p, x.sets[p] \ {a})
           h    == degree_moved(x.degrees, degree(x, p), Len(rest))
<1>1. remove_axon(x, p, a) = (IF a \notin Look(x.sets, p, {}) THEN x ELSE Relisted(x, f, g, h, p))
  BY DEF remove_axon, Relisted, mark, IndexSound, IsIndex
<1> HIDE DEF rest, h
<1>2. CASE rest = <<>>
  <2>1. f = Del(x.map, p) /\ g = Del(x.sets, p) /\ p \notin DOMAIN f /\ p \notin DOMAIN g
    BY <1>2 DEF Del
  <2>2. Agree(f, x.map, p) /\ Agree(g, x.sets, p)
    BY <2>1, DelAgrees
  <2> HIDE DEF f, g
  <2>3. IndexSound(Relisted(x, f, g, h, p))
    BY <2>1, <2>2, RelistedSound
  <2> QED
    BY <1>1, <2>3
<1>3. CASE rest # <<>>
  <2>1. p \in DOMAIN f /\ p \in DOMAIN g
    BY <1>3 DEF Put
  <2>2. Agree(f, x.map, p) /\ Agree(g, x.sets, p)
    BY <1>3, PutAgrees
  <2> HIDE DEF f, g
  <2>3. IndexSound(Relisted(x, f, g, h, p))
    BY <2>1, <2>2, RelistedSound
  <2> QED
    BY <1>1, <2>3
<1> QED
  BY <1>2, <1>3

LEMMA TruncateSound ==
  ASSUME NEW x, NEW p, NEW n, IndexSound(x) PROVE IndexSound(truncate(x, p, n))
<1> DEFINE f == Put(x.map, p, SubSeq(x.map[p], 1, n))
           g == Put(x.sets, p, x.sets[p] \ ToSet(SubSeq(x.map[p], n + 1, Len(x.map[p]))))
           h == degree_moved(x.degrees, degree(x, p), n)
<1>1. IndexSound(Relisted(x, f, g, h, p))
  <2>1. p \in DOMAIN f /\ p \in DOMAIN g
    BY DEF Put
  <2>2. Agree(f, x.map, p) /\ Agree(g, x.sets, p)
    BY PutAgrees
  <2> HIDE DEF f, g, h
  <2> QED
    BY <2>1, <2>2, RelistedSound
<1>2. truncate(x, p, n) \in {x, remove_list(x, p), Relisted(x, f, g, h, p)}
  BY DEF truncate, Relisted
<1> QED
  BY <1>1, <1>2, RemoveListSound

-----------------------------------------------------------------------------
(* The dimensions *)

LEMMA InitSound == ASSUME DimInit PROVE Sound
BY NewKeyedSound, NewIndexSound DEF DimInit, Sound

\* A step that changes one Keyed dimension into a sound one.
LEMMA KeyedStep ==
  ASSUME Sound, NEW d \in KeyedDims, NEW m, KeyedSound(d, m),
         keyed' = [keyed EXCEPT ![d] = m], UNCHANGED axons_out
  PROVE  Sound'
BY DEF Sound

LEMMA AxonsStep ==
  ASSUME Sound, UNCHANGED keyed, IndexSound(axons_out')
  PROVE  Sound'
BY DEF Sound

LEMMA ReadSound == ASSUME Sound, Root PROVE Sound'
<1>1. \A d \in KeyedDims : KeyedSound(d, ReadKeyed[d])
  BY FlushedLeaves, LegacyReadSound DEF Sound, ReadKeyed
<1>2. IndexSound(ReadAxons)
  BY FlushedIndexLeaves, LegacyAxonsSound DEF Sound, ReadAxons
<1>3. ReadKeyed = [d \in KeyedDims |-> ReadKeyed[d]]
  BY DEF ReadKeyed
<1> QED
  BY <1>1, <1>2, <1>3 DEF Root, Sound

LEMMA KeyedNext ==
  ASSUME Sound, NEW d \in KeyedDims, NEW k, NEW r, NEW w,
         \/ Insert(d, k, r) \/ Modify(d, k, r) \/ Delete(d, k) \/ Enter(d, k, r, w) \/ Clear(d)
         \/ Commitment(d)
  PROVE  Sound'
<1>1. KeyedSound(d, keyed[d])
  BY DEF Sound
<1>2. PICK m : KeyedSound(d, m) /\ keyed' = [keyed EXCEPT ![d] = m]
  BY <1>1, MutationsSound, FlushedLeaves
  DEF Insert, Modify, Delete, Enter, Clear, Mutate, Commitment
<1>3. UNCHANGED axons_out
  BY DEF Insert, Modify, Delete, Enter, Clear, Mutate, Commitment
<1> QED
  BY <1>2, <1>3, KeyedStep

LEMMA CardsNext ==
  ASSUME Sound, NEW c, NEW r, InsertCard(c, r) \/ RemoveCard(c) \/ ClearCards
  PROVE  Sound'
<1>1. "cards" \in KeyedDims
  BY DEF KeyedDims
<1>2. KeyedSound("cards", keyed["cards"])
  BY <1>1 DEF Sound
<1>3. PICK m : KeyedSound("cards", m) /\ keyed' = [keyed EXCEPT !["cards"] = m]
  BY <1>2, MutationsSound DEF InsertCard, RemoveCard, ClearCards, MutateCards
<1>4. UNCHANGED axons_out
  BY DEF InsertCard, RemoveCard, ClearCards, MutateCards
<1> QED
  BY <1>1, <1>3, <1>4, KeyedStep

LEMMA AxonsNext ==
  ASSUME Sound, NEW p, NEW a, NEW list, NEW n,
         \/ AddAxon(p, a) \/ RemoveAxon(p, a) \/ InsertList(p, list) \/ RemoveList(p)
         \/ Truncate(p, n) \/ ClearAxons \/ CommitmentAxons
  PROVE  Sound'
<1>1. IndexSound(axons_out)
  BY DEF Sound
<1>2. UNCHANGED keyed
  BY DEF AddAxon, RemoveAxon, InsertList, RemoveList, Truncate, ClearAxons, CommitmentAxons,
         MutateAxons
<1>3. axons_out' \in {add(axons_out, p, a), remove_axon(axons_out, p, a),
                     insert_list(axons_out, p, list), remove_list(axons_out, p),
                     truncate(axons_out, p, n), NewIndex, FlushedIndex(axons_out)}
  BY DEF AddAxon, RemoveAxon, InsertList, RemoveList, Truncate, ClearAxons, CommitmentAxons,
         MutateAxons, clear_index
<1>4. IndexSound(axons_out')
  BY <1>1, <1>3, AddSound, RemoveAxonSound, InsertListSound, RemoveListSound, TruncateSound,
     NewIndexSound, FlushedIndexLeaves
<1> QED
  BY <1>2, <1>4, AxonsStep

LEMMA DimNextSound == ASSUME Sound, DimNext PROVE Sound'
<1>1. CASE ReadNext
  BY <1>1, KeyedNext, AxonsNext, ReadSound DEF ReadNext
<1>2. CASE MutateNext
  <2>1. CASE \E v \in {"V1", "V2"} : set_root_version(v)
    BY <2>1 DEF set_root_version, Sound
  <2>2. CASE \E d \in KeyedDims : \E k, r, w :
               \/ Insert(d, k, r) \/ Modify(d, k, r) \/ Delete(d, k)
               \/ Enter(d, k, r, w) \/ Clear(d)
    BY <2>2, KeyedNext
  <2>3. CASE \E c, r : InsertCard(c, r) \/ RemoveCard(c) \/ ClearCards
    BY <2>3, CardsNext
  <2>4. CASE \E p, a, list, n :
               \/ AddAxon(p, a) \/ RemoveAxon(p, a) \/ InsertList(p, list) \/ RemoveList(p)
               \/ Truncate(p, n) \/ ClearAxons
    BY <2>4, AxonsNext
  <2> QED
    BY <1>2, <2>1, <2>2, <2>3, <2>4 DEF MutateNext
<1> QED
  BY <1>1, <1>2 DEF DimNext

LEMMA NextSound == ASSUME Sound, [Next]_vars PROVE Sound'
<1>1. CASE DimNext
  BY <1>1, DimNextSound
<1>2. CASE Root
  BY <1>2, ReadSound
<1>3. CASE UNCHANGED vars
  BY <1>3 DEF vars, Sound
<1> QED
  BY <1>1, <1>2, <1>3 DEF Next, Query, QueryBalance, LookProof, Keep

\* No commitment of a dimension is ever stale when it is read (keyed.rs).
THEOREM NeverStale == Spec => []CommitmentsCurrent
<1>1. Init => Sound
  BY InitSound DEF Init
<1>2. Sound /\ [Next]_vars => Sound'
  BY NextSound
<1>3. Sound => CommitmentsCurrent
  BY FlushedLeaves, FlushedIndexLeaves
  DEF Sound, CommitmentsCurrent, KeyedSound, LegacySound, IndexSound, IndexLegacySound
<1> QED
  BY <1>1, <1>2, <1>3, PTL DEF Spec

-----------------------------------------------------------------------------
(* Lists.  The filter of insert is a loop: r[k] is what it has kept after  *)
(* k elements.                                                             *)

LEMMA FirstsLoop ==
  ASSUME NEW q \in Seq(Ids)
  PROVE  \E r : /\ r[0] = <<>> /\ Firsts(q) = r[Len(q)]
                /\ \A k \in 1..Len(q) :
                     r[k] = IF q[k] \in ToSet(r[k - 1]) THEN r[k - 1] ELSE Append(r[k - 1], q[k])
<1> DEFINE S == DOMAIN q
           F == [z \in S \X Seq(Ids) |-> IF q[z[1]] \in ToSet(z[2]) THEN z[2] ELSE Append(z[2], q[z[1]])]
           Q(g) == g = [s \in SUBSET S |->
                          IF s = {} THEN <<>>
                          ELSE IF q[Max(s)] \in ToSet(g[s \ {Max(s)}]) THEN g[s \ {Max(s)}]
                          ELSE Append(g[s \ {Max(s)}], q[Max(s)])]
<1>1. Len(q) \in Nat /\ S = 1..Len(q) /\ (\A i \in S : q[i] \in Ids) /\ <<>> \in Seq(Ids)
  OBVIOUS
<1>2. F \in [S \X Seq(Ids) -> Seq(Ids)]
  BY <1>1
<1>3. \A i \in S : \A t \in Seq(Ids) : F[<<i, t>>] = IF q[i] \in ToSet(t) THEN t ELSE Append(t, q[i])
  OBVIOUS
<1> HIDE DEF S, F
<1>4. PICK f : IsLoop(f, F, <<>>, Seq(Ids), S)
  BY <1>1, <1>2, LoopExists, Zenon
<1>5. Q(f)
  <2>1. ASSUME NEW s \in SUBSET S, s # {}
        PROVE  f[s] = IF q[Max(s)] \in ToSet(f[s \ {Max(s)}]) THEN f[s \ {Max(s)}]
                      ELSE Append(f[s \ {Max(s)}], q[Max(s)])
    <3> DEFINE m == Max(s)
               t == f[s \ {Max(s)}]
    <3>1. m \in S /\ t \in Seq(Ids) /\ f[s] = F[<<m, t>>]
      BY <1>4, <2>1 DEF IsLoop
    <3> HIDE DEF m, t
    <3>2. f[s] = IF q[m] \in ToSet(t) THEN t ELSE Append(t, q[m])
      BY <1>3, <3>1
    <3> QED BY <3>2 DEF m, t
  <2> QED BY <1>4, <2>1 DEF IsLoop
<1> DEFINE g == CHOOSE h : Q(h)
<1>6. Q(g)
  <2> HIDE DEF Q
  <2> QED BY <1>5, Zenon
<1>7. Firsts(q) = g[S]
  BY Zenon DEF Firsts, FoldLeft, MapThenFoldSet, S
<1>8. g[{}] = <<>> /\ \A s \in SUBSET S : s # {} =>
        g[s] = IF q[Max(s)] \in ToSet(g[s \ {Max(s)}]) THEN g[s \ {Max(s)}] ELSE Append(g[s \ {Max(s)}], q[Max(s)])
  BY <1>6
<1> HIDE DEF Q, g
<1> DEFINE r == [k \in 0..Len(q) |-> g[1..k]]
<1>9. ASSUME NEW k \in 1..Len(q)
      PROVE  r[k] = IF q[k] \in ToSet(r[k - 1]) THEN r[k - 1] ELSE Append(r[k - 1], q[k])
  <2> DEFINE s == 1..k
             t == 1..(k - 1)
  <2>1. Max(s) = k /\ s \ {k} = t /\ s # {}
    BY MaxPrefix
  <2>2. s \in SUBSET S /\ r[k] = g[s] /\ r[k - 1] = g[t]
    BY <1>1
  <2> HIDE DEF s, t, r
  <2>3. g[s] = IF q[Max(s)] \in ToSet(g[s \ {Max(s)}]) THEN g[s \ {Max(s)}] ELSE Append(g[s \ {Max(s)}], q[Max(s)])
    BY <1>8, <2>1, <2>2
  <2>4. g[s] = IF q[k] \in ToSet(g[t]) THEN g[t] ELSE Append(g[t], q[k])
    BY <2>1, <2>3, Zenon
  <2> QED BY <2>2, <2>4
<1>10. r[0] = <<>> /\ Firsts(q) = r[Len(q)]
  <2>1. 1..0 = {} /\ r[0] = g[1..0] /\ r[Len(q)] = g[1..Len(q)]
    BY <1>1
  <2> QED BY <1>1, <1>7, <1>8, <2>1
<1> QED BY <1>9, <1>10

Distinct(q) == q \in Seq(Ids) /\ NoDup(q)

LEMMA EmptyDistinct == Distinct(<<>>) /\ ToSet(<<>>) = {}
<1>1. DOMAIN <<>> = {} /\ <<>> \in Seq(Ids)
  OBVIOUS
<1> QED BY <1>1 DEF Distinct, NoDup, ToSet

LEMMA AppendDistinct ==
  ASSUME NEW q, Distinct(q), NEW a \in Ids, a \notin ToSet(q)
  PROVE  /\ Distinct(Append(q, a)) /\ ToSet(Append(q, a)) = ToSet(q) \cup {a}
         /\ Len(Append(q, a)) = Len(q) + 1
<1>1. q \in Seq(Ids) /\ Len(q) \in Nat /\ DOMAIN q = 1..Len(q)
  BY DEF Distinct
<1> DEFINE r == Append(q, a)
<1>2. /\ r \in Seq(Ids) /\ Len(r) = Len(q) + 1 /\ DOMAIN r = 1..(Len(q) + 1)
      /\ r[Len(q) + 1] = a /\ \A i \in 1..Len(q) : r[i] = q[i]
  BY <1>1
<1> HIDE DEF r
<1>3. NoDup(r)
  BY <1>1, <1>2 DEF Distinct, NoDup, ToSet
<1>4. ToSet(r) = ToSet(q) \cup {a}
  BY <1>1, <1>2 DEF ToSet
<1> QED BY <1>2, <1>3, <1>4 DEF Distinct, r

\* retain keeps the others, once each and no other.
LEMMA RetainedDistinct ==
  ASSUME NEW q, Distinct(q), NEW a
  PROVE  Distinct(Retain(q, {a})) /\ ToSet(Retain(q, {a})) = ToSet(q) \ {a}
  BY RetainNoDup DEF Distinct

\* The filter of insert lists nothing twice.
LEMMA FirstsDistinct ==
  ASSUME NEW q \in Seq(Ids) PROVE Distinct(Firsts(q))
<1>1. Len(q) \in Nat /\ DOMAIN q = 1..Len(q)
  OBVIOUS
<1>2. PICK r : /\ r[0] = <<>> /\ Firsts(q) = r[Len(q)]
               /\ \A k \in 1..Len(q) :
                    r[k] = IF q[k] \in ToSet(r[k - 1]) THEN r[k - 1] ELSE Append(r[k - 1], q[k])
  BY FirstsLoop
<1> DEFINE N == {k \in Nat : k <= Len(q) => Distinct(r[k])}
<1>3. 0 \in N
  BY <1>2, EmptyDistinct
<1>4. ASSUME NEW k \in N PROVE k + 1 \in N
  <2> SUFFICES ASSUME k + 1 <= Len(q) PROVE Distinct(r[k + 1])
    OBVIOUS
  <2>1. k + 1 \in 1..Len(q) /\ (k + 1) - 1 = k /\ Distinct(r[k]) /\ q[k + 1] \in Ids
    BY <1>1
  <2>2. r[k + 1] = IF q[k + 1] \in ToSet(r[k]) THEN r[k] ELSE Append(r[k], q[k + 1])
    BY <1>2, <2>1
  <2> QED BY <2>1, <2>2, AppendDistinct
<1>5. Len(q) \in N
  <2> HIDE DEF N
  <2> QED BY <1>1, <1>3, <1>4, Induction
<1> QED BY <1>1, <1>2, <1>5

\* truncate: what stays in the set is what stays in the list.
LEMMA SubSeqDistinct ==
  ASSUME NEW q, Distinct(q), NEW n \in 1..Len(q)
  PROVE  /\ Distinct(SubSeq(q, 1, n)) /\ Len(SubSeq(q, 1, n)) = n
         /\ ToSet(SubSeq(q, 1, n)) = ToSet(q) \ ToSet(SubSeq(q, n + 1, Len(q)))
<1>1. q \in Seq(Ids) /\ Len(q) \in Nat /\ DOMAIN q = 1..Len(q) /\ n \in Nat /\ n <= Len(q)
  BY DEF Distinct
<1> DEFINE r == SubSeq(q, 1, n)
           t == SubSeq(q, n + 1, Len(q))
<1>2. r \in Seq(Ids) /\ DOMAIN r = 1..n /\ Len(r) = n /\ \A i \in 1..n : r[i] = q[i]
  BY <1>1
<1>3. DOMAIN t = 1..(Len(q) - n) /\ \A i \in 1..(Len(q) - n) : t[i] = q[n + i]
  BY <1>1
<1> HIDE DEF r, t
<1>4. NoDup(r)
  BY <1>1, <1>2 DEF Distinct, NoDup
<1>5. ToSet(r) = {q[i] : i \in 1..n}
  BY <1>2 DEF ToSet
<1>6. ToSet(t) = {q[i] : i \in (n + 1)..Len(q)}
  <2>1. ASSUME NEW i \in (n + 1)..Len(q) PROVE q[i] \in ToSet(t)
    <3>1. i - n \in 1..(Len(q) - n) /\ n + (i - n) = i
      BY <1>1
    <3> QED BY <1>3, <3>1 DEF ToSet
  <2>2. ASSUME NEW i \in 1..(Len(q) - n) PROVE n + i \in (n + 1)..Len(q)
    BY <1>1
  <2> QED BY <1>3, <2>1, <2>2 DEF ToSet
<1>7. ToSet(r) = ToSet(q) \ ToSet(t)
  <2>1. ASSUME NEW i \in 1..n, NEW j \in (n + 1)..Len(q) PROVE q[i] # q[j]
    BY <1>1 DEF Distinct, NoDup
  <2>2. ToSet(q) = {q[i] : i \in 1..n} \cup {q[i] : i \in (n + 1)..Len(q)}
    BY <1>1 DEF ToSet
  <2> QED BY <1>5, <1>6, <2>1, <2>2
<1> QED BY <1>2, <1>4, <1>7 DEF Distinct, r, t

LEMMA DistinctCount ==
  ASSUME NEW q, Distinct(q) PROVE Cardinality(ToSet(q)) = Len(q)
<1>1. q \in Seq(Ids) /\ Len(q) \in Nat /\ DOMAIN q = 1..Len(q)
  BY DEF Distinct
<1> DEFINE f == [i \in 1..Len(q) |-> q[i]]
<1>2. f \in Bijection(1..Len(q), ToSet(q))
  BY <1>1 DEF Bijection, Injection, Surjection, IsInjective, Distinct, NoDup, ToSet
<1>3. ExistsBijection(1..Len(q), ToSet(q))
  BY <1>2 DEF ExistsBijection
<1> QED BY <1>1, <1>3, FS_CountingElements, Zenon

-----------------------------------------------------------------------------
(* The degree histogram *)

\* The particles with n axons, and a histogram that is right about n.
At(f, n) == {p \in DOMAIN f : Len(f[p]) = n}

Count(h, n, A) ==
  /\ n \in DOMAIN h <=> A # {}
  /\ n \in DOMAIN h => h[n] = Cardinality(A)

Counts(h, f) == \A n : Count(h, n, At(f, n))

LEMMA CountFewer ==
  ASSUME NEW h, NEW n, NEW A, IsFiniteSet(A), NEW p \in A, Count(h, n, A)
  PROVE  /\ Count(Fewer(h, n), n, A \ {p})
         /\ \A k, B : k # n /\ Count(h, k, B) => Count(Fewer(h, n), k, B)
<1>1. /\ h[n] = Cardinality(A) /\ n \in DOMAIN h
      /\ Cardinality(A) \in Nat /\ Cardinality(A \ {p}) = Cardinality(A) - 1
      /\ IsFiniteSet(A \ {p})
  BY FS_CardinalityType, FS_RemoveElement DEF Count
<1>2. A \ {p} = {} <=> Cardinality(A) = 1
  BY <1>1, FS_EmptySet
<1> QED BY <1>1, <1>2 DEF Count, Fewer, Put, Del

LEMMA CountMore ==
  ASSUME NEW h, NEW n, NEW A, IsFiniteSet(A), NEW p, p \notin A, Count(h, n, A)
  PROVE  /\ Count(More(h, n), n, A \cup {p})
         /\ \A k, B : k # n /\ Count(h, k, B) => Count(More(h, n), k, B)
<1>1. Cardinality(A \cup {p}) = Cardinality(A) + 1
  BY FS_AddElement
<1>2. Look(h, n, 0) = Cardinality(A)
  BY FS_EmptySet DEF Count, Look
<1> HIDE DEF Look
<1> QED BY <1>1, <1>2 DEF Count, More, Put

\* degree_moved: the histogram of f becomes the one of g when the list of p changed.
LEMMA CountsMoved ==
  ASSUME NEW h, NEW f, NEW g, NEW p, NEW old \in Nat, NEW new \in Nat,
         Counts(h, f), IsFiniteSet(DOMAIN f), Agree(g, f, p),
         IF p \in DOMAIN f THEN old = Len(f[p]) /\ old > 0 ELSE old = 0,
         IF p \in DOMAIN g THEN new = Len(g[p]) /\ new > 0 ELSE new = 0
  PROVE  Counts(degree_moved(h, old, new), g)
<1> DEFINE left == IF old > 0 /\ old # new THEN Fewer(h, old) ELSE h
           rest(n) == At(f, n) \ {p}
<1>1. \A n : IsFiniteSet(At(f, n)) /\ IsFiniteSet(rest(n))
  BY FS_Subset DEF At
<1>2. \A n : rest(n) = At(g, n) \ {p}
  BY DEF At, Agree
<1>3. \A n : p \in At(f, n) <=> old > 0 /\ n = old
  BY DEF At
<1>4. \A n : p \in At(g, n) <=> new > 0 /\ n = new
  BY DEF At
<1>5. CASE old = new
  <2>1. ASSUME NEW n PROVE At(f, n) = At(g, n)
    <3>1. p \in At(f, n) <=> p \in At(g, n)
      BY <1>3, <1>4, <1>5
    <3>2. At(f, n) \ {p} = At(g, n) \ {p}
      BY <1>2
    <3> QED BY <3>1, <3>2
  <2>2. degree_moved(h, old, new) = h
    BY <1>5 DEF degree_moved
  <2> QED BY <2>1, <2>2 DEF Counts
<1>6. CASE old # new
  <2>1. \A n : Count(left, n, rest(n))
    <3>1. CASE old > 0
      <4>1. \A n : n # old => rest(n) = At(f, n)
        BY <1>3
      <4>2. Count(Fewer(h, old), old, rest(old))
        BY <1>1, <1>3, <3>1, CountFewer DEF Counts
      <4>3. ASSUME NEW n, n # old PROVE Count(Fewer(h, old), n, At(f, n))
        BY <1>1, <1>3, <3>1, <4>3, CountFewer DEF Counts
      <4> QED BY <1>6, <3>1, <4>1, <4>2, <4>3
    <3>2. CASE old = 0
      <4>1. \A n : rest(n) = At(f, n)
        BY <1>3, <3>2
      <4> QED BY <3>2, <4>1 DEF Counts
    <3> QED BY <3>1, <3>2
  <2> DEFINE moved == degree_moved(h, old, new)
  <2>2. moved = IF new > 0 THEN More(left, new) ELSE left
    BY <1>6 DEF degree_moved
  <2> HIDE DEF left, moved, rest
  <2>3. CASE new > 0
    <3>1. \A n : n # new => At(g, n) = rest(n)
      BY <1>2, <1>4
    <3>2. At(g, new) = rest(new) \cup {p} /\ p \notin rest(new)
      BY <1>2, <1>4, <2>3 DEF rest
    <3>3. Count(More(left, new), new, rest(new) \cup {p})
      BY <1>1, <2>1, <3>2, CountMore
    <3>4. ASSUME NEW n, n # new PROVE Count(More(left, new), n, rest(n))
      BY <1>1, <2>1, <3>2, <3>4, CountMore
    <3> QED BY <2>2, <2>3, <3>1, <3>2, <3>3, <3>4 DEF Counts, moved
  <2>4. CASE new = 0
    <3>1. \A n : At(g, n) = rest(n)
      BY <1>2, <1>4, <2>4
    <3> QED BY <2>1, <2>2, <2>4, <3>1 DEF Counts, moved
  <2> QED BY <2>3, <2>4
<1> QED BY <1>5, <1>6

-----------------------------------------------------------------------------
(* Lists mirror sets *)

\* The inductive invariant: lists of distinct axons, never empty, the sets
\* their elements, the histogram their lengths.
Mirror(x) ==
  /\ IsIndex(x)
  /\ IsFiniteSet(DOMAIN x.map)
  /\ DOMAIN x.map = DOMAIN x.sets
  /\ \A p \in DOMAIN x.map :
       x.map[p] # <<>> /\ Distinct(x.map[p]) /\ ToSet(x.map[p]) = x.sets[p]
  /\ Counts(x.degrees, x.map)

LEMMA NewMirror == Mirror(NewIndex)
<1>1. IsIndex(NewIndex)
  BY DEF IsIndex, NewIndex
<1>2. NewIndex.map = Empty /\ NewIndex.sets = Empty /\ NewIndex.degrees = Empty
  BY DEF NewIndex
<1>3. DOMAIN Empty = {} /\ \A n : At(Empty, n) = {}
  BY DEF Empty, At
<1>4. Counts(Empty, Empty)
  BY <1>3 DEF Counts, Count
<1> QED BY <1>1, <1>2, <1>3, <1>4, FS_EmptySet DEF Mirror

\* The list of p and its set replaced together, or both dropped.
LEMMA RelistedMirror ==
  ASSUME NEW x, NEW f, NEW g, NEW p, NEW old \in Nat, NEW new \in Nat, Mirror(x),
         Agree(f, x.map, p), Agree(g, x.sets, p), p \in DOMAIN f <=> p \in DOMAIN g,
         p \in DOMAIN f => /\ f[p] # <<>> /\ Distinct(f[p]) /\ ToSet(f[p]) = g[p],
         old = degree(x, p), new = IF p \in DOMAIN f THEN Len(f[p]) ELSE 0
  PROVE  Mirror(Relisted(x, f, g, degree_moved(x.degrees, old, new), p))
<1> DEFINE h == degree_moved(x.degrees, old, new)
           y == Relisted(x, f, g, h, p)
<1>1. IsIndex(y) /\ y.map = f /\ y.sets = g /\ y.degrees = h
  BY DEF Mirror, IsIndex, mark, Relisted
<1>2. DOMAIN f = DOMAIN g
  BY DEF Mirror, Agree
<1>3. IsFiniteSet(DOMAIN f)
  <2>1. DOMAIN f \subseteq DOMAIN x.map \cup {p}
    BY DEF Agree
  <2>2. IsFiniteSet(DOMAIN x.map \cup {p})
    BY FS_AddElement DEF Mirror
  <2> QED BY <2>1, <2>2, FS_Subset
<1>4. \A q \in DOMAIN f : f[q] # <<>> /\ Distinct(f[q]) /\ ToSet(f[q]) = g[q]
  BY DEF Mirror, Agree
<1>5. \A q : Distinct(q) /\ q # <<>> => Len(q) \in Nat /\ Len(q) > 0
  BY DEF Distinct
<1>6. IF p \in DOMAIN x.map THEN old = Len(x.map[p]) /\ old > 0 ELSE old = 0
  <2>1. CASE p \in DOMAIN x.map
    BY <1>5, <2>1 DEF Mirror, degree, Look
  <2>2. CASE p \notin DOMAIN x.map
    BY <2>2 DEF degree, Look
  <2> QED BY <2>1, <2>2
<1>7. IF p \in DOMAIN f THEN new = Len(f[p]) /\ new > 0 ELSE new = 0
  BY <1>4, <1>5
<1>8. Counts(h, f)
  BY <1>6, <1>7, CountsMoved DEF Mirror
<1> HIDE DEF y, h
<1>9. Mirror(y)
  BY <1>1, <1>2, <1>3, <1>4, <1>8 DEF Mirror
<1> QED BY <1>9 DEF y, h

LEMMA AddMirror ==
  ASSUME NEW x, NEW p, NEW a \in Ids, Mirror(x) PROVE Mirror(add(x, p, a))
<1> DEFINE set  == Look(x.sets, p, {})
           list == Look(x.map, p, <<>>)
           f    == Put(x.map, p, Append(list, a))
           g    == Put(x.sets, p, set \cup {a})
           h    == degree_moved(x.degrees, Len(list), Len(list) + 1)
<1>1. CASE a \in set
  BY <1>1 DEF add
<1>2. CASE a \notin set
  <2>1. add(x, p, a) = Relisted(x, f, g, h, p)
    BY <1>2 DEF add, Relisted, mark, Mirror, IsIndex
  <2>2. Distinct(list) /\ ToSet(list) = set
    BY EmptyDistinct DEF Mirror, Look
  <2>3. list \in Seq(Ids) /\ Len(list) \in Nat /\ Len(list) + 1 \in Nat /\ Len(list) = degree(x, p)
    BY <2>2 DEF Distinct, degree
  <2> HIDE DEF list, set
  <2>4. /\ Distinct(Append(list, a)) /\ ToSet(Append(list, a)) = set \cup {a}
        /\ Len(Append(list, a)) = Len(list) + 1 /\ Append(list, a) # <<>>
    BY <1>2, <2>2, <2>3, AppendDistinct
  <2>5. p \in DOMAIN f /\ p \in DOMAIN g /\ f[p] = Append(list, a) /\ g[p] = set \cup {a}
    BY DEF Put
  <2>6. Agree(f, x.map, p) /\ Agree(g, x.sets, p)
    BY PutAgrees
  <2> HIDE DEF f, g
  <2>7. Mirror(Relisted(x, f, g, h, p))
    BY <2>3, <2>4, <2>5, <2>6, RelistedMirror
  <2> QED BY <2>1, <2>7
<1> QED BY <1>1, <1>2

LEMMA RemoveListMirror ==
  ASSUME NEW x, NEW p, Mirror(x) PROVE Mirror(remove_list(x, p)) /\ degree(remove_list(x, p), p) = 0
<1> DEFINE f == Del(x.map, p)
           g == Del(x.sets, p)
           h == degree_moved(x.degrees, degree(x, p), 0)
<1>1. CASE p \in DOMAIN x.map
  <2>1. remove_list(x, p) = Relisted(x, f, g, h, p) /\ Relisted(x, f, g, h, p).map = f
    BY <1>1 DEF remove_list, Relisted, mark, Mirror, IsIndex
  <2>2. p \notin DOMAIN f /\ p \notin DOMAIN g
    BY DEF Del
  <2>3. degree(x, p) \in Nat
    BY <1>1 DEF Mirror, Distinct, degree, Look
  <2>4. Agree(f, x.map, p) /\ Agree(g, x.sets, p)
    BY DelAgrees
  <2> HIDE DEF f, g
  <2>5. Mirror(Relisted(x, f, g, h, p))
    BY <2>2, <2>3, <2>4, RelistedMirror
  <2> QED BY <2>1, <2>2, <2>5 DEF degree, Look
<1>2. CASE p \notin DOMAIN x.map
  BY <1>2 DEF remove_list, degree, Look
<1> QED BY <1>1, <1>2

LEMMA InsertListMirror ==
  ASSUME NEW x, NEW p, NEW list \in Seq(Ids), Mirror(x) PROVE Mirror(insert_list(x, p, list))
<1> DEFINE y    == remove_list(x, p)
           kept == Firsts(list)
           f    == Put(y.map, p, kept)
           g    == Put(y.sets, p, ToSet(kept))
           h    == degree_moved(y.degrees, 0, Len(kept))
<1>1. Mirror(y) /\ degree(y, p) = 0
  BY RemoveListMirror
<1>2. Distinct(kept)
  BY FirstsDistinct
<1>3. insert_list(x, p, list) = IF kept = <<>> THEN y ELSE Relisted(y, f, g, h, p)
  BY DEF insert_list, Relisted
<1> HIDE DEF y, kept
<1>4. CASE kept # <<>>
  <2>1. p \in DOMAIN f /\ p \in DOMAIN g /\ f[p] = kept /\ g[p] = ToSet(kept)
    BY DEF Put
  <2>2. Len(kept) \in Nat
    BY <1>2 DEF Distinct
  <2>3. Agree(f, y.map, p) /\ Agree(g, y.sets, p)
    BY PutAgrees
  <2> HIDE DEF f, g
  <2>4. Mirror(Relisted(y, f, g, h, p))
    BY <1>1, <1>2, <1>4, <2>1, <2>2, <2>3, RelistedMirror
  <2> QED BY <1>3, <1>4, <2>4
<1> QED BY <1>1, <1>3, <1>4

LEMMA RemoveAxonMirror ==
  ASSUME NEW x, NEW p, NEW a, Mirror(x) PROVE Mirror(remove_axon(x, p, a))
<1> DEFINE rest == Retain(x.map[p], {a})
           f    == IF rest = <<>> THEN Del(x.map, p) ELSE Put(x.map, p, rest)
           g    == IF rest = <<>> THEN Del(x.sets, p) ELSE Put(x.sets, p, x.sets[p] \ {a})
           h    == degree_moved(x.degrees, degree(x, p), Len(rest))
<1>1. CASE a \notin Look(x.sets, p, {})
  BY <1>1 DEF remove_axon
<1>2. CASE a \in Look(x.sets, p, {})
  <2>1. p \in DOMAIN x.map
    BY <1>2 DEF Look, Mirror
  <2>2. remove_axon(x, p, a) = Relisted(x, f, g, h, p)
    BY <1>2 DEF remove_axon, Relisted, mark, Mirror, IsIndex
  <2>3. Distinct(x.map[p]) /\ ToSet(x.map[p]) = x.sets[p]
    BY <2>1 DEF Mirror
  <2>4. Distinct(rest) /\ ToSet(rest) = x.sets[p] \ {a}
    BY <2>3, RetainedDistinct
  <2> HIDE DEF rest
  <2>5. degree(x, p) \in Nat /\ Len(rest) \in Nat
    BY <2>1, <2>3, <2>4 DEF Distinct, degree, Look
  <2>6. /\ p \in DOMAIN f <=> rest # <<>>
        /\ p \in DOMAIN g <=> rest # <<>>
        /\ rest # <<>> => f[p] = rest /\ g[p] = x.sets[p] \ {a}
    BY DEF Put, Del
  <2>7. Agree(f, x.map, p) /\ Agree(g, x.sets, p)
    BY PutAgrees, DelAgrees
  <2>8. Len(rest) = IF p \in DOMAIN f THEN Len(f[p]) ELSE 0
    BY <2>6
  <2> HIDE DEF f, g
  <2>9. Mirror(Relisted(x, f, g, h, p))
    BY <2>4, <2>5, <2>6, <2>7, <2>8, RelistedMirror
  <2> QED BY <2>2, <2>9
<1> QED BY <1>1, <1>2

LEMMA TruncateMirror ==
  ASSUME NEW x, NEW p, NEW n \in Nat, Mirror(x) PROVE Mirror(truncate(x, p, n))
<1> DEFINE q == x.map[p]
           s == SubSeq(q, 1, n)
           t == ToSet(SubSeq(q, n + 1, Len(q)))
           f == Put(x.map, p, s)
           g == Put(x.sets, p, x.sets[p] \ t)
           h == degree_moved(x.degrees, degree(x, p), n)
<1>1. CASE degree(x, p) <= n
  BY <1>1 DEF truncate
<1>2. CASE n = 0
  BY <1>1, <1>2, RemoveListMirror DEF truncate
<1>3. CASE ~(degree(x, p) <= n) /\ n # 0
  <2>1. p \in DOMAIN x.map
    BY <1>3 DEF degree, Look
  <2>2. truncate(x, p, n) = Relisted(x, f, g, h, p)
    BY <1>3 DEF truncate, Relisted, mark, Mirror, IsIndex
  <2>3. Distinct(q) /\ ToSet(q) = x.sets[p]
    BY <2>1 DEF Mirror
  <2>4. degree(x, p) \in Nat /\ n \in 1..Len(q)
    BY <1>3, <2>1, <2>3 DEF degree, Look, Distinct
  <2>5. Distinct(s) /\ Len(s) = n /\ ToSet(s) = x.sets[p] \ t
    BY <2>3, <2>4, SubSeqDistinct
  <2> HIDE DEF s, t
  <2>6. p \in DOMAIN f /\ p \in DOMAIN g /\ f[p] = s /\ g[p] = x.sets[p] \ t /\ s # <<>>
    BY <1>3, <2>5 DEF Put
  <2>7. Agree(f, x.map, p) /\ Agree(g, x.sets, p)
    BY PutAgrees
  <2> HIDE DEF f, g
  <2>8. Mirror(Relisted(x, f, g, h, p))
    BY <2>4, <2>5, <2>6, <2>7, RelistedMirror
  <2> QED BY <2>2, <2>8
<1> QED BY <1>1, <1>2, <1>3

\* A read touches no list, set or count.
LEMMA ReadMirror ==
  ASSUME NEW x, NEW c, Mirror(x)
  PROVE  Mirror(FlushedIndex(x)) /\ Mirror(legacy_commitment(x, c))
BY DEF Mirror, IsIndex, FlushedIndex, flush_index, legacy_commitment

LEMMA MirrorNext ==
  ASSUME Mirror(axons_out), [Next]_vars PROVE Mirror(axons_out)'
<1>1. CASE UNCHANGED axons_out
  BY <1>1
<1>2. CASE Root \/ CommitmentAxons
  BY <1>2, ReadMirror DEF Root, CommitmentAxons, ReadAxons
<1>3. CASE \E p \in Ids : \E a \in Links[p] : AddAxon(p, a) \/ RemoveAxon(p, a)
  BY <1>3, DimensionAssumption, AddMirror, RemoveAxonMirror DEF AddAxon, RemoveAxon, MutateAxons
<1>4. CASE \E p \in Ids, list \in Lists : InsertList(p, list)
  BY <1>4, DimensionAssumption, InsertListMirror DEF InsertList, MutateAxons
<1>5. CASE \E p \in Ids : RemoveList(p)
  BY <1>5, RemoveListMirror DEF RemoveList, MutateAxons
<1>6. CASE \E p \in Ids : \E n \in 0..Cardinality(Links[p]) : Truncate(p, n)
  BY <1>6, TruncateMirror DEF Truncate, MutateAxons
<1>7. CASE ClearAxons
  BY <1>7, NewMirror DEF ClearAxons, MutateAxons, clear_index
<1>8. CASE MutateNext
  BY <1>1, <1>3, <1>4, <1>5, <1>6, <1>7, <1>8
  DEF MutateNext, Insert, Modify, Delete, Enter, Clear, Mutate, InsertCard, RemoveCard, ClearCards,
      MutateCards, set_root_version
<1>9. CASE \E d \in KeyedDims : Commitment(d)
  BY <1>1, <1>9 DEF Commitment
<1>10. CASE UNCHANGED vars
  BY <1>1, <1>10 DEF vars, dimVars
<1> QED
  BY <1>2, <1>8, <1>9, <1>10
  DEF Next, DimNext, ReadNext, Query, QueryBalance, LookProof, Keep

\* A list and its set never part, and the histogram the largest degree is
\* read from counts the lists (AxonIndex, keyed.rs).
THEOREM AxonsMirrored == Spec => []ListsMirrorSets
<1>1. Init => Mirror(axons_out)
  BY NewMirror DEF Init, DimInit
<1>2. Mirror(axons_out) /\ [Next]_vars => Mirror(axons_out)'
  BY MirrorNext
<1>3. Mirror(axons_out) => ListsMirrorSets
  <2> SUFFICES ASSUME Mirror(axons_out) PROVE ListsMirrorSets
    OBVIOUS
  <2> DEFINE x == axons_out
  <2>1. \A p \in DOMAIN x.map : Cardinality(x.sets[p]) = Len(x.map[p])
    BY DistinctCount DEF Mirror
  <2>2. DOMAIN x.degrees = {Len(x.map[p]) : p \in DOMAIN x.map}
    <3>1. \A n : n \in DOMAIN x.degrees <=> At(x.map, n) # {}
      BY DEF Mirror, Counts, Count
    <3>2. \A n : At(x.map, n) # {} <=> \E p \in DOMAIN x.map : n = Len(x.map[p])
      BY DEF At
    <3> HIDE DEF x
    <3> QED BY <3>1, <3>2
  <2>3. \A n \in DOMAIN x.degrees : x.degrees[n] = Cardinality(At(x.map, n))
    BY DEF Mirror, Counts, Count
  <2> QED BY <2>1, <2>2, <2>3 DEF Mirror, ListsMirrorSets, At
<1> QED
  BY <1>1, <1>2, <1>3, PTL DEF Spec

-----------------------------------------------------------------------------
(* Cards and their index by axon *)

\* The index lists c under axon a.
Has(index, a, c) == a \in DOMAIN index /\ c \in DOMAIN index[a]

\* The stake keys of an index, and no axon without a card.
Stakes(index) ==
  /\ \A a \in DOMAIN index : DOMAIN index[a] # {}
  /\ \A a, c : Has(index, a, c) => index[a][c] = stake_key(c)

\* It lists every card under the axon of its record, and nothing else.
Indexes(index, cards) ==
  /\ Stakes(index)
  /\ \A a, c : Has(index, a, c) <=> c \in DOMAIN cards /\ cards[c].particle = a

LEMMA ListedHas ==
  ASSUME NEW index, NEW a, NEW c, Stakes(index)
  PROVE  /\ Stakes(Listed(index, a, c, stake_key(c)))
         /\ \A b, e : Has(Listed(index, a, c, stake_key(c)), b, e)
                        <=> Has(index, b, e) \/ (b = a /\ e = c)
<1> DEFINE cards == Put(Look(index, a, Empty), c, stake_key(c))
           new   == Listed(index, a, c, stake_key(c))
<1>1. /\ \A e : e \in DOMAIN cards <=> Has(index, a, e) \/ e = c
      /\ \A e \in DOMAIN cards : cards[e] = stake_key(e)
  BY DEF Put, Look, Empty, Stakes, Has
<1>2. /\ \A b : b \in DOMAIN new <=> b \in DOMAIN index \/ b = a
      /\ \A b \in DOMAIN new : new[b] = IF b = a THEN cards ELSE index[b]
  BY DEF Listed, Put
<1> HIDE DEF cards, new
<1>3. \A b, e : Has(new, b, e) <=> Has(index, b, e) \/ (b = a /\ e = c)
  BY <1>1, <1>2 DEF Has
<1>4. Stakes(new)
  BY <1>1, <1>2 DEF Stakes, Has
<1> QED BY <1>3, <1>4 DEF new

LEMMA UnindexHas ==
  ASSUME NEW index, NEW a, NEW c, Stakes(index), Has(index, a, c)
  PROVE  /\ Stakes(unindex(index, a, c))
         /\ \A b, e : Has(unindex(index, a, c), b, e)
                        <=> Has(index, b, e) /\ ~(b = a /\ e = c)
<1> DEFINE rest == Del(index[a], c)
           new  == unindex(index, a, c)
<1>1. /\ \A e : e \in DOMAIN rest <=> Has(index, a, e) /\ e # c
      /\ \A e \in DOMAIN rest : rest[e] = stake_key(e)
  BY DEF Del, Stakes, Has
<1>2. /\ \A b : b \in DOMAIN new <=> b \in DOMAIN index /\ (b # a \/ DOMAIN rest # {})
      /\ \A b \in DOMAIN new : new[b] = IF b = a THEN rest ELSE index[b]
  <2>1. new = IF DOMAIN rest = {} THEN Del(index, a) ELSE Put(index, a, rest)
    BY DEF unindex
  <2>2. a \in DOMAIN index
    BY DEF Has
  <2> HIDE DEF rest, new
  <2>3. CASE DOMAIN rest = {}
    BY <2>1, <2>2, <2>3 DEF Del
  <2>4. CASE DOMAIN rest # {}
    BY <2>1, <2>2, <2>4 DEF Put
  <2> QED BY <2>3, <2>4
<1> HIDE DEF rest, new
<1>3. \A b, e : Has(new, b, e) <=> Has(index, b, e) /\ ~(b = a /\ e = c)
  BY <1>1, <1>2 DEF Has
<1>4. Stakes(new)
  BY <1>1, <1>2 DEF Stakes, Has
<1> QED BY <1>3, <1>4 DEF new

\* What the invariant says of the cards, the index and the balances.
CardsSound(cards, index, balances) ==
  /\ Indexes(index, cards)
  /\ IsFiniteSet(DOMAIN cards)
  /\ \A k \in DOMAIN balances : balances[k] \in Nat

LEMMA InsertCardSound ==
  ASSUME NEW c, NEW r, Indexes(by_axon, keyed["cards"].map)
  PROVE  Indexes(insert_card(c, r), Put(keyed["cards"].map, c, r))
<1> DEFINE old   == keyed["cards"].map
           cards == Put(old, c, r)
           new   == insert_card(c, r)
           a     == r.particle
<1>1. /\ \A e : e \in DOMAIN cards <=> e \in DOMAIN old \/ e = c
      /\ \A e : e \in DOMAIN old /\ e # c => cards[e] = old[e]
      /\ cards[c] = r
  BY DEF Put
<1>2. Stakes(by_axon) /\ \A b, e : Has(by_axon, b, e) <=> e \in DOMAIN old /\ old[e].particle = b
  BY DEF Indexes, Stakes
<1>3. SUFFICES Stakes(new) /\ \A b, e : Has(new, b, e) <=> e \in DOMAIN cards /\ cards[e].particle = b
  BY DEF Indexes, Stakes
<1> HIDE DEF cards
<1>4. CASE c \notin DOMAIN old
  <2>1. new = Listed(by_axon, a, c, stake_key(c))
    BY <1>4 DEF insert_card
  <2> HIDE DEF new, old
  <2> QED BY <1>1, <1>2, <1>4, <2>1, ListedHas
<1>5. CASE c \in DOMAIN old /\ old[c].particle = a
  <2>1. new = by_axon
    BY <1>5 DEF insert_card
  <2> HIDE DEF new, old
  <2> QED BY <1>1, <1>2, <1>5, <2>1
<1>6. CASE c \in DOMAIN old /\ old[c].particle # a
  <2> DEFINE b    == old[c].particle
             less == unindex(by_axon, b, c)
  <2>1. Has(by_axon, b, c) /\ by_axon[b][c] = stake_key(c)
    BY <1>2, <1>6 DEF Stakes
  <2>2. new = Listed(less, a, c, stake_key(c))
    BY <1>6, <2>1 DEF insert_card
  <2>3. Stakes(less) /\ \A d, e : Has(less, d, e) <=> Has(by_axon, d, e) /\ ~(d = b /\ e = c)
    BY <1>2, <2>1, UnindexHas
  <2> HIDE DEF less, new
  <2>4. Stakes(new) /\ \A d, e : Has(new, d, e) <=> Has(less, d, e) \/ (d = a /\ e = c)
    BY <2>2, <2>3, ListedHas
  <2> HIDE DEF old
  <2> QED BY <1>1, <1>2, <1>6, <2>3, <2>4
<1> QED BY <1>4, <1>5, <1>6

LEMMA RemoveCardSound ==
  ASSUME NEW c, Indexes(by_axon, keyed["cards"].map), c \in DOMAIN keyed["cards"].map
  PROVE  Indexes(remove_card(c), Del(keyed["cards"].map, c))
<1> DEFINE old   == keyed["cards"].map
           cards == Del(old, c)
           new   == remove_card(c)
           b     == old[c].particle
<1>1. /\ \A e : e \in DOMAIN cards <=> e \in DOMAIN old /\ e # c
      /\ \A e \in DOMAIN cards : cards[e] = old[e]
  BY DEF Del
<1>2. Stakes(by_axon) /\ \A d, e : Has(by_axon, d, e) <=> e \in DOMAIN old /\ old[e].particle = d
  BY DEF Indexes, Stakes
<1>3. new = unindex(by_axon, b, c) /\ Has(by_axon, b, c)
  BY <1>2 DEF remove_card
<1>4. Stakes(new) /\ \A d, e : Has(new, d, e) <=> Has(by_axon, d, e) /\ ~(d = b /\ e = c)
  BY <1>2, <1>3, UnindexHas
<1> HIDE DEF cards, new
<1>5. \A d, e : Has(new, d, e) <=> e \in DOMAIN cards /\ cards[e].particle = d
  BY <1>1, <1>2, <1>4
<1>6. Indexes(new, cards)
  BY <1>4, <1>5 DEF Indexes, Stakes
<1> QED BY <1>6 DEF new, cards

\* What the calls of a Keyed do to its map; a read does nothing to it.
LEMMA KeyedMaps ==
  ASSUME NEW m, IsKeyed(m)
  PROVE  /\ \A k, v : insert(m, k, v).map = Put(m.map, k, v)
         /\ \A k : remove(m, k).map = IF k \in DOMAIN m.map THEN Del(m.map, k) ELSE m.map
         /\ \A k, v : get_mut(m, k, v).map \in {m.map, Put(m.map, k, v)}
         /\ \A k, v, u : entry(m, k, v, u).map =
              Put(m.map, k, IF u = <<>> THEN Look(m.map, k, v) ELSE u[1])
         /\ \A d : Flushed(d, m).map = m.map
         /\ \A v : legacy_commitment(m, v).map = m.map
<1>1. DOMAIN m = {"map", "leaves", "dirty", "legacy"}
  BY DEF IsKeyed
<1>2. \A f, k : touched([m EXCEPT !.map = f], k).map = f
  BY <1>1 DEF touched
<1>3. ASSUME NEW k, NEW v PROVE insert(m, k, v).map = Put(m.map, k, v)
  BY <1>2 DEF insert
<1>4. ASSUME NEW k PROVE remove(m, k).map = IF k \in DOMAIN m.map THEN Del(m.map, k) ELSE m.map
  BY <1>2 DEF remove
<1>6. ASSUME NEW k, NEW v PROVE get_mut(m, k, v).map \in {m.map, Put(m.map, k, v)}
  BY <1>2 DEF get_mut
<1>7. ASSUME NEW k, NEW v, NEW u
      PROVE  entry(m, k, v, u).map = Put(m.map, k, IF u = <<>> THEN Look(m.map, k, v) ELSE u[1])
  <2> DEFINE f == Put(m.map, k, IF u = <<>> THEN Look(m.map, k, v) ELSE u[1])
  <2>1. entry(m, k, v, u) = touched([m EXCEPT !.map = f], k)
    BY DEF entry
  <2> HIDE DEF f
  <2>2. entry(m, k, v, u).map = f
    BY <1>2, <2>1
  <2> QED BY <2>2 DEF f
<1>8. (\A d : Flushed(d, m).map = m.map) /\ \A v : legacy_commitment(m, v).map = m.map
  BY <1>1 DEF Flushed, flush, legacy_commitment
<1> QED BY <1>3, <1>4, <1>6, <1>7, <1>8

CardsInv == CardsSound(keyed["cards"].map, by_axon, keyed["balances"].map)

LEMMA CardsInit == ASSUME DimInit PROVE CardsInv
<1>1. keyed["cards"].map = Empty /\ keyed["balances"].map = Empty /\ by_axon = Empty
  BY DEF DimInit, KeyedDims, NewKeyed
<1>2. DOMAIN Empty = {}
  BY DEF Empty
<1> QED BY <1>1, <1>2, FS_EmptySet DEF CardsInv, CardsSound, Indexes, Stakes, Has

\* The balances stay numbers.
LEMMA BalancesNext ==
  ASSUME Sound, CardsInv, NEW k \in Keys["balances"], NEW r \in Records["balances"][k],
         NEW w \in {<<>>} \cup {<<q>> : q \in Records["balances"][k]},
         \/ Insert("balances", k, r) \/ Modify("balances", k, r) \/ Enter("balances", k, r, w)
  PROVE  CardsInv'
<1> DEFINE m == keyed["balances"]
           b == m.map
           n == keyed'["balances"].map
<1>1. "balances" \in KeyedDims /\ "cards" \in KeyedDims
  BY DEF KeyedDims
<1>2. IsKeyed(m) /\ keyed = [d \in KeyedDims |-> keyed[d]]
  BY <1>1 DEF Sound, KeyedSound
<1>3. r \in Nat /\ (w = <<>> \/ w[1] \in Nat)
  BY <1>1, DimensionAssumption DEF RecordOf
<1>4. \A v \in Nat : \A e \in DOMAIN Put(b, k, v) : Put(b, k, v)[e] \in Nat
  BY DEF CardsInv, CardsSound, Put
<1>6. Look(b, k, r) \in Nat
  BY <1>3 DEF CardsInv, CardsSound, Look
<1>7. keyed'["cards"] = keyed["cards"] /\ UNCHANGED by_axon
  BY <1>1, <1>2 DEF Insert, Modify, Enter, Mutate
<1>8. keyed'["balances"] \in {insert(m, k, r), get_mut(m, k, r), entry(m, k, r, w)}
  BY <1>1, <1>2 DEF Insert, Modify, Enter, Mutate
<1>9. \A e \in DOMAIN b : b[e] \in Nat
  BY DEF CardsInv, CardsSound
<1>10. n \in {Put(b, k, r), b, Put(b, k, IF w = <<>> THEN Look(b, k, r) ELSE w[1])}
  <2> HIDE DEF b
  <2> QED BY <1>2, <1>8, KeyedMaps DEF b
<1> HIDE DEF b, n, m
<1>11. \A e \in DOMAIN n : n[e] \in Nat
  BY <1>3, <1>4, <1>6, <1>9, <1>10
<1> QED BY <1>7, <1>11 DEF CardsInv, CardsSound, n

LEMMA ClearBalances ==
  ASSUME Sound, CardsInv, Clear("balances") PROVE CardsInv'
<1>1. keyed'["cards"] = keyed["cards"] /\ UNCHANGED by_axon /\ keyed'["balances"].map = Empty
  BY DEF Sound, Clear, Mutate, KeyedDims, clear, NewKeyed
<1> QED BY <1>1 DEF CardsInv, CardsSound, Empty

LEMMA CardsStep ==
  ASSUME Sound, CardsInv, NEW c, NEW r, InsertCard(c, r) \/ RemoveCard(c) \/ ClearCards
  PROVE  CardsInv'
<1> DEFINE m == keyed["cards"]
<1>1. IsKeyed(m) /\ keyed = [d \in KeyedDims |-> keyed[d]]
  BY DEF Sound, KeyedSound, KeyedDims
<1>2. keyed'["balances"] = keyed["balances"]
  BY <1>1 DEF InsertCard, RemoveCard, ClearCards, MutateCards, KeyedDims
<1>3. Indexes(by_axon, m.map) /\ IsFiniteSet(DOMAIN m.map)
  BY DEF CardsInv, CardsSound
<1>4. SUFFICES Indexes(by_axon', keyed'["cards"].map) /\ IsFiniteSet(DOMAIN keyed'["cards"].map)
  BY <1>2 DEF CardsInv, CardsSound
<1>5. CASE InsertCard(c, r)
  <2>1. keyed'["cards"] = insert(m, c, r) /\ by_axon' = insert_card(c, r)
    BY <1>1, <1>5 DEF InsertCard, MutateCards, KeyedDims
  <2>2. keyed'["cards"].map = Put(m.map, c, r)
    BY <1>1, <2>1, KeyedMaps
  <2>3. DOMAIN Put(m.map, c, r) = DOMAIN m.map \cup {c}
    BY DEF Put
  <2>4. IsFiniteSet(DOMAIN Put(m.map, c, r))
    BY <1>3, <2>3, FS_AddElement
  <2> QED BY <1>3, <2>1, <2>2, <2>4, InsertCardSound
<1>6. CASE RemoveCard(c)
  <2>1. keyed'["cards"] = remove(m, c) /\ by_axon' = remove_card(c)
    BY <1>1, <1>6 DEF RemoveCard, MutateCards, KeyedDims
  <2>2. CASE c \in DOMAIN m.map
    <3>1. keyed'["cards"].map = Del(m.map, c)
      BY <1>1, <2>1, <2>2, KeyedMaps
    <3>2. DOMAIN Del(m.map, c) \subseteq DOMAIN m.map
      BY DEF Del
    <3>3. IsFiniteSet(DOMAIN Del(m.map, c))
      BY <1>3, <3>2, FS_Subset
    <3> QED BY <1>3, <2>1, <2>2, <3>1, <3>3, RemoveCardSound
  <2>3. CASE c \notin DOMAIN m.map
    BY <1>3, <2>1, <2>3 DEF remove, remove_card
  <2> QED BY <2>2, <2>3
<1>7. CASE ClearCards
  <2>1. keyed'["cards"].map = Empty /\ by_axon' = Empty
    BY <1>1, <1>7 DEF ClearCards, MutateCards, KeyedDims, clear, NewKeyed
  <2>2. DOMAIN Empty = {}
    BY DEF Empty
  <2> QED BY <2>1, <2>2, FS_EmptySet DEF Indexes, Stakes, Has
<1> QED BY <1>5, <1>6, <1>7

LEMMA CardsKept ==
  ASSUME CardsInv, UNCHANGED by_axon, keyed'["cards"].map = keyed["cards"].map,
         keyed'["balances"].map = keyed["balances"].map
  PROVE  CardsInv'
BY DEF CardsInv

LEMMA CardsInvNext == ASSUME Sound, CardsInv, [Next]_vars PROVE CardsInv'
<1>1. "balances" \in KeyedDims /\ "cards" \in KeyedDims
  BY DEF KeyedDims
<1>2. /\ keyed = [d \in KeyedDims |-> keyed[d]]
      /\ IsKeyed(keyed["cards"]) /\ IsKeyed(keyed["balances"])
  BY <1>1 DEF Sound, KeyedSound
<1>3. CASE UNCHANGED <<keyed, by_axon>>
  BY <1>3, CardsKept
<1>4. CASE Root
  BY <1>1, <1>2, <1>4, KeyedMaps, CardsKept DEF Root, ReadKeyed
<1>5. CASE \E d \in KeyedDims : Commitment(d)
  BY <1>1, <1>2, <1>5, KeyedMaps, CardsKept DEF Commitment
<1>6. ASSUME NEW d \in KeyedDims \ {"cards"},
             \/ \E k \in Keys[d] : \E r \in Records[d][k] : Insert(d, k, r) \/ Modify(d, k, r)
             \/ \E k \in Keys[d] : Delete(d, k)
             \/ \E k \in Keys[d] : \E r \in Records[d][k] :
                  \E w \in {<<>>} \cup {<<q>> : q \in Records[d][k]} : Enter(d, k, r, w)
             \/ Clear(d)
      PROVE  CardsInv'
  <2>1. CASE d # "balances"
    <3>1. PICK m : keyed' = [keyed EXCEPT ![d] = m] /\ UNCHANGED by_axon
      BY <1>6 DEF Insert, Modify, Delete, Enter, Clear, Mutate
    <3> QED BY <1>1, <1>2, <2>1, <3>1, CardsKept
  <2>2. CASE d = "balances"
    <3>1. CASE \E k \in Keys[d] : Delete(d, k)
      <4>1. PICK k \in Keys[d] : Delete(d, k)
        BY <3>1
      <4>2. keyed'["balances"] = remove(keyed["balances"], k) /\ UNCHANGED by_axon
            /\ keyed'["cards"] = keyed["cards"]
        BY <1>1, <1>2, <2>2, <4>1 DEF Delete, Mutate
      <4> DEFINE b == keyed["balances"].map
      <4>3. keyed'["balances"].map \in {b, Del(b, k)}
        BY <1>2, <4>2, KeyedMaps
      <4>4. /\ \A e \in DOMAIN b : b[e] \in Nat
            /\ \A e \in DOMAIN Del(b, k) : Del(b, k)[e] \in Nat
        BY DEF CardsInv, CardsSound, Del
      <4> QED BY <4>2, <4>3, <4>4 DEF CardsInv, CardsSound
    <3>2. CASE \E k \in Keys[d] : \E r \in Records[d][k] : Insert(d, k, r) \/ Modify(d, k, r)
      BY <2>2, <3>2, BalancesNext
    <3>3. CASE \E k \in Keys[d] : \E r \in Records[d][k] :
                 \E w \in {<<>>} \cup {<<q>> : q \in Records[d][k]} : Enter(d, k, r, w)
      BY <2>2, <3>3, BalancesNext
    <3> QED BY <1>6, <2>2, <3>1, <3>2, <3>3, ClearBalances
  <2> QED BY <2>1, <2>2
<1>7. CASE \E p, a, list, n :
             \/ AddAxon(p, a) \/ RemoveAxon(p, a) \/ InsertList(p, list) \/ RemoveList(p)
             \/ Truncate(p, n) \/ ClearAxons \/ CommitmentAxons
  BY <1>3, <1>7 DEF AddAxon, RemoveAxon, InsertList, RemoveList, Truncate, ClearAxons,
                    CommitmentAxons, MutateAxons
<1>8. CASE \E c, r : InsertCard(c, r) \/ RemoveCard(c) \/ ClearCards
  BY <1>8, CardsStep
<1>9. CASE MutateNext
  BY <1>3, <1>6, <1>7, <1>8, <1>9 DEF MutateNext, set_root_version
<1>10. CASE UNCHANGED vars
  BY <1>3, <1>10 DEF vars, dimVars
<1> QED
  BY <1>4, <1>5, <1>7, <1>9, <1>10
  DEF Next, DimNext, ReadNext, Query, QueryBalance, LookProof, Keep

-----------------------------------------------------------------------------
(* The snapshot of positions *)

\* SumOf is a sum in the sense of FoldTheorems.
LEMMA SumOfIsSum ==
  ASSUME NEW w, IsFiniteSet(DOMAIN w), \A x \in DOMAIN w : w[x] \in Int
  PROVE  \E g : IsSum(g, w, DOMAIN w) /\ SumOf(w) = g[DOMAIN w]
<1> DEFINE S == DOMAIN w
           P(g) == g = [s \in SUBSET S |->
                          IF s = {} THEN 0
                          ELSE w[CHOOSE x \in s : TRUE] + g[s \ {CHOOSE x \in s : TRUE}]]
<1>1. ASSUME NEW g PROVE P(g) <=> IsSum(g, w, S)
  BY DEF IsSum, SumAt, Pick
<1>2. \E g : P(g)
  <2>1. PICK g : IsSum(g, w, S)
    BY SumExists
  <2> HIDE DEF P
  <2> QED BY <1>1, <2>1
<1> DEFINE iter == CHOOSE g : P(g)
<1>3. P(iter)
  BY <1>2, Zenon
<1>4. SumOf(w) = iter[S]
  BY Zenon DEF SumOf, MapThenSumSet, MapThenFoldSet
<1> HIDE DEF P, iter
<1> QED BY <1>1, <1>3, <1>4

\* Any sum that gives the same weights to more elements has its value.
LEMMA SumOfWithin ==
  ASSUME NEW S, IsFiniteSet(S), NEW w, NEW g, IsSum(g, w, S), \A x \in S : w[x] \in Int,
         NEW v, NEW r, r = DOMAIN v, r \in SUBSET S, \A x \in r : v[x] = w[x]
  PROVE  SumOf(v) = g[r]
<1>1. IsFiniteSet(r) /\ \A x \in r : v[x] \in Int
  BY FS_Subset
<1>2. PICK h : IsSum(h, v, DOMAIN v) /\ SumOf(v) = h[DOMAIN v]
  BY <1>1, SumOfIsSum
<1>3. IsSum(h, v, r) /\ SumOf(v) = h[r]
  BY <1>2
<1>4. h[r] = g[r]
  BY <1>1, <1>3, SumUnique
<1> QED BY <1>3, <1>4

All == {PositionOf(c) : c \in DOMAIN keyed["cards"].map}

OfAxon(a) == {p \in All : p.record.particle = a}

Pairs == {<<a, indexed(a)>> : a \in DOMAIN by_axon}

\* The index gives the positions of an axon, and every axon that has one.
LEMMA IndexedExact ==
  ASSUME CardsInv
  PROVE  /\ \A a : indexed(a) = OfAxon(a)
         /\ DOMAIN by_axon = {p.record.particle : p \in All}
<1> DEFINE cards == keyed["cards"].map
<1>1. /\ \A a, c : Has(by_axon, a, c) <=> c \in DOMAIN cards /\ cards[c].particle = a
      /\ \A a \in DOMAIN by_axon : DOMAIN by_axon[a] # {}
      /\ \A a, c : Has(by_axon, a, c) => by_axon[a][c] = stake_key(c)
  BY DEF CardsInv, CardsSound, Indexes, Stakes
<1>2. \A c : PositionOf(c).record = cards[c]
  BY DEF PositionOf
<1>3. ASSUME NEW a PROVE indexed(a) = OfAxon(a)
  <2> DEFINE Through(c) == [card |-> c, record |-> cards[c], stake |-> balance_at(by_axon[a][c])]
             D == DOMAIN Look(by_axon, a, Empty)
  <2>1. \A c : c \in D <=> Has(by_axon, a, c)
    BY DEF Look, Has, Empty
  <2>2. \A c \in D : Through(c) = PositionOf(c)
    BY <1>1, <2>1 DEF PositionOf
  <2>3. indexed(a) = {Through(c) : c \in D}
    BY DEF indexed
  <2> HIDE DEF Through, D
  <2>4. indexed(a) = {PositionOf(c) : c \in D}
    BY <2>2, <2>3
  <2>5. \A c : c \in D <=> c \in DOMAIN cards /\ cards[c].particle = a
    BY <1>1, <2>1
  <2>6. OfAxon(a) = {PositionOf(c) : c \in D}
    BY <1>2, <2>5 DEF OfAxon, All
  <2> QED BY <2>4, <2>6
<1>4. ASSUME NEW a \in DOMAIN by_axon PROVE \E p \in All : p.record.particle = a
  <2>1. PICK c : Has(by_axon, a, c)
    BY <1>1 DEF Has
  <2> QED BY <1>1, <1>2, <2>1 DEF All
<1>5. ASSUME NEW p \in All PROVE p.record.particle \in DOMAIN by_axon
  <2>1. PICK c \in DOMAIN cards : p = PositionOf(c)
    BY DEF All
  <2>2. Has(by_axon, cards[c].particle, c)
    BY <1>1
  <2> QED BY <1>2, <2>1, <2>2 DEF Has
<1> QED BY <1>3, <1>4, <1>5

\* There are as many positions as cards, finitely many, with whole stakes.
LEMMA PositionsFinite ==
  ASSUME CardsInv
  PROVE  /\ IsFiniteSet(All) /\ Cardinality(All) = Cardinality(DOMAIN keyed["cards"].map)
         /\ \A p \in All : p.stake \in Nat
         /\ IsFiniteSet(DOMAIN by_axon) /\ IsFiniteSet(Pairs)
<1> DEFINE D == DOMAIN keyed["cards"].map
           f == [c \in D |-> PositionOf(c)]
           particle == [p \in All |-> p.record.particle]
           pair == [a \in DOMAIN by_axon |-> <<a, indexed(a)>>]
<1>1. IsFiniteSet(D)
  BY DEF CardsInv, CardsSound
<1>2. f \in Bijection(D, All)
  BY DEF Bijection, Injection, Surjection, IsInjective, All, PositionOf
<1>3. IsFiniteSet(All) /\ Cardinality(All) = Cardinality(D)
  <2>1. ExistsBijection(D, All)
    BY <1>2 DEF ExistsBijection
  <2> HIDE DEF D
  <2> QED BY <1>1, <2>1, FS_Bijection
<1>4. ASSUME NEW p \in All PROVE p.stake \in Nat
  <2>1. PICK c \in D : p = PositionOf(c)
    BY DEF All
  <2>2. balance_at(stake_key(c)) \in Nat
    BY DEF CardsInv, CardsSound, balance_at, Look
  <2> QED BY <2>1, <2>2 DEF PositionOf
<1>5. IsFiniteSet(DOMAIN by_axon)
  <2>1. particle \in Surjection(All, DOMAIN by_axon)
    BY IndexedExact DEF Surjection
  <2> HIDE DEF particle
  <2> QED BY <1>3, <2>1, FS_Surjection
<1>6. IsFiniteSet(Pairs)
  <2>1. pair \in Surjection(DOMAIN by_axon, Pairs)
    BY DEF Surjection, Pairs
  <2> HIDE DEF pair
  <2> QED BY <1>5, <2>1, FS_Surjection
<1> QED BY <1>3, <1>4, <1>5, <1>6

\* Sums taken axon by axon are sums over all the positions.
LEMMA SumByAxon ==
  ASSUME CardsInv, NEW P \in SUBSET All, NEW w, NEW g, IsSum(g, w, P), \A p \in P : w[p] \in Int,
         NEW s, DOMAIN s = Pairs,
         \A a \in DOMAIN by_axon : s[<<a, indexed(a)>>] = g[{p \in P : p.record.particle = a}]
  PROVE  SumOf(s) = g[P]
<1> DEFINE c == [p \in P |-> <<p.record.particle, indexed(p.record.particle)>>]
<1>1. IsFiniteSet(P) /\ IsFiniteSet(Pairs)
  BY PositionsFinite, FS_Subset
<1>2. \A p \in P : c[p] \in Pairs
  BY IndexedExact DEF Pairs
<1>3. ASSUME NEW k \in Pairs PROVE s[k] = g[{p \in P : c[p] = k}] /\ s[k] \in Int
  <2>1. PICK a \in DOMAIN by_axon : k = <<a, indexed(a)>>
    BY DEF Pairs
  <2> DEFINE A == {p \in P : p.record.particle = a}
             B == {p \in P : c[p] = k}
  <2>2. A = B /\ A \in SUBSET P
    BY <2>1
  <2>3. s[k] = g[A]
    BY <2>1
  <2> HIDE DEF A, B
  <2>4. s[k] = g[B]
    BY <2>2, <2>3, Zenon
  <2>5. g[A] \in Int
    BY <1>1, <2>2, SumType
  <2> QED BY <2>3, <2>4, <2>5 DEF B
<1> HIDE DEF c
<1>4. PICK h : IsSum(h, s, Pairs) /\ SumOf(s) = h[Pairs]
  <2>1. IsFiniteSet(DOMAIN s) /\ \A x \in DOMAIN s : s[x] \in Int
    BY <1>1, <1>3
  <2>2. PICK h : IsSum(h, s, DOMAIN s) /\ SumOf(s) = h[DOMAIN s]
    BY <2>1, SumOfIsSum
  <2> QED BY <2>2
<1>5. h[Pairs] = g[P]
  <2>1. \A k \in Pairs : s[k] = g[Class(P, c, k)]
    BY <1>3 DEF Class
  <2> QED BY <1>1, <1>2, <1>4, <2>1, SumPartition
<1> QED BY <1>4, <1>5

\* What the sums of an axon are of.
LEMMA SnapshotSums ==
  ASSUME CardsInv
  PROVE  /\ \A a : side_sums(a) =
              [plus  |-> SumStake({p \in OfAxon(a) : p.record.valence # "against"}),
               minus |-> SumStake({p \in OfAxon(a) : p.record.valence = "against"})]
         /\ positions.len = Cardinality(DOMAIN keyed["cards"].map)
         /\ positions.total = SumStake(All)
         /\ positions.active = SumStake({p \in All : p.record.valence # "neutral"})
<1> DEFINE w == [p \in All |-> p.stake]
           Plus(a)  == {p \in OfAxon(a) : p.record.valence # "against"}
           Minus(a) == {p \in OfAxon(a) : p.record.valence = "against"}
           Active   == {p \in All : p.record.valence # "neutral"}
<1>1. IsFiniteSet(All) /\ (\A p \in All : w[p] = p.stake /\ w[p] \in Int)
  BY PositionsFinite
<1> HIDE DEF w
<1>2. PICK g : IsSum(g, w, All)
  BY <1>1, SumExists
<1>3. ASSUME NEW P \in SUBSET All PROVE SumStake(P) = g[P]
  <2> DEFINE v == [p \in P |-> p.stake]
  <2>1. DOMAIN v = P /\ \A p \in P : v[p] = w[p]
    BY <1>1
  <2> HIDE DEF v
  <2>2. SumOf(v) = g[P]
    BY <1>1, <1>2, <2>1, SumOfWithin
  <2> QED BY <2>2 DEF SumStake, v
<1>4. ASSUME NEW a PROVE side_sums(a) = [plus |-> SumStake(Plus(a)), minus |-> SumStake(Minus(a))]
  <2>1. /\ {p \in indexed(a) : Side(p.record.valence) = "plus"} = Plus(a)
        /\ {p \in indexed(a) : Side(p.record.valence) = "minus"} = Minus(a)
    BY IndexedExact DEF Side
  <2> QED BY <2>1, Zenon DEF side_sums
<1>5. ASSUME NEW a PROVE side_sums(a).plus + side_sums(a).minus = g[OfAxon(a)]
  <2>1. /\ OfAxon(a) \in SUBSET All /\ Plus(a) \in SUBSET All /\ Minus(a) \in SUBSET All
        /\ Plus(a) \cap Minus(a) = {} /\ OfAxon(a) = Plus(a) \cup Minus(a)
    BY DEF OfAxon
  <2>2. side_sums(a).plus = g[Plus(a)] /\ side_sums(a).minus = g[Minus(a)]
    BY <1>3, <1>4, <2>1
  <2> HIDE DEF Plus, Minus
  <2>3. g[OfAxon(a)] = g[Plus(a)] + g[Minus(a)]
    BY <1>1, <1>2, <2>1, SumUnion
  <2> QED BY <2>2, <2>3
<1>6. positions.total = SumStake(All)
  <2> DEFINE s == [x \in Pairs |-> side_sums(x[1]).plus + side_sums(x[1]).minus]
  <2>1. positions.total = SumOf(s)
    BY DEF positions, Pairs
  <2>2. \A a \in DOMAIN by_axon : s[<<a, indexed(a)>>] = g[{p \in All : p.record.particle = a}]
    BY <1>5 DEF Pairs, OfAxon
  <2>3. DOMAIN s = Pairs /\ All \in SUBSET All
    OBVIOUS
  <2> HIDE DEF s
  <2>4. SumOf(s) = g[All]
    BY <1>1, <1>2, <2>2, <2>3, SumByAxon, ZenonT(30)
  <2> QED BY <1>3, <2>1, <2>4
<1>7. positions.len = Cardinality(DOMAIN keyed["cards"].map)
  <2> DEFINE one == [p \in All |-> 1]
             s   == [x \in Pairs |-> Cardinality(x[2])]
  <2>1. \A p \in All : one[p] = 1 /\ one[p] \in Int
    OBVIOUS
  <2> HIDE DEF one
  <2>2. PICK h : IsSum(h, one, All)
    BY <1>1, <2>1, SumExists
  <2>3. \A P \in SUBSET All : h[P] = Cardinality(P)
    BY <1>1, <2>1, <2>2, SumOnes
  <2>4. ASSUME NEW a \in DOMAIN by_axon
        PROVE  s[<<a, indexed(a)>>] = h[{p \in All : p.record.particle = a}]
    <3>1. s[<<a, indexed(a)>>] = Cardinality(indexed(a))
      BY DEF Pairs
    <3>2. indexed(a) = OfAxon(a)
      BY IndexedExact
    <3>3. OfAxon(a) \in SUBSET All
      BY DEF OfAxon
    <3>4. h[OfAxon(a)] = Cardinality(OfAxon(a))
      BY <2>3, <3>3
    <3>5. s[<<a, indexed(a)>>] = h[OfAxon(a)]
      BY <3>1, <3>2, <3>4, Zenon
    <3> QED BY <3>5 DEF OfAxon
  <2>5. positions.len = SumOf(s)
    BY DEF positions, Pairs
  <2>6. DOMAIN s = Pairs /\ All \in SUBSET All
    OBVIOUS
  <2> HIDE DEF s
  <2>7. SumOf(s) = h[All]
    BY <2>1, <2>2, <2>4, <2>6, SumByAxon, ZenonT(30)
  <2> QED BY <2>3, <2>5, <2>6, <2>7, PositionsFinite
<1>8. positions.active = SumStake(Active)
  <2> DEFINE s == [x \in Pairs |-> SumStake({p \in x[2] : is_active(p.record.valence)})]
             v == [p \in Active |-> p.stake]
  <2>1. Active \in SUBSET All /\ IsFiniteSet(Active) /\ \A p \in Active : v[p] = w[p] /\ v[p] \in Int
    BY <1>1, FS_Subset
  <2>2. PICK h : IsSum(h, v, Active)
    <3> HIDE DEF v, Active
    <3> QED BY <2>1, SumExists
  <2>3. ASSUME NEW P \in SUBSET Active PROVE SumStake(P) = h[P]
    <3>1. SumStake(P) = g[P] /\ P \in SUBSET All
      BY <1>3, <2>1
    <3> HIDE DEF v, Active
    <3>2. g[P] = h[P]
      BY <1>1, <1>2, <2>1, <2>2, <3>1, SumUnique
    <3> QED BY <3>1, <3>2
  <2>4. ASSUME NEW a \in DOMAIN by_axon
        PROVE  s[<<a, indexed(a)>>] = h[{p \in Active : p.record.particle = a}]
    <3> DEFINE A == {p \in indexed(a) : is_active(p.record.valence)}
               B == {p \in Active : p.record.particle = a}
    <3>1. s[<<a, indexed(a)>>] = SumStake(A)
      BY DEF Pairs
    <3>2. A = B /\ B \in SUBSET Active
      BY IndexedExact DEF OfAxon, is_active
    <3> HIDE DEF A, B
    <3>3. SumStake(B) = h[B]
      BY <2>3, <3>2
    <3>4. s[<<a, indexed(a)>>] = h[B]
      BY <3>1, <3>2, <3>3, Zenon
    <3> QED BY <3>4 DEF B
  <2>5. positions.active = SumOf(s)
    BY DEF positions, Pairs
  <2>6. DOMAIN s = Pairs /\ Active \in SUBSET Active
    OBVIOUS
  <2> HIDE DEF s, v, Active
  <2>7. SumOf(s) = h[Active]
    BY <2>1, <2>2, <2>4, <2>6, SumByAxon, ZenonT(30)
  <2> QED BY <2>3, <2>5, <2>6, <2>7
<1> QED BY <1>4, <1>6, <1>7, <1>8

LEMMA SnapshotFollows == ASSUME CardsInv PROVE SnapshotExact
<1>1. /\ \A a : indexed(a) = OfAxon(a)
      /\ DOMAIN by_axon = {p.record.particle : p \in All}
  BY IndexedExact
<1>2. positions.axons =
        {[axon |-> a, sums |-> side_sums(a), positions |-> indexed(a)] : a \in DOMAIN by_axon}
  <2> DEFINE Rec(a, P) == [axon |-> a, sums |-> side_sums(a), positions |-> P]
  <2>1. positions.axons = {Rec(x[1], x[2]) : x \in Pairs}
    BY DEF positions, Pairs
  <2> HIDE DEF Rec
  <2>2. {Rec(x[1], x[2]) : x \in Pairs} = {Rec(a, indexed(a)) : a \in DOMAIN by_axon}
    <3> DEFINE P(a) == <<a, indexed(a)>>
    <3>1. Pairs = {P(a) : a \in DOMAIN by_axon}
      BY DEF Pairs
    <3>2. \A a : P(a)[1] = a /\ P(a)[2] = indexed(a)
      OBVIOUS
    <3> HIDE DEF P
    <3>3. ASSUME NEW x \in Pairs
          PROVE  \E a \in DOMAIN by_axon : Rec(x[1], x[2]) = Rec(a, indexed(a))
      BY <3>1, <3>2
    <3>4. ASSUME NEW a \in DOMAIN by_axon
          PROVE  \E x \in Pairs : Rec(x[1], x[2]) = Rec(a, indexed(a))
      BY <3>1, <3>2
    <3> QED BY <3>3, <3>4
  <2> QED BY <2>1, <2>2, Zenon DEF Rec
<1>3. positions.axons =
        {[axon |-> a,
          sums |-> [plus  |-> SumStake({p \in OfAxon(a) : p.record.valence # "against"}),
                    minus |-> SumStake({p \in OfAxon(a) : p.record.valence = "against"})],
          positions |-> OfAxon(a)] : a \in {p.record.particle : p \in All}}
  BY <1>1, <1>2, SnapshotSums, Zenon
<1> QED BY <1>3, SnapshotSums DEF SnapshotExact, SumStake, All, OfAxon

\* The snapshot the chain takes through the axon index is the one the committed cards and
\* balances determine (Cards and positions, position.rs).
THEOREM SnapshotAlwaysExact == Spec => []SnapshotExact
<1>1. Init => Sound /\ CardsInv
  BY InitSound, CardsInit DEF Init
<1>2. Sound /\ CardsInv /\ [Next]_vars => Sound' /\ CardsInv'
  BY NextSound, CardsInvNext
<1>3. CardsInv => SnapshotExact
  BY SnapshotFollows
<1> QED
  BY <1>1, <1>2, <1>3, PTL DEF Spec

-----------------------------------------------------------------------------
(* The fields of a dimension's records *)

Kept ==
  /\ \A d \in KeyedDims :
       /\ IsFiniteSet(DOMAIN keyed[d].map)
       /\ \A k \in DOMAIN keyed[d].map : k \in Keys[d] /\ keyed[d].map[k] \in Records[d][k]
  /\ DOMAIN axons_out.map \subseteq Ids
  /\ IsFiniteSet(DOMAIN axons_out.map)
  /\ \A p \in DOMAIN axons_out.map : axons_out.map[p] \in Seq(Ids)

\* A run of n fields, and one run after another.
IsFields(s, n) == s \in Seq(Nat) /\ Len(s) = n

Join(s, t) == s \o t

Runs == Seq(Nat)

LEMMA SeqConcat ==
  ASSUME NEW s \in Seq(Nat), NEW t \in Seq(Nat)
  PROVE  /\ s \o t \in Seq(Nat) /\ Len(s \o t) = Len(s) + Len(t)
         /\ Len(s) \in Nat /\ Len(t) \in Nat
         /\ \A i \in 1..Len(s) : (s \o t)[i] = s[i]
         /\ \A i \in 1..Len(t) : (s \o t)[Len(s) + i] = t[i]
OBVIOUS

LEMMA RunsConcat ==
  ASSUME NEW s \in Runs, NEW t \in Runs
  PROVE  /\ Join(s, t) \in Runs /\ Len(Join(s, t)) = Len(s) + Len(t)
         /\ Len(s) \in Nat /\ Len(t) \in Nat
         /\ \A i \in 1..Len(s) : Join(s, t)[i] = s[i]
         /\ \A i \in 1..Len(t) : Join(s, t)[Len(s) + i] = t[i]
BY SeqConcat, Zenon DEF Runs, Join

LEMMA JoinFields ==
  ASSUME NEW s, NEW t, NEW m \in Nat, IsFields(s, m), NEW n \in Nat, IsFields(t, n)
  PROVE  /\ IsFields(Join(s, t), m + n)
         /\ \A i \in 1..m : Join(s, t)[i] = s[i]
         /\ \A i \in 1..n : Join(s, t)[m + i] = t[i]
<1>1. s \in Runs /\ t \in Runs /\ m = Len(s) /\ n = Len(t)
  BY Zenon DEF IsFields, Runs
<1>2. /\ Join(s, t) \in Runs /\ Len(Join(s, t)) = Len(s) + Len(t)
      /\ \A i \in 1..Len(s) : Join(s, t)[i] = s[i]
      /\ \A i \in 1..Len(t) : Join(s, t)[Len(s) + i] = t[i]
  BY <1>1, RunsConcat, Zenon
<1>3. /\ Join(s, t) \in Seq(Nat) /\ Len(Join(s, t)) = m + n
  BY <1>1, <1>2, Zenon DEF Runs
<1> QED BY <1>1, <1>2, <1>3, Zenon DEF IsFields

LEMMA Limbs ==
  ASSUME NEW v \in Nat
  PROVE  /\ IsFields(u64_limbs(v), 2)
         /\ u64_limbs(v)[1] = v % Base /\ u64_limbs(v)[2] = v \div Base
         /\ v % Base \in Nat /\ v \div Base \in Nat /\ (v % Base) + Base * (v \div Base) = v
<1>1. Base \in Nat /\ Base > 0
  BY DimensionAssumption
<1>2. v % Base \in Nat /\ v \div Base \in Nat /\ (v % Base) + Base * (v \div Base) = v
  BY <1>1
<1> QED BY <1>2 DEF u64_limbs, IsFields

LEMMA StringFields ==
  ASSUME NEW s \in Strings PROVE IsFields(s, KEY_FIELDS)
<1>1. KEY_FIELDS \in Nat /\ Base \in Nat
  BY DimensionAssumption
<1> QED BY <1>1 DEF Strings, IsFields

LEMMA ZeroFields ==
  ASSUME NEW n \in Nat PROVE IsFields([i \in 1..n |-> 0], n)
BY DEF IsFields

\* The map of a namespace, the key of an entry and its fields.
MapOf(d) == IF d = "axons_out" THEN axons_out.map ELSE keyed[d].map

ValsOf(d, k) ==
  IF d = "axons_out" THEN u64_limbs(Len(axons_out.map[k])) \o FlattenSeq(axons_out.map[k])
  ELSE leaf_vals(d, keyed[d].map[k])

\* How wide the verifier takes the fields of an entry to be.
WidthOf(d, vals) ==
  CASE d \in {"neurons", "balances"} -> 2
    [] d = "time"      -> KEY_FIELDS
    [] d = "cards"     -> KEY_FIELDS + 2
    [] d = "signals"   -> 2 * KEY_FIELDS + 4
    [] d = "axons_out" -> 2 + KEY_FIELDS * (vals[1] + Base * vals[2])

LEMMA KeyTypes ==
  ASSUME Kept, NEW d \in Dims, NEW k \in DOMAIN MapOf(d)
  PROVE  /\ IF d = "time" THEN k \in Nat ELSE k \in Strings
         /\ d # "axons_out" => keyed[d].map[k] \in RecordOf(d)
<1>1. CASE d = "axons_out"
  BY <1>1, DimensionAssumption DEF Kept, MapOf
<1>2. CASE d # "axons_out"
  <2>1. d \in KeyedDims /\ k \in DOMAIN keyed[d].map
    BY <1>2 DEF Dims, MapOf
  <2>2. k \in Keys[d] /\ keyed[d].map[k] \in Records[d][k]
    BY <2>1 DEF Kept
  <2>3. k \in (IF d = "time" THEN Nat ELSE Strings) /\ keyed[d].map[k] \in RecordOf(d)
    BY <2>1, <2>2, DimensionAssumption
  <2> QED BY <2>3
<1> QED BY <1>1, <1>2

LEMMA KeyBytes ==
  ASSUME NEW d, NEW k, IF d = "time" THEN k \in Nat ELSE k \in Strings
  PROVE  /\ IsFields(key_bytes(d, k), KEY_FIELDS)
         /\ d = "time" => /\ key_bytes(d, k)[1] = k % Base /\ key_bytes(d, k)[2] = k \div Base
                          /\ \A i \in 3..KEY_FIELDS : key_bytes(d, k)[i] = 0
<1>1. KEY_FIELDS \in Nat /\ KEY_FIELDS >= 2
  BY DimensionAssumption
<1>2. CASE d = "time"
  <2> DEFINE z == [i \in 1..(KEY_FIELDS - 2) |-> 0]
             l == u64_limbs(k)
  <2>1. KEY_FIELDS - 2 \in Nat /\ \A i \in 1..(KEY_FIELDS - 2) : z[i] = 0
    BY <1>1
  <2>2. IsFields(z, KEY_FIELDS - 2)
    BY <2>1, ZeroFields
  <2>3. IsFields(l, 2) /\ l[1] = k % Base /\ l[2] = k \div Base
    BY <1>2, Limbs
  <2>4. key_bytes(d, k) = Join(l, z)
    BY <1>2 DEF key_bytes, Join
  <2> HIDE DEF z, l
  <2> DEFINE c == Join(l, z)
             m == KEY_FIELDS - 2
  <2>5. /\ IsFields(c, 2 + m)
        /\ \A i \in 1..2 : c[i] = l[i]
        /\ \A i \in 1..m : c[2 + i] = z[i]
    BY <2>1, <2>2, <2>3, JoinFields
  <2> HIDE DEF c
  <2>6. 2 + m = KEY_FIELDS /\ c[1] = l[1] /\ c[2] = l[2]
    BY <1>1, <2>5
  <2>7. ASSUME NEW i \in 3..KEY_FIELDS PROVE c[i] = 0
    <3>1. i - 2 \in 1..m /\ 2 + (i - 2) = i
      BY <1>1
    <3>2. c[2 + (i - 2)] = z[i - 2] /\ z[i - 2] = 0
      BY <2>1, <2>5, <3>1
    <3> QED BY <3>1, <3>2
  <2> QED BY <2>3, <2>4, <2>5, <2>6, <2>7 DEF c
<1>3. CASE d # "time"
  BY <1>3, StringFields DEF key_bytes
<1> QED BY <1>2, <1>3

\* The keys of different heights differ.
LEMMA KeyBytesTell ==
  ASSUME NEW d, NEW k, IF d = "time" THEN k \in Nat ELSE k \in Strings,
         NEW l, IF d = "time" THEN l \in Nat ELSE l \in Strings, key_bytes(d, k) = key_bytes(d, l)
  PROVE  k = l
<1>1. KEY_FIELDS \in Nat /\ KEY_FIELDS >= 2
  BY DimensionAssumption
<1>2. CASE d = "time"
  <2>3. k % Base = l % Base /\ k \div Base = l \div Base /\ k \in Nat /\ l \in Nat
    BY <1>2, KeyBytes
  <2>4. (k % Base) + Base * (k \div Base) = k /\ (l % Base) + Base * (l \div Base) = l
    BY <2>3, Limbs
  <2> QED BY <2>3, <2>4
<1>3. CASE d # "time"
  BY <1>3 DEF key_bytes
<1> QED BY <1>2, <1>3

LEMMA ListFlat ==
  ASSUME NEW q \in Seq(Ids)
  PROVE  IsFields(FlattenSeq(q), KEY_FIELDS * Len(q))
<1> DEFINE m == Len(q)
           t == FlattenSeq(q)
<1>1. m \in Nat /\ \A n \in 1..m : q[n] \in Ids
  OBVIOUS
<1>2. KEY_FIELDS \in Nat /\ Ids \subseteq Strings
  BY DimensionAssumption
<1>3. q \in Seq(Seq(Nat)) /\ \A n \in 1..m : Len(q[n]) = KEY_FIELDS
  <2>1. \A s \in Ids : s \in Seq(Nat) /\ Len(s) = KEY_FIELDS
    BY <1>2, StringFields DEF IsFields
  <2>2. Ids \subseteq Seq(Nat)
    BY <2>1
  <2>3. q \in Seq(Seq(Nat))
    BY <2>2
  <2> QED BY <1>1, <2>1, <2>3
<1>4. t \in Seq(Nat) /\ \E o : Laid(t, q, m, o)
  BY <1>3, FlattenLaid
<1>5. PICK o : Laid(t, q, m, o)
  BY <1>4
<1> HIDE DEF m, t
<1> DEFINE U == {n \in Nat : n \in 0..m => o[n + 1] = KEY_FIELDS * n}
<1>6. 0 \in U
  BY <1>2, <1>5 DEF Laid
<1>7. ASSUME NEW n \in Nat, n \in U PROVE n + 1 \in U
  <2> SUFFICES ASSUME n + 1 \in 0..m PROVE o[n + 2] = KEY_FIELDS * (n + 1)
    OBVIOUS
  <2>1. o[n + 1] = KEY_FIELDS * n /\ n + 1 \in 1..m /\ (n + 1) + 1 = n + 2
    BY <1>1, <1>7
  <2>2. o[n + 2] = o[n + 1] + KEY_FIELDS
    BY <1>3, <1>5, <2>1 DEF Laid
  <2> QED BY <1>2, <2>1, <2>2
<1>8. m \in U
  <2> HIDE DEF U
  <2> QED BY <1>1, <1>6, <1>7, Induction
<1>9. Len(t) = KEY_FIELDS * m
  BY <1>1, <1>5, <1>8 DEF Laid
<1> QED BY <1>4, <1>9 DEF t, m, IsFields

\* What the fields of an entry are.
LEMMA ValsShape ==
  ASSUME Kept, NEW d \in Dims, NEW k \in DOMAIN MapOf(d)
  PROVE  LET v == ValsOf(d, k) IN
         \E w \in Nat : IsFields(v, w) /\ WidthOf(d, v) = w /\ PrimaryColumn(d) < w
<1> DEFINE r == keyed[d].map[k]
           v == ValsOf(d, k)
<1>1. KEY_FIELDS \in Nat /\ KEY_FIELDS >= 2 /\ Base \in Nat /\ 2 \in Nat
  BY DimensionAssumption
<1>2. CASE d = "axons_out"
  <2> DEFINE q == axons_out.map[k]
             n == Len(q)
             u == u64_limbs(n)
             t == FlattenSeq(q)
             w == 2 + KEY_FIELDS * n
  <2>1. q \in Seq(Ids)
    BY <1>2 DEF Kept, MapOf
  <2>2. n \in Nat /\ IsFields(t, KEY_FIELDS * n)
    BY <2>1, ListFlat
  <2>3. IsFields(u, 2) /\ u[1] + Base * u[2] = n
    BY <2>2, Limbs
  <2>4. v = Join(u, t)
    BY <1>2 DEF ValsOf, Join
  <2> HIDE DEF n, t, u, q, v
  <2>5. KEY_FIELDS * n \in Nat /\ PrimaryColumn(d) = 0
    BY <1>1, <1>2, <2>2 DEF PrimaryColumn
  <2>6. IsFields(v, w) /\ v[1] = u[1] /\ v[2] = u[2]
    BY <2>2, <2>3, <2>4, <2>5, JoinFields
  <2>7. WidthOf(d, v) = w
    BY <1>2, <2>3, <2>6 DEF WidthOf
  <2> QED BY <2>5, <2>6, <2>7 DEF v
<1>3. CASE d # "axons_out"
  <2>1. r \in RecordOf(d) /\ d \in {"neurons", "balances", "time", "cards", "signals"}
    BY <1>3, KeyTypes DEF Dims, KeyedDims
  <2>2. v = leaf_vals(d, r)
    BY <1>3 DEF ValsOf
  <2> HIDE DEF v, r
  <2>3. CASE d \in {"neurons", "balances"}
    <3>1. v = u64_limbs(r) /\ r \in Nat /\ PrimaryColumn(d) = 0 /\ WidthOf(d, v) = 2
      BY <2>1, <2>2, <2>3 DEF leaf_vals, RecordOf, PrimaryColumn, WidthOf
    <3>2. IsFields(v, 2)
      BY <3>1, Limbs
    <3> QED BY <3>1, <3>2 DEF v
  <2>4. CASE d = "time"
    <3>1. v = r /\ r \in Strings /\ PrimaryColumn(d) = 0 /\ WidthOf(d, v) = KEY_FIELDS
      BY <2>1, <2>2, <2>4 DEF leaf_vals, RecordOf, PrimaryColumn, WidthOf
    <3>2. IsFields(v, KEY_FIELDS)
      BY <3>1, StringFields
    <3> QED BY <1>1, <3>1, <3>2 DEF v
  <2>5. CASE d = "cards"
    <3> DEFINE p == r.particle
               u == u64_limbs(byte(r.valence))
    <3>1. v = Join(p, u) /\ p \in Strings /\ r.valence \in {"against", "neutral", "for"}
          /\ PrimaryColumn(d) = 0 /\ WidthOf(d, v) = KEY_FIELDS + 2
      BY <2>1, <2>2, <2>5 DEF leaf_vals, RecordOf, PrimaryColumn, WidthOf, Join
    <3>2. byte(r.valence) \in Nat
      BY <3>1 DEF byte
    <3>3. IsFields(u, 2) /\ IsFields(p, KEY_FIELDS)
      BY <3>1, <3>2, Limbs, StringFields
    <3> HIDE DEF u, p
    <3>4. IsFields(v, KEY_FIELDS + 2)
      BY <1>1, <3>1, <3>3, JoinFields
    <3> QED BY <1>1, <3>1, <3>4 DEF v
  <2>6. CASE d = "signals"
    <3> DEFINE a == r.neuron
               b == r.network
               c == u64_limbs(r.link_count)
               e == u64_limbs(r.step)
    <3>1. /\ v = Join(Join(Join(a, b), c), e)
          /\ a \in Strings /\ b \in Strings /\ r.link_count \in Nat /\ r.step \in Nat
          /\ PrimaryColumn(d) = 2 * KEY_FIELDS /\ WidthOf(d, v) = 2 * KEY_FIELDS + 4
      BY <2>1, <2>2, <2>6 DEF leaf_vals, RecordOf, PrimaryColumn, WidthOf, Join
    <3>2. IsFields(a, KEY_FIELDS) /\ IsFields(b, KEY_FIELDS) /\ IsFields(c, 2) /\ IsFields(e, 2)
      BY <3>1, Limbs, StringFields
    <3> HIDE DEF a, b, c, e
    <3>3. IsFields(Join(a, b), KEY_FIELDS + KEY_FIELDS)
      BY <1>1, <3>2, JoinFields
    <3>4. IsFields(Join(Join(a, b), c), (KEY_FIELDS + KEY_FIELDS) + 2)
      BY <1>1, <3>2, <3>3, JoinFields
    <3>5. IsFields(v, ((KEY_FIELDS + KEY_FIELDS) + 2) + 2)
      BY <1>1, <3>1, <3>2, <3>4, JoinFields
    <3>6. ((KEY_FIELDS + KEY_FIELDS) + 2) + 2 = 2 * KEY_FIELDS + 4
      BY <1>1
    <3> QED BY <1>1, <3>1, <3>5, <3>6 DEF v
  <2> QED BY <2>1, <2>3, <2>4, <2>5, <2>6
<1> QED BY <1>2, <1>3

-----------------------------------------------------------------------------
(* The order of keys *)

LEMMA StringCells ==
  ASSUME NEW s \in Strings PROVE DOMAIN s = 1..KEY_FIELDS /\ \A i \in 1..KEY_FIELDS : s[i] \in Nat
<1>1. KEY_FIELDS \in Nat /\ Base \in Nat
  BY DimensionAssumption
<1> QED BY <1>1 DEF Strings

LEMMA BytesOrder ==
  /\ \A s \in Strings : ~BytesLess(s, s)
  /\ \A s, t, u \in Strings : BytesLess(s, t) /\ BytesLess(t, u) => BytesLess(s, u)
<1>1. ASSUME NEW s \in Strings PROVE ~BytesLess(s, s)
  <2>1. DOMAIN s = 1..KEY_FIELDS /\ \A i \in 1..KEY_FIELDS : s[i] \in Nat
    BY StringCells, Zenon
  <2>2. \A n \in Nat : ~(n < n)
    OBVIOUS
  <2>3. \A i \in DOMAIN s : ~(s[i] < s[i])
    BY <2>1, <2>2, Zenon
  <2> QED BY <2>3, Zenon DEF BytesLess
<1>2. ASSUME NEW s \in Strings, NEW t \in Strings, NEW u \in Strings,
             BytesLess(s, t), BytesLess(t, u)
      PROVE  BytesLess(s, u)
  <2>1. PICK i \in 1..KEY_FIELDS : s[i] < t[i] /\ \A j \in 1..(i - 1) : s[j] = t[j]
    BY <1>2, StringCells DEF BytesLess
  <2>2. PICK k \in 1..KEY_FIELDS : t[k] < u[k] /\ \A j \in 1..(k - 1) : t[j] = u[j]
    BY <1>2, StringCells DEF BytesLess
  <2>3. /\ \A j \in 1..KEY_FIELDS : s[j] \in Nat /\ t[j] \in Nat /\ u[j] \in Nat
        /\ DOMAIN s = 1..KEY_FIELDS /\ KEY_FIELDS \in Nat
    BY StringCells, DimensionAssumption
  <2>4. CASE i <= k
    <3>1. \A j \in 1..(i - 1) : s[j] = u[j]
      BY <2>1, <2>2, <2>3, <2>4
    <3>2. s[i] < u[i]
      BY <2>1, <2>2, <2>3, <2>4
    <3> QED BY <2>3, <3>1, <3>2 DEF BytesLess
  <2>5. CASE k < i
    <3>1. \A j \in 1..(k - 1) : s[j] = u[j]
      BY <2>1, <2>2, <2>3, <2>5
    <3>2. s[k] < u[k]
      BY <2>1, <2>2, <2>3, <2>5
    <3> QED BY <2>3, <3>1, <3>2 DEF BytesLess
  <2> QED BY <2>3, <2>4, <2>5
<1> QED BY <1>1, <1>2

LEMMA BytesTotal ==
  ASSUME NEW s \in Strings, NEW t \in Strings PROVE s = t \/ BytesLess(s, t) \/ BytesLess(t, s)
<1> DEFINE D == {i \in 1..KEY_FIELDS : s[i] # t[i]}
<1>1. /\ DOMAIN s = 1..KEY_FIELDS /\ DOMAIN t = 1..KEY_FIELDS
      /\ \A j \in 1..KEY_FIELDS : s[j] \in Nat /\ t[j] \in Nat
  BY StringCells
<1>2. KEY_FIELDS \in Nat
  BY DimensionAssumption
<1>3. CASE D = {}
  <2>1. \A j \in 1..KEY_FIELDS : s[j] = t[j]
    BY <1>3
  <2>2. s \in [1..KEY_FIELDS -> 0..(Base - 1)] /\ t \in [1..KEY_FIELDS -> 0..(Base - 1)]
    BY DEF Strings
  <2>3. s = t
    <3> DEFINE A == 1..KEY_FIELDS
               B == 0..(Base - 1)
    <3> HIDE DEF A, B
    <3>1. s \in [A -> B] /\ t \in [A -> B] /\ \A j \in A : s[j] = t[j]
      BY <2>1, <2>2 DEF A, B
    <3> QED BY <3>1
  <2> QED BY <2>3
<1>4. CASE D # {}
  <2>1. D \in SUBSET Nat
    BY <1>2
  <2>2. PICK i \in D : \A j \in D : i <= j
    <3> HIDE DEF D
    <3> QED BY <1>4, <2>1, LeastNatural
  <2>3. i \in 1..KEY_FIELDS /\ \A j \in 1..(i - 1) : s[j] = t[j]
    BY <1>2, <2>2
  <2>4. s[i] < t[i] \/ t[i] < s[i]
    BY <1>1, <2>2
  <2> QED BY <1>1, <2>3, <2>4 DEF BytesLess
<1> QED BY <1>3, <1>4

\* The keys of a namespace are of one kind.
IsKey(d, k) == IF d = "time" THEN k \in Nat ELSE k \in Strings

LEMMA KeyOrder ==
  ASSUME NEW d
  PROVE  /\ \A k : IsKey(d, k) => ~KeyLess(d, k, k)
         /\ \A k, l : IsKey(d, k) /\ IsKey(d, l) => k = l \/ KeyLess(d, k, l) \/ KeyLess(d, l, k)
         /\ \A k, l, m :
              (IsKey(d, k) /\ IsKey(d, l) /\ IsKey(d, m) /\ KeyLess(d, k, l) /\ KeyLess(d, l, m))
                => KeyLess(d, k, m)
<1>1. CASE d = "time"
  BY <1>1 DEF IsKey, KeyLess
<1>2. CASE d # "time"
  BY <1>2, BytesOrder, BytesTotal, Zenon DEF IsKey, KeyLess
<1> QED BY <1>1, <1>2

LEMMA InOrderExact ==
  ASSUME NEW d, NEW S, IsFiniteSet(S), \A k \in S : IsKey(d, k)
  PROVE  LET q == InOrder(d, S) IN
         /\ q \in Seq(S) /\ Len(q) = Cardinality(S) /\ Cardinality(S) \in Nat
         /\ \A k \in S : \E i \in 1..Len(q) : q[i] = k
         /\ \A i, j \in 1..Len(q) : i < j => KeyLess(d, q[i], q[j])
<1> DEFINE R == {z \in S \X S : KeyLess(d, z[1], z[2])}
           q == InOrder(d, S)
<1>1. \A k, l \in S : <<k, l>> \in R <=> KeyLess(d, k, l)
  OBVIOUS
<1>2. \A k \in S : Before(R, S, k) = {o \in S : KeyLess(d, o, k)}
  BY <1>1 DEF Before
<1> HIDE DEF R
<1>3. Orders(R, S)
  <2>1. \A k \in S : <<k, k>> \notin R
    BY <1>1, KeyOrder, Zenon
  <2>2. \A k, l \in S : k = l \/ <<k, l>> \in R \/ <<l, k>> \in R
    BY <1>1, KeyOrder, Zenon
  <2>3. \A k, l, m \in S : <<k, l>> \in R /\ <<l, m>> \in R => <<k, m>> \in R
    <3>1. ASSUME NEW k \in S, NEW l \in S, NEW m \in S, <<k, l>> \in R, <<l, m>> \in R
          PROVE  <<k, m>> \in R
      <4>1. KeyLess(d, k, l) /\ KeyLess(d, l, m) /\ IsKey(d, k) /\ IsKey(d, l) /\ IsKey(d, m)
        BY <1>1, <3>1, Zenon
      <4>2. KeyLess(d, k, m)
        BY <4>1, KeyOrder, Zenon
      <4> QED BY <1>1, <4>2, Zenon
    <3> QED BY <3>1, Zenon
  <2> QED BY <2>1, <2>2, <2>3, Zenon DEF Orders
<1>4. ASSUME NEW i \in 1..Cardinality(S), NEW k \in S, Cardinality(Before(R, S, k)) = i - 1
      PROVE  q[i] \in S /\ Cardinality(Before(R, S, q[i])) = i - 1
  <2>1. q[i] = CHOOSE l \in S : Cardinality({o \in S : KeyLess(d, o, l)}) = i - 1
    BY DEF InOrder
  <2> HIDE DEF q
  <2>2. q[i] \in S /\ Cardinality({o \in S : KeyLess(d, o, q[i])}) = i - 1
    BY <1>2, <1>4, <2>1
  <2> QED BY <1>2, <2>2
<1>5. IsVector(q, Cardinality(S))
  <2> DEFINE f(i) == CHOOSE k \in S : Cardinality({o \in S : KeyLess(d, o, k)}) = i - 1
  <2>1. q = [i \in 1..Cardinality(S) |-> f(i)]
    BY DEF InOrder
  <2> HIDE DEF f, q
  <2> QED BY <2>1 DEF IsVector
<1> HIDE DEF q
<1>6. /\ q \in Seq(S) /\ Len(q) = Cardinality(S) /\ Cardinality(S) \in Nat
      /\ \A k \in S : \E i \in 1..Len(q) : q[i] = k
      /\ \A i, j \in 1..Len(q) : i < j => <<q[i], q[j]>> \in R
  BY <1>3, <1>4, <1>5, RankExact
<1>7. \A i \in 1..Len(q) : q[i] \in S
  BY <1>6
<1>8. \A i, j \in 1..Len(q) : i < j => KeyLess(d, q[i], q[j])
  BY <1>1, <1>6, <1>7
<1> QED BY <1>6, <1>8 DEF q

-----------------------------------------------------------------------------
(* The layout of a table *)

KeysOf(d) == InOrder(d, DOMAIN MapOf(d))

LEMMA KeysOfOrder ==
  ASSUME Kept, NEW d \in Dims
  PROVE  /\ IsVector(KeysOf(d), Len(KeysOf(d))) /\ Len(KeysOf(d)) \in Nat
         /\ \A n \in 1..Len(KeysOf(d)) : KeysOf(d)[n] \in DOMAIN MapOf(d)
         /\ \A k \in DOMAIN MapOf(d) : \E n \in 1..Len(KeysOf(d)) : KeysOf(d)[n] = k
         /\ \A i, j \in 1..Len(KeysOf(d)) : i < j => KeyLess(d, KeysOf(d)[i], KeysOf(d)[j])
<1> DEFINE S == DOMAIN MapOf(d)
           q == KeysOf(d)
<1>1. IsFiniteSet(S)
  BY DEF Kept, MapOf, Dims
<1>2. \A k \in S : IsKey(d, k)
  BY KeyTypes, Zenon DEF IsKey
<1>3. /\ q \in Seq(S) /\ Len(q) = Cardinality(S) /\ Cardinality(S) \in Nat
      /\ \A k \in S : \E i \in 1..Len(q) : q[i] = k
      /\ \A i, j \in 1..Len(q) : i < j => KeyLess(d, q[i], q[j])
  BY <1>1, <1>2, InOrderExact DEF KeysOf
<1> HIDE DEF S, q
<1>4. IsVector(q, Len(q)) /\ Len(q) \in Nat /\ \A n \in 1..Len(q) : q[n] \in S
  BY <1>3 DEF IsVector
<1> QED BY <1>3, <1>4 DEF q, S

\* A cell of a table and the part of it that belongs to an entry.
EntryAt(d, n) == [key |-> key_bytes(d, KeysOf(d)[n]), vals |-> ValsOf(d, KeysOf(d)[n])]

PartAt(d, n) == Join(key_bytes(d, KeysOf(d)[n]), ValsOf(d, KeysOf(d)[n]))

LEMMA EntriesAre ==
  ASSUME Kept, NEW d \in Dims
  PROVE  Entries(d) = [n \in 1..Len(KeysOf(d)) |-> EntryAt(d, n)]
<1>1. DOMAIN KeysOf(d) = 1..Len(KeysOf(d))
  BY KeysOfOrder DEF IsVector
<1>2. CASE d = "axons_out"
  <2>1. \A n : key_bytes(d, KeysOf(d)[n]) = KeysOf(d)[n]
    BY <1>2 DEF key_bytes
  <2>2. \A n : ValsOf(d, KeysOf(d)[n]) = u64_limbs(Len(axons_out.map[KeysOf(d)[n]])) \o FlattenSeq(axons_out.map[KeysOf(d)[n]])
    BY <1>2 DEF ValsOf
  <2>3. MapOf(d) = axons_out.map
    BY <1>2 DEF MapOf
  <2>4. Entries(d) = [n \in DOMAIN KeysOf(d) |->
           [key |-> KeysOf(d)[n], vals |-> u64_limbs(Len(axons_out.map[KeysOf(d)[n]])) \o FlattenSeq(axons_out.map[KeysOf(d)[n]])]]
    BY <1>2, <2>3, Zenon DEF Entries, AxonEntries, KeysOf
  <2> QED BY <1>1, <2>1, <2>2, <2>4, Zenon DEF EntryAt
<1>3. CASE d # "axons_out"
  <2>1. \A n : ValsOf(d, KeysOf(d)[n]) = leaf_vals(d, keyed[d].map[KeysOf(d)[n]])
    BY <1>3 DEF ValsOf
  <2>2. MapOf(d) = keyed[d].map /\ d # "nullifiers"
    BY <1>3 DEF MapOf, Dims
  <2>3. Entries(d) = [n \in DOMAIN KeysOf(d) |->
           [key |-> key_bytes(d, KeysOf(d)[n]), vals |-> leaf_vals(d, keyed[d].map[KeysOf(d)[n]])]]
    BY <1>3, <2>2, Zenon DEF Entries, KeyedEntries, KeysOf
  <2> QED BY <1>1, <2>1, <2>3, Zenon DEF EntryAt
<1> QED BY <1>2, <1>3

WidthAt(d, n) == WidthOf(d, ValsOf(d, KeysOf(d)[n]))

LEMMA PartShape ==
  ASSUME Kept, NEW d \in Dims, NEW n \in 1..Len(KeysOf(d))
  PROVE  /\ WidthAt(d, n) \in Nat /\ PrimaryColumn(d) < WidthAt(d, n)
         /\ IsFields(PartAt(d, n), KEY_FIELDS + WidthAt(d, n))
         /\ \A j \in 1..KEY_FIELDS : PartAt(d, n)[j] = key_bytes(d, KeysOf(d)[n])[j]
         /\ \A j \in 1..WidthAt(d, n) : PartAt(d, n)[KEY_FIELDS + j] = ValsOf(d, KeysOf(d)[n])[j]
<1> DEFINE k == KeysOf(d)[n]
           v == ValsOf(d, k)
           w == WidthOf(d, v)
           b == key_bytes(d, k)
<1>1. k \in DOMAIN MapOf(d)
  BY KeysOfOrder
<1> HIDE DEF k
<1>2. IsFields(b, KEY_FIELDS)
  BY <1>1, KeyTypes, KeyBytes
<1>3. w \in Nat /\ IsFields(v, w) /\ PrimaryColumn(d) < w
  BY <1>1, ValsShape
<1>4. KEY_FIELDS \in Nat
  BY DimensionAssumption
<1> HIDE DEF v, w, b
<1>5. /\ IsFields(Join(b, v), KEY_FIELDS + w)
      /\ \A i \in 1..KEY_FIELDS : Join(b, v)[i] = b[i]
      /\ \A i \in 1..w : Join(b, v)[KEY_FIELDS + i] = v[i]
  BY <1>2, <1>3, <1>4, JoinFields
<1> QED BY <1>3, <1>5 DEF PartAt, WidthAt, k, v, w, b

\* Entry n of the table of d begins after o[n] cells.
TableLaid(t, d, o) ==
  LET m == Len(KeysOf(d)) IN
  /\ t \in Seq(Nat) /\ Len(t) >= 3 /\ t[1] = 2 /\ t[2] = Len(t) /\ t[3] = m
  /\ o \in [1..(m + 1) -> Nat] /\ o[1] = 3 /\ o[m + 1] = Len(t)
  /\ \A n \in 1..m :
       /\ o[n + 1] = o[n] + KEY_FIELDS + WidthAt(d, n)
       /\ \A j \in 1..KEY_FIELDS : t[o[n] + j] = key_bytes(d, KeysOf(d)[n])[j]
       /\ \A j \in 1..WidthAt(d, n) : t[o[n] + KEY_FIELDS + j] = ValsOf(d, KeysOf(d)[n])[j]

\* Part n of t has l[n] cells and begins after o[n].
Placed(t, q, l, m, o) ==
  \A n \in 1..m : /\ o[n] \in Nat /\ o[n + 1] = o[n] + l[n]
                  /\ \A j \in 1..l[n] : t[o[n] + j] = q[n][j]

LEMMA Shift ==
  ASSUME NEW x \in Nat, NEW y \in Nat PROVE 3 + x \in Nat /\ 3 + (x + y) = (3 + x) + y
OBVIOUS

LEMMA ShiftWithin ==
  ASSUME NEW x \in Nat, NEW y \in Nat, NEW z \in Nat, NEW j \in 1..y, x + j <= z
  PROVE  x + j \in 1..z /\ (3 + x) + j = 3 + (x + j)
OBVIOUS

LEMMA HeaderFields ==
  ASSUME NEW h, IsFields(h, 3), NEW k \in Nat, NEW c, IsFields(c, k)
  PROVE  /\ IsFields(Join(h, c), 3 + k)
         /\ \A i \in 1..3 : Join(h, c)[i] = h[i]
         /\ \A i \in 1..k : Join(h, c)[3 + i] = c[i]
BY JoinFields

LEMMA HeaderPlaced ==
  ASSUME NEW m \in Nat, NEW q, NEW c, NEW u, Laid(c, q, m, u), Len(c) \in Nat,
         NEW l, \A n \in 1..m : l[n] \in Nat /\ Len(q[n]) = l[n],
         NEW t, \A i \in 1..Len(c) : t[3 + i] = c[i]
  PROVE  \E o : /\ o \in [1..(m + 1) -> Nat] /\ o[1] = 3 /\ o[m + 1] = 3 + Len(c)
               /\ Placed(t, q, l, m, o)
<1> DEFINE o == [n \in 1..(m + 1) |-> 3 + u[n]]
<1>1. u \in [1..(m + 1) -> Nat] /\ u[1] = 0 /\ u[m + 1] = Len(c)
  BY Zenon DEF Laid
<1>2. o \in [1..(m + 1) -> Nat] /\ o[1] = 3 /\ o[m + 1] = 3 + Len(c)
  BY <1>1
<1>3. ASSUME NEW n \in 1..m
      PROVE  /\ o[n] \in Nat /\ o[n + 1] = o[n] + l[n]
             /\ \A j \in 1..l[n] : t[o[n] + j] = q[n][j]
  <2>1. o[n] = 3 + u[n] /\ o[n + 1] = 3 + u[n + 1] /\ u[n] \in Nat
    BY <1>1
  <2>2. l[n] \in Nat /\ Len(q[n]) = l[n]
    BY Zenon
  <2>3. /\ u[n + 1] = u[n] + Len(q[n])
        /\ \A j \in 1..Len(q[n]) : u[n] + j <= Len(c) /\ c[u[n] + j] = q[n][j]
    BY Zenon DEF Laid
  <2>4. u[n + 1] = u[n] + l[n] /\ \A j \in 1..l[n] : u[n] + j <= Len(c) /\ c[u[n] + j] = q[n][j]
    BY <2>2, <2>3, Zenon
  <2>5. ASSUME NEW j \in 1..l[n] PROVE t[(3 + u[n]) + j] = q[n][j]
    <3>1. u[n] + j <= Len(c) /\ c[u[n] + j] = q[n][j]
      BY <2>4, Zenon
    <3>2. u[n] + j \in 1..Len(c) /\ (3 + u[n]) + j = 3 + (u[n] + j)
      BY <2>1, <2>2, <3>1, ShiftWithin, Zenon
    <3>3. t[3 + (u[n] + j)] = c[u[n] + j]
      BY <3>2, Zenon
    <3> QED BY <3>1, <3>2, <3>3, Zenon
  <2> HIDE DEF o
  <2>6. o[n] \in Nat /\ o[n + 1] = o[n] + l[n]
    <3>1. 3 + u[n] \in Nat /\ 3 + (u[n] + l[n]) = (3 + u[n]) + l[n]
      BY <2>1, <2>2, Shift, Zenon
    <3> QED BY <2>1, <2>4, <3>1, Zenon
  <2> QED BY <2>1, <2>5, <2>6, Zenon
<1> HIDE DEF o
<1>4. Placed(t, q, l, m, o)
  BY <1>3, Zenon DEF Placed
<1> QED BY <1>2, <1>4, Zenon

LEMMA SerializeLaid ==
  ASSUME NEW m \in Nat, NEW e, IsVector(e, m), NEW l, NEW q, IsVector(q, m),
         \A n \in 1..m : q[n] = Join(e[n].key, e[n].vals) /\ l[n] \in Nat /\ IsFields(q[n], l[n])
  PROVE  \E k \in Nat :
         /\ IsFields(dim_serialize(e), 3 + k)
         /\ dim_serialize(e)[1] = 2 /\ dim_serialize(e)[2] = 3 + k /\ dim_serialize(e)[3] = m
         /\ \E o : /\ o \in [1..(m + 1) -> Nat] /\ o[1] = 3 /\ o[m + 1] = 3 + k
                   /\ Placed(dim_serialize(e), q, l, m, o)
<1> DEFINE c == FlattenSeq(q)
           k == Len(c)
           h == <<TABLE_VERSION, HEADER_FIELDS + Len(c), Len(e)>>
           t == dim_serialize(e)
<1>1. DOMAIN e = 1..m
  BY DEF IsVector
<1>2. Len(e) = m
  <2> DEFINE S == {e[n] : n \in 1..m}
  <2>1. \A n \in 1..m : e[n] \in S
    OBVIOUS
  <2> HIDE DEF S
  <2> QED BY <2>1, VectorSeq, Zenon
<1>3. \A n \in 1..m : q[n] \in Seq(Nat) /\ Len(q[n]) = l[n] /\ l[n] \in Nat
  BY Zenon DEF IsFields
<1>4. q = [n \in DOMAIN e |-> e[n].key \o e[n].vals]
  <2>1. \A n \in 1..m : q[n] = e[n].key \o e[n].vals
    BY Zenon DEF Join
  <2> QED BY <1>1, <2>1 DEF IsVector
<1>5. t = Join(h, c)
  BY <1>4, Zenon DEF dim_serialize, Join
<1>6. q \in Seq(Seq(Nat)) /\ Len(q) = m
  BY <1>3, VectorSeq, Zenon
<1>7. c \in Seq(Nat) /\ \E o : Laid(c, q, m, o)
  <2>1. c \in Seq(Nat) /\ \E o : Laid(c, q, Len(q), o)
    BY <1>6, FlattenLaid, Zenon
  <2> QED BY <1>6, <2>1, Zenon
<1>8. PICK u : Laid(c, q, m, u)
  BY <1>7, Zenon
<1> HIDE DEF c, t
<1>9. k \in Nat
  BY <1>7
<1>10. IsFields(h, 3) /\ h[1] = 2 /\ h[2] = 3 + k /\ h[3] = m /\ 3 \in Nat
  BY <1>2, <1>9 DEF TABLE_VERSION, HEADER_FIELDS, IsFields
<1>11. IsFields(c, k)
  BY <1>7, Zenon DEF IsFields
<1> HIDE DEF h
<1>12. /\ IsFields(t, 3 + k) /\ \A i \in 1..3 : t[i] = h[i]
       /\ \A i \in 1..k : t[3 + i] = c[i]
  <2>1. /\ IsFields(Join(h, c), 3 + k)
        /\ \A i \in 1..3 : Join(h, c)[i] = h[i]
        /\ \A i \in 1..k : Join(h, c)[3 + i] = c[i]
    <3> HIDE DEF k
    <3> QED BY <1>9, <1>10, <1>11, HeaderFields
  <2> QED BY <1>5, <2>1, Zenon
<1>13. t[1] = 2 /\ t[2] = 3 + k /\ t[3] = m
  <2>2. 1 \in 1..3 /\ 2 \in 1..3 /\ 3 \in 1..3
    OBVIOUS
  <2> QED BY <1>10, <1>12, <2>2, Zenon
<1>14. \E o : /\ o \in [1..(m + 1) -> Nat] /\ o[1] = 3 /\ o[m + 1] = 3 + k
             /\ Placed(t, q, l, m, o)
  BY <1>3, <1>8, <1>9, <1>12, HeaderPlaced, Zenon
<1> HIDE DEF k
<1> QED BY <1>9, <1>12, <1>13, <1>14, Zenon DEF t

LEMMA TableIsLaid ==
  ASSUME Kept, NEW d \in Dims PROVE \E o : TableLaid(Table(d), d, o)
<1> DEFINE m == Len(KeysOf(d))
           e == Entries(d)
           l == [n \in 1..m |-> KEY_FIELDS + WidthAt(d, n)]
           q == [n \in 1..m |-> PartAt(d, n)]
           t == Table(d)
<1>1. e = [n \in 1..m |-> EntryAt(d, n)]
  BY EntriesAre
<1>2. \A n \in 1..m : e[n].key = key_bytes(d, KeysOf(d)[n]) /\ e[n].vals = ValsOf(d, KeysOf(d)[n])
  BY <1>1 DEF EntryAt
<1>3. IsVector(e, m) /\ IsVector(q, m) /\ (\A n \in 1..m : q[n] = PartAt(d, n))
  <2> HIDE DEF e
  <2> QED BY <1>1 DEF IsVector
<1>4. m \in Nat /\ KEY_FIELDS \in Nat
  BY KeysOfOrder, DimensionAssumption
<1> HIDE DEF e, m, q
<1>5. \A n \in 1..m : q[n] = Join(e[n].key, e[n].vals)
  BY <1>2, <1>3, Zenon DEF PartAt
<1>6. \A n \in 1..m :
         /\ WidthAt(d, n) \in Nat
         /\ IsFields(PartAt(d, n), KEY_FIELDS + WidthAt(d, n))
         /\ \A j \in 1..KEY_FIELDS : PartAt(d, n)[j] = key_bytes(d, KeysOf(d)[n])[j]
         /\ \A j \in 1..WidthAt(d, n) : PartAt(d, n)[KEY_FIELDS + j] = ValsOf(d, KeysOf(d)[n])[j]
  BY PartShape, Zenon DEF m
<1>7. \A n \in 1..m : l[n] = KEY_FIELDS + WidthAt(d, n) /\ l[n] \in Nat
  BY <1>4, <1>6
<1> HIDE DEF l
<1>8. \A n \in 1..m : IsFields(q[n], l[n])
  BY <1>3, <1>6, <1>7, Zenon
<1>9. t = dim_serialize(e)
  BY DEF Table, e
<1> HIDE DEF t
<1>10. PICK k \in Nat :
         /\ IsFields(t, 3 + k)
         /\ t[1] = 2 /\ t[2] = 3 + k /\ t[3] = m
         /\ \E o : /\ o \in [1..(m + 1) -> Nat] /\ o[1] = 3 /\ o[m + 1] = 3 + k
                   /\ Placed(t, q, l, m, o)
  BY <1>3, <1>4, <1>5, <1>7, <1>8, <1>9, SerializeLaid, Zenon
<1>11. PICK o : /\ o \in [1..(m + 1) -> Nat] /\ o[1] = 3 /\ o[m + 1] = 3 + k
                /\ Placed(t, q, l, m, o)
  BY <1>10, Zenon
<1>12. t \in Seq(Nat) /\ Len(t) = 3 + k /\ Len(t) >= 3
  BY <1>10 DEF IsFields
<1>13. ASSUME NEW n \in 1..m
       PROVE  /\ o[n + 1] = o[n] + KEY_FIELDS + WidthAt(d, n)
              /\ \A j \in 1..KEY_FIELDS : t[o[n] + j] = key_bytes(d, KeysOf(d)[n])[j]
              /\ \A j \in 1..WidthAt(d, n) : t[o[n] + KEY_FIELDS + j] = ValsOf(d, KeysOf(d)[n])[j]
  <2> DEFINE w == WidthAt(d, n)
             p == PartAt(d, n)
             b == key_bytes(d, KeysOf(d)[n])
             v == ValsOf(d, KeysOf(d)[n])
  <2>1. /\ w \in Nat /\ l[n] = KEY_FIELDS + w
        /\ \A j \in 1..KEY_FIELDS : p[j] = b[j]
        /\ \A j \in 1..w : p[KEY_FIELDS + j] = v[j]
    BY <1>6, <1>7, Zenon
  <2>2. /\ o[n] \in Nat /\ o[n + 1] = o[n] + l[n] /\ \A j \in 1..l[n] : t[o[n] + j] = p[j]
    BY <1>3, <1>11, Zenon DEF Placed
  <2> HIDE DEF w, p, b, v
  <2>3. o[n + 1] = o[n] + KEY_FIELDS + w
    BY <1>4, <2>1, <2>2
  <2>4. \A j \in 1..KEY_FIELDS : t[o[n] + j] = b[j]
    BY <1>4, <2>1, <2>2
  <2>5. ASSUME NEW j \in 1..w PROVE t[o[n] + KEY_FIELDS + j] = v[j]
    <3>1. KEY_FIELDS + j \in 1..l[n] /\ o[n] + KEY_FIELDS + j = o[n] + (KEY_FIELDS + j)
      BY <1>4, <2>1, <2>2
    <3> QED BY <2>1, <2>2, <3>1
  <2> QED BY <2>3, <2>4, <2>5 DEF w, b, v
<1>14. TableLaid(t, d, o)
  BY <1>10, <1>11, <1>12, <1>13, Zenon DEF TableLaid, m
<1> QED BY <1>14 DEF t

-----------------------------------------------------------------------------
(* The walk over a table *)

\* What a table says of one of its entries.
LEMMA LaidAt ==
  ASSUME Kept, NEW d \in Dims, NEW t, NEW o, TableLaid(t, d, o), NEW n \in 1..Len(KeysOf(d))
  PROVE  /\ o[n] \in Nat /\ WidthAt(d, n) \in Nat /\ PrimaryColumn(d) < WidthAt(d, n)
         /\ o[n + 1] = o[n] + KEY_FIELDS + WidthAt(d, n)
         /\ \A j \in 1..KEY_FIELDS : t[o[n] + j] = key_bytes(d, KeysOf(d)[n])[j]
         /\ \A j \in 1..WidthAt(d, n) : t[o[n] + KEY_FIELDS + j] = ValsOf(d, KeysOf(d)[n])[j]
<1> DEFINE m == Len(KeysOf(d))
<1>1. WidthAt(d, n) \in Nat /\ PrimaryColumn(d) < WidthAt(d, n)
  BY PartShape, Zenon
<1>2. /\ o \in [1..(m + 1) -> Nat]
      /\ o[n + 1] = o[n] + KEY_FIELDS + WidthAt(d, n)
      /\ \A j \in 1..KEY_FIELDS : t[o[n] + j] = key_bytes(d, KeysOf(d)[n])[j]
      /\ \A j \in 1..WidthAt(d, n) : t[o[n] + KEY_FIELDS + j] = ValsOf(d, KeysOf(d)[n])[j]
  BY Zenon DEF TableLaid
<1>3. o[n] \in Nat
  <2>1. m \in Nat
    BY KeysOfOrder
  <2>2. n \in 1..(m + 1)
    <3>1. n \in 1..m
      OBVIOUS
    <3> HIDE DEF m
    <3> QED BY <2>1, <3>1
  <2> QED BY <1>2, <2>2, Zenon
<1> QED BY <1>1, <1>2, <1>3, Zenon

\* An entry ends within the table.
LEMMA LaidWithin ==
  ASSUME Kept, NEW d \in Dims, NEW t, NEW o, TableLaid(t, d, o)
  PROVE  \A n \in 1..Len(KeysOf(d)) : o[n + 1] <= Len(t)
<1> DEFINE m == Len(KeysOf(d))
           T == Len(t)
           U == {k \in Nat : \A n \in 1..m : n + k = m => o[n + 1] <= T}
<1>1. m \in Nat /\ T \in Nat /\ o[m + 1] = T /\ KEY_FIELDS \in Nat
  <2>1. t \in Seq(Nat) /\ o[m + 1] = T
    BY Zenon DEF TableLaid
  <2> QED BY <2>1, KeysOfOrder, DimensionAssumption
<1>2. \A n \in 1..m : /\ o[n] \in Nat /\ WidthAt(d, n) \in Nat
                      /\ o[n + 1] = o[n] + KEY_FIELDS + WidthAt(d, n)
  BY LaidAt
<1> HIDE DEF m, T
<1>3. 0 \in U
  BY <1>1
<1>4. ASSUME NEW k \in Nat, k \in U PROVE k + 1 \in U
  <2> SUFFICES ASSUME NEW n \in 1..m, n + (k + 1) = m PROVE o[n + 1] <= T
    OBVIOUS
  <2>1. n + 1 \in 1..m /\ (n + 1) + k = m /\ (n + 1) + 1 = n + 2
    BY <1>1
  <2>2. o[n + 2] <= T
    BY <1>4, <2>1
  <2>3. o[n + 1] \in Nat /\ WidthAt(d, n + 1) \in Nat /\ o[n + 2] = o[n + 1] + KEY_FIELDS + WidthAt(d, n + 1)
    BY <1>2, <2>1
  <2> HIDE DEF U
  <2> QED BY <1>1, <2>2, <2>3
<1>5. Nat \subseteq U
  <2> HIDE DEF U
  <2> QED BY <1>3, <1>4, Induction
<1>6. ASSUME NEW n \in 1..m PROVE o[n + 1] <= T
  <2>1. m - n \in Nat /\ n + (m - n) = m
    BY <1>1
  <2> QED BY <1>5, <2>1
<1> QED BY <1>6 DEF m, T

LEMMA WidthRead ==
  ASSUME Kept, NEW d \in Dims, NEW t, NEW o, TableLaid(t, d, o), NEW n \in 1..Len(KeysOf(d))
  PROVE  Width(t, d, o[n] + KEY_FIELDS) = WidthAt(d, n)
<1> DEFINE v == ValsOf(d, KeysOf(d)[n])
<1>1. CASE d = "axons_out"
  <2>1. /\ o[n] \in Nat /\ WidthAt(d, n) \in Nat
        /\ \A j \in 1..WidthAt(d, n) : t[o[n] + KEY_FIELDS + j] = v[j]
    BY LaidAt
  <2>2. 2 <= WidthAt(d, n)
    <3>1. KeysOf(d)[n] \in DOMAIN MapOf(d)
      BY KeysOfOrder, Zenon
    <3>2. axons_out.map[KeysOf(d)[n]] \in Seq(Ids)
      BY <1>1, <3>1 DEF Kept, MapOf
    <3> DEFINE s == axons_out.map[KeysOf(d)[n]]
               z == FlattenSeq(s)
    <3>3. Len(s) \in Nat /\ v = Join(u64_limbs(Len(s)), z)
      BY <1>1, <3>2 DEF ValsOf, Join
    <3>4. IsFields(z, KEY_FIELDS * Len(s))
      BY <3>2, ListFlat, Zenon
    <3>5. IsFields(u64_limbs(Len(s)), 2) /\ u64_limbs(Len(s))[1] \in Nat /\ u64_limbs(Len(s))[2] \in Nat
          /\ 2 \in Nat
      BY <3>3, Limbs
    <3>6. KEY_FIELDS * Len(s) \in Nat /\ KEY_FIELDS \in Nat /\ Base \in Nat
      BY <3>3, DimensionAssumption
    <3> DEFINE k == KEY_FIELDS * Len(s)
               u == u64_limbs(Len(s))
    <3> HIDE DEF k, s, u, z
    <3>7. \A i \in 1..2 : v[i] = u[i]
      <4>1. IsFields(u, 2) /\ IsFields(z, k) /\ k \in Nat /\ v = Join(u, z)
        BY <3>3, <3>4, <3>5, <3>6 DEF k, u
      <4> HIDE DEF v
      <4> QED BY <4>1, JoinFields
    <3>8. v[1] \in Nat /\ v[2] \in Nat
      BY <3>5, <3>7 DEF u
    <3> HIDE DEF v
    <3>9. 2 <= 2 + KEY_FIELDS * (v[1] + Base * v[2])
      <4>1. v[1] + Base * v[2] \in Nat
        BY <3>6, <3>8
      <4> QED BY <3>6, <4>1
    <3> QED BY <1>1, <3>9 DEF WidthAt, WidthOf, v
  <2>3. t[o[n] + KEY_FIELDS + 1] = v[1] /\ t[o[n] + KEY_FIELDS + 2] = v[2]
    <3>1. 1 \in 1..WidthAt(d, n) /\ 2 \in 1..WidthAt(d, n)
      BY <2>1, <2>2
    <3> QED BY <2>1, <3>1, Zenon
  <2> HIDE DEF v
  <2> QED BY <1>1, <2>3, Zenon DEF Width, WidthAt, WidthOf, v
<1>2. CASE d # "axons_out"
  <2>1. d \in {"neurons", "balances", "time", "cards", "signals"}
    BY <1>2 DEF Dims, KeyedDims
  <2> QED BY <2>1 DEF Width, WidthAt, WidthOf
<1> QED BY <1>1, <1>2

\* The offsets of the walk.
Walks(g, t, d) ==
  g = [n \in 1..(t[3] + 1) |->
         IF n = 1 THEN HEADER_FIELDS
         ELSE g[n - 1] + KEY_FIELDS + Width(t, d, g[n - 1] + KEY_FIELDS)]

LEMMA LaidWalks ==
  ASSUME Kept, NEW d \in Dims, NEW t, NEW o, TableLaid(t, d, o)
  PROVE  Walks(o, t, d) /\ \A g : Walks(g, t, d) => g = o
<1> DEFINE m == Len(KeysOf(d))
<1>1. m \in Nat /\ t[3] = m /\ o \in [1..(m + 1) -> Nat] /\ o[1] = HEADER_FIELDS
  <2>1. t[3] = m /\ o \in [1..(m + 1) -> Nat] /\ o[1] = 3
    BY Zenon DEF TableLaid
  <2> QED BY <2>1, KeysOfOrder DEF HEADER_FIELDS
<1>2. \A n \in 1..m : o[n + 1] = o[n] + KEY_FIELDS + Width(t, d, o[n] + KEY_FIELDS)
  BY LaidAt, WidthRead
<1> HIDE DEF m
<1> DEFINE Step(x) == x + KEY_FIELDS + Width(t, d, x + KEY_FIELDS)
<1>3. \A n \in 1..m : o[n + 1] = Step(o[n])
  BY <1>2
<1> HIDE DEF Step
<1>4. ASSUME NEW n \in 1..(m + 1), n # 1 PROVE o[n] = Step(o[n - 1])
  <2>1. n - 1 \in 1..m /\ (n - 1) + 1 = n
    BY <1>1, <1>4
  <2> QED BY <1>3, <2>1
<1>5. o = [n \in 1..(m + 1) |-> IF n = 1 THEN HEADER_FIELDS ELSE Step(o[n - 1])]
  BY <1>1, <1>4
<1>6. ASSUME NEW g, g = [n \in 1..(m + 1) |-> IF n = 1 THEN HEADER_FIELDS ELSE Step(g[n - 1])]
      PROVE  g = o
  <2> DEFINE U == {k \in Nat : k + 1 \in 1..(m + 1) => g[k + 1] = o[k + 1]}
  <2>0. /\ \A n \in 1..(m + 1) : g[n] = IF n = 1 THEN HEADER_FIELDS ELSE Step(g[n - 1])
        /\ DOMAIN g = 1..(m + 1)
    BY <1>6
  <2>1. 0 \in U
    <3>1. 1 \in 1..(m + 1)
      BY <1>1
    <3>2. g[1] = HEADER_FIELDS
      BY <2>0, <3>1
    <3> QED BY <1>1, <3>2
  <2>2. ASSUME NEW k \in Nat, k \in U PROVE k + 1 \in U
    <3> SUFFICES ASSUME k + 2 \in 1..(m + 1) PROVE g[k + 2] = o[k + 2]
      OBVIOUS
    <3>1. g[k + 1] = o[k + 1] /\ (k + 2) - 1 = k + 1 /\ k + 2 # 1
      BY <1>1, <2>2
    <3>2. g[k + 2] = Step(g[k + 1])
      BY <2>0, <3>1
    <3>3. o[k + 2] = Step(o[k + 1])
      BY <1>4, <3>1
    <3> QED BY <3>1, <3>2, <3>3
  <2>3. Nat \subseteq U
    <3> HIDE DEF U
    <3> QED BY <2>1, <2>2, Induction
  <2>4. ASSUME NEW n \in 1..(m + 1) PROVE g[n] = o[n]
    <3>1. n - 1 \in Nat /\ (n - 1) + 1 = n
      BY <1>1
    <3> QED BY <2>3, <3>1
  <2>5. g = [n \in 1..(m + 1) |-> g[n]] /\ o = [n \in 1..(m + 1) |-> o[n]]
    BY <1>1, <1>6
  <2> QED BY <2>4, <2>5
<1> QED BY <1>1, <1>5, <1>6, Zenon DEF Walks, Step

-----------------------------------------------------------------------------
(* Where a key is found *)

\* What primary_index does with the offsets.
KeyAt(t, g, n) == SubSeq(t, g[n] + 1, g[n] + KEY_FIELDS)

FoundAt(t, key, g) == {n \in 1..t[3] : KeyAt(t, g, n) = key}

Walked(t, d, key, g) ==
  IF /\ g[t[3] + 1] = Len(t)
     /\ (d = "time") => \A n \in 1..t[3] : IsHeight(KeyAt(t, g, n))
     /\ \A n \in 2..t[3] : BytesLess(SortKey(d, KeyAt(t, g, n - 1)), SortKey(d, KeyAt(t, g, n)))
     /\ FoundAt(t, key, g) # {}
  THEN <<g[Max(FoundAt(t, key, g))] + KEY_FIELDS + PrimaryColumn(d)>> ELSE <<>>

LEMMA IndexWalks ==
  ASSUME NEW t, NEW d, NEW key
  PROVE  primary_index(t, d, key) = Walked(t, d, key, CHOOSE g : Walks(g, t, d))
BY Zenon DEF primary_index, Walked, KeyAt, FoundAt, Walks

LEMMA IndexLaid ==
  ASSUME Kept, NEW d \in Dims, NEW t, NEW o, TableLaid(t, d, o), NEW key
  PROVE  primary_index(t, d, key) = Walked(t, d, key, o)
<1>1. Walks(o, t, d) /\ \A g : Walks(g, t, d) => g = o
  BY LaidWalks
<1>2. (CHOOSE g : Walks(g, t, d)) = o
  BY <1>1, Zenon
<1> QED BY <1>2, IndexWalks, Zenon

LEMMA SameFields ==
  ASSUME NEW k \in Nat, NEW s, IsFields(s, k), NEW b, IsFields(b, k), \A j \in 1..k : s[j] = b[j]
  PROVE  s = b
<1>1. DOMAIN s = 1..k /\ DOMAIN b = 1..k /\ s \in [1..k -> Nat] /\ b \in [1..k -> Nat]
  BY DEF IsFields
<1> DEFINE D == 1..k
<1>2. s \in [D -> Nat] /\ b \in [D -> Nat] /\ \A j \in D : s[j] = b[j]
  BY <1>1
<1> HIDE DEF D
<1> QED BY <1>2

LEMMA SubSeqRun ==
  ASSUME NEW t \in Seq(Nat), NEW a \in Nat, NEW k \in Nat, a + k <= Len(t),
         NEW b, IsFields(b, k), \A j \in 1..k : t[a + j] = b[j]
  PROVE  SubSeq(t, a + 1, a + k) = b
<1> DEFINE s == SubSeq(t, a + 1, a + k)
<1>2. s \in Seq(Nat) /\ Len(s) = k /\ \A j \in 1..k : s[j] = t[a + j]
  OBVIOUS
<1> HIDE DEF s
<1>3. s = b
  <2>1. IsFields(s, k) /\ \A j \in 1..k : s[j] = b[j]
    BY <1>2, Zenon DEF IsFields
  <2> QED BY <2>1, SameFields, Zenon
<1> QED BY <1>3 DEF s

LEMMA KeysLaid ==
  ASSUME Kept, NEW d \in Dims, NEW t, NEW o, TableLaid(t, d, o), NEW n \in 1..Len(KeysOf(d))
  PROVE  KeyAt(t, o, n) = key_bytes(d, KeysOf(d)[n])
<1> DEFINE b == key_bytes(d, KeysOf(d)[n])
           a == o[n]
<1>1. /\ o[n] \in Nat /\ WidthAt(d, n) \in Nat
      /\ o[n + 1] = o[n] + KEY_FIELDS + WidthAt(d, n)
      /\ \A j \in 1..KEY_FIELDS : t[o[n] + j] = key_bytes(d, KeysOf(d)[n])[j]
  BY LaidAt
<1>2. o[n + 1] <= Len(t) /\ t \in Seq(Nat)
  BY LaidWithin DEF TableLaid
<1>3. IsFields(b, KEY_FIELDS) /\ KEY_FIELDS \in Nat
  <2>1. KeysOf(d)[n] \in DOMAIN MapOf(d)
    BY KeysOfOrder
  <2> QED BY <2>1, KeyTypes, KeyBytes, DimensionAssumption
<1> DEFINE T == Len(t)
<1>4. T \in Nat
  BY <1>2
<1> HIDE DEF T
<1>5. a + KEY_FIELDS <= T
  <2>1. o[n + 1] <= T
    BY <1>2 DEF T
  <2> QED BY <1>1, <1>3, <1>4, <2>1
<1> HIDE DEF a, b
<1>6. a \in Nat /\ \A j \in 1..KEY_FIELDS : t[a + j] = b[j]
  BY <1>1 DEF a, b
<1>7. SubSeq(t, a + 1, a + KEY_FIELDS) = b
  BY <1>2, <1>3, <1>5, <1>6, SubSeqRun, Zenon DEF T
<1> QED BY <1>7, Zenon DEF KeyAt, a, b

\* An index the verifier finds is that of the primary column of the one entry
\* with the key.
LEMMA IndexFound ==
  ASSUME Kept, NEW d \in Dims, NEW t, NEW o, TableLaid(t, d, o), NEW key, NEW i,
         primary_index(t, d, key) = <<i>>
  PROVE  \E n \in 1..Len(KeysOf(d)) :
           key_bytes(d, KeysOf(d)[n]) = key /\ i = o[n] + KEY_FIELDS + PrimaryColumn(d)
<1> DEFINE m == Len(KeysOf(d))
           S == FoundAt(t, key, o)
<1>1. Walked(t, d, key, o) = <<i>>
  BY IndexLaid
<1>2. S # {} /\ i = o[Max(S)] + KEY_FIELDS + PrimaryColumn(d)
  <2> HIDE DEF S
  <2>1. \A x : <<x>> # <<>>
    OBVIOUS
  <2>2. S # {} /\ <<o[Max(S)] + KEY_FIELDS + PrimaryColumn(d)>> = <<i>>
    BY <1>1, <2>1, Zenon DEF Walked, S
  <2> QED BY <2>2
<1>3. t[3] = m /\ m \in Nat
  BY KeysOfOrder DEF TableLaid
<1>4. S \in SUBSET (1..m)
  BY <1>3 DEF FoundAt
<1>5. Max(S) \in S
  <2> HIDE DEF S, m
  <2> QED BY <1>2, <1>3, <1>4, MaxIn
<1>6. Max(S) \in 1..m /\ KeyAt(t, o, Max(S)) = key
  BY <1>3, <1>5, Zenon DEF FoundAt
<1> HIDE DEF S
<1>7. key_bytes(d, KeysOf(d)[Max(S)]) = key
  BY <1>6, KeysLaid
<1> QED BY <1>2, <1>6, <1>7

-----------------------------------------------------------------------------
(* Padding *)

LEMMA PaddedLength ==
  ASSUME NEW n \in Nat
  PROVE  /\ next_power_of_two(n) \in Nat /\ n <= next_power_of_two(n)
         /\ \E i \in 0..n : next_power_of_two(n) = 2^i
<1> DEFINE T == {m \in {2^i : i \in 0..n} : m >= n}
<1>1. \A i \in 0..n : 2^i \in Nat
  BY PowerBound
<1>2. T \in SUBSET Nat
  BY <1>1
<1>3. 2^n \in T
  <2>1. n \in 0..n /\ 2^n \in Nat /\ n <= 2^n
    BY PowerBound
  <2> QED BY <2>1
<1>4. \A x \in T : n <= x /\ \E i \in 0..n : x = 2^i
  BY <1>2
<1> HIDE DEF T
<1>5. PICK x \in T : \A y \in T : x <= y
  BY <1>2, <1>3, LeastNatural
<1>6. Min(T) \in T
  BY <1>5, Zenon DEF Min
<1>7. next_power_of_two(n) = Min(T)
  BY DEF next_power_of_two, T
<1> QED BY <1>2, <1>4, <1>6, <1>7, Zenon

LEMMA PairTells == ASSUME NEW x, NEW f, NEW g, <<x, f>> = <<x, g>> PROVE f = g
OBVIOUS

\* A commitment tells the tables that hold their length apart.
LEMMA CommitTells ==
  ASSUME NEW s \in Seq(Nat), Len(s) >= 3, s[2] = Len(s),
         NEW t \in Seq(Nat), Len(t) >= 3, t[2] = Len(t), commit_fields(s) = commit_fields(t)
  PROVE  s = t
<1> DEFINE a == Len(s)
           b == Len(t)
           p == next_power_of_two(a)
           q == next_power_of_two(b)
           f == [i \in 1..p |-> IF i <= a THEN s[i] ELSE 0]
           g == [i \in 1..q |-> IF i <= b THEN t[i] ELSE 0]
<1>1. a \in Nat /\ b \in Nat /\ a >= 3 /\ b >= 3 /\ s[2] = a /\ t[2] = b
  OBVIOUS
<1>2. f = g
  <2>1. commit_fields(s) = <<"v1", f>> /\ commit_fields(t) = <<"v1", g>>
    BY DEF commit_fields
  <2> HIDE DEF f, g
  <2> QED BY <2>1, PairTells, Zenon
<1> HIDE DEF a, b
<1>3. p \in Nat /\ a <= p /\ q \in Nat /\ b <= q
  BY <1>1, PaddedLength
<1> HIDE DEF p, q
<1>4. /\ \A i \in 1..a : f[i] = s[i]
      /\ \A i \in 1..b : g[i] = t[i]
  BY <1>1, <1>3
<1> HIDE DEF f, g
<1>5. a = b
  <2>1. 2 \in 1..a /\ 2 \in 1..b
    BY <1>1
  <2> QED BY <1>1, <1>2, <1>4, <2>1
<1>6. \A i \in 1..a : s[i] = t[i]
  BY <1>2, <1>4, <1>5
<1>7. IsFields(s, a) /\ IsFields(t, a)
  BY <1>5, Zenon DEF IsFields, a, b
<1> QED BY <1>1, <1>6, <1>7, SameFields, Zenon

-----------------------------------------------------------------------------
(* The primary field *)

LEMMA PrimaryIs ==
  ASSUME Kept, NEW d \in Dims, NEW n \in 1..Len(KeysOf(d))
  PROVE  Primary(d, key_bytes(d, KeysOf(d)[n])) = <<ValsOf(d, KeysOf(d)[n])[PrimaryColumn(d) + 1]>>
<1> DEFINE k == KeysOf(d)[n]
           key == key_bytes(d, k)
           v == ValsOf(d, k)
<1>1. k \in DOMAIN MapOf(d)
  BY KeysOfOrder, Zenon
<1> HIDE DEF k
<1>2. CASE d = "axons_out"
  <2> DEFINE s == axons_out.map[k]
             u == u64_limbs(Len(s))
             z == FlattenSeq(s)
             w == KEY_FIELDS * Len(s)
  <2>1. key = k /\ k \in DOMAIN axons_out.map /\ s \in Seq(Ids) /\ PrimaryColumn(d) = 0
    BY <1>1, <1>2 DEF key_bytes, MapOf, Kept, PrimaryColumn
  <2>2. Len(s) \in Nat /\ v = Join(u, z)
    BY <1>2, <2>1 DEF ValsOf, Join
  <2>3. IsFields(z, w)
    BY <2>1, ListFlat, Zenon
  <2>4. IsFields(u, 2) /\ u[1] = Len(s) % Base
    BY <2>2, Limbs
  <2>5. w \in Nat
    BY <2>2, DimensionAssumption
  <2>6. Primary(d, key) = <<Len(s) % Base>>
    BY <1>2, <2>1 DEF Primary
  <2> HIDE DEF w, z, u, v, s
  <2>7. v[1] = u[1]
    BY <2>2, <2>3, <2>4, <2>5, JoinFields
  <2>8. PrimaryColumn(d) + 1 = 1
    BY <2>1
  <2> QED BY <2>4, <2>6, <2>7, <2>8, Zenon DEF v, k
<1>3. CASE d # "axons_out"
  <2> DEFINE r == keyed[d].map[k]
             at == {l \in DOMAIN keyed[d].map : key_bytes(d, l) = key}
  <2>1. MapOf(d) = keyed[d].map
    BY <1>3 DEF MapOf
  <2>2. \A l \in DOMAIN MapOf(d) : IF d = "time" THEN l \in Nat ELSE l \in Strings
    BY KeyTypes, Zenon
  <2>3. k \in at /\ \A l \in at : l = k
    BY <1>1, <2>1, <2>2, KeyBytesTell
  <2> HIDE DEF at
  <2>4. at # {} /\ (CHOOSE l \in at : TRUE) = k
    BY <2>3
  <2>5. Primary(d, key) =
          <<CASE d \in {"neurons", "balances"} -> r % Base
              [] d \in {"time"} -> r[1]
              [] d = "cards" -> r.particle[1]
              [] d = "signals" -> r.link_count % Base>>
    BY <1>3, <2>4, Zenon DEF Primary, at
  <2>6. v = leaf_vals(d, r) /\ r \in RecordOf(d) /\ d \in {"neurons", "balances", "time", "cards", "signals"}
    BY <1>1, <1>3, KeyTypes DEF ValsOf, Dims, KeyedDims
  <2>7. KEY_FIELDS \in Nat /\ KEY_FIELDS >= 2
    BY DimensionAssumption
  <2> HIDE DEF r, v
  <2>8. CASE d \in {"neurons", "balances"}
    <3>0. Primary(d, key) = <<r % Base>>
      BY <2>5, <2>8, Zenon
    <3>1. v = u64_limbs(r) /\ r \in Nat /\ PrimaryColumn(d) + 1 = 1
      <4>1. v = u64_limbs(r)
        BY <2>6, <2>8 DEF leaf_vals
      <4>2. r \in Nat
        BY <2>6, <2>8 DEF RecordOf
      <4>3. PrimaryColumn(d) = 0
        BY <2>8 DEF PrimaryColumn
      <4> QED BY <4>1, <4>2, <4>3
    <3>2. v[1] = r % Base
      BY <3>1, Limbs
    <3> QED BY <3>0, <3>1, <3>2, Zenon DEF v, k
  <2>9. CASE d = "time"
    <3>1. v = r /\ PrimaryColumn(d) + 1 = 1 /\ Primary(d, key) = <<r[1]>>
      BY <2>5, <2>6, <2>9 DEF leaf_vals, PrimaryColumn
    <3> QED BY <3>1, Zenon DEF v, k
  <2>10. CASE d = "cards"
    <3> DEFINE p == r.particle
               u == u64_limbs(byte(r.valence))
    <3>1. v = Join(p, u) /\ p \in Strings /\ r.valence \in {"against", "neutral", "for"}
          /\ PrimaryColumn(d) + 1 = 1 /\ Primary(d, key) = <<p[1]>>
      BY <2>5, <2>6, <2>10 DEF leaf_vals, RecordOf, PrimaryColumn, Join
    <3>2. byte(r.valence) \in Nat
      BY <3>1 DEF byte
    <3>3. IsFields(u, 2) /\ IsFields(p, KEY_FIELDS)
      BY <3>1, <3>2, Limbs, StringFields
    <3> HIDE DEF u, p
    <3>4. v[1] = p[1]
      BY <2>7, <3>1, <3>3, JoinFields
    <3> QED BY <3>1, <3>4, Zenon DEF v, k
  <2>11. CASE d = "signals"
    <3> DEFINE a == r.neuron
               b == r.network
               c == u64_limbs(r.link_count)
               e == u64_limbs(r.step)
               K == KEY_FIELDS + KEY_FIELDS
    <3>1. /\ v = Join(Join(Join(a, b), c), e)
          /\ a \in Strings /\ b \in Strings /\ r.link_count \in Nat /\ r.step \in Nat
          /\ PrimaryColumn(d) = 2 * KEY_FIELDS /\ Primary(d, key) = <<r.link_count % Base>>
      BY <2>5, <2>6, <2>11 DEF leaf_vals, RecordOf, PrimaryColumn, Join
    <3>2. /\ IsFields(a, KEY_FIELDS) /\ IsFields(b, KEY_FIELDS) /\ IsFields(c, 2) /\ IsFields(e, 2)
          /\ c[1] = r.link_count % Base
      BY <3>1, Limbs, StringFields
    <3> HIDE DEF a, b, c, e
    <3> DEFINE x == Join(a, b)
               y == Join(x, c)
    <3>3. IsFields(x, K) /\ K \in Nat
      BY <2>7, <3>2, JoinFields
    <3> HIDE DEF x, K
    <3>4. IsFields(y, K + 2) /\ y[K + 1] = c[1]
      BY <2>7, <3>2, <3>3, JoinFields
    <3>5. v = Join(y, e)
      BY <3>1 DEF x
    <3> HIDE DEF y
    <3>6. v[K + 1] = y[K + 1]
      BY <3>2, <3>3, <3>4, <3>5, JoinFields
    <3>7. PrimaryColumn(d) + 1 = K + 1
      BY <2>7, <3>1 DEF K
    <3> QED BY <3>1, <3>2, <3>4, <3>6, <3>7, Zenon DEF v, k
  <2> QED BY <2>6, <2>8, <2>9, <2>10, <2>11
<1> QED BY <1>2, <1>3

-----------------------------------------------------------------------------
(* Answers and the root *)

LEMMA Single == ASSUME NEW x, NEW y PROVE <<x>> # <<>> /\ (<<x>> = <<y>> => x = y) /\ <<x>>[1] = x
OBVIOUS

LEMMA RootLeafIs ==
  ASSUME Sound, NEW d \in Dims
  PROVE  root_leaves.dims[d] =
           IF root_version = "V2"
           THEN <<"v2", (IF d = "axons_out" THEN ReadAxons ELSE ReadKeyed[d]).leaves>>
           ELSE commit_fields(Table(d))
<1> DEFINE m == IF d = "axons_out" THEN ReadAxons ELSE ReadKeyed[d]
<1>1. d \in KeyedDims \cup {"axons_out"}
  BY DEF Dims
<1>2. root_leaves.dims[d] = RootLeaf(m)
  BY <1>1 DEF root_leaves
<1>3. CASE root_version = "V2"
  BY <1>2, <1>3, Zenon DEF RootLeaf
<1>4. CASE root_version # "V2"
  <2>1. RootLeaf(m) = m.legacy[1]
    BY <1>4, Zenon DEF RootLeaf
  <2>2. CASE d = "axons_out"
    <3> DEFINE x == axons_out
               c == commit_axons(x.map)
    <3>1. IsIndex(x) /\ x.legacy \in {<<>>, <<c>>}
      BY DEF Sound, IndexSound, IndexLegacySound
    <3>2. m = legacy_commitment(x, c)
      BY <1>4, <2>2 DEF ReadAxons
    <3>3. c = commit_fields(Table(d))
      BY <2>2 DEF commit_axons, Table, Entries
    <3> HIDE DEF c, m
    <3>4. m.legacy = <<c>>
      BY <3>1, <3>2 DEF legacy_commitment, IsIndex
    <3> QED BY <1>2, <1>4, <2>1, <3>3, <3>4, Single, Zenon
  <2>3. CASE d # "axons_out"
    <3> DEFINE x == keyed[d]
               c == commit_keyed(d, x.map)
    <3>0. d \in KeyedDims
      BY <1>1, <2>3
    <3>1. IsKeyed(x) /\ x.legacy \in {<<>>, <<c>>}
      BY <3>0 DEF Sound, KeyedSound, LegacySound
    <3>2. m = legacy_commitment(x, c)
      BY <1>4, <2>3, <3>0 DEF ReadKeyed
    <3>3. c = commit_fields(Table(d))
      BY <2>3 DEF commit_keyed, Table, Entries
    <3> HIDE DEF c, m, x
    <3>4. m.legacy = <<c>>
      BY <3>1, <3>2 DEF legacy_commitment, IsKeyed
    <3> QED BY <1>2, <1>4, <2>1, <3>3, <3>4, Single, Zenon
  <2> QED BY <2>2, <2>3
<1> QED BY <1>3, <1>4

CertSound(cert) == \A d \in DOMAIN cert.dimensions : cert.dimensions[d] \in Seq(Nat)

\* A certificate that passes under the present root discloses the present
\* tables, and none passes under V2.
LEMMA CertBinds ==
  ASSUME Sound, Kept, NEW cert, CertSound(cert), NEW rt, CertRoot(cert) = <<rt>>, rt = root_leaves,
         NEW d \in Dims, d \in DOMAIN cert.dimensions
  PROVE  root_version # "V2" /\ cert.dimensions[d] = Table(d)
<1> DEFINE s == cert.dimensions[d]
           t == Table(d)
<1>1. validate_shape(cert) /\ commit_fields(s) = rt.dims[d]
  <2>1. /\ validate_shape(cert)
        /\ \A e \in DOMAIN cert.dimensions : commit_fields(cert.dimensions[e]) = cert.leaves.dims[e]
        /\ <<cert.leaves>> = <<rt>>
    BY Single, Zenon DEF CertRoot
  <2>2. cert.leaves = rt
    BY <2>1, Single, Zenon
  <2> QED BY <2>1, <2>2, Zenon
<1>2. s \in Seq(Nat) /\ Len(s) >= 3 /\ s[2] = Len(s)
  <2>1. s \in Seq(Nat)
    BY Zenon DEF CertSound
  <2>2. Len(s) >= HEADER_FIELDS /\ s[2] = Len(s)
    BY <1>1, Zenon DEF validate_shape
  <2> QED BY <2>1, <2>2, Zenon DEF HEADER_FIELDS
<1>3. PICK o : TableLaid(t, d, o)
  BY TableIsLaid, Zenon
<1>4. t \in Seq(Nat) /\ Len(t) >= 3 /\ t[2] = Len(t)
  BY <1>3, Zenon DEF TableLaid
<1>5. root_version # "V2"
  <2> SUFFICES ASSUME root_version = "V2" PROVE FALSE
    OBVIOUS
  <2> DEFINE x == (IF d = "axons_out" THEN ReadAxons ELSE ReadKeyed[d]).leaves
             y == [i \in 1..next_power_of_two(Len(s)) |-> IF i <= Len(s) THEN s[i] ELSE 0]
  <2>1. rt.dims[d] = <<"v2", x>>
    BY RootLeafIs, Zenon
  <2>2. commit_fields(s) = <<"v1", y>>
    BY Zenon DEF commit_fields
  <2> HIDE DEF x, y, s
  <2>3. <<"v1", y>> = <<"v2", x>>
    BY <1>1, <2>1, <2>2, Zenon
  <2>4. \A u, v : <<"v1", u>> # <<"v2", v>>
    OBVIOUS
  <2> QED BY <2>3, <2>4, Zenon
<1>6. commit_fields(s) = commit_fields(t)
  BY <1>1, <1>5, RootLeafIs, Zenon
<1> HIDE DEF s, t
<1>7. s = t
  BY <1>2, <1>4, <1>6, CommitTells, Zenon
<1> QED BY <1>5, <1>7, Zenon DEF s, t

\* The answer of a call: the proof of a cell with the certificate of its table.
Context(d, idx) ==
  [certificate |-> [leaves |-> root_leaves, dimensions |-> [e \in {d} |-> Table(e)]],
   namespace |-> d, index |-> idx]

Answered(table, i, d, idx) == WithContext(open_bare(table, i), from_state({d}), d, idx)

LEMMA ContextIs ==
  ASSUME NEW table, NEW i, NEW d, NEW idx,
         Answered(table, i, d, idx) # <<>>
  PROVE  Answered(table, i, d, idx)[1].context = <<Context(d, idx)>>
<1> DEFINE cert == [leaves |-> root_leaves, dimensions |-> [e \in {d} |-> Table(e)]]
           c == from_state({d})
           p == open_bare(table, i)
           answer == Answered(table, i, d, idx)
<1>1. p # <<>> /\ c # <<>>
      /\ answer = <<[p[1] EXCEPT !.context = <<[certificate |-> c[1], namespace |-> d, index |-> idx]>>]>>
  <2>1. answer = WithContext(p, c, d, idx) /\ answer # <<>>
    BY Zenon DEF Answered
  <2> HIDE DEF c, p, answer
  <2> QED BY <2>1, Zenon DEF WithContext
<1> HIDE DEF answer
<1>2. c = <<cert>>
  <2>1. c = Certified(cert)
    BY Zenon DEF from_state
  <2> HIDE DEF c, cert
  <2> QED BY <1>1, <2>1, Zenon DEF Certified
<1>3. DOMAIN p[1] = {"commitment", "opening", "value", "point", "context"}
  <2> DEFINE commitment == commit_fields(table)
             point == corner_point(i, Log2(Len(commitment[2])))
             opening == BrakedownOpen(commitment, point)
  <2>1. p = <<[commitment |-> commitment, opening |-> opening, value |-> opening.value,
             point |-> point, context |-> <<>>]>>
    BY <1>1, Zenon DEF open_bare
  <2> HIDE DEF commitment, point, opening, p
  <2> QED BY <2>1
<1> DEFINE r == p[1]
           z == [certificate |-> c[1], namespace |-> d, index |-> idx]
<1>4. answer[1] = [r EXCEPT !.context = <<z>>]
  <2> HIDE DEF z, r
  <2> QED BY <1>1, Single, Zenon DEF r, z
<1>5. z = Context(d, idx)
  <2>1. c[1] = cert
    BY <1>2, Single, Zenon
  <2> QED BY <2>1, Zenon DEF Context
<1> HIDE DEF z, r, p
<1>6. answer[1].context = <<z>>
  BY <1>3, <1>4 DEF r
<1> QED BY <1>5, <1>6, Zenon DEF answer

-----------------------------------------------------------------------------
(* What the maps hold *)

KeptMap(d, f) ==
  /\ IsFiniteSet(DOMAIN f)
  /\ \A k \in DOMAIN f : k \in Keys[d] /\ f[k] \in Records[d][k]

KeyedKept == \A d \in KeyedDims : KeptMap(d, keyed[d].map)

ListsKept == DOMAIN axons_out.map \subseteq Ids

LEMMA MapsKept ==
  ASSUME NEW d, NEW f, KeptMap(d, f)
  PROVE  /\ KeptMap(d, Empty)
         /\ \A k : KeptMap(d, Del(f, k))
         /\ \A k \in Keys[d] : \A r \in Records[d][k] : KeptMap(d, Put(f, k, r))
<1>1. KeptMap(d, Empty)
  BY FS_EmptySet DEF KeptMap, Empty
<1>2. ASSUME NEW k PROVE KeptMap(d, Del(f, k))
  <2>1. DOMAIN Del(f, k) \in SUBSET (DOMAIN f)
    BY DEF Del
  <2>2. IsFiniteSet(DOMAIN Del(f, k))
    BY <2>1, FS_Subset DEF KeptMap
  <2> QED BY <2>2 DEF KeptMap, Del
<1>3. ASSUME NEW k \in Keys[d], NEW r \in Records[d][k] PROVE KeptMap(d, Put(f, k, r))
  <2>1. DOMAIN Put(f, k, r) = DOMAIN f \cup {k}
    BY DEF Put
  <2>2. IsFiniteSet(DOMAIN Put(f, k, r))
    BY <2>1, FS_AddElement DEF KeptMap
  <2> QED BY <2>2 DEF KeptMap, Put
<1> QED BY <1>1, <1>2, <1>3

\* A step on one Keyed dimension, or on none.
LEMMA KeptStep ==
  ASSUME Sound, KeyedKept, NEW d \in KeyedDims, NEW m, KeptMap(d, m.map),
         keyed' = [keyed EXCEPT ![d] = m]
  PROVE  KeyedKept'
<1>1. keyed = [e \in KeyedDims |-> keyed[e]]
  BY DEF Sound
<1> QED BY <1>1 DEF KeyedKept

LEMMA KeyedKeptNext == ASSUME Sound, KeyedKept, [Next]_vars PROVE KeyedKept'
<1>1. \A d \in KeyedDims : IsKeyed(keyed[d]) /\ KeptMap(d, keyed[d].map)
  BY DEF Sound, KeyedSound, KeyedKept
<1>2. CASE UNCHANGED keyed
  BY <1>2 DEF KeyedKept
<1>3. CASE Root
  <2>1. \A d \in KeyedDims : ReadKeyed[d].map = keyed[d].map
    BY <1>1, KeyedMaps DEF ReadKeyed
  <2> QED BY <1>3, <2>1 DEF Root, KeyedKept
<1>4. CASE \E d \in KeyedDims : Commitment(d)
  <2>1. PICK d \in KeyedDims : Commitment(d)
    BY <1>4
  <2> DEFINE m == Flushed(d, keyed[d])
  <2>2. keyed' = [keyed EXCEPT ![d] = m]
    BY <2>1 DEF Commitment
  <2>3. m.map = keyed[d].map
    BY <1>1, KeyedMaps
  <2> HIDE DEF m
  <2>4. KeptMap(d, m.map)
    BY <1>1, <2>3
  <2> QED BY <2>2, <2>4, KeptStep
<1>5. ASSUME NEW d \in KeyedDims \ {"cards"}, NEW k \in Keys[d], NEW r \in Records[d][k],
             Insert(d, k, r) \/ Modify(d, k, r)
      PROVE  KeyedKept'
  <2>1. \A f : f \in {keyed[d].map, Put(keyed[d].map, k, r)} => KeptMap(d, f)
    BY <1>1, MapsKept
  <2>2. PICK m \in {insert(keyed[d], k, r), get_mut(keyed[d], k, r)} : keyed' = [keyed EXCEPT ![d] = m]
    BY <1>5 DEF Insert, Modify, Mutate
  <2>3. m.map \in {keyed[d].map, Put(keyed[d].map, k, r)}
    BY <1>1, <2>2, KeyedMaps
  <2> QED BY <2>1, <2>2, <2>3, KeptStep
<1>6. ASSUME NEW d \in KeyedDims \ {"cards"}, NEW k \in Keys[d], Delete(d, k) \/ Clear(d)
      PROVE  KeyedKept'
  <2>1. \A f : f \in {keyed[d].map, Empty, Del(keyed[d].map, k)} => KeptMap(d, f)
    BY <1>1, MapsKept
  <2>2. PICK m \in {remove(keyed[d], k), NewKeyed} : keyed' = [keyed EXCEPT ![d] = m]
    BY <1>6 DEF Delete, Clear, Mutate, clear
  <2>3. m.map \in {keyed[d].map, Empty, Del(keyed[d].map, k)}
    BY <1>1, <2>2, KeyedMaps DEF NewKeyed
  <2> QED BY <2>1, <2>2, <2>3, KeptStep
<1>7. ASSUME NEW d \in KeyedDims \ {"cards"}, Clear(d) PROVE KeyedKept'
  <2>1. KeptMap(d, NewKeyed.map) /\ keyed' = [keyed EXCEPT ![d] = NewKeyed]
    BY <1>1, <1>7, MapsKept DEF NewKeyed, Clear, Mutate, clear
  <2> QED BY <2>1, KeptStep
<1>8. ASSUME NEW d \in KeyedDims \ {"cards"}, NEW k \in Keys[d], NEW r \in Records[d][k],
             NEW w \in {<<>>} \cup {<<q>> : q \in Records[d][k]}, Enter(d, k, r, w)
      PROVE  KeyedKept'
  <2> DEFINE f == keyed[d].map
             v == IF w = <<>> THEN Look(f, k, r) ELSE w[1]
  <2>1. v \in Records[d][k]
    BY <1>1 DEF KeptMap, Look
  <2>2. keyed' = [keyed EXCEPT ![d] = entry(keyed[d], k, r, w)] /\ entry(keyed[d], k, r, w).map = Put(f, k, v)
    BY <1>1, <1>8, KeyedMaps DEF Enter, Mutate
  <2>3. KeptMap(d, f)
    BY <1>1
  <2> HIDE DEF f, v
  <2>4. KeptMap(d, Put(f, k, v))
    BY <2>1, <2>3, MapsKept
  <2> QED BY <2>2, <2>4, KeptStep
<1>9. ASSUME NEW c \in Keys["cards"], NEW r \in Records["cards"][c], InsertCard(c, r) PROVE KeyedKept'
  <2>1. "cards" \in KeyedDims
    BY DEF KeyedDims
  <2>2. keyed' = [keyed EXCEPT !["cards"] = insert(keyed["cards"], c, r)]
    BY <1>9 DEF InsertCard, MutateCards
  <2>3. KeptMap("cards", insert(keyed["cards"], c, r).map)
    BY <1>1, <2>1, KeyedMaps, MapsKept
  <2> QED BY <2>1, <2>2, <2>3, KeptStep
<1>10. ASSUME NEW c, RemoveCard(c) \/ ClearCards PROVE KeyedKept'
  <2>1. "cards" \in KeyedDims
    BY DEF KeyedDims
  <2> DEFINE f == keyed["cards"].map
  <2>2. \A g : g \in {f, Empty, Del(f, c)} => KeptMap("cards", g)
    BY <1>1, <2>1, MapsKept
  <2>3. PICK m \in {remove(keyed["cards"], c), NewKeyed} : keyed' = [keyed EXCEPT !["cards"] = m]
    BY <1>10 DEF RemoveCard, ClearCards, MutateCards, clear
  <2>4. m.map \in {f, Empty, Del(f, c)}
    BY <1>1, <2>1, <2>3, KeyedMaps DEF NewKeyed
  <2> QED BY <2>1, <2>2, <2>3, <2>4, KeptStep
<1>11. CASE \E p, a, list, n :
             \/ AddAxon(p, a) \/ RemoveAxon(p, a) \/ InsertList(p, list) \/ RemoveList(p)
             \/ Truncate(p, n) \/ ClearAxons \/ CommitmentAxons
  BY <1>2, <1>11 DEF AddAxon, RemoveAxon, InsertList, RemoveList, Truncate, ClearAxons,
                     CommitmentAxons, MutateAxons
<1>12. CASE MutateNext
  BY <1>2, <1>5, <1>6, <1>7, <1>8, <1>9, <1>10, <1>11, <1>12 DEF MutateNext, set_root_version
<1>13. CASE UNCHANGED vars
  BY <1>2, <1>13 DEF vars, dimVars
<1> QED
  BY <1>3, <1>4, <1>11, <1>12, <1>13
  DEF Next, DimNext, ReadNext, Query, QueryBalance, LookProof, Keep

LEMMA ListDomains ==
  ASSUME NEW x, IsIndex(x), NEW p, NEW a, NEW list, NEW n
  PROVE  /\ DOMAIN add(x, p, a).map \subseteq DOMAIN x.map \cup {p}
         /\ DOMAIN remove_list(x, p).map \subseteq DOMAIN x.map
         /\ DOMAIN insert_list(x, p, list).map \subseteq DOMAIN x.map \cup {p}
         /\ DOMAIN remove_axon(x, p, a).map \subseteq DOMAIN x.map \cup {p}
         /\ DOMAIN truncate(x, p, n).map \subseteq DOMAIN x.map \cup {p}
         /\ FlushedIndex(x).map = x.map
         /\ \A c : legacy_commitment(x, c).map = x.map
<1>0. DOMAIN x = {"map", "degrees", "sets", "leaves", "dirty", "legacy"}
  BY DEF IsIndex
<1>1. \A y, f, g, h : DOMAIN y = DOMAIN x => mark([y EXCEPT !.map = f, !.sets = g, !.degrees = h], p).map = f
  BY <1>0 DEF mark
<1>2. \A f, v : DOMAIN Put(f, p, v) = DOMAIN f \cup {p} /\ DOMAIN Del(f, p) \subseteq DOMAIN f
  BY DEF Put, Del
<1>3. DOMAIN add(x, p, a).map \subseteq DOMAIN x.map \cup {p}
  BY <1>0, <1>2 DEF add, mark
<1>4. DOMAIN remove_list(x, p).map \subseteq DOMAIN x.map /\ DOMAIN remove_list(x, p) = DOMAIN x
  BY <1>0, <1>2 DEF remove_list, mark
<1>5. DOMAIN insert_list(x, p, list).map \subseteq DOMAIN x.map \cup {p}
  <2> DEFINE b == remove_list(x, p)
             kept == Firsts(list)
             y == [b EXCEPT !.map = Put(@, p, kept), !.sets = Put(@, p, ToSet(kept)),
                            !.degrees = degree_moved(@, 0, Len(kept))]
  <2>1. insert_list(x, p, list) = IF kept = <<>> THEN b ELSE mark(y, p)
    BY DEF insert_list
  <2>2. DOMAIN b.map \subseteq DOMAIN x.map /\ DOMAIN b = DOMAIN x
    BY <1>4
  <2> HIDE DEF b, kept
  <2>3. y.map = Put(b.map, p, kept) /\ DOMAIN y = DOMAIN x
    BY <1>0, <2>2
  <2> HIDE DEF y
  <2>4. mark(y, p).map = y.map
    BY <1>0, <2>3 DEF mark
  <2>5. DOMAIN mark(y, p).map = DOMAIN b.map \cup {p}
    <3>1. DOMAIN Put(b.map, p, kept) = DOMAIN b.map \cup {p}
      BY <1>2, Zenon
    <3>2. mark(y, p).map = Put(b.map, p, kept)
      BY <2>3, <2>4, Zenon
    <3> QED BY <3>1, <3>2
  <2>6. CASE kept = <<>>
    <3>1. insert_list(x, p, list) = b
      BY <2>1, <2>6, Zenon
    <3> QED BY <2>2, <3>1
  <2>7. CASE kept # <<>>
    <3>1. insert_list(x, p, list) = mark(y, p)
      BY <2>1, <2>7, Zenon
    <3>2. DOMAIN insert_list(x, p, list).map = DOMAIN b.map \cup {p}
      BY <2>5, <3>1, Zenon
    <3> QED BY <2>2, <3>2
  <2> QED BY <2>6, <2>7
<1>6. DOMAIN remove_axon(x, p, a).map \subseteq DOMAIN x.map \cup {p}
  BY <1>0, <1>2 DEF remove_axon, mark
<1>7. DOMAIN truncate(x, p, n).map \subseteq DOMAIN x.map \cup {p}
  BY <1>0, <1>2, <1>4 DEF truncate, mark
<1>8. FlushedIndex(x).map = x.map /\ \A c : legacy_commitment(x, c).map = x.map
  BY <1>0 DEF FlushedIndex, flush_index, legacy_commitment
<1> QED BY <1>3, <1>4, <1>5, <1>6, <1>7, <1>8

LEMMA ListsKeptNext == ASSUME Sound, ListsKept, [Next]_vars PROVE ListsKept'
<1>1. IsIndex(axons_out)
  BY DEF Sound, IndexSound
<1>2. CASE UNCHANGED axons_out
  BY <1>2 DEF ListsKept
<1>3. CASE Root \/ CommitmentAxons
  BY <1>1, <1>3, ListDomains DEF Root, CommitmentAxons, ReadAxons, ListsKept
<1>4. ASSUME NEW p \in Ids, NEW a, NEW list, NEW n,
             \/ AddAxon(p, a) \/ RemoveAxon(p, a) \/ InsertList(p, list) \/ RemoveList(p)
             \/ Truncate(p, n)
      PROVE  ListsKept'
  <2>1. axons_out' \in {add(axons_out, p, a), remove_axon(axons_out, p, a),
                        insert_list(axons_out, p, list), remove_list(axons_out, p),
                        truncate(axons_out, p, n)}
    BY <1>4 DEF AddAxon, RemoveAxon, InsertList, RemoveList, Truncate, MutateAxons
  <2>2. DOMAIN axons_out'.map \subseteq DOMAIN axons_out.map \cup {p}
    BY <1>1, <2>1, ListDomains
  <2> QED BY <2>2 DEF ListsKept
<1>5. CASE ClearAxons
  BY <1>5 DEF ClearAxons, MutateAxons, clear_index, NewIndex, ListsKept, Empty
<1>6. CASE MutateNext
  BY <1>2, <1>4, <1>5, <1>6
  DEF MutateNext, Insert, Modify, Delete, Enter, Clear, Mutate, InsertCard, RemoveCard, ClearCards,
      MutateCards, set_root_version
<1>7. CASE \E d \in KeyedDims : Commitment(d)
  BY <1>2, <1>7 DEF Commitment
<1>8. CASE UNCHANGED vars
  BY <1>2, <1>8 DEF vars, dimVars
<1> QED
  BY <1>3, <1>6, <1>7, <1>8
  DEF Next, DimNext, ReadNext, Query, QueryBalance, LookProof, Keep

-----------------------------------------------------------------------------
(* Answers bind *)

\* A proof the client keeps discloses a table of fields.
HeldSound ==
  (held # <<>> /\ held[1] = "proof") => CertSound(held[2].context[1].certificate)

QueryInv == Sound /\ Mirror(axons_out) /\ KeyedKept /\ ListsKept /\ HeldSound

LEMMA QueryKept == ASSUME QueryInv PROVE Kept
<1>1. \A p \in DOMAIN axons_out.map : axons_out.map[p] \in Seq(Ids)
  BY DEF QueryInv, Mirror, Distinct
<1> QED BY <1>1 DEF QueryInv, Mirror, KeyedKept, KeptMap, ListsKept, Kept

LEMMA ContextSound ==
  ASSUME Kept, NEW d \in Dims, NEW idx PROVE CertSound(Context(d, idx).certificate)
<1>1. PICK o : TableLaid(Table(d), d, o)
  BY TableIsLaid, Zenon
<1>2. Table(d) \in Seq(Nat)
  BY <1>1, Zenon DEF TableLaid
<1> DEFINE f == [e \in {d} |-> Table(e)]
<1>3. Context(d, idx).certificate.dimensions = f
  BY DEF Context
<1>4. DOMAIN f = {d} /\ f[d] = Table(d)
  OBVIOUS
<1> QED BY <1>2, <1>3, <1>4, Zenon DEF CertSound

LEMMA AnswerSound ==
  ASSUME Kept, NEW d \in Dims, NEW i, NEW table, NEW answer, answer # <<>>,
         answer = Answered(table, i, d, i)
  PROVE  CertSound(answer[1].context[1].certificate)
<1>1. answer[1].context = <<Context(d, i)>>
  BY ContextIs
<1>2. answer[1].context[1] = Context(d, i)
  BY <1>1, Single, Zenon
<1> QED BY <1>2, ContextSound, Zenon

LEMMA OpenedIn ==
  ASSUME NEW d \in Public, NEW i, NEW p, p = open_cell(d, i), p # <<>>
  PROVE  p = Answered(Table(d), i, d, i)
BY Zenon DEF open_cell, OpenIn, Answered

LEMMA HeldNext == ASSUME Kept, HeldSound, [Next]_vars PROVE HeldSound'
<1>1. CASE UNCHANGED held
  BY <1>1 DEF HeldSound
<1>2. ASSUME NEW p, held' = <<"proof", p>>, CertSound(p.context[1].certificate) PROVE HeldSound'
  BY <1>2 DEF HeldSound
<1>3. ASSUME NEW d \in Public, NEW key, Query(d, key) PROVE HeldSound'
  <2> DEFINE q == bbg_query(d, key)
             cells == CellIndex(Entries(d), key, PrimaryColumn(d))
             i == Min(cells)
  <2>1. q # <<>> /\ held' = <<"proof", q[1]>>
    BY <1>3, Zenon DEF Query, Keep
  <2>2. q = open_cell(d, i)
    BY <2>1, Zenon DEF bbg_query, open_entity, OpenAt
  <2> HIDE DEF q, i
  <2>3. q = Answered(Table(d), i, d, i)
    BY <2>1, <2>2, OpenedIn
  <2>4. d \in Dims
    BY DEF Public
  <2>5. CertSound(q[1].context[1].certificate)
    BY <2>1, <2>3, <2>4, AnswerSound, Zenon
  <2> QED BY <1>2, <2>1, <2>5, Zenon
<1>4. ASSUME NEW key, QueryBalance(key) PROVE HeldSound'
  <2> DEFINE q == prove_public_balance(key)
             cells == CellIndex(KeyedEntries("balances", keyed["balances"].map), key, 0)
             i == Min(cells)
             d == "balances"
  <2>1. q # <<>> /\ held' = <<"proof", q[1]>>
    BY <1>4, Zenon DEF QueryBalance, Keep
  <2>2. q = WithContext(open_cell(d, i), from_state({d}), d, i)
    <3>1. q = Disclosed(cells)
      BY <2>1, Zenon DEF prove_public_balance
    <3> HIDE DEF cells, q
    <3> QED BY <2>1, <3>1, Zenon DEF Disclosed
  <2>3. d \in Dims /\ d \notin Public
    BY DEF Dims, Public, KeyedDims
  <2> HIDE DEF q, i, d
  <2>4. open_cell(d, i) = open_bare(Table(d), i)
    BY <2>3, Zenon DEF open_cell, OpenIn
  <2>5. CertSound(q[1].context[1].certificate)
    <3>1. q = Answered(Table(d), i, d, i)
      BY <2>2, <2>4, Zenon DEF Answered
    <3> QED BY <2>1, <2>3, <3>1, AnswerSound, Zenon
  <2> QED BY <1>2, <2>1, <2>5, Zenon
<1>5. ASSUME NEW d, NEW i, LookProof(d, i) PROVE HeldSound'
  <2>1. held' = <<"look", look_opening(d, i)[1]>>
    BY <1>5, Zenon DEF LookProof, Keep
  <2>2. held'[1] # "proof"
    <3> DEFINE x == look_opening(d, i)[1]
    <3>1. held' = <<"look", x>>
      BY <2>1
    <3> HIDE DEF x
    <3> QED BY <3>1
  <2> QED BY <2>2, Zenon DEF HeldSound
<1>6. CASE UNCHANGED vars
  BY <1>1, <1>6 DEF vars
<1> QED BY <1>1, <1>3, <1>4, <1>5, <1>6 DEF Next

LEMMA QueryInvNext == ASSUME QueryInv, [Next]_vars PROVE QueryInv'
<1>1. Sound' /\ Mirror(axons_out)' /\ KeyedKept' /\ ListsKept'
  BY NextSound, MirrorNext, KeyedKeptNext, ListsKeptNext DEF QueryInv
<1>2. HeldSound'
  BY QueryKept, HeldNext DEF QueryInv
<1> QED BY <1>1, <1>2 DEF QueryInv

LEMMA CellTells ==
  ASSUME NEW x, NEW y, NEW s, NEW i, Cell(s, i) = <<x>> PROVE i < Len(s) /\ s[i + 1] = x
<1>1. i < Len(s)
  BY Single, Zenon DEF Cell
<1>2. Cell(s, i) = <<s[i + 1]>>
  BY <1>1, Zenon DEF Cell
<1> QED BY <1>1, <1>2, Single, Zenon

\* A proof that is accepted for an entity shows its primary field.
LEMMA EntityBinds ==
  ASSUME Sound, Kept, NEW p, CertSound(p.context[1].certificate), NEW d \in Dims, NEW key,
         verify_entity(p, root_leaves, d, key)
  PROVE  <<p.value>> = Primary(d, key)
<1> DEFINE cert == p.context[1].certificate
           i == p.context[1].index
           t == Table(d)
<1>1. /\ CertRoot(cert) = <<root_leaves>> /\ DOMAIN cert.dimensions = {d}
      /\ Cell(cert.dimensions[d], i) = <<p.value>>
      /\ primary_index(cert.dimensions[d], d, key) = <<i>>
  BY Zenon DEF verify_entity, authenticated
<1> HIDE DEF cert, i
<1>2. CertSound(cert) /\ d \in DOMAIN cert.dimensions
  BY <1>1 DEF cert
<1>3. cert.dimensions[d] = t
  BY <1>1, <1>2, CertBinds, Zenon
<1>4. Cell(t, i) = <<p.value>> /\ primary_index(t, d, key) = <<i>>
  BY <1>1, <1>3, Zenon
<1> HIDE DEF t
<1>5. t[i + 1] = p.value
  BY <1>4, CellTells, Zenon
<1>6. PICK o : TableLaid(t, d, o)
  BY TableIsLaid, Zenon DEF t
<1>7. PICK n \in 1..Len(KeysOf(d)) :
        key_bytes(d, KeysOf(d)[n]) = key /\ i = o[n] + KEY_FIELDS + PrimaryColumn(d)
  BY <1>4, <1>6, IndexFound
<1> DEFINE v == ValsOf(d, KeysOf(d)[n])
           c == PrimaryColumn(d)
           w == WidthAt(d, n)
<1>8. /\ o[n] \in Nat /\ w \in Nat /\ c < w
      /\ \A j \in 1..w : t[o[n] + KEY_FIELDS + j] = v[j]
  BY <1>6, LaidAt
<1>9. Primary(d, key) = <<v[c + 1]>>
  BY <1>7, PrimaryIs, Zenon
<1>10. c \in Nat /\ KEY_FIELDS \in Nat
  BY DimensionAssumption DEF PrimaryColumn
<1> HIDE DEF v, c, w
<1>11. c + 1 \in 1..w
  BY <1>8, <1>10
<1>12. t[o[n] + KEY_FIELDS + (c + 1)] = v[c + 1]
  BY <1>8, <1>11, Zenon
<1>13. i + 1 = o[n] + KEY_FIELDS + (c + 1)
  <2> DEFINE x == o[n]
  <2>1. x \in Nat /\ i = x + KEY_FIELDS + c
    BY <1>7, <1>8, Zenon DEF c
  <2> HIDE DEF x
  <2>2. i + 1 = x + KEY_FIELDS + (c + 1)
    BY <1>10, <2>1
  <2> QED BY <2>2, Zenon DEF x
<1> QED BY <1>5, <1>9, <1>12, <1>13, Zenon

LEMMA CellsBind ==
  ASSUME Sound, Kept, NEW p, CertSound(p.context[1].certificate), NEW d \in Dims, NEW idx
  PROVE  /\ verify_query_at(p, root_leaves, d, idx) => (<<p.value>> = cell_value(d, idx))
         /\ LET cert == p.context[1].certificate
            IN (CertVerify(cert, root_leaves) /\ d \in DOMAIN cert.dimensions)
                 => (CertCell(cert, d, idx) = cell_value(d, idx))
<1> DEFINE cert == p.context[1].certificate
<1>1. ASSUME CertRoot(cert) = <<root_leaves>>, d \in DOMAIN cert.dimensions
      PROVE  cert.dimensions[d] = Table(d)
  BY <1>1, CertBinds, Zenon
<1>2. ASSUME verify_query_at(p, root_leaves, d, idx) PROVE <<p.value>> = cell_value(d, idx)
  <2>1. /\ CertRoot(cert) = <<root_leaves>> /\ DOMAIN cert.dimensions = {d}
        /\ Cell(cert.dimensions[d], idx) = <<p.value>>
    BY <1>2, Zenon DEF verify_query_at, authenticated
  <2>2. d \in DOMAIN cert.dimensions
    <3> HIDE DEF cert
    <3> QED BY <2>1
  <2> QED BY <1>1, <2>1, <2>2, Zenon DEF cell_value
<1>3. ASSUME CertVerify(cert, root_leaves), d \in DOMAIN cert.dimensions
      PROVE  CertCell(cert, d, idx) = cell_value(d, idx)
  BY <1>1, <1>3, Zenon DEF CertVerify, CertCell, cell_value
<1> QED BY <1>2, <1>3, Zenon

\* A look opening accepted beside a fresh proof shows the cell.
LEMMA LookBinds ==
  ASSUME NEW lo, NEW d \in Dims, NEW idx, NEW p, p = open_cell(d, idx), p # <<>>,
         verify_opening_with_context(lo, p[1], root_leaves, idx)
  PROVE  <<lo.value>> = look(d, idx)
<1>1. /\ p[1].context # <<>> /\ lo.value = p[1].value /\ authenticated(p[1], root_leaves)
      /\ p[1].context[1].index = idx
  BY Zenon DEF verify_opening_with_context, verify_query_at
<1>2. d \in Public
  <2> SUFFICES ASSUME d \notin Public PROVE FALSE
    OBVIOUS
  <2>1. p = open_bare(Table(d), idx)
    BY Zenon DEF open_cell, OpenIn
  <2> DEFINE commitment == commit_fields(Table(d))
             point == corner_point(idx, Log2(Len(commitment[2])))
             opening == BrakedownOpen(commitment, point)
  <2>2. p = <<[commitment |-> commitment, opening |-> opening, value |-> opening.value,
             point |-> point, context |-> <<>>]>>
    BY <2>1, Zenon DEF open_bare
  <2> HIDE DEF commitment, point, opening
  <2>3. p[1].context = <<>>
    BY <2>2
  <2> QED BY <1>1, <2>3
<1>3. p[1].context = <<Context(d, idx)>>
  <2>1. p = Answered(Table(d), idx, d, idx)
    BY <1>2, OpenedIn
  <2> QED BY <2>1, ContextIs
<1>4. p[1].context[1] = Context(d, idx)
  BY <1>3, Single, Zenon
<1>5. /\ Context(d, idx).namespace = d /\ Context(d, idx).index = idx
      /\ Context(d, idx).certificate.dimensions[d] = Table(d)
  BY DEF Context
<1>6. Cell(p[1].context[1].certificate.dimensions[p[1].context[1].namespace], p[1].context[1].index)
        = <<p[1].value>>
  BY <1>1, Zenon DEF authenticated
<1>7. Cell(Table(d), idx) = <<p[1].value>>
  BY <1>4, <1>5, <1>6, Zenon
<1> QED BY <1>1, <1>2, <1>7, Zenon DEF look, cell_value

LEMMA InvBinds == ASSUME QueryInv PROVE QueriesBind
<1>1. Sound /\ Kept
  BY QueryKept DEF QueryInv
<1> SUFFICES ASSUME held # <<>>, NEW d \in subject \cap Dims
             PROVE  LET rt == root_leaves IN
         IF held[1] = "proof"
         THEN /\ \A idx \in 0..(Len(Table(d)) - 1) :
                   /\ verify_query_at(held[2], rt, d, idx) => (<<held[2].value>> = cell_value(d, idx))
                   /\ LET cert == held[2].context[1].certificate
                      IN (CertVerify(cert, rt) /\ d \in DOMAIN cert.dimensions)
                           => (CertCell(cert, d, idx) = cell_value(d, idx))
              /\ \A key \in Ids \cup QueryKeys(d) :
                   verify_entity(held[2], rt, d, key) => (<<held[2].value>> = Primary(d, key))
         ELSE \A idx \in 0..(Len(Table(d)) - 1) :
                LET p == open_cell(d, idx)
                IN (p # <<>> /\ verify_opening_with_context(held[2], p[1], rt, idx))
                     => (<<held[2].value>> = look(d, idx))
  BY Zenon DEF QueriesBind
<1>2. d \in Dims
  OBVIOUS
<1>3. CASE held[1] = "proof"
  <2>1. CertSound(held[2].context[1].certificate)
    BY <1>3 DEF QueryInv, HeldSound
  <2> QED BY <1>1, <1>2, <1>3, <2>1, CellsBind, EntityBinds, Zenon
<1>4. CASE held[1] # "proof"
  BY <1>2, <1>4, LookBinds, Zenon
<1> QED BY <1>3, <1>4

LEMMA QueryInvInit == ASSUME Init PROVE QueryInv
<1>1. Sound /\ Mirror(axons_out)
  BY InitSound, NewMirror DEF Init, DimInit
<1>2. HeldSound /\ ListsKept
  BY DEF Init, DimInit, HeldSound, ListsKept, NewIndex, Empty
<1>3. KeyedKept
  BY FS_EmptySet DEF Init, DimInit, KeyedKept, KeptMap, NewKeyed, Empty
<1> QED BY <1>1, <1>2, <1>3 DEF QueryInv

\* An answer a client keeps passes verification under the present root only
\* for what the present state says: the cell, the entity or the look opening
\* it is checked for.  authenticated compares the certificate's leaves with
\* the trusted root, and the leaf of a table gives the table back.
THEOREM QueriesBound == Spec => []QueriesBind
<1>1. Init => QueryInv
  BY QueryInvInit
<1>2. QueryInv /\ [Next]_vars => QueryInv'
  BY QueryInvNext
<1>3. QueryInv => QueriesBind
  BY InvBinds
<1> QED
  BY <1>1, <1>2, <1>3, PTL DEF Spec

-----------------------------------------------------------------------------
(* What a corner opens *)

\* The sums of the first weights, up to the sum of all.
Adds(s, w, n) ==
  s[0] = 0 /\ \A k \in 1..n : s[k - 1] \in Int /\ s[k] = s[k - 1] + w[k]

Weighs(g, w, S) == IsFiniteSet(S) /\ IsSum(g, w, S) /\ \A y \in S : w[y] \in Int

Grows(S, a, b, k) == a \in SUBSET S /\ k \notin a /\ b = a \cup {k} /\ k \in S

Moves(x, y, z) == x \in Int /\ y = x + z

LEMMA SumStep ==
  ASSUME NEW S, NEW w, NEW g, NEW a, NEW b, NEW k, Grows(S, a, b, k), Weighs(g, w, S)
  PROVE  Moves(g[a], g[b], w[k])
BY SumGrows DEF Grows, Weighs, Moves

LEMMA PrefixStep ==
  ASSUME NEW n \in Nat, NEW w, NEW g, Weighs(g, w, 1..n), NEW k \in 1..n
  PROVE  Moves(g[1..(k - 1)], g[1..k], w[k])
<1> DEFINE a == 1..(k - 1)
           b == 1..k
           S == 1..n
<1>1. Grows(S, a, b, k)
  BY DEF Grows
<1>2. Weighs(g, w, S)
  OBVIOUS
<1> HIDE DEF a, b, S
<1>4. Moves(g[a], g[b], w[k])
  BY <1>1, <1>2, SumStep, Zenon
<1> QED BY <1>4 DEF a, b

LEMMA PrefixSum ==
  ASSUME NEW n \in Nat, NEW w, DOMAIN w = 1..n, \A j \in 1..n : w[j] \in Int
  PROVE  \E s : Adds(s, w, n) /\ SumOf(w) = s[n]
<1>1. IsFiniteSet(1..n)
  BY FS_Interval
<1>2. PICK g : IsSum(g, w, 1..n) /\ SumOf(w) = g[1..n]
  <2>1. IsFiniteSet(DOMAIN w) /\ \A x \in DOMAIN w : w[x] \in Int
    BY <1>1
  <2>2. \E g : IsSum(g, w, DOMAIN w) /\ SumOf(w) = g[DOMAIN w]
    BY <2>1, SumOfIsSum
  <2> QED BY <2>2
<1> DEFINE s == [k \in 0..n |-> g[1..k]]
<1>3. s[0] = 0
  <2>1. 1..0 = {} /\ s[0] = g[1..0] /\ {} \in SUBSET (1..n)
    OBVIOUS
  <2>2. g[{}] = SumAt(g, w, {})
    BY <1>2, <2>1 DEF IsSum
  <2> QED BY <2>1, <2>2 DEF SumAt
<1>4. s[n] = g[1..n]
  OBVIOUS
<1>5. ASSUME NEW k \in 1..n PROVE s[k - 1] \in Int /\ s[k] = s[k - 1] + w[k]
  <2>1. s[k - 1] = g[1..(k - 1)] /\ s[k] = g[1..k]
    OBVIOUS
  <2>2. Weighs(g, w, 1..n)
    BY <1>1, <1>2, Zenon DEF Weighs
  <2> HIDE DEF s
  <2>3. Moves(g[1..(k - 1)], g[1..k], w[k])
    BY <2>2, PrefixStep, Zenon
  <2> QED BY <2>1, <2>3, Zenon DEF Moves
<1> HIDE DEF s
<1>6. Adds(s, w, n)
  BY <1>3, <1>5, Zenon DEF Adds
<1> QED BY <1>2, <1>4, <1>6, Zenon

\* What k bits of idx add up to, with the rest of it.
Bits(s, idx, k) == s[k] \in Int /\ s[k] + 2^k * (idx \div 2^k) = idx

LEMMA Corner ==
  ASSUME NEW n \in Nat, NEW idx \in Nat, idx < 2^n
  PROVE  LET point == corner_point(idx, n) IN
         SumOf([j \in DOMAIN point |-> point[j] * 2^(j - 1)]) = idx
<1> DEFINE point == corner_point(idx, n)
           w == [j \in DOMAIN point |-> point[j] * 2^(j - 1)]
<1>1. DOMAIN w = 1..n /\ \A j \in 1..n : w[j] = ((idx \div 2^(j - 1)) % 2) * 2^(j - 1)
  BY DEF corner_point
<1>2. ASSUME NEW j \in 1..n PROVE w[j] \in Int
  <2> DEFINE p == 2^(j - 1)
             b == (idx \div p) % 2
  <2>1. p \in Nat /\ p # 0
    <3>1. j - 1 \in Nat
      OBVIOUS
    <3> QED BY <3>1, PowerPositive
  <2>2. idx \div p \in Nat
    <3> HIDE DEF p
    <3> QED BY <2>1, Quotient, Zenon
  <2>3. b \in 0..1
    <3> DEFINE c == idx \div p
    <3> HIDE DEF c
    <3>1. c % 2 \in 0..1
      BY <2>2 DEF c
    <3> QED BY <3>1 DEF c
  <2>4. w[j] = b * p
    BY <1>1
  <2> HIDE DEF b, p, w
  <2> QED BY <2>1, <2>3, <2>4
<1> HIDE DEF w
<1>3. PICK s : Adds(s, w, n) /\ SumOf(w) = s[n]
  BY <1>1, <1>2, PrefixSum, Zenon
<1> DEFINE U == {k \in Nat : k \in 0..n => Bits(s, idx, k)}
<1>4. 0 \in U
  <2>1. 2^0 = 1 /\ idx \div 1 = idx
    BY PowerZero
  <2>2. s[0] + 2^0 * (idx \div 2^0) = 0 + 1 * idx
    BY <1>3, <2>1, Zenon DEF Adds
  <2>3. 0 + 1 * idx = idx
    OBVIOUS
  <2>4. s[0] \in Int
    BY <1>3 DEF Adds
  <2> QED BY <2>2, <2>3, <2>4 DEF Bits
<1>5. ASSUME NEW k \in Nat, k \in U PROVE k + 1 \in U
  <2> SUFFICES ASSUME k + 1 \in 0..n
               PROVE  Bits(s, idx, k + 1)
    OBVIOUS
  <2> DEFINE h == k + 1
             p == 2^k
             a == idx \div p
  <2>1. h \in 1..n /\ h - 1 = k /\ k \in 0..n
    OBVIOUS
  <2>2. s[k] \in Int /\ s[k] + p * a = idx
    <3>1. Bits(s, idx, k)
      BY <1>5, <2>1, Zenon
    <3> QED BY <3>1, Zenon DEF Bits
  <2>3. p \in Nat /\ p # 0 /\ 2^h = 2 * p
    BY PowerStep, PowerPositive
  <2>4. a \in Nat /\ idx \div (2 * p) = a \div 2
    <3> HIDE DEF p
    <3> QED BY <2>3, Quotient, QuotientHalf
  <2>5. s[h] = s[k] + w[h] /\ w[h] = (a % 2) * p
    <3> HIDE DEF h
    <3>1. s[h] = s[h - 1] + w[h] /\ w[h] = ((idx \div 2^(h - 1)) % 2) * 2^(h - 1)
      BY <1>1, <1>3, <2>1, Zenon DEF Adds
    <3> QED BY <2>1, <3>1, Zenon
  <2> HIDE DEF h, p, a
  <2>6. a = 2 * (a \div 2) + (a % 2) /\ a \div 2 \in Nat /\ a % 2 \in Nat
    BY <2>4
  <2> DEFINE c == a \div 2
             e == a % 2
  <2> HIDE DEF c, e
  <2>7. a = 2 * c + e /\ c \in Nat /\ e \in Nat
    BY <2>6 DEF c, e
  <2>8. p * a = (2 * p) * c + e * p
    BY <2>3, <2>7
  <2>9. s[h] = s[k] + e * p
    BY <2>5 DEF e
  <2>10. s[h] \in Int /\ s[h] + (2 * p) * c = idx
    <3> DEFINE u == e * p
               v == (2 * p) * c
               z == p * a
    <3>1. u \in Int /\ v \in Int /\ z = v + u /\ s[h] = s[k] + u /\ s[k] + z = idx /\ s[k] \in Int
      BY <2>2, <2>3, <2>7, <2>8, <2>9
    <3> HIDE DEF u, v, z
    <3>2. s[h] \in Int /\ s[h] + v = idx
      BY <3>1
    <3> QED BY <3>2 DEF v
  <2>11. s[h] \in Int /\ s[h] + 2^h * (idx \div 2^h) = idx
    <3>1. 2^h = 2 * p /\ idx \div 2^h = c
      BY <2>3, <2>4, Zenon DEF c
    <3> QED BY <2>10, <3>1, Zenon
  <2> QED BY <2>11, Zenon DEF h, Bits
<1>6. n \in U
  <2> HIDE DEF U
  <2> QED BY <1>4, <1>5, Induction, Zenon
<1>7. s[n] \in Int /\ s[n] + 2^n * (idx \div 2^n) = idx
  <2>1. Bits(s, idx, n)
    BY <1>6
  <2> QED BY <2>1, Zenon DEF Bits
<1>8. idx \div 2^n = 0 /\ 2^n \in Nat /\ 2^n # 0
  <2> DEFINE p == 2^n
  <2>1. p \in Nat /\ p # 0
    BY PowerPositive
  <2> HIDE DEF p
  <2>2. idx < p
    BY DEF p
  <2> DEFINE a == idx \div p
             r == idx % p
  <2>3. a \in Nat /\ r \in 0..(p - 1) /\ idx = p * a + r
    BY <2>1, Quotient
  <2>4. idx = p * 0 + idx /\ idx \in 0..(p - 1) /\ 0 \in Nat
    BY <2>1, <2>2
  <2> HIDE DEF a, r
  <2>5. a = 0
    <3>1. p * a + r = p * 0 + idx
      BY <2>3, <2>4, Zenon
    <3> QED BY <2>1, <2>3, <2>4, <3>1, QuotientUnique, Zenon
  <2> QED BY <2>1, <2>5 DEF a, p
<1>9. s[n] = idx
  <2> DEFINE p == 2^n
             a == idx \div p
  <2>1. p \in Nat /\ a = 0 /\ s[n] + p * a = idx /\ s[n] \in Int
    BY <1>7, <1>8
  <2> HIDE DEF p, a
  <2> QED BY <2>1
<1> QED BY <1>3, <1>9 DEF w

LEMMA Log2Is ==
  ASSUME NEW n \in Nat
  PROVE  LET P == next_power_of_two(n) IN Log2(P) \in Nat /\ 2^Log2(P) = P
<1> DEFINE P == next_power_of_two(n)
<1>1. P \in Nat /\ \E i \in 0..n : P = 2^i
  BY PaddedLength, Zenon
<1> HIDE DEF P
<1>2. PICK i \in 0..n : P = 2^i
  BY <1>1
<1>3. i \in Nat /\ i <= 2^i
  <2>1. i \in Nat
    OBVIOUS
  <2> QED BY <2>1, PowerBound, Zenon
<1>4. \E j \in 0..P : 2^j = P
  <2>1. i <= P
    BY <1>2, <1>3, Zenon
  <2>2. i \in 0..P
    BY <1>1, <1>3, <2>1
  <2> QED BY <1>2, <2>2, Zenon
<1>5. Log2(P) \in 0..P /\ 2^Log2(P) = P
  BY <1>4, Zenon DEF Log2
<1>6. Log2(P) \in Nat
  BY <1>1, <1>5
<1> QED BY <1>5, <1>6, Zenon DEF P

\* The point at which a table is opened, and what the opening shows.
PointAt(t, idx) == corner_point(idx, Log2(next_power_of_two(Len(t))))

LEMMA OpeningShows ==
  ASSUME NEW t \in Seq(Nat), NEW idx \in Nat, idx < Len(t)
  PROVE  /\ Len(commit_fields(t)[2]) = next_power_of_two(Len(t))
         /\ BrakedownOpen(commit_fields(t), PointAt(t, idx)).value = t[idx + 1]
<1> DEFINE P == next_power_of_two(Len(t))
           L == Len(t)
           f == [i \in 1..P |-> IF i <= L THEN t[i] ELSE 0]
           c == commit_fields(t)
<1>1. L \in Nat /\ idx < L
  OBVIOUS
<1>2. P \in Nat /\ L <= P /\ Log2(P) \in Nat /\ 2^Log2(P) = P
  <2> HIDE DEF L
  <2>1. next_power_of_two(L) \in Nat /\ L <= next_power_of_two(L)
    BY <1>1, PaddedLength, Zenon
  <2>2. Log2(next_power_of_two(L)) \in Nat /\ 2^Log2(next_power_of_two(L)) = next_power_of_two(L)
    BY <1>1, Log2Is, Zenon
  <2> QED BY <2>1, <2>2, Zenon DEF L
<1>3. c = <<"v1", f>> /\ c[2] = f
  BY DEF commit_fields
<1> HIDE DEF P, L
<1>4. Len(f) = P
  <2>1. IsVector(f, P) /\ \A i \in 1..P : f[i] \in {f[j] : j \in 1..P}
    BY DEF IsVector
  <2> HIDE DEF f
  <2> QED BY <1>2, <2>1, VectorSeq, Zenon
<1>5. idx + 1 \in 1..P /\ f[idx + 1] = t[idx + 1]
  BY <1>1, <1>2
<1> HIDE DEF f, c
<1> DEFINE point == corner_point(idx, Log2(P))
           i == SumOf([j \in DOMAIN point |-> point[j] * 2^(j - 1)])
<1>6. i = idx
  <2>1. idx < 2^Log2(P)
    <3>1. idx < P
      BY <1>1, <1>2
    <3> QED BY <1>2, <3>1, Zenon
  <2> QED BY <1>2, <2>1, Corner, Zenon
<1>7. BrakedownOpen(c, point).value = c[2][i + 1]
  BY DEF BrakedownOpen
<1> HIDE DEF i
<1>8. BrakedownOpen(c, point).value = t[idx + 1]
  BY <1>3, <1>5, <1>6, <1>7, Zenon
<1> QED BY <1>3, <1>4, <1>8, Zenon DEF c, P, L, PointAt

\* The proof open_bare makes.
Bare(t, idx) ==
  [commitment |-> commit_fields(t), opening |-> BrakedownOpen(commit_fields(t), PointAt(t, idx)),
   value |-> t[idx + 1], point |-> PointAt(t, idx), context |-> <<>>]

LEMMA BareIs ==
  ASSUME NEW t \in Seq(Nat), NEW idx \in Nat, idx < Len(t)
  PROVE  open_bare(t, idx) = <<Bare(t, idx)>>
<1>1. /\ Len(commit_fields(t)[2]) = next_power_of_two(Len(t))
      /\ BrakedownOpen(commit_fields(t), PointAt(t, idx)).value = t[idx + 1]
  BY OpeningShows, Zenon
<1> DEFINE c == commit_fields(t)
           point == corner_point(idx, Log2(Len(c[2])))
           opening == BrakedownOpen(c, point)
<1>2. point = PointAt(t, idx)
  BY <1>1, Zenon DEF PointAt
<1>3. ~(idx >= Len(t))
  OBVIOUS
<1>4. open_bare(t, idx) = IF idx >= Len(t) THEN <<>>
        ELSE <<[commitment |-> c, opening |-> opening, value |-> opening.value,
                point |-> point, context |-> <<>>]>>
  BY DEF open_bare
<1>5. opening = BrakedownOpen(c, PointAt(t, idx)) /\ opening.value = t[idx + 1]
  BY <1>1, <1>2, Zenon
<1> HIDE DEF c, point, opening
<1>6. open_bare(t, idx) = <<[commitment |-> c, opening |-> opening, value |-> opening.value,
                point |-> point, context |-> <<>>]>>
  BY <1>3, <1>4, Zenon
<1>7. Bare(t, idx) = [commitment |-> c, opening |-> opening, value |-> opening.value,
                point |-> point, context |-> <<>>]
  BY <1>2, <1>5, Zenon DEF Bare, c
<1> QED BY <1>6, <1>7, Zenon

-----------------------------------------------------------------------------
(* How far apart entries are *)

\* Offsets m entries apart, each with a key of K fields and l[n] more.
Strides(o, l, m, K) ==
  /\ m \in Nat /\ K \in Nat /\ K >= 2 /\ o[1] = 3
  /\ \A n \in 1..m : o[n] \in Nat /\ l[n] \in Nat /\ o[n + 1] = o[n] + K + l[n]

LEMMA StrideStep ==
  ASSUME NEW o, NEW l, NEW m, NEW K, Strides(o, l, m, K), NEW n \in 1..m
  PROVE  /\ o[n] \in Nat /\ l[n] \in Nat /\ o[n + 1] \in Nat /\ o[n + 1] = o[n] + K + l[n]
         /\ o[n] < o[n + 1] /\ m \in Nat /\ K \in Nat
BY DEF Strides

Leap(x, y, K, w) == x \in Nat /\ w \in Nat /\ y \in Nat /\ y = x + K + w

LEMMA StrideLeap ==
  ASSUME NEW o, NEW l, NEW m, NEW K, Strides(o, l, m, K), NEW n \in 1..m
  PROVE  Leap(o[n], o[n + 1], K, l[n])
BY StrideStep DEF Leap

LEMMA StrideOrder ==
  ASSUME NEW o, NEW l, NEW m, NEW K, Strides(o, l, m, K),
         NEW i \in 1..(m + 1), NEW j \in 1..(m + 1), i < j
  PROVE  o[i] < o[j]
<1>1. m \in Nat
  BY DEF Strides
<1> DEFINE U == {k \in Nat : i + 1 + k \in 1..(m + 1) =>
                   o[i + 1 + k] \in Nat /\ o[i] \in Nat /\ o[i] < o[i + 1 + k]}
<1>2. 0 \in U
  <2> SUFFICES ASSUME i + 1 + 0 \in 1..(m + 1)
               PROVE  o[i + 1 + 0] \in Nat /\ o[i] \in Nat /\ o[i] < o[i + 1 + 0]
    OBVIOUS
  <2>1. i \in 1..m /\ i + 1 + 0 = i + 1
    BY <1>1
  <2>2. o[i] \in Nat /\ o[i + 1] \in Nat /\ o[i] < o[i + 1]
    BY <2>1, StrideStep, Zenon
  <2> QED BY <2>1, <2>2, Zenon
<1>3. ASSUME NEW k \in Nat, k \in U PROVE k + 1 \in U
  <2> SUFFICES ASSUME i + 1 + (k + 1) \in 1..(m + 1)
               PROVE  /\ o[i + 1 + (k + 1)] \in Nat /\ o[i] \in Nat
                      /\ o[i] < o[i + 1 + (k + 1)]
    OBVIOUS
  <2> DEFINE h == i + 1 + k
  <2>1. h \in 1..m /\ h \in 1..(m + 1) /\ i + 1 + (k + 1) = h + 1
    BY <1>1
  <2>2. o[h] \in Nat /\ o[i] \in Nat /\ o[i] < o[h]
    BY <1>3, <2>1
  <2> HIDE DEF h
  <2>3. o[h] \in Nat /\ o[h + 1] \in Nat /\ o[h] < o[h + 1]
    BY <2>1, StrideStep, Zenon
  <2>4. o[i] < o[h + 1]
    BY <2>2, <2>3
  <2> QED BY <2>1, <2>2, <2>3, <2>4, Zenon
<1>4. Nat \subseteq U
  <2> HIDE DEF U
  <2> QED BY <1>2, <1>3, Induction
<1>5. j - (i + 1) \in Nat /\ i + 1 + (j - (i + 1)) = j
  BY <1>1
<1>6. j - (i + 1) \in U
  <2> HIDE DEF U
  <2> QED BY <1>4, <1>5
<1> QED BY <1>5, <1>6

LEMMA StrideLeast ==
  ASSUME NEW o, NEW l, NEW m, NEW K, Strides(o, l, m, K)
  PROVE  3 + m * K <= o[m + 1] /\ o[m + 1] \in Nat
<1>0. m \in Nat /\ K \in Nat /\ o[1] = 3
  BY DEF Strides
<1> DEFINE U == {k \in Nat : k \in 0..m => 3 + k * K <= o[k + 1] /\ o[k + 1] \in Nat}
<1>1. 0 \in U
  <2>1. 0 + 1 = 1 /\ 0 * K = 0
    BY <1>0
  <2> QED BY <1>0, <2>1
<1>2. ASSUME NEW k \in Nat, k \in U PROVE k + 1 \in U
  <2> SUFFICES ASSUME k + 1 \in 0..m
               PROVE  3 + (k + 1) * K <= o[(k + 1) + 1] /\ o[(k + 1) + 1] \in Nat
    OBVIOUS
  <2> DEFINE h == k + 1
             a == k * K
  <2>1. h \in 1..m /\ k \in 0..m /\ (k + 1) * K = a + K /\ a \in Nat
    BY <1>0
  <2>2. 3 + a <= o[h] /\ o[h] \in Nat
    BY <1>2, <2>1
  <2> HIDE DEF h, a
  <2>3. Leap(o[h], o[h + 1], K, l[h])
    BY <2>1, StrideLeap, Zenon
  <2>4. 3 + (a + K) <= o[h + 1] /\ o[h + 1] \in Nat
    BY <1>0, <2>1, <2>2, <2>3 DEF Leap
  <2> QED BY <2>1, <2>4, Zenon DEF h
<1>3. m \in U
  <2> HIDE DEF U
  <2> QED BY <1>0, <1>1, <1>2, Induction
<1> QED BY <1>0, <1>3

LEMMA StrideEven ==
  ASSUME NEW o, NEW l, NEW m, NEW K, Strides(o, l, m, K), \A n \in 1..m : l[n] = 2
  PROVE  o[m + 1] = 3 + m * (K + 2)
<1>0. m \in Nat /\ K \in Nat /\ o[1] = 3
  BY DEF Strides
<1> DEFINE U == {k \in Nat : k \in 0..m => o[k + 1] = 3 + k * (K + 2)}
<1>1. 0 \in U
  <2>1. 0 + 1 = 1 /\ 3 + 0 * (K + 2) = 3
    BY <1>0
  <2> QED BY <1>0, <2>1
<1>2. ASSUME NEW k \in Nat, k \in U PROVE k + 1 \in U
  <2> SUFFICES ASSUME k + 1 \in 0..m
               PROVE  o[(k + 1) + 1] = 3 + (k + 1) * (K + 2)
    OBVIOUS
  <2> DEFINE h == k + 1
             a == k * (K + 2)
  <2>1. h \in 1..m /\ k \in 0..m /\ (k + 1) * (K + 2) = a + K + 2 /\ a \in Nat
    BY <1>0
  <2>2. o[h] = 3 + a
    BY <1>2, <2>1
  <2> HIDE DEF h, a
  <2>3. Leap(o[h], o[h + 1], K, l[h]) /\ l[h] = 2
    BY <2>1, StrideLeap, Zenon
  <2>4. o[h + 1] = 3 + (a + K + 2)
    BY <1>0, <2>1, <2>2, <2>3 DEF Leap
  <2> QED BY <2>1, <2>4, Zenon DEF h
<1>3. m \in U
  <2> HIDE DEF U
  <2> QED BY <1>0, <1>1, <1>2, Induction
<1> QED BY <1>0, <1>3

LEMMA StrideSum ==
  ASSUME NEW o, NEW l, NEW m, NEW K, Strides(o, l, m, K), NEW n \in 1..m,
         NEW w, DOMAIN w = 1..(n - 1), \A i \in 1..(n - 1) : w[i] = K + l[i]
  PROVE  3 + SumOf(w) = o[n]
<1>0. m \in Nat /\ K \in Nat /\ o[1] = 3 /\ n - 1 \in Nat
  BY DEF Strides
<1> DEFINE N == n - 1
<1>1. ASSUME NEW i \in 1..N
      PROVE  w[i] = K + l[i] /\ w[i] \in Int /\ Leap(o[i], o[i + 1], K, l[i])
  <2>1. i \in 1..m /\ w[i] = K + l[i]
    BY <1>0
  <2>2. Leap(o[i], o[i + 1], K, l[i])
    BY <2>1, StrideLeap, Zenon
  <2>3. w[i] \in Int
    BY <1>0, <2>1, <2>2 DEF Leap
  <2> QED BY <2>1, <2>2, <2>3
<1>2. PICK s : Adds(s, w, N) /\ SumOf(w) = s[N]
  <2>1. DOMAIN w = 1..N /\ \A i \in 1..N : w[i] \in Int
    BY <1>1
  <2>2. N \in Nat
    BY <1>0
  <2> HIDE DEF N
  <2> QED BY <2>1, <2>2, PrefixSum, Zenon
<1>3. N \in Nat /\ N + 1 = n
  BY <1>0
<1> HIDE DEF N
<1> DEFINE U == {k \in Nat : k \in 0..N => s[k] \in Int /\ 3 + s[k] = o[k + 1]}
<1>4. 0 \in U
  <2>1. s[0] = 0
    BY <1>2 DEF Adds
  <2>2. 0 + 1 = 1
    OBVIOUS
  <2> QED BY <1>0, <2>1, <2>2
<1>5. ASSUME NEW k \in Nat, k \in U PROVE k + 1 \in U
  <2> SUFFICES ASSUME k + 1 \in 0..N
               PROVE  s[k + 1] \in Int /\ 3 + s[k + 1] = o[(k + 1) + 1]
    OBVIOUS
  <2> DEFINE h == k + 1
  <2>1. h \in 1..N /\ k \in 0..N /\ h - 1 = k
    BY <1>3
  <2>2. s[k] \in Int /\ 3 + s[k] = o[h]
    BY <1>5, <2>1
  <2> HIDE DEF h
  <2>3. s[h] = s[k] + w[h]
    <3>1. s[h] = s[h - 1] + w[h]
      BY <1>2, <2>1, Zenon DEF Adds
    <3> QED BY <2>1, <3>1, Zenon
  <2>4. w[h] = K + l[h] /\ Leap(o[h], o[h + 1], K, l[h])
    BY <1>1, <2>1, Zenon
  <2>5. s[h] \in Int /\ 3 + s[h] = o[h + 1]
    <3> DEFINE x == o[h]
               y == o[h + 1]
               z == l[h]
               a == s[k]
               b == s[h]
    <3>1. /\ a \in Int /\ 3 + a = x /\ b = a + (K + z) /\ K \in Nat
          /\ x \in Nat /\ z \in Nat /\ y \in Nat /\ y = x + K + z
      BY <1>0, <2>2, <2>3, <2>4, Zenon DEF Leap
    <3> HIDE DEF x, y, z, a, b
    <3>2. b \in Int /\ 3 + b = y
      BY <3>1
    <3> QED BY <3>2 DEF b, y
  <2> QED BY <2>5, Zenon DEF h
<1>6. N \in U
  <2> HIDE DEF U
  <2> QED BY <1>3, <1>4, <1>5, Induction
<1>7. 3 + s[N] = o[N + 1]
  BY <1>3, <1>6
<1> QED BY <1>2, <1>3, <1>7, Zenon

-----------------------------------------------------------------------------
(* The certificate of a table *)

LEMMA LaidStrides ==
  ASSUME Kept, NEW d \in Dims, NEW t, NEW o, TableLaid(t, d, o)
  PROVE  LET m == Len(KeysOf(d)) IN
         Strides(o, [n \in 1..m |-> WidthAt(d, n)], m, KEY_FIELDS) /\ o[m + 1] = Len(t)
<1> DEFINE m == Len(KeysOf(d))
           l == [n \in 1..m |-> WidthAt(d, n)]
<1>1. m \in Nat
  BY KeysOfOrder, Zenon
<1>2. o[1] = 3 /\ o[m + 1] = Len(t)
  BY Zenon DEF TableLaid
<1>3. \A n \in 1..m : /\ o[n] \in Nat /\ WidthAt(d, n) \in Nat
                      /\ o[n + 1] = o[n] + KEY_FIELDS + WidthAt(d, n)
  BY LaidAt
<1> HIDE DEF m
<1>4. \A n \in 1..m : l[n] = WidthAt(d, n)
  OBVIOUS
<1> HIDE DEF l
<1>5. KEY_FIELDS \in Nat /\ KEY_FIELDS >= 2
  BY DimensionAssumption
<1>6. Strides(o, l, m, KEY_FIELDS)
  BY <1>1, <1>2, <1>3, <1>4, <1>5 DEF Strides
<1> QED BY <1>2, <1>6, Zenon DEF l, m

LEMMA CountFits ==
  ASSUME NEW L \in Nat, NEW m \in Nat, NEW K \in Nat, K >= 2, 3 + m * K <= L
  PROVE  m <= (L - 3) \div K
<1> DEFINE a == (L - 3) \div K
           r == (L - 3) % K
           x == L - 3
           y == m * K
<1>1. y \in Nat /\ x \in Nat /\ y <= x /\ K # 0
  OBVIOUS
<1>2. a \in Nat /\ r \in 0..(K - 1) /\ x = K * a + r
  <2> HIDE DEF x
  <2>1. x \div K \in Nat /\ x % K \in 0..(K - 1) /\ x = K * (x \div K) + (x % K)
    BY <1>1, Quotient
  <2> QED BY <2>1 DEF x
<1> HIDE DEF a, r, x
<1>3. ASSUME ~(m <= a) PROVE FALSE
  <2>1. PICK c \in Nat : m = a + 1 + c
    BY <1>2, <1>3
  <2>2. y = K * a + K + K * c /\ K * c \in Nat /\ K * a \in Nat
    BY <1>2, <2>1
  <2> HIDE DEF y
  <2> QED BY <1>1, <1>2, <2>2
<1>4. m <= a
  BY <1>3
<1> QED BY <1>4 DEF a, x

LEMMA ShapeHolds ==
  ASSUME Kept, NEW d \in Dims
  PROVE  LET t == Table(d) IN
         /\ t \in Seq(Nat) /\ Len(t) \in Nat /\ Len(t) >= 3 /\ t[1] = 2 /\ t[2] = Len(t)
         /\ t[3] <= (Len(t) - 3) \div KEY_FIELDS
         /\ t[3] = 0 => Len(t) = 3
<1> DEFINE t == Table(d)
           m == Len(KeysOf(d))
<1>1. PICK o : TableLaid(t, d, o)
  BY TableIsLaid
<1> HIDE DEF t
<1>2. t \in Seq(Nat) /\ Len(t) >= 3 /\ t[1] = 2 /\ t[2] = Len(t) /\ t[3] = m /\ o[1] = 3
  BY <1>1, Zenon DEF TableLaid
<1>3. Len(t) \in Nat
  BY <1>2
<1>4. Strides(o, [n \in 1..m |-> WidthAt(d, n)], m, KEY_FIELDS) /\ o[m + 1] = Len(t)
  BY <1>1, LaidStrides, Zenon
<1>5. m \in Nat
  BY KeysOfOrder, Zenon
<1>6. 3 + m * KEY_FIELDS <= o[m + 1]
  BY <1>4, StrideLeast, Zenon
<1>7. m <= (Len(t) - 3) \div KEY_FIELDS
  <2>1. KEY_FIELDS \in Nat /\ KEY_FIELDS >= 2
    BY DimensionAssumption
  <2>2. 3 + m * KEY_FIELDS <= Len(t)
    BY <1>4, <1>6, Zenon
  <2> QED BY <1>3, <1>5, <2>1, <2>2, CountFits, Zenon
<1>8. ASSUME m = 0 PROVE Len(t) = 3
  <2>1. m + 1 = 1
    BY <1>8
  <2> QED BY <1>2, <1>4, <2>1, Zenon
<1> QED BY <1>2, <1>3, <1>7, <1>8, Zenon DEF t

OneWeight(w, x) == DOMAIN w = {x} /\ w[x] \in Int

LEMMA SumSingle ==
  ASSUME NEW x, NEW w, OneWeight(w, x)
  PROVE  SumOf(w) = w[x]
<1>0. DOMAIN w = {x} /\ w[x] \in Int
  BY DEF OneWeight
<1>1. IsFiniteSet({x})
  BY FS_Singleton, Zenon
<1>2. PICK g : IsSum(g, w, {x}) /\ SumOf(w) = g[{x}]
  <2>1. IsFiniteSet(DOMAIN w) /\ \A y \in DOMAIN w : w[y] \in Int
    BY <1>0, <1>1
  <2> QED BY <1>0, <2>1, SumOfIsSum
<1>3. g[{}] = SumAt(g, w, {}) /\ g[{x}] = SumAt(g, w, {x})
  BY <1>2 DEF IsSum
<1>4. Pick({x}) = x /\ {x} \ {x} = {} /\ {x} # {}
  BY PickIn
<1>5. g[{}] = 0 /\ g[{x}] = w[x] + g[{}]
  BY <1>3, <1>4, Zenon DEF SumAt
<1> QED BY <1>0, <1>2, <1>5

\* The certificate of one namespace.
CertOf(d) == [leaves |-> root_leaves, dimensions |-> [e \in {d} |-> Table(e)]]

LEMMA CertOfIs ==
  ASSUME NEW d
  PROVE  /\ CertOf(d).leaves = root_leaves /\ DOMAIN CertOf(d).dimensions = {d}
         /\ CertOf(d).dimensions[d] = Table(d)
         /\ \A idx : Context(d, idx).certificate = CertOf(d)
         /\ from_state({d}) = Certified(CertOf(d))
BY DEF CertOf, Context, from_state

LEMMA CertRootIs ==
  ASSUME Sound, Kept, NEW d \in Dims, root_version # "V2"
  PROVE  CertRoot(CertOf(d)) = <<root_leaves>>
<1> DEFINE c == CertOf(d)
           t == Table(d)
<1>1. c.leaves = root_leaves /\ DOMAIN c.dimensions = {d} /\ c.dimensions[d] = t
  BY CertOfIs, Zenon
<1>2. /\ Len(t) >= 3 /\ t[1] = 2 /\ t[2] = Len(t)
      /\ t[3] <= (Len(t) - 3) \div KEY_FIELDS
      /\ t[3] = 0 => Len(t) = 3
  BY ShapeHolds, Zenon
<1>3. root_leaves.dims[d] = commit_fields(t)
  BY RootLeafIs, Zenon
<1> HIDE DEF c, t
<1>4. validate_shape(c)
  BY <1>1, <1>2 DEF validate_shape, HEADER_FIELDS, TABLE_VERSION
<1>5. \A e \in DOMAIN c.dimensions : commit_fields(c.dimensions[e]) = c.leaves.dims[e]
  BY <1>1, <1>3
<1>6. CertRoot(c) = <<c.leaves>>
  BY <1>4, <1>5, Zenon DEF CertRoot
<1> QED BY <1>1, <1>6, Zenon DEF c

LEMMA CertIs ==
  ASSUME Sound, Kept, NEW d \in Dims, root_version # "V2", Len(Table(d)) <= MAX_QUERY_FIELDS
  PROVE  from_state({d}) = <<CertOf(d)>>
<1> DEFINE c == CertOf(d)
           t == Table(d)
           w == [e \in DOMAIN c.dimensions |-> Len(c.dimensions[e])]
<1>1. DOMAIN c.dimensions = {d} /\ c.dimensions[d] = t /\ from_state({d}) = Certified(c)
  BY CertOfIs, Zenon
<1>2. Len(t) \in Nat
  BY ShapeHolds, Zenon
<1>3. CertRoot(c) = <<root_leaves>>
  BY CertRootIs, Zenon
<1>4. Len(t) <= MAX_FIELDS
  BY <1>2, QueryAssumption
<1> HIDE DEF c, t
<1>5. DOMAIN w = {d} /\ w[d] = Len(t)
  BY <1>1
<1>6. SumOf(w) = Len(t)
  <2> HIDE DEF w
  <2>1. OneWeight(w, d)
    BY <1>2, <1>5 DEF OneWeight
  <2>2. SumOf(w) = w[d]
    BY <2>1, SumSingle, Zenon
  <2> QED BY <1>5, <2>2, Zenon
<1>7. Certified(c) = IF SumOf(w) > MAX_FIELDS \/ CertRoot(c) = <<>> THEN <<>> ELSE <<c>>
  BY DEF Certified
<1>8. ~(SumOf(w) > MAX_FIELDS)
  <2> HIDE DEF w
  <2> QED BY <1>2, <1>4, <1>6, QueryAssumption
<1>9. CertRoot(c) # <<>>
  BY <1>3, Single, Zenon
<1> HIDE DEF w
<1>10. Certified(c) = <<c>>
  BY <1>7, <1>8, <1>9, Zenon
<1> QED BY <1>1, <1>10, Zenon DEF c

LEMMA V2Refuses ==
  ASSUME Sound, Kept, NEW d \in Dims, root_version = "V2"
  PROVE  from_state({d}) = <<>>
<1> DEFINE c == CertOf(d)
<1>1. from_state({d}) = Certified(c) /\ d \in DOMAIN c.dimensions /\ c.leaves = root_leaves
  <2>1. from_state({d}) = Certified(c) /\ DOMAIN c.dimensions = {d} /\ c.leaves = root_leaves
    BY CertOfIs, Zenon
  <2> QED BY <2>1
<1>2. CertSound(c)
  BY ContextSound, CertOfIs
<1> HIDE DEF c
<1>3. ASSUME CertRoot(c) # <<>> PROVE FALSE
  <2>1. CertRoot(c) = <<c.leaves>>
    BY <1>3, Zenon DEF CertRoot
  <2>2. CertRoot(c) = <<root_leaves>>
    BY <1>1, <2>1, Zenon
  <2> QED BY <1>1, <1>2, <2>2, CertBinds
<1>4. CertRoot(c) = <<>>
  BY <1>3
<1> QED BY <1>1, <1>4, Zenon DEF Certified

-----------------------------------------------------------------------------
(* Where an entry is found *)

LEMMA KeyUnique ==
  ASSUME Kept, NEW d \in Dims, NEW i \in 1..Len(KeysOf(d)), NEW j \in 1..Len(KeysOf(d)),
         key_bytes(d, KeysOf(d)[i]) = key_bytes(d, KeysOf(d)[j])
  PROVE  i = j
<1> DEFINE k == KeysOf(d)[i]
           l == KeysOf(d)[j]
<1>1. k \in DOMAIN MapOf(d) /\ l \in DOMAIN MapOf(d)
  BY KeysOfOrder, Zenon
<1>2. IsKey(d, k) /\ IsKey(d, l)
  BY <1>1, KeyTypes, Zenon DEF IsKey
<1>3. k = l
  BY <1>2, KeyBytesTell, Zenon DEF IsKey
<1>4. ~KeyLess(d, k, l) /\ ~KeyLess(d, l, k)
  BY <1>2, <1>3, KeyOrder, Zenon
<1>5. (i < j => KeyLess(d, k, l)) /\ (j < i => KeyLess(d, l, k))
  BY KeysOfOrder, Zenon
<1>6. Len(KeysOf(d)) \in Nat
  BY KeysOfOrder, Zenon
<1> HIDE DEF k, l
<1> QED BY <1>4, <1>5, <1>6

LEMMA HeightOrder ==
  ASSUME NEW k \in Nat, NEW l \in Nat, k < l
  PROVE  BytesLess(<<k \div Base, k % Base>>, <<l \div Base, l % Base>>)
<1> DEFINE a == k \div Base
           b == k % Base
           c == l \div Base
           e == l % Base
<1>0. Base \in Nat /\ Base # 0
  BY DimensionAssumption
<1>1. a \in Nat /\ b \in 0..(Base - 1) /\ k = Base * a + b
  BY <1>0, Quotient
<1>2. c \in Nat /\ e \in 0..(Base - 1) /\ l = Base * c + e
  BY <1>0, Quotient
<1> HIDE DEF a, b, c, e
<1>3. a < c \/ (a = c /\ b < e)
  <2>1. CASE a = c
    <3> DEFINE x == Base * a
    <3>1. k = x + b /\ l = x + e /\ x \in Nat
      BY <1>0, <1>1, <1>2, <2>1
    <3> HIDE DEF x
    <3>2. b < e
      BY <1>1, <1>2, <3>1
    <3> QED BY <2>1, <3>2
  <2>2. CASE a > c
    <3>1. PICK z \in Nat : a = c + 1 + z
      BY <1>1, <1>2, <2>2
    <3>2. Base * a = Base * c + Base + Base * z /\ Base * z \in Nat /\ Base * c \in Nat
      BY <1>0, <1>2, <3>1
    <3> QED BY <1>0, <1>1, <1>2, <3>2
  <2> QED BY <1>1, <1>2, <2>1, <2>2
<1> DEFINE s == <<a, b>>
           t == <<c, e>>
<1>4. DOMAIN s = 1..2 /\ s[1] = a /\ s[2] = b /\ t[1] = c /\ t[2] = e
  OBVIOUS
<1> HIDE DEF s, t
<1>5. BytesLess(s, t)
  <2>1. CASE a < c
    <3>1. 1 \in DOMAIN s /\ s[1] < t[1] /\ \A j \in 1..(1 - 1) : s[j] = t[j]
      BY <1>4, <2>1
    <3> QED BY <3>1, Zenon DEF BytesLess
  <2>2. CASE a = c /\ b < e
    <3>1. 2 \in DOMAIN s /\ s[2] < t[2] /\ \A j \in 1..(2 - 1) : s[j] = t[j]
      BY <1>4, <2>2
    <3> QED BY <3>1, Zenon DEF BytesLess
  <2> QED BY <1>3, <2>1, <2>2
<1> QED BY <1>5 DEF s, t, a, b, c, e

LEMMA SortedKeys ==
  ASSUME NEW d, NEW k, NEW l, IsKey(d, k), IsKey(d, l), KeyLess(d, k, l)
  PROVE  BytesLess(SortKey(d, key_bytes(d, k)), SortKey(d, key_bytes(d, l)))
<1>1. CASE d = "time"
  <2>1. k \in Nat /\ l \in Nat /\ k < l
    BY <1>1, Zenon DEF IsKey, KeyLess
  <2>2. key_bytes(d, k)[1] = k % Base /\ key_bytes(d, k)[2] = k \div Base
    BY <1>1, <2>1, KeyBytes, Zenon
  <2>3. key_bytes(d, l)[1] = l % Base /\ key_bytes(d, l)[2] = l \div Base
    BY <1>1, <2>1, KeyBytes, Zenon
  <2>4. BytesLess(<<k \div Base, k % Base>>, <<l \div Base, l % Base>>)
    BY <2>1, HeightOrder, Zenon
  <2>5. /\ SortKey(d, key_bytes(d, k)) = <<key_bytes(d, k)[2], key_bytes(d, k)[1]>>
        /\ SortKey(d, key_bytes(d, l)) = <<key_bytes(d, l)[2], key_bytes(d, l)[1]>>
    BY <1>1, Zenon DEF SortKey
  <2> QED BY <2>2, <2>3, <2>4, <2>5, Zenon
<1>2. CASE d # "time"
  BY <1>2, Zenon DEF KeyLess, SortKey, key_bytes
<1> QED BY <1>1, <1>2

LEMMA IndexIs ==
  ASSUME Kept, NEW d \in Dims, NEW t, NEW o, TableLaid(t, d, o), NEW n \in 1..Len(KeysOf(d))
  PROVE  primary_index(t, d, key_bytes(d, KeysOf(d)[n])) = <<o[n] + KEY_FIELDS + PrimaryColumn(d)>>
<1> DEFINE m == Len(KeysOf(d))
           B(i) == key_bytes(d, KeysOf(d)[i])
           key == B(n)
           F == FoundAt(t, key, o)
<1>1. m \in Nat /\ t[3] = m /\ o[m + 1] = Len(t)
  BY KeysOfOrder, Zenon DEF TableLaid
<1>2. \A i \in 1..m : KeyAt(t, o, i) = B(i)
  BY KeysLaid, Zenon
<1>3. \A i \in 1..m : IsKey(d, KeysOf(d)[i])
  BY KeysOfOrder, KeyTypes, Zenon DEF IsKey
<1>4. ASSUME d = "time", NEW i \in 1..m PROVE IsHeight(KeyAt(t, o, i))
  <2>1. \A j \in 3..KEY_FIELDS : B(i)[j] = 0
    <3> DEFINE k == KeysOf(d)[i]
    <3>1. k \in Nat
      BY <1>3, <1>4, Zenon DEF IsKey
    <3> HIDE DEF k
    <3>2. \A j \in 3..KEY_FIELDS : key_bytes(d, k)[j] = 0
      BY <1>4, <3>1, KeyBytes, Zenon
    <3> QED BY <3>2, Zenon DEF k
  <2> QED BY <1>2, <2>1, Zenon DEF IsHeight
<1>5. ASSUME NEW i \in 2..m
      PROVE  BytesLess(SortKey(d, KeyAt(t, o, i - 1)), SortKey(d, KeyAt(t, o, i)))
  <2> DEFINE h == i - 1
  <2>1. h \in 1..m /\ i \in 1..m /\ h < i
    BY <1>1
  <2> HIDE DEF h
  <2>2. KeyLess(d, KeysOf(d)[h], KeysOf(d)[i])
    BY <2>1, KeysOfOrder, Zenon
  <2>3. BytesLess(SortKey(d, B(h)), SortKey(d, B(i)))
    BY <1>3, <2>1, <2>2, SortedKeys, Zenon
  <2>4. BytesLess(SortKey(d, KeyAt(t, o, h)), SortKey(d, KeyAt(t, o, i)))
    BY <1>2, <2>1, <2>3, Zenon
  <2> QED BY <2>4, Zenon DEF h
<1>6. F = {i \in 1..m : KeyAt(t, o, i) = key}
  BY <1>1, Zenon DEF FoundAt
<1>7. n \in F /\ \A i \in F : i = n
  <2>1. n \in F
    BY <1>2, <1>6, Zenon
  <2>2. ASSUME NEW i \in F PROVE i = n
    <3>1. i \in 1..m /\ B(i) = B(n)
      BY <1>2, <1>6, <2>2, Zenon
    <3> HIDE DEF F
    <3> QED BY <3>1, KeyUnique, Zenon
  <2> QED BY <2>1, <2>2, Zenon
<1>8. Max(F) = n
  <2>1. F \in SUBSET (1..m) /\ F # {}
    BY <1>6, <1>7, Zenon
  <2> HIDE DEF F
  <2>2. Max(F) \in F
    BY <1>1, <2>1, MaxIn, Zenon
  <2> QED BY <1>7, <2>2, Zenon
<1>9. F # {}
  BY <1>7
<1>10. Walked(t, d, key, o) = <<o[n] + KEY_FIELDS + PrimaryColumn(d)>>
  <2>1. o[t[3] + 1] = Len(t)
    BY <1>1, Zenon
  <2>2. (d = "time") => \A i \in 1..t[3] : IsHeight(KeyAt(t, o, i))
    BY <1>1, <1>4, Zenon
  <2>3. \A i \in 2..t[3] : BytesLess(SortKey(d, KeyAt(t, o, i - 1)), SortKey(d, KeyAt(t, o, i)))
    BY <1>1, <1>5, Zenon
  <2> HIDE DEF key
  <2>4. Walked(t, d, key, o) = <<o[Max(F)] + KEY_FIELDS + PrimaryColumn(d)>>
    BY <1>9, <2>1, <2>2, <2>3, Zenon DEF Walked
  <2> HIDE DEF F
  <2> QED BY <1>8, <2>4, Zenon
<1>11. primary_index(t, d, key) = Walked(t, d, key, o)
  BY IndexLaid, Zenon
<1> QED BY <1>10, <1>11, Zenon

LEMMA IndexOnly ==
  ASSUME Kept, NEW d \in Dims, NEW t, NEW o, TableLaid(t, d, o), NEW n \in 1..Len(KeysOf(d)),
         NEW e, primary_index(t, d, e) = <<o[n] + KEY_FIELDS + PrimaryColumn(d)>>
  PROVE  e = key_bytes(d, KeysOf(d)[n])
<1> DEFINE m == Len(KeysOf(d))
<1>1. PICK i \in 1..m : /\ key_bytes(d, KeysOf(d)[i]) = e
                        /\ o[n] + KEY_FIELDS + PrimaryColumn(d) = o[i] + KEY_FIELDS + PrimaryColumn(d)
  BY IndexFound
<1>2. o[i] \in Nat /\ o[n] \in Nat
  BY LaidAt, Zenon
<1>3. KEY_FIELDS + PrimaryColumn(d) \in Nat /\ KEY_FIELDS \in Nat /\ PrimaryColumn(d) \in Nat
  BY DimensionAssumption DEF PrimaryColumn
<1>4. o[i] = o[n]
  <2> DEFINE x == o[i]
             y == o[n]
             c == PrimaryColumn(d)
  <2>1. x \in Nat /\ y \in Nat /\ c \in Nat /\ KEY_FIELDS \in Nat /\ y + KEY_FIELDS + c = x + KEY_FIELDS + c
    BY <1>1, <1>2, <1>3
  <2> HIDE DEF x, y, c
  <2>2. x = y
    BY <2>1
  <2> QED BY <2>2 DEF x, y
<1>5. Strides(o, [k \in 1..m |-> WidthAt(d, k)], m, KEY_FIELDS) /\ m \in Nat
  BY LaidStrides, KeysOfOrder, Zenon
<1>6. i = n
  <2>1. i \in 1..(m + 1) /\ n \in 1..(m + 1)
    BY <1>5
  <2>2. (i < n => o[i] < o[n]) /\ (n < i => o[n] < o[i])
    BY <1>5, <2>1, StrideOrder, Zenon
  <2> HIDE DEF m
  <2> QED BY <1>2, <1>4, <2>1, <2>2, <1>5
<1> QED BY <1>1, <1>6, Zenon

LEMMA PrimaryKnown ==
  ASSUME Kept, NEW d \in Dims, NEW key, Primary(d, key) # <<>>
  PROVE  \E n \in 1..Len(KeysOf(d)) : key_bytes(d, KeysOf(d)[n]) = key
<1>1. \E k \in DOMAIN MapOf(d) : key_bytes(d, k) = key
  <2>1. CASE d = "axons_out"
    <3>1. key \in DOMAIN axons_out.map
      BY <2>1 DEF Primary
    <3>2. key_bytes(d, key) = key
      BY <2>1 DEF key_bytes
    <3> QED BY <2>1, <3>1, <3>2 DEF MapOf
  <2>2. CASE d # "axons_out"
    <3> DEFINE at == {k \in DOMAIN keyed[d].map : key_bytes(d, k) = key}
    <3>1. at # {}
      BY <2>2, Zenon DEF Primary
    <3>2. MapOf(d) = keyed[d].map
      BY <2>2 DEF MapOf
    <3> QED BY <3>1, <3>2, Zenon
  <2> QED BY <2>1, <2>2
<1>2. PICK k \in DOMAIN MapOf(d) : key_bytes(d, k) = key
  BY <1>1
<1>3. PICK n \in 1..Len(KeysOf(d)) : KeysOf(d)[n] = k
  BY KeysOfOrder, Zenon
<1> QED BY <1>2, <1>3, Zenon

LEMMA EntryIs ==
  ASSUME Kept, NEW d \in Dims, NEW n \in 1..Len(KeysOf(d))
  PROVE  /\ Entries(d)[n].key = key_bytes(d, KeysOf(d)[n])
         /\ Len(Entries(d)[n].vals) = WidthAt(d, n)
         /\ WidthAt(d, n) \in Nat /\ PrimaryColumn(d) < WidthAt(d, n)
<1> DEFINE v == ValsOf(d, KeysOf(d)[n])
           k == KeysOf(d)[n]
           m == Len(KeysOf(d))
           e == Entries(d)
<1>1. e = [i \in 1..m |-> EntryAt(d, i)]
  BY EntriesAre, Zenon
<1>2. e[n] = EntryAt(d, n)
  <2> HIDE DEF e, m
  <2>1. n \in 1..m
    BY DEF m
  <2> QED BY <1>1, <2>1
<1>3. e[n].key = key_bytes(d, k) /\ e[n].vals = v
  <2> HIDE DEF e
  <2> QED BY <1>2 DEF EntryAt
<1>4. PICK w \in Nat : IsFields(v, w) /\ WidthOf(d, v) = w /\ PrimaryColumn(d) < w
  <2>1. k \in DOMAIN MapOf(d)
    BY KeysOfOrder, Zenon
  <2> QED BY <2>1, ValsShape, Zenon
<1>5. Len(v) = w /\ WidthAt(d, n) = w
  BY <1>4, Zenon DEF IsFields, WidthAt
<1> HIDE DEF v, e, k
<1> QED BY <1>3, <1>4, <1>5, Zenon DEF e, k

LEMMA OffsetIs ==
  ASSUME Kept, NEW d \in Dims, NEW t, NEW o, TableLaid(t, d, o), NEW n \in 1..Len(KeysOf(d))
  PROVE  EntryOffset(Entries(d), n) = o[n]
<1> DEFINE m == Len(KeysOf(d))
           e == Entries(d)
           l == [i \in 1..m |-> WidthAt(d, i)]
           w == [i \in 1..(n - 1) |-> KEY_FIELDS + Len(e[i].vals)]
<1>1. Strides(o, l, m, KEY_FIELDS) /\ m \in Nat
  BY LaidStrides, KeysOfOrder, Zenon
<1>2. ASSUME NEW i \in 1..(n - 1) PROVE w[i] = KEY_FIELDS + l[i]
  <2>1. i \in 1..m
    BY <1>1
  <2>2. Len(e[i].vals) = WidthAt(d, i)
    BY <2>1, EntryIs, Zenon
  <2>3. w[i] = KEY_FIELDS + Len(e[i].vals)
    <3> HIDE DEF e
    <3> QED OBVIOUS
  <2>4. l[i] = WidthAt(d, i)
    <3> HIDE DEF m
    <3> QED BY <2>1
  <2> HIDE DEF w, l, e
  <2> QED BY <2>2, <2>3, <2>4, Zenon
<1>3. DOMAIN w = 1..(n - 1)
  OBVIOUS
<1>4. EntryOffset(e, n) = 3 + SumOf(w)
  BY DEF EntryOffset, HEADER_FIELDS
<1> HIDE DEF w, l, e
<1>5. 3 + SumOf(w) = o[n]
  <2>1. n \in 1..m
    OBVIOUS
  <2> HIDE DEF m
  <2> QED BY <1>1, <1>2, <1>3, <2>1, StrideSum
<1> QED BY <1>4, <1>5, Zenon DEF e

LEMMA EntryDomain ==
  ASSUME Kept, NEW d \in Dims PROVE DOMAIN Entries(d) = 1..Len(KeysOf(d))
<1> DEFINE m == Len(KeysOf(d))
           e == Entries(d)
<1>1. e = [i \in 1..m |-> EntryAt(d, i)]
  BY EntriesAre, Zenon
<1> HIDE DEF e, m
<1>2. DOMAIN e = 1..m
  BY <1>1
<1> QED BY <1>2 DEF e, m

Matching(e, key, col) == {n \in DOMAIN e : e[n].key = key /\ col < Len(e[n].vals)}

LEMMA MatchingIs ==
  ASSUME Kept, NEW d \in Dims, NEW n \in 1..Len(KeysOf(d))
  PROVE  Matching(Entries(d), key_bytes(d, KeysOf(d)[n]), PrimaryColumn(d)) = {n}
<1> DEFINE F == Matching(Entries(d), key_bytes(d, KeysOf(d)[n]), PrimaryColumn(d))
<1>1. ASSUME NEW i \in F PROVE i = n
  <2>1. i \in 1..Len(KeysOf(d)) /\ Entries(d)[i].key = key_bytes(d, KeysOf(d)[n])
    BY <1>1, EntryDomain, Zenon DEF Matching
  <2>2. key_bytes(d, KeysOf(d)[i]) = key_bytes(d, KeysOf(d)[n])
    BY <2>1, EntryIs, Zenon
  <2> HIDE DEF F
  <2> QED BY <2>1, <2>2, KeyUnique, Zenon
<1>2. n \in F
  <2>1. PrimaryColumn(d) < Len(Entries(d)[n].vals) /\ Entries(d)[n].key = key_bytes(d, KeysOf(d)[n])
    BY EntryIs, Zenon
  <2> QED BY <2>1, EntryDomain, Zenon DEF Matching
<1> HIDE DEF F
<1>3. F = {n}
  BY <1>1, <1>2
<1> QED BY <1>3, Zenon DEF F

LEMMA CellsAre ==
  ASSUME Kept, NEW d \in Dims, NEW t, NEW o, TableLaid(t, d, o), NEW n \in 1..Len(KeysOf(d))
  PROVE  CellIndex(Entries(d), key_bytes(d, KeysOf(d)[n]), PrimaryColumn(d))
           = {o[n] + KEY_FIELDS + PrimaryColumn(d)}
<1> DEFINE key == key_bytes(d, KeysOf(d)[n])
           col == PrimaryColumn(d)
           e == Entries(d)
           F == Matching(e, key, col)
<1>1. F = {n}
  BY MatchingIs, Zenon
<1>2. EntryOffset(e, n) = o[n]
  BY OffsetIs, Zenon
<1>3. CellIndex(e, key, col) = {EntryOffset(e, i) + KEY_FIELDS + col : i \in F}
  BY Zenon DEF CellIndex, Matching
<1> HIDE DEF F, e, key, col
<1>4. CellIndex(e, key, col) = {o[n] + KEY_FIELDS + col}
  BY <1>1, <1>2, <1>3
<1> QED BY <1>4, Zenon DEF e, key, col

LEMMA CellsNone ==
  ASSUME Kept, NEW d \in Dims, NEW key, Primary(d, key) = <<>>
  PROVE  CellIndex(Entries(d), key, PrimaryColumn(d)) = {}
<1> DEFINE e == Entries(d)
           col == PrimaryColumn(d)
           F == Matching(e, key, col)
<1>1. ASSUME NEW i \in F PROVE FALSE
  <2>1. i \in 1..Len(KeysOf(d)) /\ Entries(d)[i].key = key
    BY <1>1, EntryDomain, Zenon DEF Matching
  <2>2. key_bytes(d, KeysOf(d)[i]) = key
    BY <2>1, EntryIs, Zenon
  <2>3. Primary(d, key) # <<>>
    <3> DEFINE x == ValsOf(d, KeysOf(d)[i])[PrimaryColumn(d) + 1]
    <3>1. Primary(d, key_bytes(d, KeysOf(d)[i])) = <<x>>
      BY <2>1, PrimaryIs, Zenon
    <3> HIDE DEF x
    <3>2. <<x>> # <<>>
      OBVIOUS
    <3> QED BY <2>2, <3>1, <3>2, Zenon
  <2> QED BY <2>3
<1>2. CellIndex(e, key, col) = {EntryOffset(e, i) + KEY_FIELDS + col : i \in F}
  BY Zenon DEF CellIndex, Matching
<1> HIDE DEF F, e, col
<1>3. CellIndex(e, key, col) = {}
  BY <1>1, <1>2
<1> QED BY <1>3, Zenon DEF e, col

-----------------------------------------------------------------------------
(* Queries are answered *)

LEMMA MinSingle == ASSUME NEW x \in Nat PROVE Min({x}) = x
BY DEF Min

\* Where the primary field of an entry is.
PrimaryAt(d, o, n) == o[n] + KEY_FIELDS + PrimaryColumn(d)

LEMMA AtWithin ==
  ASSUME Kept, NEW d \in Dims, NEW t, NEW o, TableLaid(t, d, o), NEW n \in 1..Len(KeysOf(d))
  PROVE  PrimaryAt(d, o, n) \in Nat /\ PrimaryAt(d, o, n) < Len(t) /\ t \in Seq(Nat)
<1>1. o[n] \in Nat /\ WidthAt(d, n) \in Nat /\ PrimaryColumn(d) < WidthAt(d, n)
      /\ o[n + 1] = o[n] + KEY_FIELDS + WidthAt(d, n)
  BY LaidAt
<1>2. o[n + 1] <= Len(t)
  BY LaidWithin, Zenon
<1>3. KEY_FIELDS \in Nat /\ PrimaryColumn(d) \in Nat
  BY DimensionAssumption DEF PrimaryColumn
<1>4. t \in Seq(Nat) /\ Len(t) \in Nat
  BY DEF TableLaid
<1> DEFINE x == o[n]
           y == o[n + 1]
           w == WidthAt(d, n)
           c == PrimaryColumn(d)
           L == Len(t)
<1>5. /\ x \in Nat /\ w \in Nat /\ c < w /\ y = x + KEY_FIELDS + w /\ y <= L
      /\ KEY_FIELDS \in Nat /\ c \in Nat /\ L \in Nat
  BY <1>1, <1>2, <1>3, <1>4
<1> HIDE DEF x, y, w, c, L
<1>6. x + KEY_FIELDS + c \in Nat /\ x + KEY_FIELDS + c < L
  BY <1>5
<1> QED BY <1>4, <1>6, Zenon DEF PrimaryAt, x, c, L

LEMMA CellAt ==
  ASSUME Kept, NEW d \in Dims, NEW t, NEW o, TableLaid(t, d, o), NEW n \in 1..Len(KeysOf(d))
  PROVE  CellIndex(Entries(d), key_bytes(d, KeysOf(d)[n]), PrimaryColumn(d)) = {PrimaryAt(d, o, n)}
BY CellsAre, Zenon DEF PrimaryAt

\* The answer to a query of an entry.
Shown(d, idx) == [Bare(Table(d), idx) EXCEPT !.context = <<Context(d, idx)>>]

LEMMA ContextWith ==
  ASSUME NEW d, NEW p, NEW idx
  PROVE  WithContext(<<p>>, <<CertOf(d)>>, d, idx) = <<[p EXCEPT !.context = <<Context(d, idx)>>]>>
<1> DEFINE c == CertOf(d)
           x == <<p>>
           y == <<c>>
           z == [certificate |-> y[1], namespace |-> d, index |-> idx]
<1>1. Context(d, idx) = [certificate |-> c, namespace |-> d, index |-> idx]
  BY DEF Context, CertOf
<1>2. x # <<>> /\ y # <<>> /\ x[1] = p /\ y[1] = c
  BY Single, Zenon
<1> HIDE DEF c, x, y
<1>3. WithContext(x, y, d, idx) = <<[x[1] EXCEPT !.context = <<z>>]>>
  BY <1>2, Zenon DEF WithContext
<1>4. z = Context(d, idx)
  BY <1>1, <1>2, Zenon
<1> HIDE DEF z
<1>5. WithContext(x, y, d, idx) = <<[p EXCEPT !.context = <<Context(d, idx)>>]>>
  BY <1>2, <1>3, <1>4, Zenon
<1> QED BY <1>5, Zenon DEF c, x, y

LEMMA OpenIs ==
  ASSUME Sound, Kept, NEW d \in Dims, root_version # "V2", Len(Table(d)) <= MAX_QUERY_FIELDS,
         NEW idx \in Nat, idx < Len(Table(d))
  PROVE  /\ d \in Public => open_cell(d, idx) = <<Shown(d, idx)>>
         /\ d \notin Public =>
              WithContext(open_cell(d, idx), from_state({d}), d, idx) = <<Shown(d, idx)>>
<1>1. Table(d) \in Seq(Nat) /\ Len(Table(d)) \in Nat
  BY ShapeHolds, Zenon
<1>2. open_bare(Table(d), idx) = <<Bare(Table(d), idx)>>
  BY <1>1, BareIs, Zenon
<1>3. from_state({d}) = <<CertOf(d)>>
  BY CertIs, Zenon
<1>4. WithContext(open_bare(Table(d), idx), from_state({d}), d, idx) = <<Shown(d, idx)>>
  <2> DEFINE p == Bare(Table(d), idx)
  <2>1. WithContext(<<p>>, <<CertOf(d)>>, d, idx) = <<[p EXCEPT !.context = <<Context(d, idx)>>]>>
    BY ContextWith
  <2>2. WithContext(<<p>>, <<CertOf(d)>>, d, idx) = <<Shown(d, idx)>>
    BY <2>1, Zenon DEF Shown
  <2> QED BY <1>2, <1>3, <2>2, Zenon
<1>5. ~(Len(Table(d)) > MAX_QUERY_FIELDS)
  BY <1>1, QueryAssumption
<1>6. ASSUME d \in Public PROVE open_cell(d, idx) = <<Shown(d, idx)>>
  BY <1>4, <1>5, <1>6, Zenon DEF open_cell, OpenIn
<1>7. ASSUME d \notin Public PROVE open_cell(d, idx) = open_bare(Table(d), idx)
  BY <1>7, Zenon DEF open_cell, OpenIn
<1> QED BY <1>4, <1>6, <1>7, Zenon

LEMMA BalancesLength ==
  ASSUME Kept
  PROVE  Len(Table("balances"))
           = HEADER_FIELDS + Cardinality(DOMAIN keyed["balances"].map) * (KEY_FIELDS + 2)
<1> DEFINE d == "balances"
           t == Table(d)
           m == Len(KeysOf(d))
           l == [n \in 1..m |-> WidthAt(d, n)]
<1>1. d \in Dims
  BY DEF Dims, KeyedDims
<1> HIDE DEF d
<1>2. PICK o : TableLaid(t, d, o)
  BY <1>1, TableIsLaid, Zenon
<1>3. Strides(o, l, m, KEY_FIELDS) /\ o[m + 1] = Len(t)
  BY <1>1, <1>2, LaidStrides, Zenon
<1>4. \A n \in 1..m : l[n] = 2
  BY DEF WidthAt, WidthOf, d
<1> HIDE DEF l, t
<1>5. o[m + 1] = 3 + m * (KEY_FIELDS + 2)
  BY <1>3, <1>4, StrideEven
<1>6. m = Cardinality(DOMAIN keyed["balances"].map)
  <2> DEFINE S == DOMAIN MapOf(d)
  <2>1. IsFiniteSet(S) /\ \A k \in S : IsKey(d, k)
    <3>1. IsFiniteSet(S)
      BY <1>1 DEF Kept, MapOf, Dims
    <3>2. \A k \in S : IsKey(d, k)
      BY <1>1, KeyTypes, Zenon DEF IsKey
    <3> QED BY <3>1, <3>2
  <2>2. Len(InOrder(d, S)) = Cardinality(S)
    <3> HIDE DEF S
    <3> QED BY <2>1, InOrderExact, Zenon
  <2>3. S = DOMAIN keyed["balances"].map
    BY DEF MapOf, d
  <2> HIDE DEF S
  <2> QED BY <2>2, <2>3, Zenon DEF S, KeysOf
<1> HIDE DEF m
<1> QED BY <1>3, <1>5, <1>6, Zenon DEF t, d, HEADER_FIELDS

LEMMA AnswerIs ==
  ASSUME Sound, Kept, NEW d \in Dims, root_version # "V2", Len(Table(d)) <= MAX_QUERY_FIELDS,
         NEW o, TableLaid(Table(d), d, o), NEW n \in 1..Len(KeysOf(d))
  PROVE  Answer(d, key_bytes(d, KeysOf(d)[n])) = <<Shown(d, PrimaryAt(d, o, n))>>
<1> DEFINE key == key_bytes(d, KeysOf(d)[n])
           idx == PrimaryAt(d, o, n)
           cells == CellIndex(Entries(d), key, PrimaryColumn(d))
<1>1. idx \in Nat /\ idx < Len(Table(d))
  BY AtWithin, Zenon
<1>2. cells = {idx}
  BY CellAt, Zenon
<1> HIDE DEF idx
<1>3. Min(cells) = idx /\ cells # {}
  <2>1. Min({idx}) = idx /\ {idx} # {}
    BY <1>1, MinSingle
  <2> QED BY <1>2, <2>1, Zenon
<1>4. CASE d # "balances"
  <2>1. d \in Public
    BY <1>4 DEF Public
  <2>2. ~(d = "time" /\ ~IsHeight(key))
    <3> SUFFICES ASSUME d = "time" PROVE IsHeight(key)
      OBVIOUS
    <3> DEFINE k == KeysOf(d)[n]
    <3>1. k \in Nat
      BY KeysOfOrder, KeyTypes, Zenon
    <3> HIDE DEF k
    <3>2. \A j \in 3..KEY_FIELDS : key_bytes(d, k)[j] = 0
      BY <3>1, KeyBytes, Zenon
    <3> QED BY <3>2, Zenon DEF k, IsHeight
  <2>3. open_cell(d, idx) = <<Shown(d, idx)>>
    BY <1>1, <2>1, OpenIs, Zenon
  <2>4. Answer(d, key) = OpenAt(cells, d)
    BY <1>4, <2>2, Zenon DEF Answer, bbg_query, open_entity
  <2> HIDE DEF cells
  <2>5. OpenAt(cells, d) = open_cell(d, idx)
    BY <1>3, Zenon DEF OpenAt
  <2> QED BY <2>3, <2>4, <2>5, Zenon DEF idx
<1>5. CASE d = "balances"
  <2>1. d \notin Public
    BY <1>5 DEF Public
  <2>2. cells = CellIndex(KeyedEntries("balances", keyed["balances"].map), key, 0)
    BY <1>5 DEF Entries, PrimaryColumn
  <2>3. ~(HEADER_FIELDS + Cardinality(DOMAIN keyed["balances"].map) * (KEY_FIELDS + 2) > MAX_QUERY_FIELDS)
    <3> DEFINE L == HEADER_FIELDS + Cardinality(DOMAIN keyed["balances"].map) * (KEY_FIELDS + 2)
    <3>1. L = Len(Table(d)) /\ Len(Table(d)) \in Nat
      BY <1>5, BalancesLength, ShapeHolds, Zenon
    <3> HIDE DEF L
    <3>2. ~(L > MAX_QUERY_FIELDS)
      BY <3>1, QueryAssumption
    <3> QED BY <3>2, Zenon DEF L
  <2>4. Answer(d, key) = Disclosed(cells)
    <3> HIDE DEF cells
    <3> QED BY <1>5, <2>2, <2>3, Zenon DEF Answer, prove_public_balance
  <2> HIDE DEF cells
  <2>5. Disclosed(cells) = WithContext(open_cell(d, idx), from_state({d}), d, idx)
    BY <1>3, <1>5, Zenon DEF Disclosed
  <2>6. WithContext(open_cell(d, idx), from_state({d}), d, idx) = <<Shown(d, idx)>>
    BY <1>1, <2>1, OpenIs, Zenon
  <2> QED BY <2>4, <2>5, <2>6, Zenon DEF idx
<1> QED BY <1>4, <1>5

LEMMA ShownIs ==
  ASSUME NEW d, NEW idx
  PROVE  LET p == Shown(d, idx)
             t == Table(d)
         IN /\ p.context = <<Context(d, idx)>> /\ p.value = t[idx + 1] /\ p.point = PointAt(t, idx)
            /\ p.commitment = commit_fields(t)
            /\ p.opening = BrakedownOpen(commit_fields(t), PointAt(t, idx))
<1> DEFINE t == Table(d)
           c == commit_fields(t)
           q == PointAt(t, idx)
           b == BrakedownOpen(c, q)
           v == t[idx + 1]
           z == <<Context(d, idx)>>
           r == [commitment |-> c, opening |-> b, value |-> v, point |-> q, context |-> <<>>]
<1>1. Bare(t, idx) = r
  BY Zenon DEF Bare
<1>2. Shown(d, idx) = [r EXCEPT !.context = z]
  BY <1>1, Zenon DEF Shown
<1> HIDE DEF c, q, b, v, z
<1>3. LET p == [r EXCEPT !.context = z]
      IN p.context = z /\ p.value = v /\ p.point = q /\ p.commitment = c /\ p.opening = b
  OBVIOUS
<1> HIDE DEF r
<1>4. LET p == Shown(d, idx)
      IN p.context = z /\ p.value = v /\ p.point = q /\ p.commitment = c /\ p.opening = b
  BY <1>2, <1>3, Zenon
<1> QED BY <1>4, Zenon DEF c, q, b, v, z

LEMMA ContextParts ==
  ASSUME NEW d, NEW idx
  PROVE  /\ Shown(d, idx).context # <<>> /\ Shown(d, idx).context[1] = Context(d, idx)
         /\ Context(d, idx).certificate = CertOf(d)
         /\ Context(d, idx).namespace = d /\ Context(d, idx).index = idx
         /\ DOMAIN CertOf(d).dimensions = {d} /\ CertOf(d).dimensions[d] = Table(d)
         /\ CertOf(d).leaves = root_leaves
<1>1. Shown(d, idx).context = <<Context(d, idx)>>
  BY ShownIs, Zenon
<1>2. Shown(d, idx).context # <<>> /\ Shown(d, idx).context[1] = Context(d, idx)
  BY <1>1, Single, Zenon
<1>3. Context(d, idx).namespace = d /\ Context(d, idx).index = idx
  BY DEF Context
<1> QED BY <1>2, <1>3, CertOfIs, Zenon

LEMMA ShownContext ==
  ASSUME NEW d, NEW idx
  PROVE  /\ Shown(d, idx).context[1].namespace = d /\ Shown(d, idx).context[1].index = idx
         /\ Shown(d, idx).context[1].certificate.dimensions[d] = Table(d)
<1> DEFINE x == Shown(d, idx).context[1]
           t == Table(d)
<1>1. /\ x = Context(d, idx) /\ Context(d, idx).certificate = CertOf(d)
      /\ Context(d, idx).namespace = d /\ Context(d, idx).index = idx
      /\ CertOf(d).dimensions[d] = t
  BY ContextParts, Zenon
<1> HIDE DEF x, t
<1>2. x.namespace = d /\ x.index = idx /\ x.certificate.dimensions[d] = t
  BY <1>1, Zenon
<1> QED BY <1>2, Zenon DEF x, t

LEMMA ShownPasses ==
  ASSUME Sound, Kept, NEW d \in Dims, root_version # "V2", Len(Table(d)) <= MAX_QUERY_FIELDS,
         NEW idx \in Nat, idx < Len(Table(d))
  PROVE  authenticated(Shown(d, idx), root_leaves)
<1> DEFINE p == Shown(d, idx)
           t == Table(d)
           c == CertOf(d)
           x == Context(d, idx)
<1>1. /\ p.value = t[idx + 1] /\ p.point = PointAt(t, idx)
      /\ p.commitment = commit_fields(t)
      /\ p.opening = BrakedownOpen(commit_fields(t), PointAt(t, idx))
  BY ShownIs, Zenon
<1>2. /\ p.context # <<>> /\ p.context[1] = x /\ x.certificate = c /\ x.namespace = d /\ x.index = idx
      /\ DOMAIN c.dimensions = {d} /\ c.dimensions[d] = t /\ c.leaves = root_leaves
  BY ContextParts, Zenon
<1>3. CertRoot(c) = <<root_leaves>>
  BY CertRootIs, Zenon
<1>4. root_leaves.dims[d] = commit_fields(t)
  BY RootLeafIs, Zenon
<1>5. t \in Seq(Nat)
  BY ShapeHolds, Zenon
<1>6. BrakedownOpen(commit_fields(t), PointAt(t, idx)).value = t[idx + 1]
  BY <1>5, OpeningShows, Zenon
<1>7. Cell(t, idx) = <<t[idx + 1]>>
  BY Zenon DEF Cell
<1>8. Len(t) <= MAX_QUERY_FIELDS
  OBVIOUS
<1> HIDE DEF p, t, c, x
<1>9. BrakedownVerify(p.commitment, p.point, p.value, p.opening)
  BY <1>1, <1>6, Zenon DEF BrakedownVerify
<1>10. LET context == p.context[1]
           cert    == context.certificate
           fields  == cert.dimensions[context.namespace]
       IN /\ cert = c /\ fields = t /\ context.index = idx /\ context.namespace = d
  BY <1>2, Zenon
<1>11. p.point = corner_point(idx, Log2(next_power_of_two(Len(t))))
  BY <1>1, Zenon DEF PointAt
<1>12. Cell(t, idx) = <<p.value>> /\ p.commitment = c.leaves.dims[d]
  BY <1>1, <1>2, <1>4, <1>7, Zenon
<1>13. authenticated(p, root_leaves)
  BY <1>2, <1>3, <1>8, <1>9, <1>10, <1>11, <1>12, Zenon DEF authenticated
<1> QED BY <1>13, Zenon DEF p

LEMMA EntityIff ==
  ASSUME Sound, Kept, NEW d \in Dims, root_version # "V2", Len(Table(d)) <= MAX_QUERY_FIELDS,
         NEW o, TableLaid(Table(d), d, o), NEW n \in 1..Len(KeysOf(d)), NEW e
  PROVE  verify_entity(Shown(d, PrimaryAt(d, o, n)), root_leaves, d, e) <=> e = key_bytes(d, KeysOf(d)[n])
<1> DEFINE idx == PrimaryAt(d, o, n)
           p == Shown(d, idx)
           t == Table(d)
           key == key_bytes(d, KeysOf(d)[n])
<1>1. idx \in Nat /\ idx < Len(t)
  BY AtWithin, Zenon
<1>2. authenticated(p, root_leaves)
  <2> HIDE DEF idx
  <2> QED BY <1>1, ShownPasses, Zenon
<1>3. /\ p.context[1].namespace = d /\ p.context[1].index = idx
      /\ p.context[1].certificate.dimensions[d] = t
  <2> HIDE DEF idx
  <2> QED BY ShownContext, Zenon
<1>4. primary_index(t, d, key) = <<idx>>
  BY IndexIs, Zenon DEF PrimaryAt
<1>5. ASSUME primary_index(t, d, e) = <<idx>> PROVE e = key
  BY <1>5, IndexOnly, Zenon DEF PrimaryAt
<1> HIDE DEF idx, p, t, key
<1>6. verify_entity(p, root_leaves, d, e) <=> primary_index(t, d, e) = <<idx>>
  BY <1>2, <1>3, Zenon DEF verify_entity
<1>7. verify_entity(p, root_leaves, d, e) <=> e = key
  BY <1>4, <1>5, <1>6, Zenon
<1> QED BY <1>7, Zenon DEF p, key, idx

LEMMA FieldsAt ==
  ASSUME Kept, NEW d \in Dims, NEW t, NEW o, TableLaid(t, d, o), NEW n \in 1..Len(KeysOf(d))
  PROVE  /\ t[PrimaryAt(d, o, n) + 1] = ValsOf(d, KeysOf(d)[n])[PrimaryColumn(d) + 1]
         /\ d = "balances" => t[PrimaryAt(d, o, n) + 2] = ValsOf(d, KeysOf(d)[n])[2]
<1> DEFINE c == PrimaryColumn(d)
           w == WidthAt(d, n)
           x == o[n]
           v == ValsOf(d, KeysOf(d)[n])
<1>1. /\ x \in Nat /\ w \in Nat /\ c < w
      /\ \A j \in 1..w : t[x + KEY_FIELDS + j] = v[j]
  BY LaidAt
<1>2. KEY_FIELDS \in Nat /\ c \in Nat /\ (d = "balances" => c = 0 /\ w = 2)
  BY DimensionAssumption DEF PrimaryColumn, WidthAt, WidthOf
<1>3. PrimaryAt(d, o, n) = x + KEY_FIELDS + c
  BY DEF PrimaryAt
<1> HIDE DEF c, w, x, v
<1>4. c + 1 \in 1..w /\ (x + KEY_FIELDS + c) + 1 = x + KEY_FIELDS + (c + 1)
  BY <1>1, <1>2
<1>5. t[PrimaryAt(d, o, n) + 1] = v[c + 1]
  <2>1. t[x + KEY_FIELDS + (c + 1)] = v[c + 1]
    BY <1>1, <1>4
  <2> QED BY <1>3, <1>4, <2>1, Zenon
<1>6. ASSUME d = "balances" PROVE t[PrimaryAt(d, o, n) + 2] = v[2]
  <2>1. 2 \in 1..w /\ (x + KEY_FIELDS + c) + 2 = x + KEY_FIELDS + 2
    BY <1>1, <1>2, <1>6
  <2>2. t[x + KEY_FIELDS + 2] = v[2]
    BY <1>1, <2>1
  <2> QED BY <1>3, <2>1, <2>2, Zenon
<1> QED BY <1>5, <1>6, Zenon DEF c, v

LEMMA BalanceShown ==
  ASSUME Sound, Kept, root_version # "V2", Len(Table("balances")) <= MAX_QUERY_FIELDS,
         NEW o, TableLaid(Table("balances"), "balances", o), NEW n \in 1..Len(KeysOf("balances"))
  PROVE  LET key == key_bytes("balances", KeysOf("balances")[n]) IN
         verify_public_balance(Shown("balances", PrimaryAt("balances", o, n)), root_leaves, key)
           = <<balance_at(key)>>
<1> DEFINE d == "balances"
           k == KeysOf(d)[n]
           key == key_bytes(d, k)
           idx == PrimaryAt(d, o, n)
           p == Shown(d, idx)
           t == Table(d)
           v == ValsOf(d, k)
           r == keyed["balances"].map[k]
<1>0. d \in Dims
  BY DEF Dims, KeyedDims
<1>1. verify_entity(p, root_leaves, d, key)
  <2> HIDE DEF d
  <2> QED BY <1>0, EntityIff DEF d
<1>2. p.context[1].index = idx /\ p.context[1].certificate.dimensions[d] = t
  <2> HIDE DEF idx, d
  <2> QED BY ShownContext, Zenon
<1>3. t[idx + 1] = v[1] /\ t[idx + 2] = v[2]
  <2>1. PrimaryColumn(d) + 1 = 1
    BY DEF PrimaryColumn
  <2>2. t[idx + 1] = v[PrimaryColumn(d) + 1] /\ t[idx + 2] = v[2]
    <3>1. d = "balances"
      OBVIOUS
    <3> HIDE DEF d
    <3>2. TableLaid(Table(d), d, o) /\ n \in 1..Len(KeysOf(d))
      BY <3>1, Zenon
    <3> DEFINE T == Table(d)
    <3>3. /\ T[PrimaryAt(d, o, n) + 1] = ValsOf(d, KeysOf(d)[n])[PrimaryColumn(d) + 1]
          /\ d = "balances" => T[PrimaryAt(d, o, n) + 2] = ValsOf(d, KeysOf(d)[n])[2]
      <4> HIDE DEF T
      <4>1. TableLaid(T, d, o)
        BY <3>2, Zenon DEF T
      <4> QED BY <1>0, <3>2, <4>1, FieldsAt
    <3> QED BY <3>1, <3>3, Zenon
  <2> QED BY <2>1, <2>2, Zenon
<1>4. k \in DOMAIN keyed["balances"].map /\ key = k /\ r \in Nat
  <2>1. k \in DOMAIN MapOf(d)
    BY <1>0, KeysOfOrder, Zenon
  <2>2. MapOf(d) = keyed["balances"].map
    BY DEF MapOf
  <2>3. r \in RecordOf(d)
    <3>1. d # "axons_out"
      OBVIOUS
    <3> QED BY <1>0, <2>1, <3>1, KeyTypes, Zenon
  <2>4. RecordOf(d) = Nat /\ key = k
    BY DEF RecordOf, key_bytes
  <2> QED BY <2>1, <2>2, <2>3, <2>4, Zenon
<1>5. v = u64_limbs(r)
  BY DEF ValsOf, leaf_vals
<1>6. v[1] + Base * v[2] = r
  <2> HIDE DEF v, r
  <2>1. v[1] = r % Base /\ v[2] = r \div Base /\ (r % Base) + Base * (r \div Base) = r
    BY <1>4, <1>5, Limbs
  <2> QED BY <2>1, Zenon
<1>7. balance_at(key) = r
  BY <1>4, Zenon DEF balance_at, Look
<1> HIDE DEF p, t, idx, v, r, key
<1>8. verify_public_balance(p, root_leaves, key) = <<t[idx + 1] + Base * t[idx + 2]>>
  BY <1>1, <1>2, Zenon DEF verify_public_balance
<1>9. verify_public_balance(p, root_leaves, key) = <<balance_at(key)>>
  BY <1>3, <1>6, <1>7, <1>8, Zenon
<1> QED BY <1>9, Zenon DEF p, key, idx

LEMMA TooLong ==
  ASSUME Kept, NEW d \in Dims, Len(Table(d)) > MAX_QUERY_FIELDS, NEW key
  PROVE  Answer(d, key) = <<>>
<1>1. CASE d # "balances"
  <2>1. d \in Public
    BY <1>1 DEF Public
  <2>2. \A idx : open_cell(d, idx) = <<>>
    BY <2>1, Zenon DEF open_cell, OpenIn
  <2>3. \A cells : OpenAt(cells, d) = <<>>
    BY <2>2, Zenon DEF OpenAt
  <2> QED BY <1>1, <2>3, Zenon DEF Answer, bbg_query, open_entity
<1>2. CASE d = "balances"
  <2> DEFINE L == HEADER_FIELDS + Cardinality(DOMAIN keyed["balances"].map) * (KEY_FIELDS + 2)
  <2>1. L > MAX_QUERY_FIELDS
    <3>1. L = Len(Table("balances"))
      BY BalancesLength, Zenon
    <3> HIDE DEF L
    <3> QED BY <1>2, <3>1, Zenon
  <2>2. prove_public_balance(key) = <<>>
    BY <2>1, Zenon DEF prove_public_balance
  <2> QED BY <1>2, <2>2, Zenon DEF Answer
<1> QED BY <1>1, <1>2

LEMMA NotCertified ==
  ASSUME Sound, Kept, NEW d \in Dims, root_version = "V2", NEW key
  PROVE  Answer(d, key) = <<>>
<1>1. from_state({d}) = <<>>
  BY V2Refuses, Zenon
<1> DEFINE s == from_state({d})
<1>2. \A p, idx : WithContext(p, s, d, idx) = <<>>
  <2> HIDE DEF s
  <2>1. s = <<>>
    BY <1>1, Zenon DEF s
  <2> QED BY <2>1, Zenon DEF WithContext
<1>3. CASE d # "balances"
  <2>1. d \in Public
    BY <1>3 DEF Public
  <2>2. \A idx : open_cell(d, idx) = <<>>
    BY <1>2, <2>1, Zenon DEF open_cell, OpenIn
  <2>3. \A cells : OpenAt(cells, d) = <<>>
    BY <2>2, Zenon DEF OpenAt
  <2> QED BY <1>3, <2>3, Zenon DEF Answer, bbg_query, open_entity
<1>4. CASE d = "balances"
  <2>1. \A p, idx : WithContext(p, from_state({"balances"}), "balances", idx) = <<>>
    BY <1>2, <1>4, Zenon
  <2>2. \A cells : Disclosed(cells) = <<>>
    BY <2>1, Zenon DEF Disclosed
  <2>3. prove_public_balance(key) = <<>>
    BY <2>2, Zenon DEF prove_public_balance
  <2> QED BY <1>4, <2>3, Zenon DEF Answer
<1> QED BY <1>3, <1>4

LEMMA NotPresent ==
  ASSUME Kept, NEW d \in Dims, NEW key, Primary(d, key) = <<>>
  PROVE  Answer(d, key) = <<>>
<1> DEFINE cells == CellIndex(Entries(d), key, PrimaryColumn(d))
<1>1. cells = {}
  BY CellsNone, Zenon
<1>2. CASE d # "balances"
  <2>1. OpenAt(cells, d) = <<>>
    BY <1>1, Zenon DEF OpenAt
  <2> QED BY <1>2, <2>1, Zenon DEF Answer, bbg_query, open_entity
<1>3. CASE d = "balances"
  <2>1. cells = CellIndex(KeyedEntries("balances", keyed["balances"].map), key, 0)
    BY <1>3 DEF Entries, PrimaryColumn
  <2>2. Disclosed(cells) = <<>>
    BY <1>1, Zenon DEF Disclosed
  <2> HIDE DEF cells
  <2>3. prove_public_balance(key) = <<>>
    BY <2>1, <2>2, Zenon DEF prove_public_balance
  <2> QED BY <1>3, <2>3, Zenon DEF Answer
<1> QED BY <1>2, <1>3

LEMMA AnswerShows ==
  ASSUME Sound, Kept, NEW d \in Dims, root_version # "V2", Len(Table(d)) <= MAX_QUERY_FIELDS,
         NEW key, Primary(d, key) # <<>>
  PROVE  Shows(Answer(d, key), root_leaves, d, key, Primary(d, key))
<1>1. PICK n \in 1..Len(KeysOf(d)) : key_bytes(d, KeysOf(d)[n]) = key
  BY PrimaryKnown
<1>2. PICK o : TableLaid(Table(d), d, o)
  BY TableIsLaid, Zenon
<1> DEFINE p == Shown(d, PrimaryAt(d, o, n))
           a == Answer(d, key)
           x == ValsOf(d, KeysOf(d)[n])[PrimaryColumn(d) + 1]
           f == Primary(d, key)
           rt == root_leaves
<1>3. a = <<p>>
  BY <1>1, <1>2, AnswerIs, Zenon
<1>4. f = <<x>>
  BY <1>1, PrimaryIs, Zenon
<1>5. p.value = x
  <2> DEFINE T == Table(d)
             i == PrimaryAt(d, o, n)
  <2>1. Shown(d, i).value = T[i + 1]
    BY ShownIs, Zenon
  <2>2. T[PrimaryAt(d, o, n) + 1] = x
    <3> HIDE DEF T
    <3>1. TableLaid(T, d, o)
      BY <1>2, Zenon DEF T
    <3> QED BY <3>1, FieldsAt
  <2> HIDE DEF T, x
  <2> QED BY <2>1, <2>2, Zenon
<1>6. \A e : verify_entity(p, rt, d, e) <=> e = key
  BY <1>1, <1>2, EntityIff
<1>7. ASSUME d = "balances" PROVE verify_public_balance(p, rt, key) = <<balance_at(key)>>
  BY <1>1, <1>2, <1>7, BalanceShown
<1> HIDE DEF p, a, x, f, rt
<1>8. a # <<>> /\ a[1] = p /\ f[1] = x
  BY <1>3, <1>4, Single, Zenon
<1>9. Shows(a, rt, d, key, f)
  BY <1>5, <1>6, <1>7, <1>8, Zenon DEF Shows
<1> QED BY <1>9, Zenon DEF a, f, rt

LEMMA InvAnswers == ASSUME QueryInv PROVE QueriesAnswer
<1>1. Sound /\ Kept
  BY QueryKept DEF QueryInv
<1> SUFFICES ASSUME NEW d \in subject \cap Dims, NEW key
             PROVE  IF \/ root_version = "V2" \/ Primary(d, key) = <<>>
                       \/ Len(Table(d)) > MAX_QUERY_FIELDS
                    THEN Answer(d, key) = <<>>
                    ELSE Shows(Answer(d, key), root_leaves, d, key, Primary(d, key))
  BY Zenon DEF QueriesAnswer
<1>2. d \in Dims
  OBVIOUS
<1>3. CASE root_version = "V2"
  BY <1>1, <1>2, <1>3, NotCertified, Zenon
<1>4. CASE Primary(d, key) = <<>>
  BY <1>1, <1>2, <1>4, NotPresent, Zenon
<1>5. CASE Len(Table(d)) > MAX_QUERY_FIELDS
  BY <1>1, <1>2, <1>5, TooLong, Zenon
<1>6. CASE root_version # "V2" /\ Primary(d, key) # <<>> /\ ~(Len(Table(d)) > MAX_QUERY_FIELDS)
  <2>1. Len(Table(d)) \in Nat
    BY <1>1, <1>2, ShapeHolds, Zenon
  <2>2. Len(Table(d)) <= MAX_QUERY_FIELDS
    BY <1>6, <2>1, QueryAssumption
  <2>3. Shows(Answer(d, key), root_leaves, d, key, Primary(d, key))
    BY <1>1, <1>2, <1>6, <2>2, AnswerShows, Zenon
  <2> QED BY <1>6, <2>3, Zenon
<1> QED BY <1>3, <1>4, <1>5, <1>6, Zenon

\* bbg_query and prove_public_balance answer exactly the queries of a present
\* record under V1 when its table fits; the answer passes verify_entity for
\* this key and no other, shows the record's primary field, and a public
\* balance is read back whole.
THEOREM QueriesAnswered == Spec => []QueriesAnswer
<1>1. Init => QueryInv
  BY QueryInvInit
<1>2. QueryInv /\ [Next]_vars => QueryInv'
  BY QueryInvNext
<1>3. QueryInv => QueriesAnswer
  BY InvAnswers
<1> QED
  BY <1>1, <1>2, <1>3, PTL DEF Spec
=============================================================================
