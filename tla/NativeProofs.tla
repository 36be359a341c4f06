---------------------------- MODULE NativeProofs ----------------------------
(***************************************************************************)
(* Proofs about the two ways a Bbg changes, for every policy, width and    *)
(* epoch length.  The native preparation (NativeTransition), for every set *)
(* of batches and every limit: undo is exact, the durable records are      *)
(* those of the published Bbg or of the whole candidate, and no step takes *)
(* back what was published.  The direct path (BbgFacade), for every set of *)
(* calls: the graph stays indexed, and what a pruning cycle removes is     *)
(* what the rank floor, the size pressure and the half-life allow.         *)
(***************************************************************************)
EXTENDS NativeTransition, BbgFacade, FoldTheorems, TLAPS

-----------------------------------------------------------------------------
(* Records, undo and recovery *)

\* An option <<v>> is not <<>>, and it determines its value.
LEMMA OptionFacts ==
  /\ \A x : <<x>> # <<>> /\ <<x>>[1] = x
  /\ \A x, y : <<x>> = <<y>> => x = y
  OBVIOUS

\* Two maps with the same options at every key are the same map.
LEMMA MapsEqual ==
  ASSUME NEW f, NEW g, IsMap(f), IsMap(g), DOMAIN f = DOMAIN g,
         \A k \in DOMAIN f : f[k] = g[k]
  PROVE  f = g
  BY DEF IsMap

\* Two Bbgs that agree on every field are equal.
LEMMA BbgsEqual ==
  ASSUME NEW b, NEW p, IsBbg(b), IsBbg(p), \A f \in Fields : b[f] = p[f]
  PROVE  b = p
  BY DEF IsBbg

\* The fields of a Bbg put together from its parts.
LEMMA MakeFields ==
  ASSUME NEW maps, NEW h, NEW c, NEW d, NEW g
  PROVE  /\ DOMAIN MakeBbg(maps, h, c, d, g) = Fields
         /\ MakeBbg(maps, h, c, d, g) = [f \in Fields |-> MakeBbg(maps, h, c, d, g)[f]]
         /\ \A x \in Domains : MakeBbg(maps, h, c, d, g)[x] = maps[x]
         /\ MakeBbg(maps, h, c, d, g).height = h
         /\ MakeBbg(maps, h, c, d, g).checkpoint = c
         /\ MakeBbg(maps, h, c, d, g).diameter_override = d
         /\ MakeBbg(maps, h, c, d, g).prune_config = g
  <1> DEFINE m == MakeBbg(maps, h, c, d, g)
  <1>1. DOMAIN m = Fields /\ m = [f \in Fields |-> m[f]]
    BY DEF MakeBbg
  <1>2. \A x \in Domains : m[x] = maps[x]
    BY DEF MakeBbg, Fields
  <1>3. m.height = h /\ m.checkpoint = c /\ m.diameter_override = d /\ m.prune_config = g
    BY DEF MakeBbg, Fields, Domains
  <1> QED
    BY <1>1, <1>2, <1>3

\* Dropping a preparation whose undo covers every difference gives back the
\* published Bbg.
LEMMA RestoreExact ==
  ASSUME NEW b, NEW u, NEW p, IsBbg(b), IsBbg(p), KeysShaped(u), UndoCovers(b, u, p)
  PROVE  Restore(b, u) = p
  <1> DEFINE Cap(d) == {key[2] : key \in {x \in DOMAIN u.values : x[1] = d}}
             Opts(d) == [k \in Cap(d) |-> u.values[<<d, k>>]]
             maps == [d \in Domains |-> Overlay(b[d], Opts(d))]
  <1>1. ASSUME NEW d \in Domains
        PROVE  maps[d] = p[d]
    <2>1. \A k : k \in Cap(d) <=> <<d, k>> \in DOMAIN u.values
      BY DEF KeysShaped, MetaKey, Domains
    <2>2. \A k \in Cap(d) : Opts(d)[k] = read(p, <<d, k>>)
      BY <2>1 DEF UndoCovers
    <2>3. d # "metadata"
      BY DEF Domains
    <2>4. \A k : read(p, <<d, k>>) = IF k \in DOMAIN p[d] THEN <<p[d][k]>> ELSE <<>>
      BY <2>3 DEF read
    <2>5. \A k : read(b, <<d, k>>) = IF k \in DOMAIN b[d] THEN <<b[d][k]>> ELSE <<>>
      BY <2>3 DEF read
    <2>6. \A k : k \notin Cap(d) => (k \in DOMAIN b[d] <=> k \in DOMAIN p[d])
                                    /\ (k \in DOMAIN b[d] => b[d][k] = p[d][k])
      <3> SUFFICES ASSUME NEW k, k \notin Cap(d)
                   PROVE  (k \in DOMAIN b[d] <=> k \in DOMAIN p[d])
                          /\ (k \in DOMAIN b[d] => b[d][k] = p[d][k])
        OBVIOUS
      <3>1. k \in DOMAIN b[d] \cup DOMAIN p[d] => read(b, <<d, k>>) = read(p, <<d, k>>)
        BY <2>1 DEF UndoCovers
      <3>2. k \in DOMAIN b[d] => read(b, <<d, k>>) = <<b[d][k]>>
        BY <2>5
      <3>3. k \notin DOMAIN b[d] => read(b, <<d, k>>) = <<>>
        BY <2>5
      <3>4. k \in DOMAIN p[d] => read(p, <<d, k>>) = <<p[d][k]>>
        BY <2>4
      <3>5. k \notin DOMAIN p[d] => read(p, <<d, k>>) = <<>>
        BY <2>4
      <3> QED
        BY <3>1, <3>2, <3>3, <3>4, <3>5, OptionFacts
    <2>7. \A k \in Cap(d) : Opts(d)[k] = <<>> <=> k \notin DOMAIN p[d]
      BY <2>2, <2>4, OptionFacts
    <2>8. \A k \in Cap(d) : k \in DOMAIN p[d] => Opts(d)[k][1] = p[d][k]
      BY <2>2, <2>4, OptionFacts
    <2>9. DOMAIN Overlay(b[d], Opts(d)) = DOMAIN p[d]
      BY <2>6, <2>7 DEF Overlay
    <2>10. \A k \in DOMAIN p[d] : Overlay(b[d], Opts(d))[k] = p[d][k]
      BY <2>6, <2>8, <2>9 DEF Overlay
    <2>11. IsMap(Overlay(b[d], Opts(d))) /\ IsMap(p[d])
      BY DEF Overlay, IsMap, IsBbg
    <2> QED
      BY <2>9, <2>10, <2>11, MapsEqual
  <1> HIDE DEF maps
  <1>2. Restore(b, u) = MakeBbg(maps, u.height, u.checkpoint, b.diameter_override, b.prune_config)
    BY DEF Restore, maps
  <1> DEFINE r == MakeBbg(maps, u.height, u.checkpoint, b.diameter_override, b.prune_config)
  <1>3. \A f \in Fields : r[f] = p[f]
    BY <1>1, MakeFields DEF UndoCovers, Fields
  <1>4. p = [f \in Fields |-> p[f]] /\ r = [f \in Fields |-> r[f]]
    BY MakeFields DEF IsBbg
  <1> QED
    BY <1>2, <1>3, <1>4

\* What a record read returns for a key of one of the maps.
LEMMA ReadFacts ==
  ASSUME NEW b, NEW d \in Domains, NEW k
  PROVE  /\ k \in DOMAIN b[d] => read(b, <<d, k>>) = <<b[d][k]>>
         /\ k \notin DOMAIN b[d] => read(b, <<d, k>>) = <<>>
         /\ read(b, <<d, k>>) = <<>> => k \notin DOMAIN b[d]
  <1>1. d # "metadata"
    BY DEF Domains
  <1> QED
    BY <1>1, OptionFacts DEF read

\* The metadata record is always there.
LEMMA ReadMeta ==
  ASSUME NEW b
  PROVE  read(b, MetaKey) = <<metadata(b)>> /\ read(b, MetaKey) # <<>>
  BY OptionFacts DEF read, MetaKey

\* A fresh undo covers the Bbg it was made from.
LEMMA UndoOfCovers ==
  ASSUME NEW b
  PROVE  UndoCovers(b, UndoOf(b), b) /\ KeysShaped(UndoOf(b)) /\ IsMap(UndoOf(b).values)
  <1> DEFINE u == UndoOf(b)
  <1>1. u.values = [key \in {MetaKey} |-> read(b, key)] /\ u.height = b.height /\ u.checkpoint = b.checkpoint
    BY DEF UndoOf, Capture, Empty
  <1> HIDE DEF u
  <1>2. DOMAIN u.values = {MetaKey}
    BY <1>1
  <1>3. UndoCovers(b, u, b)
    BY <1>1, <1>2 DEF UndoCovers
  <1>4. KeysShaped(u)
    BY <1>2 DEF KeysShaped, MetaKey
  <1>5. IsMap(u.values)
    BY <1>1 DEF IsMap
  <1> QED
    BY <1>3, <1>4, <1>5 DEF u

\* Keys of the maps.
MapKeys(K) == \A key \in K : key[1] \in Domains /\ key = <<key[1], key[2]>>

\* Capturing before writing keeps the undo covering.
LEMMA CaptureCovers ==
  ASSUME NEW b, NEW u, NEW p, NEW K, UndoCovers(b, u, p), KeysShaped(u), MapKeys(K),
         u = [values |-> u.values, height |-> u.height, checkpoint |-> u.checkpoint],
         NEW v, v = Capture(u, b, K)
  PROVE  /\ UndoCovers(b, v, p) /\ KeysShaped(v) /\ IsMap(v.values)
         /\ DOMAIN v.values = DOMAIN u.values \cup K
         /\ v = [values |-> v.values, height |-> v.height, checkpoint |-> v.checkpoint]
  <1>1. v.values = [key \in DOMAIN u.values \cup K |->
                      IF key \in DOMAIN u.values THEN u.values[key] ELSE read(b, key)]
        /\ v.height = u.height /\ v.checkpoint = u.checkpoint
        /\ v = [values |-> v.values, height |-> v.height, checkpoint |-> v.checkpoint]
    BY DEF Capture
  <1>2. DOMAIN v.values = DOMAIN u.values \cup K
    BY <1>1
  <1>3. \A key \in DOMAIN v.values : v.values[key] = read(p, key)
    <2> SUFFICES ASSUME NEW key \in K, key \notin DOMAIN u.values
                 PROVE  read(b, key) = read(p, key)
      BY <1>1, <1>2 DEF UndoCovers
    <2> PICK d \in Domains : \E k : key = <<d, k>>
      BY DEF MapKeys
    <2> PICK k : key = <<d, k>>
      OBVIOUS
    <2>1. CASE k \in DOMAIN b[d] \cup DOMAIN p[d]
      BY <2>1 DEF UndoCovers
    <2>2. CASE k \notin DOMAIN b[d] \cup DOMAIN p[d]
      BY <2>2, ReadFacts
    <2> QED
      BY <2>1, <2>2
  <1>4. UndoCovers(b, v, p)
    BY <1>1, <1>2, <1>3 DEF UndoCovers
  <1>5. KeysShaped(v)
    BY <1>2 DEF KeysShaped, MapKeys
  <1>6. IsMap(v.values)
    BY <1>1 DEF IsMap
  <1> QED
    BY <1>1, <1>2, <1>4, <1>5, <1>6

\* b2 differs from b at most in the records K, and not in its policy.
Writes(b, b2, K) ==
  /\ \A d \in Domains : \A k : <<d, k>> \notin K =>
       /\ k \in DOMAIN b2[d] <=> k \in DOMAIN b[d]
       /\ k \in DOMAIN b[d] => b2[d][k] = b[d][k]
  /\ b2.diameter_override = b.diameter_override
  /\ b2.prune_config = b.prune_config

\* Writing captured records keeps the undo covering.
LEMMA WriteCovers ==
  ASSUME NEW b, NEW b2, NEW u, NEW p, NEW K, UndoCovers(b, u, p),
         Writes(b, b2, K), K \subseteq DOMAIN u.values
  PROVE  UndoCovers(b2, u, p)
  <1>1. ASSUME NEW d \in Domains, NEW k \in DOMAIN b2[d] \cup DOMAIN p[d],
               <<d, k>> \notin DOMAIN u.values
        PROVE  read(b2, <<d, k>>) = read(p, <<d, k>>)
    <2>1. /\ k \in DOMAIN b2[d] <=> k \in DOMAIN b[d]
          /\ k \in DOMAIN b[d] => b2[d][k] = b[d][k]
      BY <1>1 DEF Writes
    <2>2. read(b, <<d, k>>) = read(p, <<d, k>>)
      BY <1>1, <2>1 DEF UndoCovers
    <2>3. read(b2, <<d, k>>) = read(b, <<d, k>>)
      BY <2>1, ReadFacts
    <2> QED
      BY <2>2, <2>3
  <1> QED
    BY <1>1 DEF UndoCovers, Writes

\* A record key, and the records a Bbg has: those that read as present.
IsKey(key) == key = MetaKey \/ \E d \in Domains : \E k : key = <<d, k>>

\* A record of a Bbg is a key that reads as something.
LEMMA KeysRead ==
  ASSUME NEW b, NEW key
  PROVE  key \in Keys(b) <=> IsKey(key) /\ read(b, key) # <<>>
  <1>1. CASE key = MetaKey
    BY <1>1, ReadMeta DEF Keys, IsKey
  <1>2. ASSUME key # MetaKey, key \in Keys(b)
        PROVE  IsKey(key) /\ read(b, key) # <<>>
    <2>1. PICK d \in Domains : key \in {<<d, k>> : k \in DOMAIN b[d]}
      BY <1>2 DEF Keys
    <2>2. PICK k \in DOMAIN b[d] : key = <<d, k>>
      BY <2>1
    <2> QED
      BY <2>2, ReadFacts DEF IsKey
  <1>3. ASSUME key # MetaKey, IsKey(key), read(b, key) # <<>>
        PROVE  key \in Keys(b)
    <2>0. PICK d \in Domains : \E k : key = <<d, k>>
      BY <1>3 DEF IsKey
    <2>1. PICK k : key = <<d, k>>
      BY <2>0
    <2>2. k \in DOMAIN b[d]
      BY <1>3, <2>1, ReadFacts
    <2> QED
      BY <2>1, <2>2 DEF Keys
  <1> QED
    BY <1>1, <1>2, <1>3

\* Committing the changed records turns the records of the published Bbg
\* into those of the candidate.
LEMMA ChangesExact ==
  ASSUME NEW b, NEW u, NEW p, UndoCovers(b, u, p), KeysShaped(u)
  PROVE  Overlay(records(p), ChangedRecords(b, u)) = records(b)
  <1> DEFINE c == ChangedRecords(b, u)
             differs == {key \in DOMAIN u.values : read(b, key) # u.values[key]}
  <1>1. DOMAIN c = differs /\ \A key \in differs : c[key] = read(b, key)
    BY DEF ChangedRecords
  <1>2. \A key \in differs : IsKey(key)
    BY DEF KeysShaped, IsKey
  <1>3. ASSUME NEW key, IsKey(key), key \notin differs
        PROVE  read(b, key) = read(p, key)
    <2>1. CASE key \in DOMAIN u.values
      BY <1>3, <2>1 DEF UndoCovers
    <2>2. CASE key \notin DOMAIN u.values
      <3>0. PICK d \in Domains : \E k : key = <<d, k>>
        BY <1>3, <2>2 DEF IsKey, UndoCovers
      <3>1. PICK k : key = <<d, k>>
        BY <3>0
      <3>2. CASE k \in DOMAIN b[d] \cup DOMAIN p[d]
        BY <2>2, <3>1, <3>2 DEF UndoCovers
      <3>3. CASE k \notin DOMAIN b[d] \cup DOMAIN p[d]
        BY <3>1, <3>3, ReadFacts
      <3> QED
        BY <3>2, <3>3
    <2> QED
      BY <2>1, <2>2
  <1>4. DOMAIN records(p) = Keys(p) /\ DOMAIN records(b) = Keys(b)
    BY DEF records
  <1> HIDE DEF c, differs
  <1> DEFINE o == Overlay(records(p), c)
  <1>5. DOMAIN o = (Keys(p) \cup differs) \ {key \in differs : read(b, key) = <<>>}
    BY <1>1, <1>4 DEF Overlay
  <1>6. ASSUME NEW key
        PROVE  key \in DOMAIN o <=> key \in Keys(b)
    BY <1>2, <1>3, <1>5, KeysRead
  <1>7. ASSUME NEW key \in Keys(b)
        PROVE  o[key] = read(b, key)[1]
    <2>1. CASE key \in differs
      BY <1>1, <1>6, <2>1 DEF Overlay
    <2>2. CASE key \notin differs
      <3>1. IsKey(key) /\ read(b, key) = read(p, key)
        BY <1>3, <2>2, KeysRead
      <3>2. key \in Keys(p)
        BY <3>1, KeysRead
      <3> QED
        BY <1>1, <1>6, <2>2, <3>1, <3>2 DEF Overlay, records
    <2> QED
      BY <2>1, <2>2
  <1>8. o = [key \in DOMAIN o |-> o[key]]
    BY DEF Overlay
  <1>9. DOMAIN o = Keys(b)
    BY <1>6
  <1> QED
    BY <1>7, <1>8, <1>9 DEF records, c

\* Recovery from the records of a Bbg gives that Bbg.
LEMMA RecoverExact ==
  ASSUME NEW b, IsBbg(b)
  PROVE  FromRecords(records(b)) = b
  <1> DEFINE store == records(b)
             Ks(d) == {key[2] : key \in {x \in DOMAIN store : x[1] = d}}
             maps == [d \in Domains |-> [k \in Ks(d) |-> store[<<d, k>>]]]
  <1>1. DOMAIN store = Keys(b) /\ \A key \in Keys(b) : store[key] = read(b, key)[1]
    BY DEF records
  <1> HIDE DEF store
  <1>2. ASSUME NEW d \in Domains
        PROVE  maps[d] = b[d]
    <2>1. \A key \in Keys(b) : key[1] = d => \E k : key = <<d, k>> /\ key[2] = k
      BY KeysRead DEF IsKey, MetaKey, Domains
    <2>2. \A k : k \in Ks(d) <=> <<d, k>> \in Keys(b)
      BY <1>1, <2>1
    <2>3. \A k : <<d, k>> \in Keys(b) <=> k \in DOMAIN b[d]
      BY KeysRead, ReadFacts, OptionFacts DEF IsKey
    <2>4. \A k \in DOMAIN b[d] : store[<<d, k>>] = b[d][k]
      BY <1>1, <2>3, ReadFacts, OptionFacts
    <2>5. Ks(d) = DOMAIN b[d]
      BY <2>2, <2>3
    <2>6. maps[d] = [k \in DOMAIN b[d] |-> b[d][k]]
      BY <2>4, <2>5
    <2> QED
      BY <2>6 DEF IsBbg, IsMap
  <1>3. MetaKey \in Keys(b)
    BY DEF Keys
  <1>4. store[MetaKey] = metadata(b)
    BY <1>1, <1>3, ReadMeta, OptionFacts
  <1> HIDE DEF maps
  <1> DEFINE r == MakeBbg(maps, b.height, b.checkpoint, b.diameter_override, b.prune_config)
  <1>5. FromRecords(store) = r
    BY <1>4 DEF FromRecords, metadata, maps
  <1>6. \A f \in Fields : r[f] = b[f]
    BY <1>2, MakeFields DEF Fields
  <1>7. b = [f \in Fields |-> b[f]] /\ r = [f \in Fields |-> r[f]]
    BY MakeFields DEF IsBbg
  <1> QED
    BY <1>5, <1>6, <1>7 DEF store

-----------------------------------------------------------------------------
(* Which records the operations of a Bbg write *)

\* g is a map that differs from f at most in the keys S.
MapWrites(f, g, S) ==
  /\ IsMap(g)
  /\ \A k : k \notin S => /\ k \in DOMAIN g <=> k \in DOMAIN f
                          /\ k \in DOMAIN f => g[k] = f[k]

\* An unchanged map was written nowhere.
LEMMA SameMap ==
  ASSUME NEW f, IsMap(f), NEW S
  PROVE  MapWrites(f, f, S)
  BY DEF MapWrites

\* One write after another: the union of their keys.
LEMMA WritesCompose ==
  ASSUME NEW f, NEW g, NEW h, NEW S, NEW T, MapWrites(f, g, S), MapWrites(g, h, T)
  PROVE  MapWrites(f, h, S \cup T)
  BY DEF MapWrites

\* A put writes its key.
LEMMA PutWrites ==
  ASSUME NEW f, NEW k, NEW v
  PROVE  MapWrites(f, Put(f, k, v), {k})
  BY DEF MapWrites, Put, IsMap

\* A removal writes its key.
LEMMA DelWrites ==
  ASSUME NEW f, NEW k
  PROVE  MapWrites(f, Del(f, k), {k})
  BY DEF MapWrites, Del, IsMap

\* AxonIndex::add writes the adjacency list of one particle.
LEMMA AddAxonWrites ==
  ASSUME NEW f, IsMap(f), NEW p, NEW axon
  PROVE  MapWrites(f, AddAxon(f, p, axon), {p})
  BY PutWrites, SameMap DEF AddAxon

\* AxonIndex::remove_axon writes the adjacency list of one particle.
LEMMA DropAxonWrites ==
  ASSUME NEW f, NEW p, NEW axon
  PROVE  MapWrites(f, DropAxon(f, p, axon), {p})
  BY PutWrites, DelWrites DEF DropAxon

\* Spending focus writes one neuron.
LEMMA SpendFocusWrites ==
  ASSUME NEW f, IsMap(f), NEW n, NEW amount
  PROVE  MapWrites(f, SpendFocus(f, n, amount), {n})
  BY DEF SpendFocus, MapWrites, IsMap

\* A link's particle updates write its axon and its target.
LEMMA ParticleWrites ==
  ASSUME NEW f, NEW axon, NEW p, NEW amount
  PROVE  MapWrites(f, AddEnergy(AddWeight(f, axon, amount), p, amount), {axon, p})
  <1> DEFINE g == AddWeight(f, axon, amount)
             h == AddEnergy(g, p, amount)
  <1>1. MapWrites(f, g, {axon})
    BY PutWrites DEF AddWeight
  <1>2. MapWrites(g, h, {p})
    BY PutWrites DEF AddEnergy
  <1>3. {axon} \cup {p} = {axon, p}
    OBVIOUS
  <1> HIDE DEF g, h
  <1>4. MapWrites(f, h, {axon} \cup {p})
    BY <1>1, <1>2, WritesCompose
  <1> QED
    BY <1>3, <1>4 DEF g, h

\* A link's balance updates write its two ends.
LEMMA BalanceWrites ==
  ASSUME NEW f, NEW to, NEW from, NEW amount
  PROVE  MapWrites(f, DebitBalance(CreditBalance(f, to, amount), from, amount), {from, to})
  <1> DEFINE g == CreditBalance(f, to, amount)
             h == DebitBalance(g, from, amount)
  <1>1. MapWrites(f, g, {to})
    BY PutWrites DEF CreditBalance
  <1>2. MapWrites(g, h, {from})
    BY PutWrites, DelWrites DEF DebitBalance
  <1>3. {to} \cup {from} = {from, to}
    OBVIOUS
  <1> HIDE DEF g, h
  <1>4. MapWrites(f, h, {to} \cup {from})
    BY <1>1, <1>2, WritesCompose
  <1> QED
    BY <1>3, <1>4 DEF g, h

\* The result of an operation: a Bbg again, in which at most K was written.
Wrote(b, b2, K) == IsBbg(b2) /\ Writes(b, b2, K)

\* A box movement writes no record outside the ones MoveKeys captures.
LEMMA MoveWrites ==
  ASSUME NEW b, IsBbg(b), NEW mv
  PROVE  Wrote(b, ApplyMove(b, mv), MoveKeys(mv)) /\ ApplyMove(b, mv).height = b.height
  <1> DEFINE b2 == ApplyMove(b, mv)
             cs == IF mv.commitment = <<>> THEN b.commitments
                   ELSE Put(b.commitments, mv.commitment[1], mv.commitment[2])
  <1>1. /\ b2 = [f \in Fields |-> b2[f]]
        /\ b2.nullifiers = Put(b.nullifiers, mv.nullifier, <<>>)
        /\ b2.commitments = cs
        /\ \A f \in Fields \ {"nullifiers", "commitments"} : b2[f] = b[f]
    BY DEF ApplyMove, IsBbg, Fields, Domains
  <1> HIDE DEF b2
  <1>2. MapWrites(b.nullifiers, b2.nullifiers, {mv.nullifier})
    BY <1>1, PutWrites
  <1>3. \A k : <<"commitments", k>> \notin MoveKeys(mv) => 
            /\ k \in DOMAIN cs <=> k \in DOMAIN b.commitments
            /\ k \in DOMAIN b.commitments => cs[k] = b.commitments[k]
    BY DEF MoveKeys, Put
  <1>4. IsMap(cs)
    BY DEF IsMap, Put, IsBbg, Domains
  <1>5. <<"nullifiers", mv.nullifier>> \in MoveKeys(mv)
    BY DEF MoveKeys
  <1> HIDE DEF cs
  <1>6. \A d \in Domains : IsMap(b2[d])
    BY <1>1, <1>2, <1>4 DEF Fields, Domains, IsBbg, MapWrites
  <1>7. Writes(b, b2, MoveKeys(mv))
    BY <1>1, <1>2, <1>3, <1>5 DEF Writes, Fields, Domains, MapWrites
  <1> QED
    BY <1>1, <1>6, <1>7 DEF b2, Wrote, IsBbg, Fields, Domains

\* A cyberlink writes no record outside the ones LinkKeys captures and the
\* record of its neuron.
LEMMA LinkWrites ==
  ASSUME NEW b, IsBbg(b), NEW n, NEW l
  PROVE  /\ Wrote(b, ApplyLink(b, n, l), LinkKeys(l) \cup {<<"neurons", n>>})
         /\ ApplyLink(b, n, l).height = b.height
  <1> DEFINE b2 == ApplyLink(b, n, l)
             axon == axon_id(l.from, l.to)
             K == LinkKeys(l) \cup {<<"neurons", n>>}
             ps == AddEnergy(AddWeight(b.particles, axon, l.amount), l.to, l.amount)
             bs == DebitBalance(CreditBalance(b.balances, balance_key(l.to, l.token), l.amount),
                                balance_key(l.from, l.token), l.amount)
             ns == SpendFocus(b.neurons, n, l.amount)
             es == IF axon \in DOMAIN b.axon_edges THEN b.axon_edges
                   ELSE Put(b.axon_edges, axon, <<l.from, l.to>>)
  <1>0. \A d \in Domains : IsMap(b[d])
    BY DEF IsBbg
  <1>1. /\ b2 = [f \in Fields |-> b2[f]]
        /\ b2.axons_out = AddAxon(b.axons_out, l.from, axon)
        /\ b2.axons_in = AddAxon(b.axons_in, l.to, axon)
        /\ b2.axon_edges = es
        /\ b2.particles = (IF l.amount = 0 THEN b.particles ELSE ps)
        /\ b2.neurons = (IF l.amount = 0 THEN b.neurons ELSE ns)
        /\ b2.balances = (IF l.amount = 0 THEN b.balances ELSE bs)
        /\ \A f \in Fields \ {"axons_out", "axons_in", "axon_edges", "particles",
                               "neurons", "balances"} : b2[f] = b[f]
    BY DEF ApplyLink, AddTopology, IsBbg, Fields, Domains
  <1> HIDE DEF b2
  <1>2. MapWrites(b.axons_out, b2.axons_out, {l.from})
    BY <1>0, <1>1, AddAxonWrites DEF Domains
  <1>3. MapWrites(b.axons_in, b2.axons_in, {l.to})
    BY <1>0, <1>1, AddAxonWrites DEF Domains
  <1>4. MapWrites(b.axon_edges, b2.axon_edges, {axon})
    BY <1>0, <1>1, PutWrites, SameMap DEF Domains
  <1>5. MapWrites(b.particles, b2.particles, {axon, l.to})
    BY <1>0, <1>1, ParticleWrites, SameMap DEF Domains
  <1>6. MapWrites(b.neurons, b2.neurons, {n})
    BY <1>0, <1>1, SpendFocusWrites, SameMap DEF Domains
  <1>7. MapWrites(b.balances, b2.balances,
                  {balance_key(l.from, l.token), balance_key(l.to, l.token)})
    BY <1>0, <1>1, BalanceWrites, SameMap DEF Domains
  <1>8. /\ <<"axons_out", l.from>> \in K /\ <<"axons_in", l.to>> \in K
        /\ <<"axon_edges", axon>> \in K /\ <<"particles", axon>> \in K
        /\ <<"particles", l.to>> \in K /\ <<"neurons", n>> \in K
        /\ <<"balances", balance_key(l.from, l.token)>> \in K
        /\ <<"balances", balance_key(l.to, l.token)>> \in K
    BY DEF LinkKeys
  <1> HIDE DEF K, axon, ps, bs, ns, es
  <1>9. \A d \in Domains : IsMap(b2[d])
    BY <1>0, <1>1, <1>2, <1>3, <1>4, <1>5, <1>6, <1>7 DEF Fields, Domains, MapWrites
  <1>10. Writes(b, b2, K)
    <2> SUFFICES ASSUME NEW d \in Domains, NEW k, <<d, k>> \notin K
                 PROVE  /\ k \in DOMAIN b2[d] <=> k \in DOMAIN b[d]
                        /\ k \in DOMAIN b[d] => b2[d][k] = b[d][k]
      BY <1>1 DEF Writes, Fields, Domains
    <2>1. CASE d \notin {"axons_out", "axons_in", "axon_edges", "particles", "neurons", "balances"}
      BY <1>1, <2>1 DEF Fields
    <2>2. CASE d \in {"axons_out", "axons_in", "axon_edges", "particles", "neurons", "balances"}
      BY <1>2, <1>3, <1>4, <1>5, <1>6, <1>7, <1>8, <2>2 DEF MapWrites
    <2> QED
      BY <2>1, <2>2
  <1> QED
    BY <1>1, <1>9, <1>10 DEF b2, K, Wrote, IsBbg, Fields, Domains

\* The end of a signal writes the touched epochs, the signal record and the
\* snapshot of the block it closes.
LEMMA SealWrites ==
  ASSUME NEW b, IsBbg(b), b.height < MaxU64, NEW e
  PROVE  /\ Wrote(b, SealedSignal(b, e),
                  {<<"last_touched", a>> : a \in Axons(e.signal.links)}
                    \cup {<<"signals", signal_key(e.header.neuron, e.header.step)>>,
                          <<"time", b.height>>})
  <1> DEFINE b2 == SealedSignal(b, e)
             A == Axons(e.signal.links)
             sk == signal_key(e.header.neuron, e.header.step)
             K == {<<"last_touched", a>> : a \in A} \cup {<<"signals", sk>>, <<"time", b.height>>}
             lt == [a \in DOMAIN b.last_touched \cup A |->
                      IF a \in A THEN b.height \div EpochBlocks ELSE b.last_touched[a]]
  <1>0. \A d \in Domains : IsMap(b[d])
    BY DEF IsBbg
  <1>1. \E root :
        /\ b2 = [f \in Fields |-> b2[f]]
        /\ b2.last_touched = lt
        /\ b2.signals = Put(b.signals, sk, e.header)
        /\ b2.time = Put(b.time, b.height, root)
        /\ b2.height = b.height + 1
        /\ \A f \in Fields \ {"last_touched", "signals", "time", "height"} : b2[f] = b[f]
    <2> DEFINE c == ApplySignalRecord(Touch(b, e.signal.links), e.header)
    <2> WITNESS compute_root(c)
    <2>1. /\ c = [f \in Fields |-> c[f]]
          /\ c.last_touched = lt
          /\ c.signals = Put(b.signals, sk, e.header)
          /\ \A f \in Fields \ {"last_touched", "signals"} : c[f] = b[f]
      BY DEF ApplySignalRecord, Touch, IsBbg, Fields, Domains
    <2>2. b2 = SnapshotBlock(c)
      BY DEF SealedSignal
    <2> HIDE DEF c, b2
    <2> QED
      BY <2>1, <2>2 DEF SnapshotBlock, Fields, Domains
  <1> HIDE DEF b2
  <1>2. MapWrites(b.last_touched, b2.last_touched, A)
    BY <1>1 DEF MapWrites, IsMap
  <1>3. MapWrites(b.signals, b2.signals, {sk})
    BY <1>1, PutWrites
  <1>4. MapWrites(b.time, b2.time, {b.height})
    BY <1>1, PutWrites
  <1>5. /\ \A a \in A : <<"last_touched", a>> \in K
        /\ <<"signals", sk>> \in K /\ <<"time", b.height>> \in K
    OBVIOUS
  <1>6. /\ b2 = [f \in Fields |-> b2[f]]
        /\ b2.height = b.height + 1
        /\ \A f \in Fields \ {"last_touched", "signals", "time", "height"} : b2[f] = b[f]
    BY <1>1
  <1> HIDE DEF K, A, sk, lt
  <1>7. \A d \in Domains : IsMap(b2[d])
    BY <1>0, <1>2, <1>3, <1>4, <1>6 DEF Fields, Domains, MapWrites
  <1>8. Writes(b, b2, K)
    <2> SUFFICES ASSUME NEW d \in Domains, NEW k, <<d, k>> \notin K
                 PROVE  /\ k \in DOMAIN b2[d] <=> k \in DOMAIN b[d]
                        /\ k \in DOMAIN b[d] => b2[d][k] = b[d][k]
      BY <1>6 DEF Writes, Fields, Domains
    <2>1. CASE d \notin {"last_touched", "signals", "time"}
      BY <1>6, <2>1 DEF Fields, Domains
    <2>2. CASE d \in {"last_touched", "signals", "time"}
      BY <1>2, <1>3, <1>4, <1>5, <2>2 DEF MapWrites
    <2> QED
      BY <2>1, <2>2
  <1>9. b2.height \in 0..MaxU64
    BY <1>6, WidthAssumption DEF IsBbg
  <1>10. Wrote(b, b2, K)
    BY <1>6, <1>7, <1>8, <1>9 DEF Wrote, IsBbg
  <1> QED
    BY <1>10 DEF b2, K, A, sk

\* The checkpoint is not a record.
LEMMA AdvanceWrites ==
  ASSUME NEW b, IsBbg(b)
  PROVE  Wrote(b, AdvanceCheckpoint(b), {}) /\ AdvanceCheckpoint(b).height = b.height
  <1> DEFINE b2 == AdvanceCheckpoint(b)
  <1>1. /\ b2 = [f \in Fields |-> b2[f]]
        /\ \A f \in Fields \ {"checkpoint"} : b2[f] = b[f]
    BY DEF AdvanceCheckpoint, IsBbg, Fields, Domains
  <1> HIDE DEF b2
  <1> QED
    BY <1>1 DEF b2, Wrote, Writes, IsBbg, Fields, Domains

\* Pruning an axon writes no record outside the ones PruneKeys captures.
LEMMA RemoveWrites ==
  ASSUME NEW b, IsBbg(b), NEW a
  PROVE  Wrote(b, remove_axon(b, a), PruneKeys(b, a)) /\ remove_axon(b, a).height = b.height
  <1> DEFINE b2 == remove_axon(b, a)
             K == PruneKeys(b, a)
             known == a \in DOMAIN b.axon_edges
             from == b.axon_edges[a][1]
             to == b.axon_edges[a][2]
  <1>0. \A d \in Domains : IsMap(b[d])
    BY DEF IsBbg
  <1>1. /\ b2 = [f \in Fields |-> b2[f]]
        /\ b2.particles = Del(b.particles, a)
        /\ b2.last_touched = Del(b.last_touched, a)
        /\ b2.axon_edges = (IF known THEN Del(b.axon_edges, a) ELSE b.axon_edges)
        /\ b2.axons_out = (IF known THEN DropAxon(b.axons_out, from, a) ELSE b.axons_out)
        /\ b2.axons_in = (IF known THEN DropAxon(b.axons_in, to, a) ELSE b.axons_in)
        /\ \A f \in Fields \ {"particles", "last_touched", "axon_edges", "axons_out", "axons_in"} :
             b2[f] = b[f]
    BY DEF remove_axon, IsBbg, Fields, Domains
  <1> HIDE DEF b2
  <1>2. MapWrites(b.particles, b2.particles, {a}) /\ MapWrites(b.last_touched, b2.last_touched, {a})
    BY <1>1, DelWrites
  <1>3. MapWrites(b.axon_edges, b2.axon_edges, {a})
    BY <1>0, <1>1, DelWrites, SameMap DEF Domains
  <1>4. MapWrites(b.axons_out, b2.axons_out, IF known THEN {from} ELSE {})
    BY <1>0, <1>1, DropAxonWrites, SameMap DEF Domains
  <1>5. MapWrites(b.axons_in, b2.axons_in, IF known THEN {to} ELSE {})
    BY <1>0, <1>1, DropAxonWrites, SameMap DEF Domains
  <1>6. /\ <<"particles", a>> \in K /\ <<"last_touched", a>> \in K /\ <<"axon_edges", a>> \in K
        /\ known => <<"axons_out", from>> \in K /\ <<"axons_in", to>> \in K
    BY DEF PruneKeys
  <1> HIDE DEF K, known, from, to
  <1>7. \A d \in Domains : IsMap(b2[d])
    BY <1>0, <1>1, <1>2, <1>3, <1>4, <1>5 DEF Fields, Domains, MapWrites
  <1>8. Writes(b, b2, K)
    <2> SUFFICES ASSUME NEW d \in Domains, NEW k, <<d, k>> \notin K
                 PROVE  /\ k \in DOMAIN b2[d] <=> k \in DOMAIN b[d]
                        /\ k \in DOMAIN b[d] => b2[d][k] = b[d][k]
      BY <1>1 DEF Writes, Fields, Domains
    <2>1. CASE d \notin {"particles", "last_touched", "axon_edges", "axons_out", "axons_in"}
      BY <1>1, <2>1 DEF Fields
    <2>2. CASE d \in {"particles", "last_touched", "axon_edges"}
      BY <1>2, <1>3, <1>6, <2>2 DEF MapWrites
    <2>3. CASE d \in {"axons_out", "axons_in"}
      BY <1>4, <1>5, <1>6, <2>3 DEF MapWrites
    <2> QED
      BY <2>1, <2>2, <2>3
  <1> QED
    BY <1>1, <1>7, <1>8 DEF b2, K, Wrote, IsBbg, Fields, Domains

\* An intent writes its own record.
LEMMA IntentWrites ==
  ASSUME NEW b, IsBbg(b), NEW i
  PROVE  Wrote(b, ApplyIntent(b, i), {<<"intents", intent_key(i)>>})
  <1> DEFINE b2 == ApplyIntent(b, i)
  <1>1. /\ b2 = [f \in Fields |-> b2[f]]
        /\ b2.intents = Put(b.intents, intent_key(i), i)
        /\ \A f \in Fields \ {"intents"} : b2[f] = b[f]
    BY DEF ApplyIntent, IsBbg, Fields, Domains
  <1> HIDE DEF b2
  <1>2. MapWrites(b.intents, b2.intents, {intent_key(i)})
    BY <1>1, PutWrites
  <1>3. \A d \in Domains : IsMap(b2[d])
    BY <1>1, <1>2 DEF Fields, Domains, MapWrites, IsBbg
  <1>4. Writes(b, b2, {<<"intents", intent_key(i)>>})
    BY <1>1, <1>2 DEF Writes, Fields, Domains, MapWrites
  <1> QED
    BY <1>1, <1>3, <1>4 DEF b2, Wrote, IsBbg, Fields, Domains

\* A local credit writes its balance and its block.
LEMMA CreditWrites ==
  ASSUME NEW b, IsBbg(b), NEW e
  PROVE  Wrote(b, Credit(b, e), CreditKeys(e))
  <1> DEFINE key == balance_key(e.neuron, e.token)
             c == [b EXCEPT !.balances = Put(@, key, NextBalance(b, e)),
                            !.neurons  = Put(@, e.neuron, [Look(@, e.neuron, ZeroNeuron) EXCEPT
                                                             !.focus = NextFocus(b, e)])]
  <1>1. \E r :
        /\ c = [f \in Fields |-> c[f]]
        /\ c.balances = Put(b.balances, key, NextBalance(b, e))
        /\ c.neurons = Put(b.neurons, e.neuron, r)
        /\ \A f \in Fields \ {"balances", "neurons"} : c[f] = b[f]
    BY DEF IsBbg, Fields, Domains
  <1>2. Credit(b, e) = AdvanceCheckpoint(c)
    BY DEF Credit
  <1> HIDE DEF c
  <1>3. MapWrites(b.balances, c.balances, {key}) /\ MapWrites(b.neurons, c.neurons, {e.neuron})
    BY <1>1, PutWrites
  <1>4. <<"balances", key>> \in CreditKeys(e) /\ <<"neurons", e.neuron>> \in CreditKeys(e)
    BY DEF CreditKeys
  <1> HIDE DEF key
  <1>5. \A d \in Domains : IsMap(c[d])
    BY <1>1, <1>3 DEF Fields, Domains, MapWrites, IsBbg
  <1>6. Writes(b, c, CreditKeys(e))
    BY <1>1, <1>3, <1>4 DEF Writes, Fields, Domains, MapWrites
  <1>7. IsBbg(c)
    BY <1>1, <1>5 DEF IsBbg, Fields, Domains
  <1>8. Wrote(c, AdvanceCheckpoint(c), {})
    BY <1>7, AdvanceWrites
  <1> QED
    BY <1>2, <1>6, <1>8 DEF Wrote, Writes

-----------------------------------------------------------------------------
(* The inductive invariant *)

\* What a step inside the preparation has to show.
Working ==
  /\ pc' \in Running
  /\ disk' = disk /\ published' = published /\ candidate' = candidate /\ changes' = changes
  /\ IsBbg(bbg')
  /\ UndoCovers(bbg', undo', published)
  /\ KeysShaped(undo') /\ IsMap(undo'.values)
  /\ undo' = [values |-> undo'.values, height |-> undo'.height, checkpoint |-> undo'.checkpoint]
  /\ events' \in Seq(Events) /\ moves' \in Seq(Moves) /\ links' \in Seq(Links)
  /\ plan'.over \in BOOLEAN
  /\ pc' # "event" => events' # <<>>
  /\ pc' = "apply" => SignalCaptured'

\* A step inside the loops keeps the invariant when it captures before it
\* writes.
LEMMA WorkingPreserves ==
  ASSUME Inductive, pc \in Running, Working
  PROVE  Inductive'
  <1>1. TypeOK'
    BY DEF Inductive, TypeOK, Working, KeysShaped, Held
  <1>2. AllOrNothing'
    BY DEF Inductive, AllOrNothing, Working, Running
  <1>3. UndoCovers(bbg', undo', published')
    BY DEF Working
  <1>4. pc' \notin {"ready", "durable"} /\ pc' \in Held
    BY DEF Working, Running, Held
  <1> QED
    BY <1>1, <1>2, <1>3, <1>4 DEF Inductive, Working, Running, UndoCovers

\* The first element and the rest of a sequence.
LEMMA SeqFacts ==
  ASSUME NEW S, NEW q \in Seq(S), q # <<>>
  PROVE  /\ Head(q) \in S /\ Head(q) \in ToSet(q)
         /\ Tail(q) \in Seq(S) /\ ToSet(Tail(q)) \subseteq ToSet(q)
  <1>1. Head(q) = q[1] /\ 1 \in DOMAIN q /\ Head(q) \in S /\ Tail(q) \in Seq(S)
    OBVIOUS
  <1>2. \A i \in DOMAIN Tail(q) : Tail(q)[i] = q[i + 1] /\ i + 1 \in DOMAIN q
    OBVIOUS
  <1> QED
    BY <1>1, <1>2 DEF ToSet

\* A held preparation being undone, whatever the reason.
LEMMA DropPreserves ==
  ASSUME Inductive, pc \in Held, DropPrepared
  PROVE  bbg' = published /\ KeysShaped(undo') /\ IsMap(undo'.values)
         /\ undo' = [values |-> undo'.values, height |-> undo'.height, checkpoint |-> undo'.checkpoint]
         /\ events' = <<>> /\ moves' = <<>> /\ links' = <<>> /\ plan'.over \in BOOLEAN /\ IsMap(changes')
  <1>1. bbg' = published
    BY RestoreExact DEF DropPrepared, Inductive, TypeOK
  <1> QED
    BY <1>1 DEF DropPrepared, ClearWork, NoUndo, NoPlan, Empty, KeysShaped, IsMap

\* A new database and its Bbg satisfy the invariant.
LEMMA InitInductive == Init => Inductive
  <1> SUFFICES ASSUME Init PROVE Inductive
    OBVIOUS
  <1> PICK config \in Configs : bbg = NewBbg(config)
    BY DEF Init
  <1> DEFINE maps == [d \in Domains |-> Empty]
             m == MakeBbg(maps, 0, <<>>, NoDiameter, config)
  <1>1. IsBbg(m)
    <2>1. m = [f \in Fields |-> m[f]] /\ m.height = 0 /\ \A d \in Domains : m[d] = Empty
      BY MakeFields
    <2> QED
      BY <2>1, WidthAssumption DEF IsBbg, IsMap, Empty
  <1>2. IsBbg(bbg)
    BY <1>1, AdvanceWrites DEF NewBbg, Wrote
  <1>3. IsMap(records(bbg))
    BY DEF records, IsMap
  <1>4. TypeOK
    BY <1>2, <1>3 DEF Init, TypeOK, NoUndo, Empty, IsMap, KeysShaped, NoPlan, Idle
  <1>5. AllOrNothing
    BY DEF Init, AllOrNothing, Idle
  <1> QED
    BY <1>4, <1>5 DEF Init, Inductive, Held, Running, Idle

\* A preparation begins with an undo of the published Bbg, or is refused.
LEMMA PrepareStep ==
  ASSUME Inductive, NEW batch \in Batches, PrepareBatch(batch)
  PROVE  Inductive'
  <1>1. bbg = published /\ pc = Idle
    BY DEF Inductive, PrepareBatch, Held, Running, Idle
  <1>2. UndoCovers(bbg, undo', bbg) /\ KeysShaped(undo') /\ IsMap(undo'.values)
    BY UndoOfCovers DEF PrepareBatch
  <1>3. undo' = [values |-> undo'.values, height |-> undo'.height, checkpoint |-> undo'.checkpoint]
    BY DEF PrepareBatch, UndoOf, Capture
  <1>4. TypeOK'
    BY <1>2, <1>3, BatchAssumption DEF Inductive, TypeOK, PrepareBatch, KeysShaped, Held, Running
  <1>5. AllOrNothing'
    BY <1>1 DEF Inductive, AllOrNothing, PrepareBatch, Idle
  <1>6. UndoCovers(bbg', undo', published')
    BY <1>1, <1>2 DEF PrepareBatch
  <1> QED
    BY <1>4, <1>5, <1>6 DEF Inductive, PrepareBatch, Held, Running, UndoCovers

\* The records a signal captures are records of the maps, and among them are
\* those of each of its movements and links and that of its neuron.
LEMMA SignalMapKeys ==
  ASSUME NEW b, NEW e
  PROVE  /\ MapKeys(SignalKeys(b, e))
         /\ \A mv \in ToSet(e.signal.box_moves) : MoveKeys(mv) \subseteq SignalKeys(b, e)
         /\ \A l \in ToSet(e.signal.links) : LinkKeys(l) \subseteq SignalKeys(b, e)
         /\ <<"neurons", e.signal.neuron>> \in SignalKeys(b, e)
  <1>1. ASSUME NEW mv
        PROVE  MapKeys(MoveKeys(mv))
    BY DEF MapKeys, MoveKeys, Domains
  <1>2. ASSUME NEW l
        PROVE  MapKeys(LinkKeys(l))
    BY DEF MapKeys, LinkKeys, Domains
  <1>3. MapKeys({<<"neurons", e.signal.neuron>>, <<"time", b.height>>,
                 <<"signals", signal_key(e.header.neuron, e.header.step)>>})
    BY DEF MapKeys, Domains
  <1> DEFINE M == UNION {MoveKeys(mv) : mv \in ToSet(e.signal.box_moves)}
             L == UNION {LinkKeys(l) : l \in ToSet(e.signal.links)}
             F == {<<"neurons", e.signal.neuron>>, <<"time", b.height>>,
                   <<"signals", signal_key(e.header.neuron, e.header.step)>>}
  <1>4. MapKeys(M)
    BY <1>1 DEF MapKeys
  <1>5. MapKeys(L)
    BY <1>2 DEF MapKeys
  <1>6. SignalKeys(b, e) = F \cup M \cup L
    BY DEF SignalKeys
  <1>7. /\ \A mv \in ToSet(e.signal.box_moves) : MoveKeys(mv) \subseteq M
        /\ \A l \in ToSet(e.signal.links) : LinkKeys(l) \subseteq L
    OBVIOUS
  <1>8. MapKeys(F)
    BY <1>3
  <1>9. <<"neurons", e.signal.neuron>> \in F
    OBVIOUS
  <1> HIDE DEF F, M, L
  <1> QED
    BY <1>4, <1>5, <1>6, <1>7, <1>8, <1>9 DEF MapKeys

\* Beginning a signal captures what it will write and writes nothing.
LEMMA SignalBeginStep ==
  ASSUME Inductive, SignalBegin
  PROVE  Inductive'
  <1> DEFINE e == Head(events)
             K == SignalKeys(bbg, e)
  <1>1. e \in Signals /\ UndoCovers(bbg, undo, published)
    BY SeqFacts DEF SignalBegin, Inductive, TypeOK, Signals, Held, Running
  <1>2. MapKeys(K)
    BY SignalMapKeys
  <1>3. undo' = Capture(undo, bbg, K)
    BY DEF SignalBegin
  <1>4. /\ UndoCovers(bbg, undo', published) /\ KeysShaped(undo') /\ IsMap(undo'.values)
        /\ DOMAIN undo'.values = DOMAIN undo.values \cup K
        /\ undo' = [values |-> undo'.values, height |-> undo'.height, checkpoint |-> undo'.checkpoint]
    <2> HIDE DEF K
    <2>1. KeysShaped(undo)
          /\ undo = [values |-> undo.values, height |-> undo.height, checkpoint |-> undo.checkpoint]
      BY DEF Inductive, TypeOK
    <2> QED
      BY <1>1, <1>2, <1>3, <2>1, CaptureCovers
  <1>5. moves' = e.signal.box_moves /\ links' = e.signal.links /\ bbg.height < MaxU64
    BY WidthAssumption DEF SignalBegin, validate, Inductive, TypeOK, IsBbg
  <1>6. SignalCaptured'
    BY <1>1, <1>4, <1>5 DEF SignalCaptured, SignalBegin
  <1>7. moves' \in Seq(Moves) /\ links' \in Seq(Links)
    BY <1>1, <1>5, BatchAssumption
  <1>8. Working
    BY <1>4, <1>6, <1>7 DEF Working, SignalBegin, Inductive, TypeOK, Running
  <1> QED
    BY <1>8, WorkingPreserves DEF SignalBegin, Running

\* A box movement of the signal writes captured records.
LEMMA InsertMoveStep ==
  ASSUME Inductive, InsertMove
  PROVE  Inductive'
  <1> DEFINE e == Head(events)
             mv == Head(moves)
  <1>1. /\ pc = "apply" /\ UndoCovers(bbg, undo, published) /\ SignalCaptured /\ IsBbg(bbg)
        /\ moves \in Seq(Moves) /\ moves # <<>>
    BY DEF InsertMove, Inductive, TypeOK, Held, Running
  <1>2. mv \in ToSet(moves) /\ Tail(moves) \in Seq(Moves) /\ ToSet(Tail(moves)) \subseteq ToSet(moves)
    BY <1>1, SeqFacts
  <1>3. MoveKeys(mv) \subseteq DOMAIN undo.values
    BY <1>1, <1>2, SignalMapKeys DEF SignalCaptured
  <1>4. Wrote(bbg, bbg', MoveKeys(mv)) /\ bbg'.height = bbg.height
    BY <1>1, MoveWrites DEF InsertMove
  <1>5. UndoCovers(bbg', undo, published) /\ IsBbg(bbg')
    BY <1>1, <1>3, <1>4, WriteCovers DEF Wrote
  <1>6. SignalCaptured'
    BY <1>1, <1>2, <1>4 DEF SignalCaptured, InsertMove, SignalKeys
  <1>7. Working
    BY <1>1, <1>2, <1>5, <1>6 DEF Working, InsertMove, Inductive, TypeOK, Running
  <1> QED
    BY <1>1, <1>7, WorkingPreserves DEF Running

\* So does a cyberlink.
LEMMA InsertLinkStep ==
  ASSUME Inductive, InsertLink
  PROVE  Inductive'
  <1> DEFINE e == Head(events)
             l == Head(links)
             n == e.signal.neuron
             K == LinkKeys(l) \cup {<<"neurons", n>>}
  <1>1. /\ pc = "apply" /\ UndoCovers(bbg, undo, published) /\ SignalCaptured /\ IsBbg(bbg)
        /\ links \in Seq(Links) /\ links # <<>>
    BY DEF InsertLink, Inductive, TypeOK, Held, Running
  <1>2. l \in ToSet(links) /\ Tail(links) \in Seq(Links) /\ ToSet(Tail(links)) \subseteq ToSet(links)
    BY <1>1, SeqFacts
  <1>3. K \subseteq DOMAIN undo.values
    <2>1. SignalKeys(bbg, e) \subseteq DOMAIN undo.values /\ l \in ToSet(e.signal.links)
      BY <1>1, <1>2 DEF SignalCaptured
    <2>2. LinkKeys(l) \subseteq SignalKeys(bbg, e)
      BY <2>1, SignalMapKeys
    <2>3. <<"neurons", n>> \in SignalKeys(bbg, e)
      BY SignalMapKeys
    <2> QED
      BY <2>1, <2>2, <2>3
  <1>4. Wrote(bbg, bbg', K) /\ bbg'.height = bbg.height
    BY <1>1, LinkWrites DEF InsertLink
  <1> HIDE DEF K
  <1>5. UndoCovers(bbg', undo, published) /\ IsBbg(bbg')
    BY <1>1, <1>3, <1>4, WriteCovers DEF Wrote
  <1>6. SignalCaptured'
    BY <1>1, <1>2, <1>4 DEF SignalCaptured, InsertLink, SignalKeys
  <1>7. Working
    BY <1>1, <1>2, <1>5, <1>6 DEF Working, InsertLink, Inductive, TypeOK, Running
  <1> QED
    BY <1>1, <1>7, WorkingPreserves DEF Running

\* An event that ends with Bbg b, all its writes captured, is a working step.
LEMMA NextEventWorks ==
  ASSUME Inductive, pc \in Running, events # <<>>, NEW b, NextEvent(b), IsBbg(b),
         UndoCovers(b, undo', published), KeysShaped(undo'), IsMap(undo'.values),
         undo' = [values |-> undo'.values, height |-> undo'.height, checkpoint |-> undo'.checkpoint],
         plan'.over \in BOOLEAN, moves' = moves, links' = links,
         UNCHANGED <<changes, disk, published, candidate>>
  PROVE  Inductive'
  <1>1. events' \in Seq(Events)
    BY SeqFacts DEF NextEvent, Inductive, TypeOK
  <1>2. Working
    BY <1>1 DEF Working, NextEvent, Inductive, TypeOK, Running
  <1> QED
    BY <1>2, WorkingPreserves

\* Sealing writes the captured touch epochs, signal record and snapshot.
LEMMA SealSignalStep ==
  ASSUME Inductive, SealSignal
  PROVE  Inductive'
  <1> DEFINE e == Head(events)
             b == SealedSignal(bbg, e)
             T == {<<"last_touched", a>> : a \in Axons(e.signal.links)}
             S == {<<"signals", signal_key(e.header.neuron, e.header.step)>>,
                   <<"time", bbg.height>>}
             K == T \cup S
  <1>1. /\ pc = "apply" /\ UndoCovers(bbg, undo, published) /\ SignalCaptured /\ IsBbg(bbg)
        /\ bbg.height < MaxU64 /\ events # <<>> /\ KeysShaped(undo) /\ IsMap(undo.values)
        /\ undo = [values |-> undo.values, height |-> undo.height, checkpoint |-> undo.checkpoint]
        /\ plan.over \in BOOLEAN
    BY DEF SealSignal, Inductive, TypeOK, Held, Running, SignalCaptured
  <1>2. K \subseteq DOMAIN undo.values
    <2>1. SignalKeys(bbg, e) \subseteq DOMAIN undo.values
      BY <1>1 DEF SignalCaptured
    <2>2. S \subseteq SignalKeys(bbg, e)
      BY DEF SignalKeys
    <2>3. ASSUME NEW l \in ToSet(e.signal.links)
          PROVE  <<"last_touched", axon_id(l.from, l.to)>> \in SignalKeys(bbg, e)
      <3>1. <<"last_touched", axon_id(l.from, l.to)>> \in LinkKeys(l)
        BY DEF LinkKeys
      <3>2. LinkKeys(l) \subseteq SignalKeys(bbg, e)
        BY SignalMapKeys
      <3> QED
        BY <3>1, <3>2
    <2>4. T \subseteq SignalKeys(bbg, e)
      BY <2>3 DEF Axons
    <2> QED
      BY <2>1, <2>2, <2>4
  <1>3. Wrote(bbg, b, K)
    BY <1>1, SealWrites
  <1> HIDE DEF K, T, S
  <1>4. UndoCovers(b, undo, published) /\ IsBbg(b)
    BY <1>1, <1>2, <1>3, WriteCovers DEF Wrote
  <1>5. CASE AtEpoch(b)
    <2>1. bbg' = b /\ pc' = "plan" /\ events' = events
      BY <1>5 DEF SealSignal
    <2>2. Working
      BY <1>1, <1>4, <2>1 DEF Working, SealSignal, Inductive, TypeOK, Running
    <2> QED
      BY <1>1, <2>2, WorkingPreserves DEF Running
  <1>6. CASE ~AtEpoch(b)
    <2> DEFINE c == AdvanceCheckpoint(b)
    <2>1. NextEvent(c)
      BY <1>6 DEF SealSignal
    <2>2. Wrote(b, c, {})
      BY <1>4, AdvanceWrites
    <2> HIDE DEF b, c
    <2>3. UndoCovers(c, undo, published) /\ IsBbg(c)
      BY <1>4, <2>2, WriteCovers DEF Wrote
    <2> QED
      BY <1>1, <2>1, <2>3, NextEventWorks DEF SealSignal, Running
  <1> QED
    BY <1>5, <1>6

\* Planning the pruning changes nothing but the plan.
LEMMA PlanPruneStep ==
  ASSUME Inductive, PlanPrune
  PROVE  Inductive'
  <1>1. pc = "plan" /\ UndoCovers(bbg, undo, published) /\ events # <<>>
    BY DEF PlanPrune, Inductive, Held, Running
  <1>2. plan'.over \in BOOLEAN
    BY DEF PlanPrune, OverBudget
  <1>3. Working
    BY <1>1, <1>2 DEF Working, PlanPrune, Inductive, TypeOK, Running
  <1> QED
    BY <1>1, <1>3, WorkingPreserves DEF Running

\* Removing an axon captures its records first.
LEMMA PruneAxonStep ==
  ASSUME Inductive, NEW a, PruneAxon(a)
  PROVE  Inductive'
  <1> DEFINE K == PruneKeys(bbg, a)
  <1>1. /\ pc = "prune" /\ UndoCovers(bbg, undo, published) /\ events # <<>> /\ IsBbg(bbg)
        /\ KeysShaped(undo)
        /\ undo = [values |-> undo.values, height |-> undo.height, checkpoint |-> undo.checkpoint]
    BY DEF PruneAxon, Inductive, TypeOK, Held, Running
  <1>2. MapKeys(K)
    BY DEF MapKeys, PruneKeys, Domains
  <1>3. undo' = Capture(undo, bbg, K) /\ bbg' = remove_axon(bbg, a)
    BY DEF PruneAxon
  <1>4. Wrote(bbg, bbg', K)
    BY <1>1, <1>3, RemoveWrites
  <1> HIDE DEF K
  <1>5. /\ UndoCovers(bbg, undo', published) /\ KeysShaped(undo') /\ IsMap(undo'.values)
        /\ DOMAIN undo'.values = DOMAIN undo.values \cup K
        /\ undo' = [values |-> undo'.values, height |-> undo'.height, checkpoint |-> undo'.checkpoint]
    <2>1. UndoCovers(bbg, undo, published) /\ KeysShaped(undo)
          /\ undo = [values |-> undo.values, height |-> undo.height, checkpoint |-> undo.checkpoint]
      BY <1>1
    <2>2. undo' = Capture(undo, bbg, K)
      BY <1>3
    <2> QED
      BY <1>2, <2>1, <2>2, CaptureCovers
  <1>6. UndoCovers(bbg', undo', published) /\ IsBbg(bbg')
    BY <1>4, <1>5, WriteCovers DEF Wrote
  <1>7. plan'.over \in BOOLEAN
    BY DEF PruneAxon, Inductive, TypeOK
  <1>8. Working
    BY <1>1, <1>5, <1>6, <1>7 DEF Working, PruneAxon, Inductive, TypeOK, Running
  <1> QED
    BY <1>1, <1>8, WorkingPreserves DEF Running

\* Ending the pruning advances the checkpoint, which the undo saved.
LEMMA PruneEndStep ==
  ASSUME Inductive, PruneEnd
  PROVE  Inductive'
  <1> DEFINE c == AdvanceCheckpoint(bbg)
  <1>1. /\ pc = "prune" /\ UndoCovers(bbg, undo, published) /\ events # <<>> /\ IsBbg(bbg)
        /\ KeysShaped(undo) /\ IsMap(undo.values)
        /\ undo = [values |-> undo.values, height |-> undo.height, checkpoint |-> undo.checkpoint]
    BY DEF PruneEnd, Inductive, TypeOK, Held, Running
  <1>2. Wrote(bbg, c, {})
    BY <1>1, AdvanceWrites
  <1>3. NextEvent(c) /\ plan'.over \in BOOLEAN
    BY DEF PruneEnd, NoPlan
  <1> HIDE DEF c
  <1>4. UndoCovers(c, undo, published) /\ IsBbg(c)
    BY <1>1, <1>2, WriteCovers DEF Wrote
  <1> QED
    BY <1>1, <1>3, <1>4, NextEventWorks DEF PruneEnd, Running

\* An intent and a credit: captured, written, and the event is done.
LEMMA IntentEventStep ==
  ASSUME Inductive, IntentEvent
  PROVE  Inductive'
  <1> DEFINE e == Head(events)
             K == {<<"intents", intent_key(e.intent)>>}
             c == ApplyIntent(bbg, e.intent)
  <1>1. /\ pc = "event" /\ UndoCovers(bbg, undo, published) /\ events # <<>> /\ IsBbg(bbg)
        /\ plan.over \in BOOLEAN
    BY DEF IntentEvent, Inductive, TypeOK, Held, Running
  <1>2. KeysShaped(undo)
        /\ undo = [values |-> undo.values, height |-> undo.height, checkpoint |-> undo.checkpoint]
    BY DEF Inductive, TypeOK
  <1>3. MapKeys(K)
    BY DEF MapKeys, Domains
  <1>4. undo' = Capture(undo, bbg, K) /\ NextEvent(c)
    BY DEF IntentEvent
  <1>5. Wrote(bbg, c, K)
    BY <1>1, IntentWrites
  <1> HIDE DEF K, c
  <1>6. /\ UndoCovers(bbg, undo', published) /\ KeysShaped(undo') /\ IsMap(undo'.values)
        /\ DOMAIN undo'.values = DOMAIN undo.values \cup K
        /\ undo' = [values |-> undo'.values, height |-> undo'.height, checkpoint |-> undo'.checkpoint]
    BY <1>1, <1>2, <1>3, <1>4, CaptureCovers
  <1>7. UndoCovers(c, undo', published) /\ IsBbg(c)
    BY <1>5, <1>6, WriteCovers DEF Wrote
  <1> QED
    BY <1>1, <1>4, <1>6, <1>7, NextEventWorks DEF IntentEvent, Running

\* LocalCredit likewise.
LEMMA CreditEventStep ==
  ASSUME Inductive, CreditEvent
  PROVE  Inductive'
  <1> DEFINE e == Head(events)
             K == CreditKeys(e)
             c == Credit(bbg, e)
  <1>1. /\ pc = "event" /\ UndoCovers(bbg, undo, published) /\ events # <<>> /\ IsBbg(bbg)
        /\ plan.over \in BOOLEAN
    BY DEF CreditEvent, Inductive, TypeOK, Held, Running
  <1>2. KeysShaped(undo)
        /\ undo = [values |-> undo.values, height |-> undo.height, checkpoint |-> undo.checkpoint]
    BY DEF Inductive, TypeOK
  <1>3. MapKeys(K)
    BY DEF MapKeys, CreditKeys, Domains
  <1>4. undo' = Capture(undo, bbg, K) /\ NextEvent(c)
    BY DEF CreditEvent
  <1>5. Wrote(bbg, c, K)
    BY <1>1, CreditWrites
  <1> HIDE DEF K, c
  <1>6. /\ UndoCovers(bbg, undo', published) /\ KeysShaped(undo') /\ IsMap(undo'.values)
        /\ DOMAIN undo'.values = DOMAIN undo.values \cup K
        /\ undo' = [values |-> undo'.values, height |-> undo'.height, checkpoint |-> undo'.checkpoint]
    BY <1>1, <1>2, <1>3, <1>4, CaptureCovers
  <1>7. UndoCovers(c, undo', published) /\ IsBbg(c)
    BY <1>5, <1>6, WriteCovers DEF Wrote
  <1> QED
    BY <1>1, <1>4, <1>6, <1>7, NextEventWorks DEF CreditEvent, Running

\* An error anywhere in the loops restores the published Bbg.
LEMMA RejectStep ==
  ASSUME Inductive, Reject
  PROVE  Inductive'
  <1>1. pc \in Running /\ pc \in Held
    BY DEF Reject, Rejects, Running, Held
  <1>2. /\ bbg' = published /\ KeysShaped(undo') /\ IsMap(undo'.values)
        /\ undo' = [values |-> undo'.values, height |-> undo'.height, checkpoint |-> undo'.checkpoint]
        /\ events' = <<>> /\ moves' = <<>> /\ links' = <<>> /\ plan'.over \in BOOLEAN /\ IsMap(changes')
    BY <1>1, DropPreserves DEF Reject
  <1>3. disk' = disk /\ published' = published /\ candidate' = candidate /\ pc' = Idle
    BY DEF Reject
  <1>4. TypeOK'
    BY <1>2, <1>3 DEF Inductive, TypeOK, KeysShaped, Held, Running
  <1>5. AllOrNothing'
    BY <1>1, <1>3 DEF Inductive, AllOrNothing, Running, Idle
  <1> QED
    BY <1>2, <1>3, <1>4, <1>5 DEF Inductive, Held, Running, Idle

\* The collected changes lead from the durable records to the candidate's.
LEMMA CollectChangesStep ==
  ASSUME Inductive, CollectChanges
  PROVE  Inductive'
  <1>1. /\ pc = "event" /\ UndoCovers(bbg, undo, published) /\ KeysShaped(undo)
        /\ disk = records(published)
    BY DEF CollectChanges, Inductive, TypeOK, AllOrNothing, Held, Running
  <1>2. changes' = ChangedRecords(bbg, undo) /\ candidate' = bbg /\ pc' = "ready"
    BY DEF CollectChanges
  <1>3. Overlay(disk, changes') = records(bbg)
    BY <1>1, <1>2, ChangesExact
  <1>4. IsMap(changes')
    BY <1>2 DEF ChangedRecords, IsMap
  <1>5. TypeOK'
    BY <1>2, <1>4 DEF CollectChanges, Inductive, TypeOK, KeysShaped, Held
  <1>6. AllOrNothing'
    BY <1>1, <1>2, <1>3 DEF CollectChanges, AllOrNothing
  <1>7. UndoCovers(bbg', undo', published')
    BY <1>1 DEF CollectChanges
  <1> QED
    BY <1>2, <1>5, <1>6, <1>7 DEF CollectChanges, Inductive, Held

\* The durable commit installs exactly the candidate's records.
LEMMA CommitDurableStep ==
  ASSUME Inductive, CommitDurable
  PROVE  Inductive'
  <1>1. pc = "ready" /\ UndoCovers(bbg, undo, published) /\ Overlay(disk, changes) = records(bbg)
    BY DEF CommitDurable, Inductive, AllOrNothing, Held
  <1>2. disk' = records(bbg) /\ pc' = "durable"
    BY <1>1 DEF CommitDurable
  <1>3. IsMap(disk')
    BY <1>2 DEF records, IsMap
  <1>4. TypeOK'
    BY <1>2, <1>3 DEF CommitDurable, work, Inductive, TypeOK, KeysShaped, Held
  <1>5. AllOrNothing'
    BY <1>2 DEF CommitDurable, AllOrNothing
  <1>6. UndoCovers(bbg', undo', published')
    BY <1>1 DEF CommitDurable, work
  <1> QED
    BY <1>1, <1>2, <1>4, <1>5, <1>6 DEF CommitDurable, work, Inductive, Held

\* What the cleared preparation looks like.
LEMMA ClearFacts ==
  ASSUME ClearWork
  PROVE  /\ KeysShaped(undo') /\ IsMap(undo'.values) /\ IsMap(changes')
         /\ undo' = [values |-> undo'.values, height |-> undo'.height, checkpoint |-> undo'.checkpoint]
         /\ events' = <<>> /\ moves' = <<>> /\ links' = <<>> /\ plan'.over \in BOOLEAN
  BY DEF ClearWork, NoUndo, NoPlan, Empty, KeysShaped, IsMap

\* A step that leaves no preparation and a Bbg whose records are durable.
LEMMA SettledInductive ==
  ASSUME ClearWork, IsBbg(bbg'), IsBbg(candidate'), published' = bbg', pc' = Idle,
         disk' = records(bbg')
  PROVE  Inductive'
  <1>1. IsMap(disk')
    BY DEF records, IsMap
  <1>2. TypeOK'
    BY <1>1, ClearFacts DEF TypeOK, KeysShaped
  <1>3. AllOrNothing'
    BY DEF AllOrNothing, Idle
  <1> QED
    BY <1>2, <1>3 DEF Inductive, Held, Running, Idle

\* Publishing makes the durable candidate the published Bbg.
LEMMA PublishStep ==
  ASSUME Inductive, Publish
  PROVE  Inductive'
  <1>1. IsBbg(bbg) /\ disk = records(bbg)
    BY DEF Publish, Inductive, TypeOK, AllOrNothing
  <1> QED
    BY <1>1, SettledInductive DEF Publish

\* Abandoning before the commit restores the published Bbg.
LEMMA AbandonStep ==
  ASSUME Inductive, Abandon
  PROVE  Inductive'
  <1>1. pc = "ready" /\ pc \in Held /\ DropPrepared /\ IsBbg(published) /\ disk = records(published)
    BY DEF Abandon, Held, Inductive, TypeOK, AllOrNothing
  <1>2. bbg' = published
    BY <1>1, DropPreserves
  <1> QED
    BY <1>1, <1>2, SettledInductive DEF Abandon, DropPrepared

\* An unknown commit leaves the old records or all the new ones.
LEMMA CommitUnknownStep ==
  ASSUME Inductive, CommitUnknown
  PROVE  Inductive'
  <1>1. /\ pc = "ready" /\ pc \in Held /\ DropPrepared
        /\ IsBbg(published) /\ IsBbg(candidate) /\ bbg = candidate /\ IsMap(disk)
        /\ disk = records(published) /\ Overlay(disk, changes) = records(bbg)
    BY DEF CommitUnknown, Held, Inductive, TypeOK, AllOrNothing
  <1>2. /\ bbg' = published /\ published' = published /\ candidate' = candidate /\ pc' = "frozen"
        /\ ClearWork
    BY <1>1, DropPreserves DEF CommitUnknown, DropPrepared
  <1>3. disk' \in {records(published), records(candidate)}
    BY <1>1 DEF CommitUnknown
  <1>4. IsMap(disk')
    BY <1>3 DEF records, IsMap
  <1>5. TypeOK'
    BY <1>1, <1>2, <1>4, ClearFacts DEF TypeOK, KeysShaped
  <1>6. AllOrNothing'
    BY <1>2, <1>3 DEF AllOrNothing
  <1> QED
    BY <1>2, <1>5, <1>6 DEF Inductive, Held, Running

\* Whatever moment the process stops at, the durable records are those of
\* some Bbg, and the restarted process has it back.
LEMMA RestartStep ==
  ASSUME Inductive, Restart
  PROVE  Inductive'
  <1>1. PICK b : IsBbg(b) /\ disk = records(b)
    BY DEF Inductive, TypeOK, AllOrNothing
  <1>2. bbg' = b
    BY <1>1, RecoverExact DEF Restart
  <1> QED
    BY <1>1, <1>2, SettledInductive DEF Restart

-----------------------------------------------------------------------------
(* The theorems *)

\* A step that changes nothing keeps the invariant.
LEMMA StutterStep ==
  ASSUME Inductive, UNCHANGED vars
  PROVE  Inductive'
  BY DEF vars, work, Inductive, TypeOK, KeysShaped, UndoCovers, SignalCaptured, AllOrNothing

\* Every step of the preparation, of its coordinator and of a restart keeps
\* the inductive invariant.
LEMMA NextInductive ==
  ASSUME Inductive, [Next]_vars
  PROVE  Inductive'
  <1>1. ASSUME NEW batch \in Batches, PrepareBatch(batch)
        PROVE  Inductive'
    BY <1>1, PrepareStep
  <1>2. ASSUME NEW a \in plan.cands, PruneAxon(a)
        PROVE  Inductive'
    BY <1>2, PruneAxonStep
  <1>3. CASE SignalBegin \/ InsertMove \/ InsertLink \/ SealSignal
    BY <1>3, SignalBeginStep, InsertMoveStep, InsertLinkStep, SealSignalStep
  <1>4. CASE PlanPrune \/ PruneEnd \/ IntentEvent \/ CreditEvent
    BY <1>4, PlanPruneStep, PruneEndStep, IntentEventStep, CreditEventStep
  <1>5. CASE Reject \/ CollectChanges \/ CommitDurable \/ Publish
    BY <1>5, RejectStep, CollectChangesStep, CommitDurableStep, PublishStep
  <1>6. CASE Abandon \/ CommitUnknown \/ Restart
    BY <1>6, AbandonStep, CommitUnknownStep, RestartStep
  <1>7. CASE UNCHANGED vars
    BY <1>7, StutterStep
  <1> QED
    BY <1>1, <1>2, <1>3, <1>4, <1>5, <1>6, <1>7 DEF Next, Step

\* The invariant holds in every reachable state.
THEOREM AlwaysInductive == Spec => []Inductive
  <1>1. Init => Inductive
    BY InitInductive
  <1>2. Inductive /\ [Next]_vars => Inductive'
    BY NextInductive
  <1> QED
    BY <1>1, <1>2, PTL DEF Spec

\* Type correctness of the preparation, for every set of batches and policies.
THEOREM TypeCorrect == Spec => []TypeOK
  <1>1. Inductive => TypeOK
    BY DEF Inductive
  <1> QED
    BY <1>1, AlwaysInductive, PTL

\* Whatever part of a batch has been applied or pruned, and wherever it is
\* given up, the undo gives back the published Bbg, field for field.
THEOREM UndoIsExact == Spec => []UndoExact
  <1>1. Inductive => UndoExact
    BY RestoreExact DEF Inductive, TypeOK, UndoExact
  <1> QED
    BY <1>1, AlwaysInductive, PTL

\* The durable records are at every moment those of the published Bbg or of
\* the whole candidate, and the collected changes lead from one to the other.
THEOREM CommitAllOrNothing == Spec => []AllOrNothing
  <1>1. Inductive => AllOrNothing
    BY DEF Inductive
  <1> QED
    BY <1>1, AlwaysInductive, PTL

-----------------------------------------------------------------------------
(* What was published stays *)

\* A nullifier record holds nothing but its presence, and every root of the
\* time dimension belongs to a height that is over.
Dated(b) ==
  /\ \A n \in DOMAIN b.nullifiers : b.nullifiers[n] = <<>>
  /\ \A h \in DOMAIN b.time : h \in Nat /\ h < b.height

\* b has all of the history of p.
Later(p, b) ==
  /\ Kept(p.nullifiers, b.nullifiers) /\ Kept(p.signals, b.signals) /\ Kept(p.time, b.time)
  /\ p.height <= b.height

\* The Bbg in memory and the candidate of an unfinished commit, one of which
\* is published next, have all of the history published before; a signal
\* being applied has a (neuron, step) of its own.
History ==
  /\ Dated(published) /\ Dated(bbg) /\ Dated(candidate)
  /\ Later(published, bbg) /\ Later(published, candidate)
  /\ pc = "apply" => SignalUnused(bbg, Head(events))

\* What a step shows: the history is still there and the published one grew.
HistoryStep == History' /\ Later(published, published')

LEMMA LaterTransitive ==
  ASSUME NEW p, NEW b, NEW c, IsBbg(p), IsBbg(b), IsBbg(c), Later(p, b), Later(b, c)
  PROVE  Later(p, c)
  <1>1. p.height \in Nat /\ b.height \in Nat /\ c.height \in Nat
    BY WidthAssumption DEF IsBbg
  <1>2. \A f, g, h : Kept(f, g) /\ Kept(g, h) => Kept(f, h)
    BY DEF Kept
  <1> QED
    BY <1>1, <1>2 DEF Later

LEMMA LaterReflexive ==
  ASSUME NEW b, IsBbg(b) PROVE Later(b, b)
  BY WidthAssumption DEF Later, Kept, IsBbg

\* A Bbg whose history is that of another.
LEMMA SameHistory ==
  ASSUME NEW b, NEW c, IsBbg(b), Dated(b),
         c.nullifiers = b.nullifiers, c.signals = b.signals, c.time = b.time, c.height = b.height
  PROVE  Dated(c) /\ Later(b, c)
  <1>1. Later(b, b)
    BY LaterReflexive
  <1>2. Later(b, c)
    BY <1>1 DEF Later
  <1> QED
    BY <1>2 DEF Dated

\* A step of the preparation that adds to the history or leaves it.
LEMMA HeldKeeps ==
  ASSUME Inductive, Inductive', History, published' = published, candidate' = candidate,
         Dated(bbg'), Later(bbg, bbg'),
         pc' = "apply" => SignalUnused(bbg', Head(events'))
  PROVE  HistoryStep
  <1>1. IsBbg(published) /\ IsBbg(bbg) /\ IsBbg(bbg')
    BY DEF Inductive, TypeOK
  <1>2. Later(published, bbg')
    BY <1>1, LaterTransitive DEF History
  <1>3. Later(published, published)
    BY <1>1, LaterReflexive
  <1> QED
    BY <1>2, <1>3 DEF HistoryStep, History, Dated, Later, Kept, SignalUnused

\* A step that leaves the history of the Bbg and begins no signal.
LEMMA QuietKeeps ==
  ASSUME Inductive, Inductive', History, published' = published, candidate' = candidate,
         bbg'.nullifiers = bbg.nullifiers, bbg'.signals = bbg.signals, bbg'.time = bbg.time,
         bbg'.height = bbg.height,
         pc' = "apply" => SignalUnused(bbg', Head(events'))
  PROVE  HistoryStep
  <1>1. Dated(bbg') /\ Later(bbg, bbg')
    BY SameHistory DEF Inductive, TypeOK, History
  <1> QED
    BY <1>1, HeldKeeps

\* A step after which no preparation is held and the Bbg is the published one.
LEMMA SettledKeeps ==
  ASSUME Inductive, Inductive', History, pc' # "apply", bbg' = published',
         published' \in {published, bbg, candidate},
         candidate' = published' \/ (candidate' = candidate /\ published' = published)
  PROVE  HistoryStep
  <1>1. IsBbg(published) /\ IsBbg(published')
    BY DEF Inductive, TypeOK
  <1>2. Later(published, published') /\ Later(published', published')
    BY <1>1, LaterReflexive DEF History
  <1>3. Later(published', candidate')
    BY <1>2 DEF History
  <1>4. Dated(published') /\ Dated(candidate')
    BY DEF History
  <1> QED
    BY <1>2, <1>3, <1>4 DEF HistoryStep, History, Dated, Later, Kept

\* The operations that touch no history.
LEMMA OperationsQuiet ==
  ASSUME NEW b, IsBbg(b), NEW f \in {"nullifiers", "signals", "time", "height"}
  PROVE  /\ \A n, l : ApplyLink(b, n, l)[f] = b[f]
         /\ \A a : remove_axon(b, a)[f] = b[f]
         /\ \A i : ApplyIntent(b, i)[f] = b[f]
         /\ \A e : Credit(b, e)[f] = b[f]
         /\ AdvanceCheckpoint(b)[f] = b[f]
  <1>1. \A n, l : ApplyLink(b, n, l)[f] = b[f]
    <2> SUFFICES ASSUME NEW n, NEW l PROVE ApplyLink(b, n, l)[f] = b[f]
      OBVIOUS
    <2> DEFINE t == AddTopology(b, l)
    <2>1. t = [g \in Fields |-> t[g]] /\ t[f] = b[f]
      BY DEF AddTopology, IsBbg, Fields, Domains
    <2> HIDE DEF t
    <2> QED
      BY <2>1 DEF ApplyLink, t, Fields, Domains
  <1>2. \A a : remove_axon(b, a)[f] = b[f]
    <2> SUFFICES ASSUME NEW a PROVE remove_axon(b, a)[f] = b[f]
      OBVIOUS
    <2> DEFINE bare == [b EXCEPT !.particles = Del(@, a), !.last_touched = Del(@, a)]
    <2>1. bare = [g \in Fields |-> bare[g]] /\ bare[f] = b[f]
      BY DEF IsBbg, Fields, Domains
    <2> HIDE DEF bare
    <2> QED
      BY <2>1 DEF remove_axon, bare, Fields, Domains
  <1>3. \A i : ApplyIntent(b, i)[f] = b[f]
    BY DEF ApplyIntent, IsBbg, Fields, Domains
  <1>4. \A c : c = [g \in Fields |-> c[g]] => AdvanceCheckpoint(c)[f] = c[f]
    BY DEF AdvanceCheckpoint, Fields, Domains
  <1>5. \A e : Credit(b, e)[f] = b[f]
    <2> SUFFICES ASSUME NEW e PROVE Credit(b, e)[f] = b[f]
      OBVIOUS
    <2> DEFINE c == [b EXCEPT
                       !.balances = Put(@, balance_key(e.neuron, e.token), NextBalance(b, e)),
                       !.neurons  = Put(@, e.neuron, [Look(@, e.neuron, ZeroNeuron) EXCEPT
                                                        !.focus = NextFocus(b, e)])]
    <2>1. c = [g \in Fields |-> c[g]] /\ c[f] = b[f]
      BY DEF IsBbg, Fields, Domains
    <2>2. Credit(b, e) = AdvanceCheckpoint(c)
      BY DEF Credit
    <2> HIDE DEF c
    <2> QED
      BY <1>4, <2>1, <2>2
  <1>6. AdvanceCheckpoint(b)[f] = b[f]
    BY <1>4 DEF IsBbg
  <1> QED
    BY <1>1, <1>2, <1>3, <1>5, <1>6

\* A movement spends its nullifier for good: spent again, it is the same.
LEMMA MoveKeeps ==
  ASSUME NEW b, IsBbg(b), Dated(b), NEW mv
  PROVE  /\ Dated(ApplyMove(b, mv)) /\ Later(b, ApplyMove(b, mv))
         /\ ApplyMove(b, mv).signals = b.signals
  <1> DEFINE c == ApplyMove(b, mv)
  <1>1. /\ c.nullifiers = Put(b.nullifiers, mv.nullifier, <<>>)
        /\ c.signals = b.signals /\ c.time = b.time /\ c.height = b.height
    BY DEF ApplyMove, IsBbg, Fields, Domains
  <1> HIDE DEF c
  <1>2. Kept(b.nullifiers, c.nullifiers) /\ Dated(c)
    BY <1>1 DEF Dated, Kept, Put
  <1> QED
    BY <1>1, <1>2, WidthAssumption DEF Later, Kept, IsBbg, c

\* Sealing a signal with an unused (neuron, step) records it and the root of
\* the height that ends: neither key was there.
LEMMA SealKeeps ==
  ASSUME NEW b, IsBbg(b), Dated(b), NEW e, SignalUnused(b, e)
  PROVE  Dated(SealedSignal(b, e)) /\ Later(b, SealedSignal(b, e))
  <1> DEFINE t == Touch(b, e.signal.links)
             s == ApplySignalRecord(t, e.header)
             c == SealedSignal(b, e)
             sk == signal_key(e.header.neuron, e.header.step)
             same == {"nullifiers", "signals", "time", "height"}
  <1>1. t = [f \in Fields |-> t[f]] /\ \A f \in same : t[f] = b[f]
    BY DEF Touch, IsBbg, Fields, Domains
  <1> HIDE DEF t
  <1>2. /\ s = [f \in Fields |-> s[f]] /\ s.nullifiers = b.nullifiers /\ s.time = b.time
        /\ s.height = b.height /\ s.signals = Put(b.signals, sk, e.header)
    BY <1>1 DEF ApplySignalRecord, Fields, Domains
  <1>3. c = SnapshotBlock(s)
    BY DEF SealedSignal, t
  <1> HIDE DEF s, c
  <1>4. /\ c.nullifiers = b.nullifiers /\ c.signals = Put(b.signals, sk, e.header)
        /\ c.time = Put(b.time, b.height, compute_root(s)) /\ c.height = b.height + 1
    BY <1>2, <1>3 DEF SnapshotBlock, Fields, Domains
  <1>5. b.height \in Nat
    BY WidthAssumption DEF IsBbg
  <1>6. Dated(c)
    BY <1>4, <1>5 DEF Dated, Put
  <1>7. Kept(b.signals, c.signals)
    BY <1>4 DEF SignalUnused, Kept, Put
  <1>8. b.height \notin DOMAIN b.time
    BY <1>5 DEF Dated
  <1>9. Kept(b.time, c.time)
    BY <1>4, <1>8 DEF Kept, Put
  <1> QED
    BY <1>4, <1>5, <1>6, <1>7, <1>9 DEF Later, Kept, c

LEMMA InitHistory == ASSUME Init PROVE History
  <1> PICK config \in Configs : bbg = NewBbg(config)
    BY DEF Init
  <1> DEFINE m == MakeBbg([d \in Domains |-> Empty], 0, <<>>, NoDiameter, config)
  <1>1. m = [f \in Fields |-> m[f]] /\ m.height = 0 /\ \A d \in Domains : m[d] = Empty
    BY MakeFields
  <1>2. bbg = AdvanceCheckpoint(m)
    BY DEF NewBbg
  <1> HIDE DEF m
  <1>3. \A d \in Domains : bbg[d] = Empty
    BY <1>1, <1>2 DEF AdvanceCheckpoint, Fields, Domains
  <1>4. Dated(bbg)
    BY <1>3 DEF Dated, Empty, Domains
  <1>5. Later(bbg, bbg)
    BY InitInductive, LaterReflexive DEF Inductive, TypeOK
  <1> QED
    BY <1>4, <1>5 DEF Init, History, Idle

\* The steps of a preparation.
LEMMA PreparationKeeps ==
  ASSUME Inductive, Inductive', History
  PROVE  /\ SignalBegin \/ InsertMove \/ InsertLink \/ SealSignal => HistoryStep
         /\ PlanPrune \/ PruneEnd \/ IntentEvent \/ CreditEvent => HistoryStep
         /\ \A a : PruneAxon(a) => HistoryStep
         /\ \A batch : PrepareBatch(batch) => HistoryStep
  <1>0. IsBbg(bbg) /\ Dated(bbg)
    BY DEF Inductive, TypeOK, History
  <1>1. CASE SignalBegin
    <2>1. SignalUnused(bbg', Head(events'))
      BY <1>1 DEF SignalBegin, validate
    <2> QED
      BY <1>1, <2>1, QuietKeeps DEF SignalBegin
  <1>2. CASE InsertMove
    <2>1. pc = "apply" /\ bbg' = ApplyMove(bbg, Head(moves)) /\ UNCHANGED <<events, published, candidate>>
      BY <1>2 DEF InsertMove
    <2>2. Dated(bbg') /\ Later(bbg, bbg') /\ bbg'.signals = bbg.signals
      BY <1>0, <2>1, MoveKeeps
    <2>3. SignalUnused(bbg', Head(events'))
      BY <2>1, <2>2 DEF History, SignalUnused
    <2> QED
      BY <2>1, <2>2, <2>3, HeldKeeps
  <1>3. CASE InsertLink
    <2>1. /\ pc = "apply" /\ UNCHANGED <<events, published, candidate>>
          /\ bbg' = ApplyLink(bbg, Head(events).signal.neuron, Head(links))
      BY <1>3 DEF InsertLink
    <2>2. \A f \in {"nullifiers", "signals", "time", "height"} : bbg'[f] = bbg[f]
      BY <1>0, <2>1, OperationsQuiet
    <2>3. SignalUnused(bbg', Head(events'))
      BY <2>1, <2>2 DEF History, SignalUnused
    <2> QED
      BY <2>1, <2>2, <2>3, QuietKeeps
  <1>4. CASE SealSignal
    <2> DEFINE b == SealedSignal(bbg, Head(events))
    <2>1. /\ pc = "apply" /\ pc' # "apply" /\ UNCHANGED <<published, candidate>>
          /\ bbg' = b \/ bbg' = AdvanceCheckpoint(b)
      BY <1>4 DEF SealSignal, NextEvent
    <2>2. Dated(b) /\ Later(bbg, b)
      BY <1>0, <2>1, SealKeeps DEF History
    <2>3. IsBbg(b)
      BY <1>0, <2>1, SealWrites DEF Inductive, SignalCaptured, Wrote
    <2> HIDE DEF b
    <2>4. Dated(bbg') /\ Later(b, bbg')
      <3>1. \A f \in {"nullifiers", "signals", "time", "height"} : bbg'[f] = b[f]
        BY <2>1, <2>3, OperationsQuiet
      <3> QED
        BY <2>2, <2>3, <3>1, SameHistory
    <2>5. Later(bbg, bbg')
      BY <1>0, <2>2, <2>3, <2>4, LaterTransitive DEF Inductive, TypeOK
    <2> QED
      BY <2>1, <2>4, <2>5, HeldKeeps
  <1>5. ASSUME UNCHANGED <<bbg, published, candidate>>, pc' # "apply" PROVE HistoryStep
    BY <1>5, QuietKeeps
  <1>6. ASSUME UNCHANGED <<published, candidate>>, pc' # "apply",
               \A f \in {"nullifiers", "signals", "time", "height"} : bbg'[f] = bbg[f]
        PROVE  HistoryStep
    BY <1>6, QuietKeeps
  <1>7. CASE PlanPrune
    BY <1>5, <1>7 DEF PlanPrune
  <1>8. CASE PruneEnd
    BY <1>0, <1>6, <1>8, OperationsQuiet DEF PruneEnd, NextEvent
  <1>9. CASE IntentEvent
    BY <1>0, <1>6, <1>9, OperationsQuiet DEF IntentEvent, NextEvent
  <1>10. CASE CreditEvent
    BY <1>0, <1>6, <1>10, OperationsQuiet DEF CreditEvent, NextEvent
  <1>11. ASSUME NEW a, PruneAxon(a) PROVE HistoryStep
    BY <1>0, <1>6, <1>11, OperationsQuiet DEF PruneAxon
  <1>12. ASSUME NEW batch, PrepareBatch(batch) PROVE HistoryStep
    BY <1>5, <1>12 DEF PrepareBatch
  <1> QED
    BY <1>1, <1>2, <1>3, <1>4, <1>7, <1>8, <1>9, <1>10, <1>11, <1>12

\* The end of a preparation, its commit and a restart: the Bbg published next
\* is the one published before, the one in memory or the candidate.
LEMMA CommitKeeps ==
  ASSUME Inductive, Inductive', History,
         Reject \/ CollectChanges \/ CommitDurable \/ Publish \/ Abandon \/ CommitUnknown \/ Restart
  PROVE  HistoryStep
  <1>0. IsBbg(bbg) /\ IsBbg(published) /\ IsBbg(candidate)
    BY DEF Inductive, TypeOK
  <1>1. CASE Reject
    <2>1. pc \in Held
      BY <1>1 DEF Reject, Rejects, Held, Running
    <2>2. bbg' = published
      BY <1>1, <2>1, DropPreserves DEF Reject
    <2> QED
      BY <1>1, <2>2, SettledKeeps DEF Reject, Idle
  <1>2. CASE CollectChanges
    <2>1. bbg' = bbg /\ published' = published /\ candidate' = bbg /\ pc' = "ready"
      BY <1>2 DEF CollectChanges
    <2>2. Later(published, published)
      BY <1>0, LaterReflexive
    <2> QED
      BY <2>1, <2>2 DEF HistoryStep, History, Dated, Later, Kept
  <1>3. CASE CommitDurable
    BY <1>3, QuietKeeps DEF CommitDurable
  <1>4. CASE Publish
    BY <1>4, SettledKeeps DEF Publish, Idle
  <1>5. CASE Abandon
    <2>1. bbg' = published
      BY <1>5, DropPreserves DEF Abandon, Held
    <2> QED
      BY <1>5, <2>1, SettledKeeps DEF Abandon, Idle
  <1>6. CASE CommitUnknown
    <2>1. bbg' = published
      BY <1>6, DropPreserves DEF CommitUnknown, Held
    <2> QED
      BY <1>6, <2>1, SettledKeeps DEF CommitUnknown
  <1>7. CASE Restart
    <2>1. PICK b \in {published, bbg, candidate} : disk = records(b)
      BY DEF Inductive, AllOrNothing
    <2>2. bbg' = b
      BY <1>0, <1>7, <2>1, RecoverExact DEF Restart
    <2> QED
      BY <1>7, <2>2, SettledKeeps DEF Restart, Idle
  <1> QED
    BY <1>1, <1>2, <1>3, <1>4, <1>5, <1>6, <1>7

LEMMA NextHistory ==
  ASSUME Inductive, Inductive', History, [Next]_vars
  PROVE  HistoryStep
  <1>1. CASE UNCHANGED vars
    <2>1. pc' = "apply" => SignalUnused(bbg', Head(events'))
      BY <1>1 DEF vars, work, History
    <2> QED
      BY <1>1, <2>1, QuietKeeps DEF vars
  <1>2. CASE Next
    BY <1>2, PreparationKeeps, CommitKeeps DEF Next, Step
  <1> QED
    BY <1>1, <1>2

\* What callers were given once is never taken back: whatever is applied,
\* undone, committed, of unknown outcome or recovered after a restart,
\* nullifiers stay spent, signal records and roots of past heights are never
\* rewritten and the height does not fall (transition/mod.rs, undo.rs).
THEOREM PublishedStays == Spec => HistoryKept
  <1>1. Init => History
    BY InitHistory
  <1>2. Inductive /\ Inductive' /\ History /\ [Next]_vars => History'
    BY NextHistory DEF HistoryStep
  <1>3. Inductive /\ Inductive' /\ History /\ [Next]_vars =>
          [ /\ Kept(published.nullifiers, published'.nullifiers)
            /\ Kept(published.signals, published'.signals)
            /\ Kept(published.time, published'.time)
            /\ published.height <= published'.height ]_published
    BY NextHistory DEF HistoryStep, Later
  <1> QED
    BY <1>1, <1>2, <1>3, AlwaysInductive, PTL DEF Spec, HistoryKept

-----------------------------------------------------------------------------
(* The graph of a Bbg, operation by operation *)

\* A non-empty adjacency list: a sequence without duplicates.
IsList(q) == q \in Seq(ToSet(q)) /\ q # <<>> /\ NoDup(q)

\* An adjacency lists every edge of E at its end n, and nothing else.
Lists(f, E, n) ==
  /\ IsMap(f)
  /\ \A a \in DOMAIN E : E[a][n] \in DOMAIN f /\ a \in ToSet(f[E[a][n]])
  /\ \A p \in DOMAIN f : IsList(f[p]) /\ \A a \in ToSet(f[p]) : a \in DOMAIN E /\ E[a][n] = p

Particle == [energy : Nat, pi_star : 0..MaxU64, weight : Nat]

\* Finitely many particle records, and only an edge carries weight.
Weighted(P, E) ==
  /\ IsMap(P) /\ IsFiniteSet(DOMAIN P)
  /\ \A p \in DOMAIN P : P[p] \in Particle /\ (P[p].weight > 0 => p \in DOMAIN E)

\* What every operation on the graph of a Bbg keeps.
Woven(b) ==
  /\ IsBbg(b)
  /\ \A a \in DOMAIN b.axon_edges : a = axon_id(b.axon_edges[a][1], b.axon_edges[a][2])
  /\ Lists(b.axons_out, b.axon_edges, 1) /\ Lists(b.axons_in, b.axon_edges, 2)
  /\ Weighted(b.particles, b.axon_edges)

\* With the epochs of its edges it is the graph the property speaks of.
LEMMA WovenIndexed ==
  ASSUME NEW b, Woven(b), DOMAIN b.last_touched = DOMAIN b.axon_edges PROVE GraphIndexed(b)
<1>1. ASSUME NEW q, IsList(q) PROVE q # <<>> /\ Cardinality(ToSet(q)) = Len(q)
  BY <1>1, NoDupCardinality DEF IsList
<1>2. \A f \in {b.axons_out, b.axons_in} : \A p \in DOMAIN f :
        f[p] # <<>> /\ Cardinality(ToSet(f[p])) = Len(f[p])
  BY <1>1 DEF Woven, Lists
<1> QED BY <1>2 DEF Woven, Lists, Weighted, GraphIndexed

LEMMA AppendList ==
  ASSUME NEW q, NEW a, q = <<>> \/ IsList(q), a \notin ToSet(q)
  PROVE  IsList(Append(q, a)) /\ ToSet(Append(q, a)) = ToSet(q) \cup {a}
<1> DEFINE r == Append(q, a)
           n == Len(q)
           T == ToSet(q) \cup {a}
<1>1. q \in Seq(T) /\ n \in Nat /\ DOMAIN q = 1..n /\ NoDup(q)
  <2>1. <<>> \in Seq(T) /\ DOMAIN <<>> = 1..Len(<<>>) /\ NoDup(<<>>) /\ Len(<<>>) = 0
    BY DEF NoDup
  <2>2. CASE q = <<>>
    BY <2>1, <2>2
  <2>3. CASE IsList(q)
    BY <2>3 DEF IsList
  <2> QED BY <2>2, <2>3
<1>2. /\ r \in Seq(T) /\ Len(r) = n + 1 /\ DOMAIN r = 1..(n + 1) /\ r[n + 1] = a
      /\ \A i \in 1..n : r[i] = q[i]
  BY <1>1
<1> HIDE DEF r, n
<1>3. ToSet(r) = T
  BY <1>1, <1>2 DEF ToSet
<1>4. NoDup(r)
  BY <1>1, <1>2 DEF NoDup, ToSet
<1>5. r # <<>>
  BY <1>1, <1>2
<1> QED BY <1>2, <1>3, <1>4, <1>5 DEF r, IsList

\* AxonIndex::add of a link's axon at one of its ends, with its edge.
LEMMA AddLists ==
  ASSUME NEW f, NEW E, NEW n, Lists(f, E, n), NEW a, NEW p, NEW e, e[n] = p,
         a \in DOMAIN E => E[a][n] = p
  PROVE  Lists(AddAxon(f, p, a), IF a \in DOMAIN E THEN E ELSE Put(E, a, e), n)
<1> DEFINE q == Look(f, p, <<>>)
           g == Put(f, p, Append(q, a))
           G == Put(E, a, e)
<1>1. CASE a \in DOMAIN E
  BY <1>1 DEF AddAxon, Look, Lists
<1>2. CASE a \notin DOMAIN E
  <2>1. a \notin ToSet(q) /\ (q = <<>> \/ IsList(q))
    BY <1>2 DEF Look, Lists, ToSet
  <2>2. AddAxon(f, p, a) = g
    BY <2>1 DEF AddAxon
  <2>3. IsList(Append(q, a)) /\ ToSet(Append(q, a)) = ToSet(q) \cup {a}
    BY <2>1, AppendList
  <2>4. \A o \in ToSet(q) : p \in DOMAIN f /\ o \in ToSet(f[p])
    BY DEF Look, ToSet
  <2>5. p \in DOMAIN f => ToSet(f[p]) = ToSet(q)
    BY DEF Look
  <2> HIDE DEF q
  <2>6. /\ IsMap(g) /\ DOMAIN g = DOMAIN f \cup {p} /\ g[p] = Append(q, a)
        /\ \A x \in DOMAIN f : x # p => g[x] = f[x]
    BY DEF Put, IsMap
  <2>7. /\ DOMAIN G = DOMAIN E \cup {a} /\ G[a] = e /\ \A x \in DOMAIN E : G[x] = E[x]
    BY <1>2 DEF Put
  <2> HIDE DEF g, G
  <2>8. ASSUME NEW x \in DOMAIN G PROVE G[x][n] \in DOMAIN g /\ x \in ToSet(g[G[x][n]])
    <3>1. CASE x = a
      BY <2>3, <2>6, <2>7, <3>1
    <3>2. CASE x # a
      <4>1. x \in DOMAIN E /\ G[x] = E[x] /\ E[x][n] \in DOMAIN f /\ x \in ToSet(f[E[x][n]])
        BY <2>7, <3>2 DEF Lists
      <4>2. CASE E[x][n] = p
        BY <2>3, <2>5, <2>6, <4>1, <4>2
      <4>3. CASE E[x][n] # p
        BY <2>6, <4>1, <4>3
      <4> QED BY <4>2, <4>3
    <3> QED BY <3>1, <3>2
  <2>9. ASSUME NEW y \in DOMAIN g
        PROVE  IsList(g[y]) /\ \A x \in ToSet(g[y]) : x \in DOMAIN G /\ G[x][n] = y
    <3>1. CASE y = p
      <4>1. \A x \in ToSet(q) : x \in DOMAIN E /\ E[x][n] = p
        BY <2>4 DEF Lists
      <4>2. \A x \in ToSet(g[p]) : x \in ToSet(q) \/ x = a
        BY <2>3, <2>6
      <4>3. \A x \in ToSet(g[p]) : x \in DOMAIN G /\ G[x][n] = p
        BY <2>7, <4>1, <4>2
      <4> QED BY <2>3, <2>6, <3>1, <4>3
    <3>2. CASE y # p
      <4>1. y \in DOMAIN f /\ g[y] = f[y]
        BY <2>6, <3>2
      <4> QED BY <2>7, <4>1 DEF Lists
    <3> QED BY <3>1, <3>2
  <2>10. Lists(g, G, n)
    BY <2>6, <2>8, <2>9 DEF Lists
  <2> QED BY <1>2, <2>2, <2>10 DEF G
<1> QED BY <1>1, <1>2

\* AxonIndex::remove_axon of an edge at one of its ends.
LEMMA DropLists ==
  ASSUME NEW f, NEW E, NEW n, Lists(f, E, n), NEW a \in DOMAIN E, NEW p, E[a][n] = p
  PROVE  Lists(DropAxon(f, p, a), Del(E, a), n)
<1> DEFINE q == f[p]
           r == Retain(q, {a})
           g == DropAxon(f, p, a)
           G == Del(E, a)
<1>1. p \in DOMAIN f /\ a \in ToSet(q) /\ IsList(q)
  BY DEF Lists
<1>2. r \in Seq(ToSet(q)) /\ NoDup(r) /\ ToSet(r) = ToSet(q) \ {a}
  BY <1>1, RetainNoDup DEF IsList
<1>3. g = IF r = <<>> THEN Del(f, p) ELSE Put(f, p, r)
  BY <1>1 DEF DropAxon, Look
<1>4. r = <<>> => ToSet(r) = {}
  BY DEF ToSet
<1> HIDE DEF r
<1>5. r # <<>> => IsList(r)
  <2>1. r \in Seq(ToSet(r))
    BY <1>2 DEF ToSet
  <2> QED BY <1>2, <2>1 DEF IsList
<1>6. /\ IsMap(g) /\ (\A x \in DOMAIN f : x # p => x \in DOMAIN g /\ g[x] = f[x])
      /\ \A x \in DOMAIN g : x \in DOMAIN f
      /\ p \in DOMAIN g <=> r # <<>>
      /\ r # <<>> => g[p] = r
  BY <1>1, <1>3 DEF Put, Del, IsMap
<1>7. DOMAIN G = DOMAIN E \ {a} /\ \A x \in DOMAIN G : G[x] = E[x]
  BY DEF Del
<1> HIDE DEF g, G, q
<1>8. ASSUME NEW x \in DOMAIN G PROVE G[x][n] \in DOMAIN g /\ x \in ToSet(g[G[x][n]])
  <2>1. x \in DOMAIN E /\ x # a /\ G[x] = E[x] /\ E[x][n] \in DOMAIN f /\ x \in ToSet(f[E[x][n]])
    BY <1>7 DEF Lists
  <2>2. CASE E[x][n] = p
    BY <1>2, <1>4, <1>6, <2>1, <2>2 DEF q
  <2>3. CASE E[x][n] # p
    BY <1>6, <2>1, <2>3
  <2> QED BY <2>2, <2>3
<1>9. ASSUME NEW y \in DOMAIN g
      PROVE  IsList(g[y]) /\ \A x \in ToSet(g[y]) : x \in DOMAIN G /\ G[x][n] = y
  <2>1. CASE y = p
    <3>1. \A x \in ToSet(q) : x \in DOMAIN E /\ E[x][n] = p
      BY <1>1 DEF Lists, q
    <3> QED BY <1>2, <1>5, <1>6, <1>7, <2>1, <3>1
  <2>2. CASE y # p
    <3>1. y \in DOMAIN f /\ g[y] = f[y] /\ a \notin ToSet(f[y])
      BY <1>6, <2>2 DEF Lists
    <3> QED BY <1>7, <3>1 DEF Lists
  <2> QED BY <2>1, <2>2
<1> QED BY <1>6, <1>8, <1>9 DEF Lists, g, G

\* A particle record written over, or added.
LEMMA PutWeighted ==
  ASSUME NEW P, NEW E, Weighted(P, E), NEW p, NEW r \in Particle, r.weight > 0 => p \in DOMAIN E
  PROVE  Weighted(Put(P, p, r), E)
<1> DEFINE Q == Put(P, p, r)
<1>1. /\ IsMap(Q) /\ DOMAIN Q = DOMAIN P \cup {p} /\ Q[p] = r
      /\ \A x \in DOMAIN P : x # p => Q[x] = P[x]
  BY DEF Put, IsMap
<1>2. IsFiniteSet(DOMAIN Q)
  BY <1>1, FS_AddElement DEF Weighted
<1> HIDE DEF Q
<1>3. ASSUME NEW x \in DOMAIN Q PROVE Q[x] \in Particle /\ (Q[x].weight > 0 => x \in DOMAIN E)
  <2>1. CASE x = p
    BY <1>1, <2>1
  <2>2. CASE x # p
    BY <1>1, <2>2 DEF Weighted
  <2> QED BY <2>1, <2>2
<1> QED BY <1>1, <1>2, <1>3 DEF Weighted, Q

LEMMA LookWeighted ==
  ASSUME NEW P, NEW E, Weighted(P, E), NEW p
  PROVE  /\ Look(P, p, ZeroParticle) \in Particle
         /\ Look(P, p, ZeroParticle).weight > 0 => p \in DOMAIN E
<1>1. ZeroParticle \in Particle /\ ~(ZeroParticle.weight > 0)
  BY WidthAssumption DEF ZeroParticle, Particle
<1> QED BY <1>1 DEF Look, Weighted

\* What a link adds to its axon and to its target.
LEMMA LinkWeighted ==
  ASSUME NEW P, NEW E, Weighted(P, E), NEW a \in DOMAIN E, NEW p, NEW amount \in Nat
  PROVE  Weighted(AddEnergy(AddWeight(P, a, amount), p, amount), E)
<1>1. \A x, y \in Nat : SatAdd(x, y) \in Nat
  BY WidthAssumption DEF SatAdd
<1>2. ASSUME NEW r \in Particle
      PROVE  /\ [r EXCEPT !.weight = SatAdd(@, amount)] \in Particle
             /\ [r EXCEPT !.energy = SatAdd(@, amount)] \in Particle
             /\ [r EXCEPT !.energy = SatAdd(@, amount)].weight = r.weight
  BY <1>1, <1>2 DEF Particle
<1> DEFINE Q == AddWeight(P, a, amount)
<1>3. Weighted(Q, E)
  <2> DEFINE r == Look(P, a, ZeroParticle)
             w == [r EXCEPT !.weight = SatAdd(@, amount)]
  <2>1. Q = Put(P, a, w) /\ r \in Particle
    BY LookWeighted DEF AddWeight
  <2>2. w \in Particle
    BY <1>2, <2>1
  <2> HIDE DEF Q, w
  <2> QED BY <2>1, <2>2, PutWeighted
<1> HIDE DEF Q
<1>4. Weighted(AddEnergy(Q, p, amount), E)
  <2> DEFINE r == Look(Q, p, ZeroParticle)
             w == [r EXCEPT !.energy = SatAdd(@, amount)]
  <2>1. AddEnergy(Q, p, amount) = Put(Q, p, w)
    BY DEF AddEnergy
  <2>2. r \in Particle /\ (r.weight > 0 => p \in DOMAIN E)
    BY <1>3, LookWeighted
  <2> HIDE DEF r
  <2>3. w \in Particle /\ (w.weight > 0 => p \in DOMAIN E)
    BY <1>2, <2>2
  <2> HIDE DEF w
  <2> QED BY <1>3, <2>1, <2>3, PutWeighted
<1> QED BY <1>4 DEF Q

\* More edges, and one edge less with its particle gone.
LEMMA MoreWeighted ==
  ASSUME NEW P, NEW E, Weighted(P, E), NEW F, DOMAIN E \subseteq DOMAIN F
  PROVE  Weighted(P, F)
  BY DEF Weighted

LEMMA LessWeighted ==
  ASSUME NEW P, NEW E, Weighted(P, E), NEW a, NEW F, DOMAIN E \ {a} \subseteq DOMAIN F
  PROVE  Weighted(Del(P, a), F)
<1>1. /\ IsMap(Del(P, a)) /\ DOMAIN Del(P, a) = DOMAIN P \ {a}
      /\ \A x \in DOMAIN Del(P, a) : Del(P, a)[x] = P[x]
  BY DEF Del, IsMap
<1>2. IsFiniteSet(DOMAIN Del(P, a))
  BY <1>1, FS_RemoveElement DEF Weighted
<1> QED BY <1>1, <1>2 DEF Weighted

\* A Bbg with the graph of another.
GraphFields == {"particles", "axons_out", "axons_in", "axon_edges"}

LEMMA SameGraph ==
  ASSUME NEW b, Woven(b), NEW c, IsBbg(c), \A f \in GraphFields : c[f] = b[f]
  PROVE  Woven(c)
<1>1. /\ c.particles = b.particles /\ c.axons_out = b.axons_out
      /\ c.axons_in = b.axons_in /\ c.axon_edges = b.axon_edges
  BY DEF GraphFields
<1> QED BY <1>1 DEF Woven

\* What an operation leaves besides the graph.
Rest(b) == <<b.last_touched, b.height, b.prune_config>>

LEMMA MoveWoven ==
  ASSUME NEW b, Woven(b), NEW mv
  PROVE  /\ Woven(ApplyMove(b, mv)) /\ Rest(ApplyMove(b, mv)) = Rest(b)
         /\ ApplyMove(b, mv).axon_edges = b.axon_edges
<1> DEFINE c == ApplyMove(b, mv)
<1>1. IsBbg(b) /\ IsBbg(c)
  BY MoveWrites DEF Woven, Wrote
<1>2. \A f \in Fields \ {"nullifiers", "commitments"} : c[f] = b[f]
  BY <1>1 DEF ApplyMove, IsBbg, Fields, Domains
<1> HIDE DEF c
<1>3. \A f \in GraphFields : c[f] = b[f]
  BY <1>2 DEF GraphFields, Fields, Domains
<1>4. Rest(c) = Rest(b)
  BY <1>2 DEF Rest, Fields, Domains
<1>5. Woven(c)
  BY <1>1, <1>3, SameGraph
<1> QED BY <1>3, <1>4, <1>5 DEF c, GraphFields

LEMMA LinkWoven ==
  ASSUME NEW b, Woven(b), NEW n, NEW l, l.amount \in Nat
  PROVE  /\ Woven(ApplyLink(b, n, l)) /\ Rest(ApplyLink(b, n, l)) = Rest(b)
         /\ DOMAIN ApplyLink(b, n, l).axon_edges
              = DOMAIN b.axon_edges \cup {axon_id(l.from, l.to)}
<1> DEFINE c == ApplyLink(b, n, l)
           axon == axon_id(l.from, l.to)
           e == <<l.from, l.to>>
           E == b.axon_edges
           G == IF axon \in DOMAIN E THEN E ELSE Put(E, axon, e)
           Q == AddEnergy(AddWeight(b.particles, axon, l.amount), l.to, l.amount)
<1>1. IsBbg(b) /\ IsBbg(c)
  BY LinkWrites DEF Woven, Wrote
<1>2. /\ c.axons_out = AddAxon(b.axons_out, l.from, axon)
      /\ c.axons_in = AddAxon(b.axons_in, l.to, axon)
      /\ c.axon_edges = G
      /\ c.particles = (IF l.amount = 0 THEN b.particles ELSE Q)
      /\ \A f \in Fields \ {"axons_out", "axons_in", "axon_edges", "particles",
                             "neurons", "balances"} : c[f] = b[f]
  BY <1>1 DEF ApplyLink, AddTopology, IsBbg, Fields, Domains
<1> HIDE DEF c
<1>3. Rest(c) = Rest(b)
  BY <1>2 DEF Rest, Fields, Domains
<1>4. e[1] = l.from /\ e[2] = l.to /\ axon = e
  BY DEF axon_id
<1>5. axon \in DOMAIN E => E[axon][1] = l.from /\ E[axon][2] = l.to
  BY DEF Woven, axon_id
<1>6. DOMAIN G = DOMAIN E \cup {axon} /\ \A a \in DOMAIN G : a = axon_id(G[a][1], G[a][2])
  BY <1>4 DEF Put, Woven, axon_id
<1>7. Lists(b.axons_out, E, 1) /\ Lists(b.axons_in, E, 2)
  BY DEF Woven
<1> HIDE DEF e, axon, E
<1>8. Lists(c.axons_out, G, 1) /\ Lists(c.axons_in, G, 2)
  <2>1. Lists(AddAxon(b.axons_out, l.from, axon), G, 1)
    BY <1>4, <1>5, <1>7, AddLists
  <2>2. Lists(AddAxon(b.axons_in, l.to, axon), G, 2)
    BY <1>4, <1>5, <1>7, AddLists
  <2> QED BY <1>2, <2>1, <2>2
<1> HIDE DEF G
<1>9. Weighted(b.particles, G)
  BY <1>6, MoreWeighted DEF Woven, E
<1>10. Weighted(c.particles, G)
  BY <1>2, <1>6, <1>9, LinkWeighted
<1> QED BY <1>1, <1>2, <1>3, <1>6, <1>8, <1>10 DEF Woven, c, axon, E

LEMMA RemoveWoven ==
  ASSUME NEW b, Woven(b), NEW a
  PROVE  /\ Woven(remove_axon(b, a))
         /\ remove_axon(b, a).last_touched = Del(b.last_touched, a)
         /\ remove_axon(b, a).particles = Del(b.particles, a)
         /\ DOMAIN remove_axon(b, a).axon_edges = DOMAIN b.axon_edges \ {a}
         /\ remove_axon(b, a).height = b.height
         /\ remove_axon(b, a).prune_config = b.prune_config
<1> DEFINE c == remove_axon(b, a)
           E == b.axon_edges
           known == a \in DOMAIN E
           G == Del(E, a)
<1>1. IsBbg(b) /\ IsBbg(c)
  BY RemoveWrites DEF Woven, Wrote
<1>2. /\ c.particles = Del(b.particles, a)
      /\ c.last_touched = Del(b.last_touched, a)
      /\ c.axon_edges = (IF known THEN G ELSE E)
      /\ c.axons_out = (IF known THEN DropAxon(b.axons_out, E[a][1], a) ELSE b.axons_out)
      /\ c.axons_in = (IF known THEN DropAxon(b.axons_in, E[a][2], a) ELSE b.axons_in)
      /\ \A f \in Fields \ {"particles", "last_touched", "axon_edges", "axons_out", "axons_in"} :
           c[f] = b[f]
  BY <1>1 DEF remove_axon, IsBbg, Fields, Domains
<1> HIDE DEF c
<1>3. c.height = b.height /\ c.prune_config = b.prune_config
  BY <1>2 DEF Fields, Domains
<1>4. DOMAIN G = DOMAIN E \ {a} /\ \A x \in DOMAIN G : G[x] = E[x]
  BY DEF Del
<1>5. Lists(b.axons_out, E, 1) /\ Lists(b.axons_in, E, 2) /\ Weighted(b.particles, E)
  BY DEF Woven
<1>6. \A x \in DOMAIN E : x = axon_id(E[x][1], E[x][2])
  BY DEF Woven
<1> HIDE DEF E
<1>7. CASE known
  <2>1. Lists(c.axons_out, G, 1) /\ Lists(c.axons_in, G, 2)
    BY <1>2, <1>5, <1>7, DropLists
  <2> HIDE DEF G
  <2>2. Weighted(c.particles, G)
    BY <1>2, <1>4, <1>5, LessWeighted
  <2>3. c.axon_edges = G
    BY <1>2, <1>7
  <2>4. Woven(c)
    BY <1>1, <1>4, <1>6, <2>1, <2>2, <2>3 DEF Woven
  <2> QED BY <1>2, <1>3, <1>4, <2>3, <2>4 DEF c, E
<1>8. CASE ~known
  <2>1. Weighted(c.particles, E)
    BY <1>2, <1>5, LessWeighted
  <2>2. Woven(c)
    BY <1>1, <1>2, <1>5, <1>6, <1>8, <2>1 DEF Woven
  <2> QED BY <1>2, <1>3, <1>8, <2>2 DEF c, E
<1> QED BY <1>7, <1>8

-----------------------------------------------------------------------------
(* Bbg::insert *)

\* The loop of insert, k rounds of it.
Round(S, b, sig, i) ==
  IF i = 0 THEN b
  ELSE IF i <= Len(sig.box_moves) THEN ApplyMove(S[i - 1], sig.box_moves[i])
  ELSE ApplyLink(S[i - 1], sig.neuron, sig.links[i - Len(sig.box_moves)])

Rounds(S, b, sig, k) == S = [i \in 0..k |-> Round(S, b, sig, i)]

LEMMA RoundsExist ==
  ASSUME NEW b, NEW sig, NEW k \in Nat PROVE \E S : Rounds(S, b, sig, k)
<1> DEFINE T == {j \in Nat : \E S : Rounds(S, b, sig, j)}
<1>1. 0 \in T
  <2> DEFINE S == [i \in 0..0 |-> b]
  <2>1. S = [i \in 0..0 |-> Round(S, b, sig, i)]
    BY DEF Round
  <2> QED BY <2>1 DEF Rounds
<1>2. ASSUME NEW j \in Nat, j \in T PROVE j + 1 \in T
  <2>1. PICK S : Rounds(S, b, sig, j)
    BY <1>2
  <2> DEFINE R == [i \in 0..(j + 1) |-> IF i <= j THEN S[i] ELSE Round(S, b, sig, i)]
  <2>2. \A i \in 0..j : S[i] = Round(S, b, sig, i)
    BY <2>1 DEF Rounds
  <2>3. \A i \in 0..(j + 1) : R[i] = Round(S, b, sig, i)
    BY <2>2
  <2>4. \A i \in 0..(j + 1) : i # 0 => i - 1 \in 0..(j + 1) /\ i - 1 <= j
    OBVIOUS
  <2>5. \A i \in 0..(j + 1) : i # 0 => R[i - 1] = S[i - 1]
    BY <2>4
  <2>6. R = [i \in 0..(j + 1) |-> R[i]]
    OBVIOUS
  <2> HIDE DEF R
  <2>7. \A i \in 0..(j + 1) : Round(S, b, sig, i) = Round(R, b, sig, i)
    BY <2>5 DEF Round
  <2>8. Rounds(R, b, sig, j + 1)
    BY <2>3, <2>6, <2>7 DEF Rounds
  <2> QED BY <2>8
<1> HIDE DEF T
<1>3. Nat \subseteq T
  BY <1>1, <1>2, Induction
<1> QED BY <1>3 DEF T

\* The Bbg after each movement and each link of a signal.
LEMMA InsertedRounds ==
  ASSUME NEW b, NEW sig, Len(sig.box_moves) \in Nat, Len(sig.links) \in Nat
  PROVE  Rounds(Inserted(b, sig), b, sig, Len(sig.box_moves) + Len(sig.links))
<1> DEFINE n == Len(sig.box_moves) + Len(sig.links)
<1>1. Inserted(b, sig) = CHOOSE S : Rounds(S, b, sig, n)
  BY Zenon DEF Inserted, Rounds, Round
<1>2. n \in Nat
  <2> DEFINE x == Len(sig.box_moves)
             y == Len(sig.links)
  <2> HIDE DEF x, y
  <2>1. \A i, j \in Nat : i + j \in Nat
    OBVIOUS
  <2> QED BY <2>1 DEF x, y
<1> HIDE DEF n
<1>3. \E S : Rounds(S, b, sig, n)
  BY <1>2, RoundsExist
<1> QED BY <1>1, <1>3 DEF n

\* The axons of the first i links.
Linked(q, i) == {axon_id(q[j].from, q[j].to) : j \in 1..i}

LEMMA RoundsWoven ==
  ASSUME NEW sig \in Inserts, NEW b, Woven(b),
         NEW S, Rounds(S, b, sig, Len(sig.box_moves) + Len(sig.links))
  PROVE  LET c == S[Len(sig.box_moves) + Len(sig.links)]
         IN /\ Woven(c) /\ Rest(c) = Rest(b)
            /\ DOMAIN c.axon_edges = DOMAIN b.axon_edges \cup Axons(sig.links)
<1> DEFINE m == Len(sig.box_moves)
           n == Len(sig.links)
           q == sig.links
           Good(i) == /\ Woven(S[i]) /\ Rest(S[i]) = Rest(b)
                      /\ DOMAIN S[i].axon_edges = DOMAIN b.axon_edges \cup Linked(q, i - m)
           T == {i \in Nat : i <= m + n => Good(i)}
<1>1. /\ m \in Nat /\ n \in Nat /\ DOMAIN q = 1..n /\ \A j \in 1..n : q[j].amount \in Nat
  <2>1. /\ sig.box_moves \in Seq(ToSet(sig.box_moves)) /\ sig.links \in Seq(ToSet(sig.links))
        /\ \A l \in ToSet(sig.links) : l.amount \in Nat
    BY FacadeAssumption
  <2>2. m \in Nat /\ n \in Nat /\ DOMAIN q = 1..n
    BY <2>1
  <2>3. \A j \in 1..n : sig.links[j] \in ToSet(sig.links)
    BY <2>2 DEF ToSet
  <2> QED BY <2>1, <2>2, <2>3
<1>2. \A i \in 0..(m + n) :
        S[i] = IF i = 0 THEN b
               ELSE IF i <= m THEN ApplyMove(S[i - 1], sig.box_moves[i])
               ELSE ApplyLink(S[i - 1], sig.neuron, q[i - m])
  BY DEF Rounds, Round
<1>3. Axons(q) = Linked(q, n)
  BY <1>1 DEF Linked, Axons, ToSet
<1> SUFFICES Good(m + n)
  BY <1>1, <1>3
<1> HIDE DEF m, n, q
<1>4. \A i \in Int : i <= 0 => Linked(q, i) = {}
  BY DEF Linked
<1>5. 0 \in T
  <2>1. 0 \in 0..(m + n)
    BY <1>1
  <2>2. S[0] = b
    BY <1>2, <2>1, Zenon
  <2>3. Linked(q, 0 - m) = {}
    BY <1>1, <1>4
  <2> QED BY <2>2, <2>3
<1>6. ASSUME NEW i \in Nat, i \in T PROVE i + 1 \in T
  <2> SUFFICES ASSUME i + 1 <= m + n PROVE Good(i + 1)
    OBVIOUS
  <2> DEFINE k == i + 1
  <2>1. Good(i)
    BY <1>1, <1>6
  <2>2. k \in 0..(m + n) /\ k - 1 = i /\ k # 0
    BY <1>1
  <2> HIDE DEF k
  <2>3. S[k] = IF k <= m THEN ApplyMove(S[i], sig.box_moves[k])
               ELSE ApplyLink(S[i], sig.neuron, q[k - m])
    BY <1>2, <2>2
  <2>4. CASE k <= m
    <3>1. S[k] = ApplyMove(S[i], sig.box_moves[k])
      BY <2>3, <2>4
    <3>2. Linked(q, k - m) = {} /\ Linked(q, i - m) = {}
      BY <1>1, <1>4, <2>2, <2>4
    <3>3. /\ Woven(S[k]) /\ Rest(S[k]) = Rest(S[i])
          /\ S[k].axon_edges = S[i].axon_edges
      BY <2>1, <3>1, MoveWoven
    <3> QED BY <2>1, <3>2, <3>3 DEF k
  <2>5. CASE ~(k <= m)
    <3> DEFINE j == k - m
               l == q[j]
    <3>1. S[k] = ApplyLink(S[i], sig.neuron, l)
      BY <2>3, <2>5
    <3>2. j \in 1..n /\ i - m = j - 1
      BY <1>1, <2>2, <2>5
    <3>3. l.amount \in Nat
      BY <1>1, <3>2
    <3> HIDE DEF j
    <3>4. Linked(q, j) = Linked(q, j - 1) \cup {axon_id(l.from, l.to)}
      <4>1. 1..j = (1..(j - 1)) \cup {j}
        BY <1>1, <3>2
      <4> QED BY <4>1 DEF Linked
    <3> HIDE DEF l
    <3>5. /\ Woven(S[k]) /\ Rest(S[k]) = Rest(S[i])
          /\ DOMAIN S[k].axon_edges = DOMAIN S[i].axon_edges \cup {axon_id(l.from, l.to)}
      BY <2>1, <3>1, <3>3, LinkWoven
    <3>6. DOMAIN S[k].axon_edges = DOMAIN b.axon_edges \cup Linked(q, j)
      BY <2>1, <3>2, <3>4, <3>5
    <3> QED BY <2>1, <3>5, <3>6 DEF k, j
  <2> QED BY <2>4, <2>5
<1> HIDE DEF T
<1>7. m + n \in Nat
  BY <1>1
<1>8. m + n \in T
  BY <1>5, <1>6, <1>7, Induction
<1> QED BY <1>7, <1>8 DEF T

\* A Bbg between two calls: the epochs of its edges are there.
Kempt(b) == Woven(b) /\ DOMAIN b.last_touched = DOMAIN b.axon_edges

LEMMA InsertKempt ==
  ASSUME NEW sig \in Inserts, NEW b, Kempt(b)
  PROVE  LET c == InsertSignal(b, sig)
             A == Axons(sig.links)
         IN /\ Kempt(c) /\ c.height = b.height /\ c.prune_config = b.prune_config
            /\ DOMAIN c.last_touched = DOMAIN b.last_touched \cup A
            /\ \A a \in DOMAIN c.last_touched :
                 c.last_touched[a] = IF a \in A THEN b.height \div EpochBlocks ELSE b.last_touched[a]
<1> DEFINE d == Inserted(b, sig)[Len(sig.box_moves) + Len(sig.links)]
           c == Touch(d, sig.links)
           A == Axons(sig.links)
<1>1. Len(sig.box_moves) \in Nat /\ Len(sig.links) \in Nat
  <2>1. sig.box_moves \in Seq(ToSet(sig.box_moves)) /\ sig.links \in Seq(ToSet(sig.links))
    BY FacadeAssumption
  <2> QED BY <2>1
<1>2. Rounds(Inserted(b, sig), b, sig, Len(sig.box_moves) + Len(sig.links))
  BY <1>1, InsertedRounds
<1>3. Woven(d) /\ Rest(d) = Rest(b) /\ DOMAIN d.axon_edges = DOMAIN b.axon_edges \cup A
  BY <1>2, RoundsWoven DEF Kempt
<1>4. InsertSignal(b, sig) = c
  BY DEF InsertSignal
<1> HIDE DEF d
<1>5. /\ d.last_touched = b.last_touched /\ d.height = b.height
      /\ d.prune_config = b.prune_config /\ IsBbg(d)
  BY <1>3 DEF Rest, Woven
<1> DEFINE lt == [a \in DOMAIN b.last_touched \cup A |->
                    IF a \in A THEN b.height \div EpochBlocks ELSE b.last_touched[a]]
<1>6. /\ c = [f \in Fields |-> c[f]] /\ c.last_touched = lt
      /\ \A f \in Fields \ {"last_touched"} : c[f] = d[f]
  BY <1>5 DEF Touch, IsBbg, Fields, Domains
<1> HIDE DEF c
<1>7. IsMap(c.last_touched) /\ DOMAIN c.last_touched = DOMAIN b.last_touched \cup A
  BY <1>6 DEF IsMap
<1>8. \A a \in DOMAIN c.last_touched :
        c.last_touched[a] = IF a \in A THEN b.height \div EpochBlocks ELSE b.last_touched[a]
  BY <1>6, <1>7
<1> HIDE DEF lt, A
<1>9. IsBbg(c)
  BY <1>5, <1>6, <1>7 DEF IsBbg, Fields, Domains
<1>10. Woven(c)
  BY <1>3, <1>6, <1>9, SameGraph DEF GraphFields, Fields, Domains
<1>11. c.axon_edges = d.axon_edges /\ c.height = b.height /\ c.prune_config = b.prune_config
  BY <1>5, <1>6 DEF Fields, Domains
<1>12. Kempt(c)
  BY <1>3, <1>7, <1>10, <1>11 DEF Kempt
<1> QED BY <1>4, <1>7, <1>8, <1>11, <1>12 DEF A

-----------------------------------------------------------------------------
(* The rank floor *)

\* Those whose score is below v, and those whose score is not above it.
Below(I, f, v) == {p \in I : f[p] < v}
UpTo(I, f, v) == {p \in I : f[p] <= v}

\* A finite set of scores has a greatest.
LEMMA GreatestScore ==
  ASSUME NEW J, J # {}, NEW M \in Nat, NEW f, \A p \in J : f[p] \in 0..M
  PROVE  \E p \in J : \A q \in J : f[q] <= f[p]
<1> DEFINE T == {M - f[p] : p \in J}
<1>1. T \in SUBSET Nat /\ T # {}
  OBVIOUS
<1>2. PICK t \in T : \A u \in T : t <= u
  <2> HIDE DEF T
  <2> QED BY <1>1, LeastNatural
<1>3. PICK p \in J : t = M - f[p]
  BY <1>2
<1>4. ASSUME NEW q \in J PROVE f[q] <= f[p]
  <2>1. t <= M - f[q]
    BY <1>2
  <2> QED BY <1>3, <2>1
<1> QED BY <1>4

LEMMA ScoreSets ==
  ASSUME NEW I, IsFiniteSet(I), NEW f, NEW v
  PROVE  /\ IsFiniteSet(Below(I, f, v)) /\ Cardinality(Below(I, f, v)) \in Nat
         /\ IsFiniteSet(UpTo(I, f, v)) /\ Cardinality(UpTo(I, f, v)) \in Nat
<1>1. Below(I, f, v) \in SUBSET I /\ UpTo(I, f, v) \in SUBSET I
  BY DEF Below, UpTo
<1> QED BY <1>1, FS_Subset, FS_CardinalityType

\* The score at index k of the scores in ascending order.
LEMMA OrderStatistic ==
  ASSUME NEW I, IsFiniteSet(I), NEW M \in Nat, NEW f, \A p \in I : f[p] \in 0..M,
         NEW k \in Nat, k < Cardinality(I)
  PROVE  \E v \in {f[p] : p \in I} :
           Cardinality(Below(I, f, v)) <= k /\ k < Cardinality(UpTo(I, f, v))
<1> DEFINE V == {v \in {f[p] : p \in I} : k < Cardinality(UpTo(I, f, v))}
<1>1. I # {} /\ Cardinality(I) \in Nat
  BY FS_EmptySet, FS_CardinalityType
<1>2. PICK w \in I : \A q \in I : f[q] <= f[w]
  BY <1>1, GreatestScore
<1>3. UpTo(I, f, f[w]) = I
  BY <1>2 DEF UpTo
<1>4. V \in SUBSET Nat /\ V # {}
  BY <1>3
<1>5. PICK v \in V : \A u \in V : v <= u
  <2> HIDE DEF V
  <2> QED BY <1>4, LeastNatural
<1>6. Cardinality(Below(I, f, v)) <= k
  <2> DEFINE J == Below(I, f, v)
  <2>1. CASE J = {}
    BY <2>1, FS_EmptySet
  <2>2. CASE J # {}
    <3>1. \A p \in J : p \in I /\ f[p] \in 0..M /\ f[p] < v
      BY DEF Below
    <3> HIDE DEF J
    <3>2. PICK p \in J : \A q \in J : f[q] <= f[p]
      BY <2>2, <3>1, GreatestScore
    <3>3. f[p] \in {f[q] : q \in I} /\ f[p] \in Nat /\ f[p] < v /\ v \in Nat
      BY <1>4, <3>1
    <3>4. J = UpTo(I, f, f[p])
      BY <3>1, <3>2, <3>3 DEF J, Below, UpTo
    <3>5. f[p] \notin V
      BY <1>5, <3>3
    <3>6. ~(k < Cardinality(UpTo(I, f, f[p])))
      BY <3>3, <3>5
    <3>7. Cardinality(J) \in Nat
      BY ScoreSets DEF J
    <3> QED BY <3>4, <3>6, <3>7 DEF J
  <2> QED BY <2>1, <2>2
<1> QED BY <1>5, <1>6

\* Whoever scores below that has at least Cardinality(I) - k above it.
LEMMA HigherScores ==
  ASSUME NEW I, IsFiniteSet(I), NEW M \in Nat, NEW f, \A p \in I : f[p] \in 0..M,
         NEW k \in Nat, NEW v \in Nat, Cardinality(Below(I, f, v)) <= k,
         NEW p \in I, f[p] < v
  PROVE  /\ Cardinality({q \in I : f[q] > f[p]}) \in Nat /\ Cardinality(I) \in Nat
         /\ Cardinality({q \in I : f[q] > f[p]}) >= Cardinality(I) - k
         /\ k # 0
<1> DEFINE L == UpTo(I, f, f[p])
           B == Below(I, f, v)
           H == {q \in I : f[q] > f[p]}
<1>1. L \in SUBSET B /\ p \in L /\ H = I \ L /\ L = I \cap L /\ p \in B
  BY DEF UpTo, Below
<1>2. IsFiniteSet(B) /\ IsFiniteSet(L) /\ Cardinality(B) \in Nat /\ Cardinality(L) \in Nat
  BY ScoreSets
<1> HIDE DEF L, B, H
<1>3. Cardinality(L) <= Cardinality(B)
  BY <1>1, <1>2, FS_Subset
<1>4. B # {} /\ Cardinality(B) # 0
  BY <1>1, <1>2, FS_EmptySet
<1>5. Cardinality(H) = Cardinality(I) - Cardinality(L)
  BY <1>1, <1>2, FS_Difference
<1>6. IsFiniteSet(H) /\ Cardinality(H) \in Nat /\ Cardinality(I) \in Nat
  BY <1>1, FS_Difference, FS_CardinalityType
<1> QED BY <1>2, <1>3, <1>4, <1>5, <1>6 DEF B, H

\* The scores of the particles, and the index that rank_floor looks up.
Scores(b) == [p \in DOMAIN b.particles |-> PiStar(b, p)]

Boundary(n, pct) == SatSub(n, (n * pct + 99) \div 100)

LEMMA FloorUnfolds ==
  ASSUME NEW b, b.prune_config.rank_floor_pct # 0, DOMAIN b.particles # {}
  PROVE  LET I == DOMAIN b.particles
             k == Boundary(Cardinality(I), b.prune_config.rank_floor_pct)
         IN  rank_floor(b) = CHOOSE v \in {Scores(b)[p] : p \in I} :
               /\ Cardinality(Below(I, Scores(b), v)) <= k
               /\ k < Cardinality(UpTo(I, Scores(b), v))
<1> DEFINE I == DOMAIN b.particles
           f == Scores(b)
           k == Boundary(Cardinality(I), b.prune_config.rank_floor_pct)
           D == {PiStar(b, p) : p \in I}
           Lo(v) == {p \in I : PiStar(b, p) < v}
           Up(v) == {p \in I : PiStar(b, p) <= v}
<1>1. rank_floor(b) = CHOOSE v \in D : Cardinality(Lo(v)) <= k /\ k < Cardinality(Up(v))
  BY DEF rank_floor, Boundary
<1>2. D = {f[p] : p \in I} /\ \A v : Lo(v) = Below(I, f, v) /\ Up(v) = UpTo(I, f, v)
  BY DEF Scores, Below, UpTo
<1> HIDE DEF D, Lo, Up, k, f, I
<1>3. rank_floor(b) = CHOOSE v \in D : Cardinality(Below(I, f, v)) <= k /\ k < Cardinality(UpTo(I, f, v))
  BY <1>1, <1>2
<1> QED BY <1>2, <1>3 DEF k, f, I

\* At least rank_floor_pct percent of the particles rank strictly higher than
\* one that is below the floor.
LEMMA FloorExact ==
  ASSUME NEW b, Woven(b), b.prune_config \in Configs
  PROVE  /\ rank_floor(b) \in Nat
         /\ \A p \in DOMAIN b.particles : PiStar(b, p) \in Nat /\ Weight(b, p) \in Nat
         /\ \A p \in DOMAIN b.particles : PiStar(b, p) < rank_floor(b) =>
              100 * Cardinality({q \in DOMAIN b.particles : PiStar(b, q) > PiStar(b, p)})
                >= node_count(b) * b.prune_config.rank_floor_pct
<1> DEFINE I == DOMAIN b.particles
           f == Scores(b)
           n == Cardinality(I)
           pct == b.prune_config.rank_floor_pct
           High(p) == {q \in I : PiStar(b, q) > PiStar(b, p)}
<1>1. MaxU64 \in Nat /\ pct \in Nat
  BY WidthAssumption, FacadeAssumption
<1>2. IsFiniteSet(I) /\ n \in Nat /\ n = node_count(b)
  BY FS_CardinalityType DEF Woven, Weighted, node_count
<1>3. /\ \A p \in I : f[p] = PiStar(b, p)
      /\ \A p \in I : PiStar(b, p) \in 0..MaxU64 /\ Weight(b, p) \in Nat
  BY DEF Woven, Weighted, Particle, PiStar, Weight, Look, Scores
<1>4. \A p \in I : High(p) = {q \in I : f[q] > f[p]} /\ Cardinality(High(p)) \in Nat
  <2>1. \A p \in I : High(p) \in SUBSET I
    OBVIOUS
  <2>2. \A p \in I : High(p) = {q \in I : f[q] > f[p]}
    BY <1>3
  <2> HIDE DEF High
  <2> QED BY <1>2, <2>1, <2>2, FS_Subset, FS_CardinalityType
<1>5. CASE pct = 0
  <2>1. rank_floor(b) = MaxU64
    BY <1>5 DEF rank_floor
  <2>2. n * pct = 0
    BY <1>2, <1>5
  <2> HIDE DEF High, n, pct
  <2>3. \A p \in I : 100 * Cardinality(High(p)) >= n * pct
    BY <1>4, <2>2
  <2> QED BY <1>1, <1>2, <1>3, <2>1, <2>3 DEF High, pct
<1>6. CASE pct # 0 /\ I = {}
  <2>1. rank_floor(b) = 0
    BY <1>6 DEF rank_floor
  <2> QED BY <1>6, <2>1
<1>7. CASE pct # 0 /\ I # {}
  <2> DEFINE x == n * pct
             c == (x + 99) \div 100
             k == Boundary(n, pct)
             Here(v) == Cardinality(Below(I, f, v)) <= k /\ k < Cardinality(UpTo(I, f, v))
             D == {f[p] : p \in I}
             v == rank_floor(b)
  <2>1. n >= 1
    BY <1>2, <1>7, FS_EmptySet
  <2>2. x \in Nat /\ x >= 1
    <3> HIDE DEF n, pct
    <3>1. \A i, j \in Nat : i >= 1 /\ j # 0 => i * j \in Nat /\ i * j >= 1
      OBVIOUS
    <3> QED BY <1>1, <1>2, <1>7, <2>1, <3>1
  <2>3. k = SatSub(n, c)
    BY DEF Boundary
  <2> HIDE DEF n, x, k
  <2>4. c \in Nat /\ c >= 1 /\ 100 * c >= x
    BY <2>2
  <2> HIDE DEF c
  <2>5. k \in Nat /\ k < n /\ (k # 0 => n - k = c)
    BY <1>2, <2>1, <2>3, <2>4 DEF SatSub
  <2>6. \E u \in D : Here(u)
    <3> HIDE DEF f, I
    <3> QED BY <1>1, <1>2, <1>3, <2>5, OrderStatistic DEF n
  <2>7. v = CHOOSE u \in D : Here(u)
    BY <1>7, FloorUnfolds DEF k, n
  <2> HIDE DEF D, Here
  <2>8. v \in D /\ Here(v)
    BY <2>6, <2>7
  <2>9. v \in Nat
    BY <1>1, <1>3, <2>8 DEF D
  <2> HIDE DEF v, f, I, High
  <2>10. ASSUME NEW p \in I, f[p] < v PROVE 100 * Cardinality(High(p)) >= x
    <3>1. Cardinality(High(p)) \in Nat /\ Cardinality(High(p)) >= n - k /\ k # 0
      BY <1>1, <1>2, <1>3, <1>4, <2>5, <2>8, <2>9, <2>10, HigherScores DEF Here, n
    <3> QED BY <1>2, <2>2, <2>4, <2>5, <3>1
  <2>11. \A p \in I : PiStar(b, p) < v => 100 * Cardinality(High(p)) >= x
    BY <1>3, <2>10
  <2>12. x = node_count(b) * pct
    BY <1>2 DEF x
  <2>13. \A p \in I : PiStar(b, p) \in Nat /\ Weight(b, p) \in Nat
    BY <1>1, <1>3
  <2> HIDE DEF x, pct
  <2> QED BY <2>9, <2>11, <2>12, <2>13 DEF v, I, High, pct
<1> QED BY <1>5, <1>6, <1>7

-----------------------------------------------------------------------------
(* The direct path *)

\* The epochs a Bbg keeps for its edges are those of the last accepted link.
Recorded(b, h) ==
  \A a \in DOMAIN b.last_touched :
    a \in DOMAIN h /\ h[a] \in Nat /\ b.last_touched[a] = Epoch(h[a])

\* What a cycle over the candidates C of s has taken is what b lacks.
Taken(s, b, C, rest) ==
  /\ rest \subseteq C
  /\ DOMAIN b.particles = DOMAIN s.particles \ (C \ rest)
  /\ \A p \in DOMAIN b.particles : b.particles[p] = s.particles[p]
  /\ DOMAIN b.axon_edges = DOMAIN s.axon_edges \ (C \ rest)

\* Nothing left to take is lighter than what was taken.
Ordered(s, C, rest) == \A p \in C \ rest, q \in rest : Weight(s, p) <= Weight(s, q)

\* A cycle under way.
Cycle ==
  /\ Kempt(start) /\ start.prune_config \in Configs /\ Recorded(start, touched)
  /\ plan = [over |-> OverBudget(start), cands |-> plan.cands]
  /\ Taken(start, bbg, candidates(start), plan.cands)
  /\ OverBudget(start) => Ordered(start, candidates(start), plan.cands)

\* The inductive invariant of the direct path.
FacadeInductive ==
  /\ Kempt(bbg) /\ bbg.prune_config \in Configs /\ Recorded(bbg, touched)
  /\ pc \in {"idle", "prune"}
  /\ pc = "prune" => Cycle

\* The fields the invariant speaks of.
Spoken == GraphFields \cup {"last_touched", "prune_config"}

\* A Bbg that differs in none of them.
LEMMA SameKempt ==
  ASSUME NEW b, Kempt(b), b.prune_config \in Configs, Recorded(b, touched),
         NEW c, IsBbg(c), \A f \in Spoken : c[f] = b[f]
  PROVE  Kempt(c) /\ c.prune_config \in Configs /\ Recorded(c, touched)
<1>1. Woven(c)
  BY SameGraph DEF Spoken, Kempt
<1>2. c.last_touched = b.last_touched /\ c.axon_edges = b.axon_edges /\ c.prune_config = b.prune_config
  BY DEF Spoken, GraphFields
<1> QED BY <1>1, <1>2 DEF Kempt, Recorded

\* A call that ends where it began and leaves them.
LEMMA QuietCall ==
  ASSUME FacadeInductive, pc' = "idle", touched' = touched,
         IsBbg(bbg'), \A f \in Spoken : bbg'[f] = bbg[f]
  PROVE  FacadeInductive'
<1>1. Kempt(bbg') /\ bbg'.prune_config \in Configs /\ Recorded(bbg', touched)
  BY SameKempt DEF FacadeInductive
<1>2. Kempt(bbg)' /\ (bbg.prune_config \in Configs)' /\ Recorded(bbg, touched)'
  BY <1>1 DEF Kempt, Woven, Recorded, Lists, Weighted, IsBbg
<1> QED BY <1>2 DEF FacadeInductive

LEMMA FacadeStarts == ASSUME FacadeInit PROVE FacadeInductive
<1> PICK config \in Configs : bbg = NewBbg(config)
  BY DEF FacadeInit
<1> DEFINE m == MakeBbg([d \in Domains |-> Empty], 0, <<>>, NoDiameter, config)
<1>1. /\ m = [f \in Fields |-> m[f]] /\ m.height = 0 /\ m.prune_config = config
      /\ \A d \in Domains : m[d] = Empty
  BY MakeFields
<1>2. bbg = AdvanceCheckpoint(m)
  BY DEF NewBbg
<1> HIDE DEF m
<1>3. \A d \in Domains : bbg[d] = Empty
  BY <1>1, <1>2 DEF AdvanceCheckpoint, Fields, Domains
<1>4. bbg = [f \in Fields |-> bbg[f]] /\ bbg.height = 0 /\ bbg.prune_config = config
  BY <1>1, <1>2 DEF AdvanceCheckpoint, Fields, Domains
<1>5. DOMAIN Empty = {} /\ IsMap(Empty)
  BY DEF Empty, IsMap
<1>6. IsBbg(bbg)
  <2>1. \A d \in Domains : IsMap(bbg[d])
    BY <1>3, <1>5
  <2>2. bbg.height \in 0..MaxU64
    BY <1>4, WidthAssumption
  <2> QED BY <1>4, <2>1, <2>2 DEF IsBbg
<1>7. /\ bbg.particles = Empty /\ bbg.axons_out = Empty /\ bbg.axons_in = Empty
      /\ bbg.axon_edges = Empty /\ bbg.last_touched = Empty
  BY <1>3 DEF Domains
<1>8. Kempt(bbg)
  BY <1>5, <1>6, <1>7, FS_EmptySet DEF Kempt, Woven, Lists, Weighted
<1> QED BY <1>4, <1>5, <1>7, <1>8 DEF FacadeInit, FacadeInductive, Recorded

LEMMA FacadeInsert ==
  ASSUME FacadeInductive, NEW sig \in Inserts, insert(sig) PROVE FacadeInductive'
<1> DEFINE A == Axons(sig.links)
           c == InsertSignal(bbg, sig)
<1>1. /\ bbg' = c /\ pc' = "idle"
      /\ touched' = [a \in DOMAIN touched \cup A |-> IF a \in A THEN bbg.height ELSE touched[a]]
  BY DEF insert, Call
<1>2. /\ Kempt(c) /\ c.prune_config = bbg.prune_config
      /\ DOMAIN c.last_touched = DOMAIN bbg.last_touched \cup A
      /\ \A a \in DOMAIN c.last_touched :
           c.last_touched[a] = IF a \in A THEN bbg.height \div EpochBlocks ELSE bbg.last_touched[a]
  BY InsertKempt DEF FacadeInductive
<1>3. bbg.height \in Nat
  BY WidthAssumption DEF FacadeInductive, Kempt, Woven, IsBbg
<1> HIDE DEF c, A
<1>4. Recorded(c, touched')
  <2> SUFFICES ASSUME NEW a \in DOMAIN c.last_touched
               PROVE  a \in DOMAIN touched' /\ touched'[a] \in Nat /\ c.last_touched[a] = Epoch(touched'[a])
    BY DEF Recorded
  <2>1. CASE a \in A
    BY <1>1, <1>2, <1>3, <2>1 DEF Epoch
  <2>2. CASE a \notin A
    <3>1. a \in DOMAIN bbg.last_touched /\ c.last_touched[a] = bbg.last_touched[a]
      BY <1>2, <2>2
    <3>2. a \in DOMAIN touched /\ touched[a] \in Nat /\ bbg.last_touched[a] = Epoch(touched[a])
      BY <3>1 DEF FacadeInductive, Recorded
    <3>3. a \in DOMAIN touched' /\ touched'[a] = touched[a]
      BY <1>1, <2>2, <3>2
    <3> QED BY <3>1, <3>2, <3>3
  <2> QED BY <2>1, <2>2
<1>5. c.prune_config \in Configs
  BY <1>2 DEF FacadeInductive
<1> QED BY <1>1, <1>2, <1>4, <1>5 DEF FacadeInductive

LEMMA FacadeIntent ==
  ASSUME FacadeInductive, NEW i, apply_intent(i) PROVE FacadeInductive'
<1>1. IsBbg(bbg) /\ bbg' = ApplyIntent(bbg, i) /\ pc' = "idle" /\ touched' = touched
  BY DEF FacadeInductive, Kempt, Woven, apply_intent, Call
<1>2. IsBbg(bbg')
  BY <1>1, IntentWrites DEF Wrote
<1>3. \A f \in Spoken : bbg'[f] = bbg[f]
  BY <1>1 DEF ApplyIntent, IsBbg, Fields, Domains, Spoken, GraphFields
<1> QED BY <1>1, <1>2, <1>3, QuietCall

LEMMA FacadeRecord ==
  ASSUME FacadeInductive, NEW header, apply_signal_record(header) PROVE FacadeInductive'
<1> DEFINE c == ApplySignalRecord(bbg, header)
<1>1. IsBbg(bbg) /\ bbg' = c /\ pc' = "idle" /\ touched' = touched
  BY DEF FacadeInductive, Kempt, Woven, apply_signal_record, Call
<1>2. /\ c = [f \in Fields |-> c[f]] /\ \A f \in Fields \ {"signals"} : c[f] = bbg[f]
      /\ IsMap(c.signals)
  BY <1>1 DEF ApplySignalRecord, IsBbg, Fields, Domains, Put, IsMap
<1> HIDE DEF c
<1>3. IsBbg(c) /\ \A f \in Spoken : c[f] = bbg[f]
  BY <1>1, <1>2 DEF IsBbg, Fields, Domains, Spoken, GraphFields
<1> QED BY <1>1, <1>3, QuietCall

LEMMA FacadeDiameter ==
  ASSUME FacadeInductive, NEW bound, InstallDiameter(bound) PROVE FacadeInductive'
<1> DEFINE c == set_diameter_bound(bbg, bound)
<1>1. IsBbg(bbg) /\ bbg' = c /\ pc' = "idle" /\ touched' = touched
  BY DEF FacadeInductive, Kempt, Woven, InstallDiameter, Call
<1>2. c = [f \in Fields |-> c[f]] /\ \A f \in Fields \ {"diameter_override"} : c[f] = bbg[f]
  BY <1>1 DEF set_diameter_bound, IsBbg, Fields, Domains
<1> HIDE DEF c
<1>3. IsBbg(c) /\ \A f \in Spoken : c[f] = bbg[f]
  BY <1>1, <1>2 DEF IsBbg, Fields, Domains, Spoken, GraphFields
<1> QED BY <1>1, <1>3, QuietCall

LEMMA FacadeRank ==
  ASSUME FacadeInductive, NEW p \in DOMAIN bbg.particles, NEW rank \in Ranks, SetRank(p, rank)
  PROVE  FacadeInductive'
<1> DEFINE P == bbg.particles
           Q == [P EXCEPT ![p].pi_star = rank]
           c == [bbg EXCEPT !.particles = Q]
<1>1. IsBbg(bbg) /\ bbg' = c /\ pc' = "idle" /\ touched' = touched
  BY DEF FacadeInductive, Kempt, Woven, SetRank, Call
<1>2. Weighted(P, bbg.axon_edges)
  BY DEF FacadeInductive, Kempt, Woven
<1>3. /\ DOMAIN Q = DOMAIN P /\ IsMap(Q)
      /\ \A q \in DOMAIN P : Q[q] = IF q = p THEN [P[q] EXCEPT !.pi_star = rank] ELSE P[q]
  BY DEF IsMap
<1> HIDE DEF Q
<1>4. \A q \in DOMAIN P : Q[q] \in Particle /\ Q[q].weight = P[q].weight
  BY <1>2, <1>3, FacadeAssumption DEF Weighted, Particle
<1>5. Weighted(Q, bbg.axon_edges)
  BY <1>2, <1>3, <1>4 DEF Weighted
<1>6. /\ c = [f \in Fields |-> c[f]] /\ c.particles = Q
      /\ \A f \in Fields \ {"particles"} : c[f] = bbg[f]
  BY <1>1 DEF IsBbg, Fields, Domains
<1> HIDE DEF c, P
<1>7. IsBbg(c)
  BY <1>1, <1>3, <1>6 DEF IsBbg, Fields, Domains
<1>8. Woven(c)
  BY <1>5, <1>6, <1>7 DEF FacadeInductive, Kempt, Woven, Fields, Domains
<1>9. /\ c.last_touched = bbg.last_touched /\ c.axon_edges = bbg.axon_edges
      /\ c.prune_config = bbg.prune_config
  BY <1>6 DEF Fields, Domains
<1>10. Kempt(c) /\ c.prune_config \in Configs /\ Recorded(c, touched)
  BY <1>8, <1>9 DEF FacadeInductive, Kempt, Recorded
<1> QED BY <1>1, <1>10 DEF FacadeInductive

\* Closing a block leaves the graph, and a checkpoint too.
LEMMA SnapshotQuiet ==
  ASSUME NEW b, IsBbg(b), b.height < MaxU64
  PROVE  IsBbg(SnapshotBlock(b)) /\ \A f \in Spoken : SnapshotBlock(b)[f] = b[f]
<1> DEFINE c == SnapshotBlock(b)
<1>1. /\ c = [f \in Fields |-> c[f]] /\ IsMap(c.time) /\ c.height = b.height + 1
      /\ \A f \in Fields \ {"time", "height"} : c[f] = b[f]
  <2> DEFINE t == Put(b.time, b.height, compute_root(b))
  <2>1. IsMap(t)
    BY DEF IsMap, Put
  <2>2. c = [b EXCEPT !.time = t, !.height = b.height + 1]
    BY DEF SnapshotBlock
  <2> HIDE DEF t, c
  <2>3. /\ c = [f \in Fields |-> c[f]] /\ c.time = t /\ c.height = b.height + 1
        /\ \A f \in Fields \ {"time", "height"} : c[f] = b[f]
    BY <2>2 DEF IsBbg, Fields, Domains
  <2> QED BY <2>1, <2>3
<1> HIDE DEF c
<1>2. c.height \in 0..MaxU64
  BY <1>1, WidthAssumption DEF IsBbg
<1>3. \A d \in Domains : IsMap(c[d])
  BY <1>1 DEF IsBbg, Fields, Domains
<1>4. \A f \in Spoken : c[f] = b[f]
  BY <1>1 DEF Spoken, GraphFields, Fields, Domains
<1> QED BY <1>1, <1>2, <1>3, <1>4 DEF IsBbg, c

LEMMA AdvanceQuiet ==
  ASSUME NEW b, IsBbg(b)
  PROVE  IsBbg(AdvanceCheckpoint(b)) /\ \A f \in Spoken : AdvanceCheckpoint(b)[f] = b[f]
<1> DEFINE c == AdvanceCheckpoint(b)
<1>1. c = [f \in Fields |-> c[f]] /\ \A f \in Fields \ {"checkpoint"} : c[f] = b[f]
  BY DEF AdvanceCheckpoint, IsBbg, Fields, Domains
<1> HIDE DEF c
<1>2. IsBbg(c)
  BY <1>1 DEF IsBbg, Fields, Domains
<1>3. \A f \in Spoken : c[f] = b[f]
  BY <1>1 DEF Spoken, GraphFields, Fields, Domains
<1> QED BY <1>2, <1>3 DEF c

LEMMA FacadeBlock ==
  ASSUME FacadeInductive, finalize_block PROVE FacadeInductive'
<1> DEFINE b == SnapshotBlock(bbg)
<1>1. IsBbg(bbg) /\ bbg.height < MaxU64
  <2>1. IsBbg(bbg)
    BY DEF FacadeInductive, Kempt, Woven
  <2>2. bbg.height \in 0..MaxU64 /\ bbg.height < MaxHeight
    BY <2>1 DEF IsBbg, finalize_block
  <2>3. MaxHeight \in 0..MaxU64 /\ MaxU64 \in Nat
    BY FacadeAssumption, WidthAssumption
  <2> QED BY <2>1, <2>2, <2>3
<1>2. IsBbg(b) /\ \A f \in Spoken : b[f] = bbg[f]
  BY <1>1, SnapshotQuiet
<1>3. touched' = touched /\ pc = "idle"
  BY DEF finalize_block
<1>4. \/ /\ bbg' = b /\ start' = b /\ pc' = "prune"
         /\ plan' = [over |-> OverBudget(b), cands |-> candidates(b)]
      \/ bbg' = AdvanceCheckpoint(b) /\ pc' = "idle"
  BY <1>3 DEF finalize_block
<1> HIDE DEF b
<1>5. Kempt(b) /\ b.prune_config \in Configs /\ Recorded(b, touched)
  BY <1>2, SameKempt DEF FacadeInductive
<1>6. CASE bbg' = AdvanceCheckpoint(b) /\ pc' = "idle"
  <2> DEFINE c == AdvanceCheckpoint(b)
  <2>1. IsBbg(c) /\ \A f \in Spoken : c[f] = b[f]
    BY <1>2, AdvanceQuiet
  <2> HIDE DEF c
  <2> QED BY <1>2, <1>3, <1>6, <2>1, QuietCall DEF c
<1>7. CASE /\ bbg' = b /\ start' = b /\ pc' = "prune"
           /\ plan' = [over |-> OverBudget(b), cands |-> candidates(b)]
  <2>1. plan' = [over |-> OverBudget(b), cands |-> plan'.cands] /\ plan'.cands = candidates(b)
    BY <1>7
  <2>2. Taken(b, b, candidates(b), candidates(b)) /\ Ordered(b, candidates(b), candidates(b))
    BY DEF Taken, Ordered
  <2>3. Cycle'
    BY <1>3, <1>5, <1>7, <2>1, <2>2 DEF Cycle
  <2> QED BY <1>3, <1>5, <1>7, <2>3 DEF FacadeInductive
<1> QED BY <1>4, <1>6, <1>7

\* The lightest candidate left, by the weights the cycle started from.
LEMMA FacadePrune ==
  ASSUME FacadeInductive, NEW a, prune(a) PROVE FacadeInductive'
<1> DEFINE c == remove_axon(bbg, a)
           C == candidates(start)
           rest == plan.cands
           left == rest \ {a}
<1>1. /\ bbg' = c /\ pc = "prune" /\ pc' = "prune" /\ start' = start /\ touched' = touched
      /\ plan' = [plan EXCEPT !.cands = left] /\ a \in Lightest(bbg, rest)
  BY DEF prune
<1>2. Cycle /\ Kempt(bbg)
  BY <1>1 DEF FacadeInductive
<1>3. /\ Woven(c) /\ c.last_touched = Del(bbg.last_touched, a)
      /\ c.particles = Del(bbg.particles, a)
      /\ DOMAIN c.axon_edges = DOMAIN bbg.axon_edges \ {a}
      /\ c.prune_config = bbg.prune_config
  BY <1>2, RemoveWoven DEF Kempt
<1> HIDE DEF c
<1>4. Kempt(c) /\ c.prune_config \in Configs /\ Recorded(c, touched)
  BY <1>2, <1>3 DEF FacadeInductive, Kempt, Recorded, Del
<1>5. a \in rest /\ \A q \in rest : Weight(bbg, a) <= Weight(bbg, q)
  BY <1>1 DEF Lightest
<1>6. Taken(start, bbg, C, rest)
  BY <1>2 DEF Cycle
<1> HIDE DEF C, rest
<1>7. rest \subseteq C /\ C \ left = (C \ rest) \cup {a}
  BY <1>5, <1>6 DEF Taken
<1>8. \A q \in rest : Weight(bbg, q) = Weight(start, q)
  BY <1>6 DEF Taken, Weight, Look
<1>9. Taken(start, c, C, left)
  <2>1. DOMAIN c.particles = DOMAIN start.particles \ (C \ left)
    BY <1>3, <1>6, <1>7 DEF Taken, Del
  <2>2. \A p \in DOMAIN c.particles : c.particles[p] = start.particles[p]
    BY <1>3, <1>6 DEF Taken, Del
  <2>3. DOMAIN c.axon_edges = DOMAIN start.axon_edges \ (C \ left)
    BY <1>3, <1>6, <1>7 DEF Taken
  <2> QED BY <1>7, <2>1, <2>2, <2>3 DEF Taken
<1>10. ASSUME OverBudget(start) PROVE Ordered(start, C, left)
  <2>1. Ordered(start, C, rest)
    BY <1>2, <1>10 DEF Cycle, C, rest
  <2> QED BY <1>5, <1>7, <1>8, <2>1 DEF Ordered
<1>11. plan' = [over |-> OverBudget(start), cands |-> plan'.cands] /\ plan'.cands = left
  BY <1>1, <1>2 DEF Cycle
<1>12. /\ Kempt(start) /\ start.prune_config \in Configs /\ Recorded(start, touched)
  BY <1>2 DEF Cycle
<1> HIDE DEF left
<1>13. Cycle'
  BY <1>1, <1>9, <1>10, <1>11, <1>12 DEF Cycle, C
<1> QED BY <1>1, <1>4, <1>13 DEF FacadeInductive

LEMMA FacadeEnd ==
  ASSUME FacadeInductive, finalize_end PROVE FacadeInductive'
<1> DEFINE c == AdvanceCheckpoint(bbg)
<1>1. bbg' = c /\ pc' = "idle" /\ touched' = touched /\ IsBbg(bbg)
  BY DEF finalize_end, FacadeInductive, Kempt, Woven
<1>2. IsBbg(c) /\ \A f \in Spoken : c[f] = bbg[f]
  BY <1>1, AdvanceQuiet
<1> HIDE DEF c
<1> QED BY <1>1, <1>2, QuietCall

LEMMA FacadeStep ==
  ASSUME FacadeInductive, [FacadeNext]_facade PROVE FacadeInductive'
<1>1. CASE UNCHANGED facade
  <2>1. bbg' = bbg /\ pc' = pc /\ plan' = plan /\ start' = start /\ touched' = touched
    BY <1>1 DEF facade
  <2> QED BY <2>1 DEF FacadeInductive, Cycle
<1>2. CASE FacadeNext
  BY <1>2, FacadeInsert, FacadeIntent, FacadeRecord, FacadeBlock, FacadeEnd, FacadePrune,
     FacadeRank, FacadeDiameter DEF FacadeNext, Finalize
<1> QED BY <1>1, <1>2

LEMMA FacadeKept == FacadeSpec => []FacadeInductive
<1> QED BY FacadeStarts, FacadeStep, PTL DEF FacadeSpec

\* On the direct path the adjacency indexes, the reverse edges and the touch
\* epochs agree after every call and after every single removal.
THEOREM FacadeIndexed == FacadeSpec => []Indexed
<1>1. FacadeInductive => Indexed
  BY WovenIndexed DEF FacadeInductive, Kempt, Indexed
<1> QED BY <1>1, FacadeKept, PTL

\* Every candidate of a cycle is below the rank floor.
LEMMA CandidatesBelow ==
  ASSUME NEW s, NEW p \in candidates(s) PROVE PiStar(s, p) < rank_floor(s)
BY DEF candidates, Competing

\* What FloorExact says of the records holds of an axon without one, whose
\* score is 0: with no record below the floor, all of them rank higher.
LEMMA BareBelow ==
  ASSUME NEW b, Woven(b), b.prune_config \in Configs,
         NEW a, a \notin DOMAIN b.particles, PiStar(b, a) < rank_floor(b)
  PROVE  100 * Cardinality({q \in DOMAIN b.particles : PiStar(b, q) > PiStar(b, a)})
           >= node_count(b) * b.prune_config.rank_floor_pct
<1> DEFINE I == DOMAIN b.particles
           n == node_count(b)
           pct == b.prune_config.rank_floor_pct
           High(p) == {q \in I : PiStar(b, q) > PiStar(b, p)}
           floor == rank_floor(b)
<1>1. PiStar(b, a) = 0
  BY DEF PiStar, Look, ZeroParticle
<1>2. /\ floor \in Nat /\ \A q \in I : PiStar(b, q) \in Nat
      /\ \A q \in I : PiStar(b, q) < floor => 100 * Cardinality(High(q)) >= n * pct
  BY FloorExact
<1>3. IsFiniteSet(I) /\ n = Cardinality(I) /\ n \in Nat
  BY FS_CardinalityType DEF Woven, Weighted, node_count
<1>4. pct \in Nat /\ pct <= 100
  BY FacadeAssumption
<1>5. High(a) \in SUBSET I
  OBVIOUS
<1>6. n * pct \in Nat /\ n * pct <= 100 * n
  <2>1. \A i, j \in Nat : i * j \in Nat /\ (j <= 100 => i * j <= 100 * i)
    <3>1. \A i, j, k \in Nat : i * (j + k) = i * j + i * k /\ i * k \in Nat
      OBVIOUS
    <3>2. ASSUME NEW i \in Nat, NEW j \in Nat, j <= 100 PROVE i * j <= 100 * i
      <4>1. PICK k \in Nat : 100 = j + k
        <5>1. 100 - j \in Nat /\ 100 = j + (100 - j)
          BY <3>2
        <5> QED BY <5>1
      <4>2. i * (j + k) = i * j + i * k /\ i * k \in Nat /\ i * j \in Nat
        BY <3>1
      <4>3. i * 100 = i * j + i * k
        BY <4>1, <4>2
      <4> QED BY <4>2, <4>3
    <3> QED BY <3>1, <3>2
  <2> HIDE DEF n, pct
  <2> QED BY <1>3, <1>4, <2>1
<1> HIDE DEF n, pct
<1>7. CASE \E q \in I : PiStar(b, q) < floor
  <2>1. PICK q \in I : PiStar(b, q) < floor
    BY <1>7
  <2>2. High(q) \in SUBSET High(a)
    BY <1>1, <1>2
  <2>3. 100 * Cardinality(High(q)) >= n * pct
    BY <1>2, <2>1
  <2> HIDE DEF High
  <2>4. IsFiniteSet(High(a)) /\ Cardinality(High(a)) \in Nat
    BY <1>3, <1>5, FS_Subset, FS_CardinalityType
  <2>5. Cardinality(High(q)) \in Nat /\ Cardinality(High(q)) <= Cardinality(High(a))
    BY <2>2, <2>4, FS_Subset, FS_CardinalityType
  <2>6. 100 * Cardinality(High(a)) >= n * pct
    BY <1>6, <2>3, <2>4, <2>5
  <2> QED BY <2>6 DEF High, n, pct
<1>8. CASE \A q \in I : PiStar(b, q) >= floor
  <2>1. High(a) = I
    BY <1>1, <1>2, <1>8
  <2> HIDE DEF High
  <2>2. 100 * Cardinality(High(a)) >= n * pct
    BY <1>3, <1>6, <2>1
  <2> QED BY <2>2 DEF High, n, pct
<1>9. (\E q \in I : PiStar(b, q) < floor) \/ \A q \in I : PiStar(b, q) >= floor
  BY <1>2
<1> QED BY <1>7, <1>8, <1>9

\* Whatever a cycle removes, record or bare axon, at least rank_floor_pct
\* percent of the particles rank strictly higher.  Under size pressure only
\* particle records go, none before a lighter record that the floor does not
\* protect; axons without a record stay, whatever their weight.
THEOREM FacadeRemovedByRank == FacadeSpec => []RemovedByRank
<1>1. FacadeInductive => RemovedByRank
  <2> SUFFICES ASSUME FacadeInductive, pc = "prune", NEW p \in Removed \cup RemovedAxons
               PROVE  /\ 100 * Cardinality({q \in DOMAIN start.particles :
                                              PiStar(start, q) > PiStar(start, p)})
                           >= node_count(start) * start.prune_config.rank_floor_pct
                      /\ OverBudget(start) =>
                           /\ p \in DOMAIN start.particles
                           /\ \A q \in DOMAIN bbg.particles :
                                Weight(start, q) < Weight(start, p) =>
                                  PiStar(start, q) >= rank_floor(start)
    BY DEF RemovedByRank
  <2> DEFINE C == candidates(start)
             rest == plan.cands
             floor == rank_floor(start)
             Higher(x) == 100 * Cardinality({r \in DOMAIN start.particles :
                                               PiStar(start, r) > PiStar(start, x)})
                            >= node_count(start) * start.prune_config.rank_floor_pct
  <2>1. Cycle
    BY DEF FacadeInductive
  <2>2. /\ floor \in Nat
        /\ \A q \in DOMAIN start.particles : PiStar(start, q) \in Nat /\ Weight(start, q) \in Nat
        /\ \A q \in DOMAIN start.particles : PiStar(start, q) < floor => Higher(q)
    BY <2>1, FloorExact DEF Cycle, Kempt
  <2>3. Taken(start, bbg, C, rest)
    BY <2>1 DEF Cycle
  <2>4. p \in C \ rest
    BY <2>3 DEF Taken, Removed, RemovedAxons
  <2>5. PiStar(start, p) < floor
    BY <2>4, CandidatesBelow
  <2>6. Higher(p)
    <3>1. CASE p \in DOMAIN start.particles
      BY <2>2, <2>5, <3>1
    <3>2. CASE p \notin DOMAIN start.particles
      BY <2>1, <2>5, <3>2, BareBelow DEF Cycle, Kempt
    <3> QED BY <3>1, <3>2
  <2>7. OverBudget(start) => p \in DOMAIN start.particles
    BY <2>4 DEF candidates, Competing
  <2>8. ASSUME OverBudget(start), NEW q \in DOMAIN bbg.particles, Weight(start, q) < Weight(start, p)
        PROVE  PiStar(start, q) >= floor
    <3>1. Ordered(start, C, rest)
      BY <2>1, <2>8 DEF Cycle
    <3>2. q \in DOMAIN start.particles /\ q \notin C \ rest
      BY <2>3 DEF Taken
    <3>3. p \in DOMAIN start.particles
      BY <2>7, <2>8
    <3>4. Weight(start, p) \in Nat /\ Weight(start, q) \in Nat /\ PiStar(start, q) \in Nat
      BY <2>2, <3>2, <3>3
    <3>5. q \notin rest
      BY <2>4, <2>8, <3>1, <3>4 DEF Ordered
    <3>6. q \notin C
      BY <3>2, <3>5
    <3>7. ~(PiStar(start, q) < floor)
      BY <2>8, <3>2, <3>6 DEF candidates, Competing
    <3> QED BY <2>2, <3>4, <3>7
  <2> HIDE DEF C, rest
  <2> QED BY <2>6, <2>7, <2>8
<1> QED BY <1>1, FacadeKept, PTL

\* Staleness as the code computes it, with saturation, is staleness as stated.
LEMMA StaleExact ==
  ASSUME NEW x \in Nat, NEW y \in Nat, NEW h \in Nat
  PROVE  SatSub(x, y) > h <=> x > y + h
BY DEF SatSub

\* Without size pressure a cycle removes stale edges only, and it does not end
\* before every stale edge below the floor is gone.
THEOREM FacadeHalfLife == FacadeSpec => HalfLifeExact
<1> DEFINE ByHalfLife ==
      pc = "prune" /\ ~OverBudget(start) =>
        /\ \A a \in RemovedAxons : Stale(a)
        /\ pc' = "idle" =>
             \A a \in DOMAIN bbg.axon_edges : Stale(a) => PiStar(start, a) >= rank_floor(start)
<1>1. FacadeInductive /\ [FacadeNext]_facade => [ByHalfLife]_facade
  <2> SUFFICES ASSUME FacadeInductive, [FacadeNext]_facade, pc = "prune", ~OverBudget(start)
               PROVE  /\ \A a \in RemovedAxons : Stale(a)
                      /\ pc' = "idle" =>
                           \A a \in DOMAIN bbg.axon_edges :
                             Stale(a) => PiStar(start, a) >= rank_floor(start)
    BY DEF ByHalfLife
  <2> DEFINE C == candidates(start)
             floor == rank_floor(start)
             half == start.prune_config.half_life_epochs
             now == start.height \div EpochBlocks
             lt == start.last_touched
  <2>1. Cycle
    BY DEF FacadeInductive
  <2>2. Taken(start, bbg, C, plan.cands) /\ plan.over = FALSE
    BY <2>1 DEF Cycle
  <2>3. half \in Nat /\ now \in Nat /\ floor \in Nat /\ DOMAIN lt = DOMAIN start.axon_edges
    <3>1. half \in Nat
      BY <2>1, FacadeAssumption DEF Cycle
    <3>2. start.height \in Nat
      BY <2>1, WidthAssumption DEF Cycle, Kempt, Woven, IsBbg
    <3>3. now \in Nat
      BY <3>2, EpochAssumption
    <3> QED BY <2>1, <3>1, <3>3, FloorExact DEF Cycle, Kempt
  <2>4. \A a \in DOMAIN lt : a \in C <=> PiStar(start, a) < floor /\ SatSub(now, lt[a]) > half
    BY DEF candidates, Competing
  <2>5. C \subseteq DOMAIN lt
    BY DEF candidates, Competing
  <2>6. ASSUME NEW a \in DOMAIN lt
        PROVE  Stale(a) <=> SatSub(now, lt[a]) > half
    <3>1. touched[a] \in Nat /\ lt[a] = Epoch(touched[a])
      BY <2>1 DEF Cycle, Recorded
    <3>2. Epoch(touched[a]) \in Nat
      BY <3>1, EpochAssumption DEF Epoch
    <3>3. now = Epoch(start.height)
      BY DEF Epoch
    <3> HIDE DEF now, half, lt
    <3>4. SatSub(now, lt[a]) > half <=> now > lt[a] + half
      BY <2>3, <3>1, <3>2, StaleExact
    <3> QED BY <3>1, <3>3, <3>4 DEF Stale, half
  <2> HIDE DEF C, floor, half, now, lt
  <2>7. ASSUME NEW a \in RemovedAxons PROVE Stale(a)
    <3>1. a \in C
      BY <2>2 DEF Taken, RemovedAxons
    <3> QED BY <2>4, <2>5, <2>6, <3>1
  <2>8. ASSUME pc' = "idle", NEW a \in DOMAIN bbg.axon_edges, Stale(a)
        PROVE  PiStar(start, a) >= floor
    <3>1. PruneOver
      BY <2>8 DEF FacadeNext, insert, apply_intent, apply_signal_record, finalize_block, Finalize,
         prune, finalize_end, SetRank, InstallDiameter, Call, facade
    <3>2. plan.cands = {}
      BY <2>2, <3>1 DEF PruneOver
    <3>3. a \in DOMAIN lt /\ a \notin C
      BY <2>2, <2>3, <2>8, <3>2 DEF Taken
    <3>4. ~(PiStar(start, a) < floor)
      BY <2>4, <2>6, <2>8, <3>3
    <3>5. PiStar(start, a) \in Nat
      <4>1. CASE a \in DOMAIN start.particles
        BY <2>1, <4>1, FloorExact DEF Cycle, Kempt
      <4>2. CASE a \notin DOMAIN start.particles
        BY <4>2 DEF PiStar, Look, ZeroParticle
      <4> QED BY <4>1, <4>2
    <3> QED BY <2>3, <3>4, <3>5
  <2> QED BY <2>7, <2>8 DEF floor
<1> QED BY <1>1, FacadeKept, PTL DEF FacadeSpec, HalfLifeExact
=============================================================================
