----------------------------- MODULE Dimensions -----------------------------
(***************************************************************************)
(* The committed dimensions of a BbgState (state.rs, state/commits.rs,     *)
(* position.rs, dim.rs, root.rs): Keyed maps, an adjacency index, the      *)
(* cards with their index by axon, and the root that binds them.           *)
(*                                                                         *)
(* Six of the Keyed dimensions stand for all: particles, locations, coins, *)
(* files and commitments are Keyed maps of scalars like neurons; axons_in  *)
(* is a second axons_out.  hemera and the Brakedown commitment are         *)
(* injective: a digest is what is hashed, a commitment the padded table.   *)
(* A limb is a number below Base and a byte string a sequence of limbs.    *)
(***************************************************************************)
EXTENDS Integers, Keyed, AxonIndex

CONSTANTS
  Base,          \* values of a limb: 2^32 in the code
  KEY_FIELDS,    \* limbs of a 32-byte string: 8 in the code
  Ids,           \* the 32-byte identifiers in use
  Keys,          \* the keys used in each Keyed dimension
  Records,       \* the records used for each key of each Keyed dimension
  Links,         \* the axons used in the list of each particle
  Lists,         \* the lists a caller replaces an adjacency list by
  stake_key(_),  \* the hash of a card: where balances hold its stake
  Subjects       \* bound: the sets of dimensions one behaviour changes

VARIABLES
  keyed,         \* the Keyed dimensions
  axons_out,     \* the AxonIndex
  by_axon,       \* Cards: axon -> card -> stake key
  root_version,  \* the derivation of the root in force
  subject        \* the dimensions this behaviour changes

dimVars == <<keyed, axons_out, by_axon, root_version, subject>>

KeyedDims == {"neurons", "cards", "time", "signals", "balances", "nullifiers"}

\* 32-byte strings, and the records of a dimension.
Strings == [1..KEY_FIELDS -> 0..(Base - 1)]

RecordOf(d) ==
  CASE d \in {"neurons", "balances"} -> Nat
    [] d = "time"       -> Strings
    [] d = "nullifiers" -> {Unit}
    [] d = "cards"      -> [particle : Strings, valence : {"against", "neutral", "for"}]
    [] d = "signals"    -> [neuron : Strings, network : Strings, link_count : Nat, step : Nat]

ASSUME DimensionAssumption ==
  /\ Base \in Nat \ {0} /\ KEY_FIELDS \in Nat /\ KEY_FIELDS >= 2
  /\ \A c, e \in Ids : stake_key(c) = stake_key(e) => c = e
  /\ Subjects \subseteq SUBSET (KeyedDims \cup {"axons_out"})
  /\ IsFiniteSet(Ids) /\ Links \in [Ids -> SUBSET Ids]
  /\ \A list \in Lists : list \in Seq(Ids)
  /\ Ids \subseteq Strings
  /\ \A d \in KeyedDims : \A k \in Keys[d] :
       /\ k \in (IF d = "time" THEN Nat ELSE Strings)
       /\ \A r \in Records[d][k] : r \in RecordOf(d)

-----------------------------------------------------------------------------
(* Encodings *)

u64_limbs(v) == <<v % Base, v \div Base>>

byte(valence) == CASE valence = "against" -> 0 [] valence = "neutral" -> 1 [] valence = "for" -> 2

\* Heights are little-endian; every other key is its bytes.
key_bytes(d, k) ==
  IF d = "time" THEN u64_limbs(k) \o [i \in 1..(KEY_FIELDS - 2) |-> 0] ELSE k

\* LeafValue: the fields of a record.  Of a neuron the first number stands for
\* all four; owner, author, since, block_height and proof_hash are left out:
\* nothing here reads them.
leaf_vals(d, r) ==
  CASE d \in {"neurons", "balances"} -> u64_limbs(r)
    [] d = "time"       -> r
    [] d = "nullifiers" -> Unit
    [] d = "cards"      -> r.particle \o u64_limbs(byte(r.valence))
    [] d = "signals"    -> r.neuron \o r.network \o u64_limbs(r.link_count) \o u64_limbs(r.step)

leaf(d, k, r) == <<key_bytes(d, k), leaf_vals(d, r)>>

outer_leaf(p, n, set) == <<p, u64_limbs(n), set>>

\* The order of byte strings, and of the keys of a dimension.
BytesLess(s, t) ==
  \E i \in DOMAIN s : s[i] < t[i] /\ \A j \in 1..(i - 1) : s[j] = t[j]

KeyLess(d, k, l) == IF d = "time" THEN k < l ELSE BytesLess(k, l)

\* A set of keys in their order: as many are before one as precede it.
InOrder(d, S) ==
  [i \in 1..Cardinality(S) |->
     CHOOSE k \in S : Cardinality({o \in S : KeyLess(d, o, k)}) = i - 1]

\* dim_entries and commit_n: keys and fields in the order of the map.
KeyedEntries(d, map) ==
  LET ks == InOrder(d, DOMAIN map)
  IN [n \in DOMAIN ks |->
        [key  |-> key_bytes(d, ks[n]),
         vals |-> IF d = "nullifiers" THEN <<1>> ELSE leaf_vals(d, map[ks[n]])]]

AxonEntries(map) ==
  LET ps == InOrder("axons_out", DOMAIN map)
  IN [n \in DOMAIN ps |->
        [key  |-> ps[n],
         vals |-> u64_limbs(Len(map[ps[n]])) \o FlattenSeq(map[ps[n]])]]

TABLE_VERSION == 2

HEADER_FIELDS == 3

\* dim_serialize
dim_serialize(entries) ==
  LET cells == FlattenSeq([n \in DOMAIN entries |-> entries[n].key \o entries[n].vals])
  IN <<TABLE_VERSION, HEADER_FIELDS + Len(cells), Len(entries)>> \o cells

next_power_of_two(n) == Min({m \in {2^i : i \in 0..n} : m >= n})

\* commit_fields: the table is padded with zeros.
commit_fields(fields) ==
  <<"v1", [i \in 1..next_power_of_two(Len(fields)) |->
             IF i <= Len(fields) THEN fields[i] ELSE 0]>>

commit_keyed(d, map) == commit_fields(dim_serialize(KeyedEntries(d, map)))

commit_axons(map) == commit_fields(dim_serialize(AxonEntries(map)))

-----------------------------------------------------------------------------
(* Roots *)

Flushed(d, m) == flush(m, [k \in DOMAIN m.map |-> leaf(d, k, m.map[k])])

FlushedIndex(x) ==
  flush_index(x, [p \in DOMAIN x.map \cap DOMAIN x.sets |->
                    outer_leaf(p, Len(x.map[p]), x.sets[p])])

\* statistics: sizes of the public relations and the largest degree.
statistics ==
  [relation_sizes |-> [d \in KeyedDims \ {"nullifiers"} |-> Cardinality(DOMAIN keyed[d].map)],
   lists          |-> Cardinality(DOMAIN axons_out.map),
   max_degree     |-> max_degree(axons_out)]

\* v1_leaves and v2_leaves: the dimensions as the read of the root leaves them.
ReadKeyed ==
  [d \in KeyedDims |->
     IF root_version = "V2" THEN Flushed(d, keyed[d])
     ELSE legacy_commitment(keyed[d], commit_keyed(d, keyed[d].map))]

ReadAxons ==
  IF root_version = "V2" THEN FlushedIndex(axons_out)
  ELSE legacy_commitment(axons_out, commit_axons(axons_out.map))

\* The leaf a dimension has once it was read.
RootLeaf(m) == IF root_version = "V2" THEN <<"v2", m.leaves>> ELSE m.legacy[1]

\* root_leaves; the root is an injective fold of them.
root_leaves ==
  [dims  |-> [d \in KeyedDims \cup {"axons_out"} |->
                RootLeaf(IF d = "axons_out" THEN ReadAxons ELSE ReadKeyed[d])],
   stats |-> statistics]

-----------------------------------------------------------------------------
(* Cards and positions *)

Listed(index, axon, c, key) == Put(index, axon, Put(Look(index, axon, Empty), c, key))

unindex(index, axon, c) ==
  LET rest == Del(index[axon], c)
  IN IF DOMAIN rest = {} THEN Del(index, axon) ELSE Put(index, axon, rest)

\* Mutant: a card that changes its axon stays listed under the old one.
insert_card_twice(c, r) ==
  LET old == keyed["cards"].map
  IN IF c \in DOMAIN old /\ old[c].particle = r.particle THEN by_axon
     ELSE Listed(by_axon, r.particle, c, stake_key(c))

\* Cards::insert, the index: a card that changes its axon keeps its stake key.
insert_card(c, r) ==
  LET old == keyed["cards"].map
  IN IF c \notin DOMAIN old THEN Listed(by_axon, r.particle, c, stake_key(c))
     ELSE IF old[c].particle = r.particle THEN by_axon
     ELSE Listed(unindex(by_axon, old[c].particle, c), r.particle, c, by_axon[old[c].particle][c])

\* Cards::remove, the index.
remove_card(c) ==
  LET old == keyed["cards"].map
  IN IF c \in DOMAIN old THEN unindex(by_axon, old[c].particle, c) ELSE by_axon

Side(valence) == IF valence = "against" THEN "minus" ELSE "plus"

is_active(valence) == valence # "neutral"

balance_at(key) == Look(keyed["balances"].map, key, 0)

\* indexed: the cards of an axon with their records, read through the index.
indexed(axon) ==
  {[card |-> c, record |-> keyed["cards"].map[c], stake |-> balance_at(by_axon[axon][c])] :
     c \in DOMAIN Look(by_axon, axon, Empty)}

\* The sum of the values of a map.
SumOf(w) == MapThenSumSet(LAMBDA x : w[x], DOMAIN w)

SumStake(P) == SumOf([p \in P |-> p.stake])

side_sums(axon) ==
  [plus  |-> SumStake({p \in indexed(axon) : Side(p.record.valence) = "plus"}),
   minus |-> SumStake({p \in indexed(axon) : Side(p.record.valence) = "minus"})]

\* positions: the snapshot the chain takes at an epoch.
positions ==
  LET all == {<<a, indexed(a)>> : a \in DOMAIN by_axon}
  IN [axons  |-> {[axon |-> x[1], sums |-> side_sums(x[1]), positions |-> x[2]] : x \in all},
      len    |-> SumOf([x \in all |-> Cardinality(x[2])]),
      total  |-> SumOf([x \in all |-> side_sums(x[1]).plus + side_sums(x[1]).minus]),
      active |-> SumOf([x \in all |-> SumStake({p \in x[2] : is_active(p.record.valence)})])]

-----------------------------------------------------------------------------
(* The operations *)

DimInit ==
  /\ keyed = [d \in KeyedDims |-> NewKeyed]
  /\ axons_out = NewIndex
  /\ by_axon = Empty
  /\ root_version = "V2"
  /\ subject \in Subjects

\* A mutation of one Keyed dimension other than the cards.
Mutate(d, m) ==
  /\ d \in subject
  /\ keyed' = [keyed EXCEPT ![d] = m]
  /\ UNCHANGED <<axons_out, by_axon, root_version, subject>>

Insert(d, k, r) == Mutate(d, insert(keyed[d], k, r))

Delete(d, k) == Mutate(d, remove(keyed[d], k))

Clear(d) == Mutate(d, clear(keyed[d]))

\* A KeyedSet hands out no guard.
Modify(d, k, r) == d # "nullifiers" /\ Mutate(d, get_mut(keyed[d], k, r))

Enter(d, k, default, written) ==
  d # "nullifiers" /\ Mutate(d, entry(keyed[d], k, default, written))

\* A mutation of the cards: the records, then the index.
MutateCards(m, index) ==
  /\ "cards" \in subject
  /\ keyed' = [keyed EXCEPT !["cards"] = m]
  /\ by_axon' = index
  /\ UNCHANGED <<axons_out, root_version, subject>>

InsertCard(c, r) == MutateCards(insert(keyed["cards"], c, r), insert_card(c, r))

RemoveCard(c) == MutateCards(remove(keyed["cards"], c), remove_card(c))

ClearCards == MutateCards(clear(keyed["cards"]), Empty)

\* A mutation of the adjacency.
MutateAxons(x) ==
  /\ "axons_out" \in subject
  /\ axons_out' = x
  /\ UNCHANGED <<keyed, by_axon, root_version, subject>>

AddAxon(p, a) == MutateAxons(add(axons_out, p, a))

InsertList(p, list) == MutateAxons(insert_list(axons_out, p, list))

RemoveList(p) == MutateAxons(remove_list(axons_out, p))

RemoveAxon(p, a) == MutateAxons(remove_axon(axons_out, p, a))

Truncate(p, n) == MutateAxons(truncate(axons_out, p, n))

ClearAxons == MutateAxons(clear_index(axons_out))

\* commitment and prove of one dimension.
Commitment(d) ==
  /\ keyed' = [keyed EXCEPT ![d] = Flushed(d, @)]
  /\ UNCHANGED <<axons_out, by_axon, root_version, subject>>

CommitmentAxons ==
  /\ axons_out' = FlushedIndex(axons_out)
  /\ UNCHANGED <<keyed, by_axon, root_version, subject>>

\* root, compute_root and refresh_root.
Root ==
  /\ keyed' = ReadKeyed
  /\ axons_out' = ReadAxons
  /\ UNCHANGED <<by_axon, root_version, subject>>

set_root_version(v) ==
  /\ root_version' = v
  /\ UNCHANGED <<keyed, axons_out, by_axon, subject>>

\* Axon ids are particles.
MutateNext ==
  \/ \E d \in KeyedDims \ {"cards"} :
       \/ \E k \in Keys[d] : \E r \in Records[d][k] : Insert(d, k, r) \/ Modify(d, k, r)
       \/ \E k \in Keys[d] : Delete(d, k)
       \/ \E k \in Keys[d] : \E r \in Records[d][k] :
            \E w \in {<<>>} \cup {<<q>> : q \in Records[d][k]} : Enter(d, k, r, w)
       \/ Clear(d)
  \/ \E c \in Keys["cards"] : \E r \in Records["cards"][c] : InsertCard(c, r)
  \/ \E c \in Keys["cards"] : RemoveCard(c)
  \/ ClearCards
  \/ \E p \in Ids : \E a \in Links[p] : AddAxon(p, a) \/ RemoveAxon(p, a)
  \/ \E p \in Ids, list \in Lists : ToSet(list) \subseteq Links[p] /\ InsertList(p, list)
  \/ \E p \in Ids : RemoveList(p)
  \/ \E p \in Ids : \E n \in 0..Cardinality(Links[p]) : Truncate(p, n)
  \/ ClearAxons
  \/ \E v \in {"V1", "V2"} : set_root_version(v)

ReadNext == (\E d \in KeyedDims : Commitment(d)) \/ CommitmentAxons \/ Root

DimNext == MutateNext \/ ReadNext

DimSpec == DimInit /\ [][DimNext]_dimVars

-----------------------------------------------------------------------------
(* Properties *)

\* Every commitment read is current: whichever operations touched a
\* dimension since, what Keyed::commitment and AxonIndex::commitment hash is
\* the leaves of the present records and no other, and a cached legacy
\* commitment is the one of the present table ("the root is never stale").
CommitmentsCurrent ==
  /\ \A d \in KeyedDims :
       LET m == keyed[d] IN
       /\ Flushed(d, m).leaves = [k \in DOMAIN m.map |-> leaf(d, k, m.map[k])]
       /\ m.legacy \in {<<>>, <<commit_keyed(d, m.map)>>}
  /\ FlushedIndex(axons_out).leaves =
       [p \in DOMAIN axons_out.map |->
          outer_leaf(p, Len(axons_out.map[p]), axons_out.sets[p])]
  /\ axons_out.legacy \in {<<>>, <<commit_axons(axons_out.map)>>}

\* An adjacency list mirrors its set: the same axons, none twice, no list
\* empty; and the degree histogram counts the lists, so that the largest
\* degree under the root is exact.
ListsMirrorSets ==
  LET x == axons_out IN
  /\ DOMAIN x.map = DOMAIN x.sets
  /\ \A p \in DOMAIN x.map :
       /\ x.map[p] # <<>> /\ ToSet(x.map[p]) = x.sets[p]
       /\ Cardinality(x.sets[p]) = Len(x.map[p])
  /\ DOMAIN x.degrees = {Len(x.map[p]) : p \in DOMAIN x.map}
  /\ \A n \in DOMAIN x.degrees :
       x.degrees[n] = Cardinality({p \in DOMAIN x.map : Len(x.map[p]) = n})

\* The position of a card, from its record and its stake balance alone.
PositionOf(c) ==
  [card |-> c, record |-> keyed["cards"].map[c], stake |-> balance_at(stake_key(c))]

\* The snapshot taken through the axon index is the one the committed cards
\* and balances determine: every card once, under the axon of its record,
\* with its stake on the side of its valence.
SnapshotExact ==
  LET cards  == keyed["cards"].map
      all    == {PositionOf(c) : c \in DOMAIN cards}
      Of(a)  == {p \in all : p.record.particle = a}
      Sum(P) == SumOf([p \in P |-> p.stake])
  IN /\ positions.axons =
          {[axon |-> a,
            sums |-> [plus  |-> Sum({p \in Of(a) : p.record.valence # "against"}),
                      minus |-> Sum({p \in Of(a) : p.record.valence = "against"})],
            positions |-> Of(a)] : a \in {p.record.particle : p \in all}}
     /\ positions.len = Cardinality(DOMAIN cards)
     /\ positions.total = Sum(all)
     /\ positions.active = Sum({p \in all : p.record.valence # "neutral"})
=============================================================================
