-------------------------------- MODULE Trie --------------------------------
(***************************************************************************)
(* Trie (trie.rs): the binary trie that commits a dimension.  Nodes live   *)
(* in a vector whose freed slots are reused; a branch exists only where    *)
(* two keys first differ; `set` and `remove` mark the branches above a     *)
(* change and `root` hashes the marked ones once.  A client holds a proof  *)
(* taken at some time and checks it against the root of a later one.       *)
(*                                                                         *)
(* Hashes are injective: a digest is the tuple of what is hashed.  A key   *)
(* is the sequence of its bits, the most significant first, and bits are   *)
(* counted from 1.  Index 0 is no node.                                    *)
(***************************************************************************)
EXTENDS Integers, Sequences, SequencesExt, FiniteSetsExt, Maps

CONSTANTS
  Width,       \* bits of a key; 256 in the code
  TrieKeys,    \* the keys used, sequences of Width bits
  Vals,        \* the values tried for each key
  MaxChanges   \* bound: calls of set and remove in a behaviour

ASSUME TrieAssumption ==
  /\ Width \in Nat /\ MaxChanges \in Nat
  /\ TrieKeys \subseteq [1..Width -> {0, 1}]

VARIABLES
  trie,        \* the Trie
  entries,     \* history: key -> <<v>>, or <<>> where the key is absent
  held,        \* the proof a client holds, <<>> before the first
  changes      \* calls of set and remove so far

trieVars == <<trie, entries, held, changes>>

EMPTY == <<>>

leaf_digest(k, v) == <<"leaf", k, v>>

branch_digest(bit, left, right) == <<"branch", bit, left, right>>

Leaf(k, d) == [kind |-> "leaf", key |-> k, digest |-> d]

Branch(bit, left, right) ==
  [kind |-> "branch", bit |-> bit, left |-> left, right |-> right,
   digest |-> EMPTY, dirty |-> TRUE]

\* What a freed slot holds is never read.
Freed == [kind |-> "freed"]

New == [nodes |-> <<>>, free |-> <<>>, root |-> 0, len |-> 0]

IsBranch(t, i) == t.nodes[i].kind = "branch"

first_diff_bit(a, b) == Min({i \in 1..Width : a[i] # b[i]})

Child(node, k) == IF k[node.bit] = 1 THEN node.right ELSE node.left

Sibling(node, k) == IF k[node.bit] = 1 THEN node.left ELSE node.right

-----------------------------------------------------------------------------
(* Trie::hash: only the marked branches, each after its children.          *)

\* For each node, the digest hash returns and the branches it hashes.
hash(t) ==
  LET h[i \in DOMAIN t.nodes] ==
        IF IsBranch(t, i) /\ t.nodes[i].dirty
        THEN LET l == h[t.nodes[i].left]
                 r == h[t.nodes[i].right]
             IN [digest |-> branch_digest(t.nodes[i].bit, l.digest, r.digest),
                 stale  |-> {i} \cup l.stale \cup r.stale]
        ELSE [digest |-> t.nodes[i].digest, stale |-> {}]
  IN h

\* What Trie::root answers, and the trie it leaves.
root(t) == IF t.root = 0 THEN EMPTY ELSE hash(t)[t.root].digest

Hashed(t) ==
  IF t.root = 0 THEN t ELSE
  [t EXCEPT !.nodes = [i \in DOMAIN t.nodes |->
     IF i \in hash(t)[t.root].stale
     THEN [t.nodes[i] EXCEPT !.digest = hash(t)[i].digest, !.dirty = FALSE]
     ELSE t.nodes[i]]]

-----------------------------------------------------------------------------

\* The slot alloc takes, a freed one before a new one, and the trie once a node is in it.
Slot(t) == IF t.free = <<>> THEN Len(t.nodes) + 1 ELSE Last(t.free)

alloc(t, node) ==
  [t EXCEPT !.nodes = Put(@, Slot(t), node), !.free = IF @ = <<>> THEN @ ELSE Front(@)]

release(t, i) == [t EXCEPT !.nodes[i] = Freed, !.free = Append(@, i)]

\* descend: the branches passed and, last, the leaf reached.  The bits grow along
\* the way, so that the loop ends within Width rounds.
descend(t, k) ==
  LET walk[n \in 0..Width] ==
        IF n = 0 THEN <<t.root>>
        ELSE LET w == walk[n - 1]
             IN IF IsBranch(t, Last(w)) THEN Append(w, Child(t.nodes[Last(w)], k)) ELSE w
  IN walk[Width]

\* Mutant: only the lowest branch is marked.
mark_last(t, path) ==
  IF path = <<>> THEN t ELSE [t EXCEPT !.nodes[Last(path)].dirty = TRUE]

mark(t, path) ==
  [t EXCEPT !.nodes = [i \in DOMAIN t.nodes |->
     IF i \in ToSet(path) THEN [t.nodes[i] EXCEPT !.dirty = TRUE] ELSE t.nodes[i]]]

\* The child `old` of a branch, or the root when there is no branch, becomes `new`.
replace_child(t, parents, old, new) ==
  IF parents = <<>> THEN [t EXCEPT !.root = new]
  ELSE IF t.nodes[Last(parents)].left = old
       THEN [t EXCEPT !.nodes[Last(parents)].left = new]
       ELSE [t EXCEPT !.nodes[Last(parents)].right = new]

\* A new leaf and a branch on bit j over it and `split`, below the branches kept.
SplitAt(t, k, d, j, keep, split) ==
  LET t1     == alloc(t, Leaf(k, d))
      branch == IF k[j] = 1 THEN Branch(j, split, Slot(t)) ELSE Branch(j, Slot(t), split)
      t2     == alloc(t1, branch)
      t3     == replace_child(t2, keep, split, Slot(t1))
  IN [mark(t3, keep) EXCEPT !.len = @ + 1]

\* Trie::set.
set(t, k, d) ==
  IF t.root = 0
  THEN [alloc(t, Leaf(k, d)) EXCEPT !.root = Slot(t), !.len = 1]
  ELSE LET walk == descend(t, k)
           path == Front(walk)
           leaf == t.nodes[Last(walk)]
       IN IF leaf.key = k
          THEN IF leaf.digest = d THEN t
               ELSE mark([t EXCEPT !.nodes[Last(walk)].digest = d], path)
          ELSE LET j    == first_diff_bit(k, leaf.key)
                   kept == Max({n \in 0..Len(path) : n = 0 \/ t.nodes[path[n]].bit < j})
                   keep == SubSeq(path, 1, kept)
               IN SplitAt(t, k, d, j, keep, walk[kept + 1])

\* Mutant: the branch above the removed leaf is not given back.
removeLeaking(t, k) ==
  LET walk == IF t.root = 0 THEN <<>> ELSE descend(t, k)
      path == Front(walk)
      rest == Front(path)
      t1   == [release(t, Last(walk)) EXCEPT !.len = @ - 1]
  IN IF walk = <<>> \/ t.nodes[Last(walk)].key # k THEN t
     ELSE IF path = <<>> THEN [t1 EXCEPT !.root = 0]
     ELSE mark(replace_child(t1, rest, Last(path), Sibling(t.nodes[Last(path)], k)), rest)

\* Trie::remove: the sibling takes the place of the branch above the leaf.
remove(t, k) ==
  LET walk == IF t.root = 0 THEN <<>> ELSE descend(t, k)
      path == Front(walk)
      rest == Front(path)
      t1   == [release(t, Last(walk)) EXCEPT !.len = @ - 1]
      t2   == release(t1, Last(path))
  IN IF walk = <<>> \/ t.nodes[Last(walk)].key # k THEN t
     ELSE IF path = <<>> THEN [t1 EXCEPT !.root = 0]
     ELSE mark(replace_child(t2, rest, Last(path), Sibling(t.nodes[Last(path)], k)), rest)

\* Trie::get.
get(t, k) ==
  IF t.root = 0 THEN <<>>
  ELSE LET leaf == t.nodes[Last(descend(t, k))]
       IN IF leaf.key = k THEN <<leaf.digest>> ELSE <<>>

\* The steps and the terminal leaf of k's path, with the digests stored.
PathProof(t, k) ==
  IF t.root = 0 THEN [steps |-> <<>>, terminal |-> <<>>]
  ELSE LET walk == descend(t, k)
           leaf == t.nodes[Last(walk)]
       IN [steps    |-> [n \in 1..(Len(walk) - 1) |->
                           LET b == t.nodes[walk[n]]
                           IN [bit |-> b.bit, sibling |-> t.nodes[Sibling(b, k)].digest]],
           terminal |-> <<leaf.key, leaf.digest>>]

\* Mutant: the digests are read without hashing what is marked.
proveUnhashed(t, k) == PathProof(t, k)

\* Trie::prove: the root is computed first.
prove(t, k) == PathProof(Hashed(t), k)

\* TrieProof::verify; expected is <<>> for a key claimed absent.  cur[n] is the
\* digest after the n lowest steps.
verify(p, rt, k, expected) ==
  LET N == Len(p.steps)
      cur[n \in 0..N] ==
        IF n = 0 THEN p.terminal[2]
        ELSE LET s == p.steps[N + 1 - n]
             IN IF k[s.bit] = 1 THEN branch_digest(s.bit, s.sibling, cur[n - 1])
                ELSE branch_digest(s.bit, cur[n - 1], s.sibling)
  IN IF p.terminal = <<>>
     THEN expected = <<>> /\ p.steps = <<>> /\ rt = EMPTY
     ELSE /\ IF expected = <<>> THEN p.terminal[1] # k
             ELSE p.terminal[1] = k /\ p.terminal[2] = expected[1]
          /\ \A n \in 1..(N - 1) : p.steps[n].bit < p.steps[n + 1].bit
          /\ rt = cur[N]

-----------------------------------------------------------------------------
(* What the entries determine.                                             *)

Present == {k \in TrieKeys : entries[k] # <<>>}

\* The leaf digest the entry of k has to have, <<>> where there is none.
Claim(k) == IF entries[k] = <<>> THEN <<>> ELSE <<leaf_digest(k, entries[k][1])>>

\* The first bit in which keys of S differ.
SplitBit(S) == Min({b \in 1..Width : \E k, l \in S : k[b] # l[b]})

\* The digest of each set of keys, from the set alone.
Canonical ==
  LET node[S \in SUBSET TrieKeys] ==
        IF S = {} THEN EMPTY
        ELSE IF \E k \in S : S = {k} THEN Claim(CHOOSE k \in S : TRUE)[1]
        ELSE branch_digest(SplitBit(S), node[{k \in S : k[SplitBit(S)] = 0}],
                                        node[{k \in S : k[SplitBit(S)] = 1}])
  IN node

-----------------------------------------------------------------------------
(* The operations in any order, by the trie's owner and by a client that    *)
(* takes a proof now and then.                                             *)

TrieInit ==
  /\ trie = New
  /\ entries = [k \in TrieKeys |-> <<>>]
  /\ held = <<>>
  /\ changes = 0

Set(k, v) ==
  /\ changes < MaxChanges
  /\ trie' = set(trie, k, leaf_digest(k, v))
  /\ entries' = [entries EXCEPT ![k] = <<v>>]
  /\ changes' = changes + 1
  /\ UNCHANGED held

Unset(k) ==
  /\ changes < MaxChanges
  /\ trie' = remove(trie, k)
  /\ entries' = [entries EXCEPT ![k] = <<>>]
  /\ changes' = changes + 1
  /\ UNCHANGED held

Root == trie' = Hashed(trie) /\ UNCHANGED <<entries, held, changes>>

Prove(k) ==
  /\ trie' = Hashed(trie)
  /\ held' = <<prove(trie, k)>>
  /\ UNCHANGED <<entries, changes>>

TrieNext ==
  \/ \E k \in TrieKeys : \E v \in Vals[k] : Set(k, v)
  \/ \E k \in TrieKeys : Unset(k)
  \/ Root
  \/ \E k \in TrieKeys : Prove(k)

TrieSpec == TrieInit /\ [][TrieNext]_trieVars

-----------------------------------------------------------------------------
(* Properties.                                                             *)

\* Whatever the order of insertions, changes, removals and root reads before,
\* Trie::root gives the digest that the present entries alone determine: no
\* change is missing from the cached digests and no removal leaves a trace.
RootCanonical == root(trie) = Canonical[Present]

\* The nodes that lead to some key, and the nodes below a node.
Reached == IF trie.root = 0 THEN {} ELSE UNION {ToSet(descend(trie, k)) : k \in TrieKeys}

Below(i) == IF IsBranch(trie, i) THEN {trie.nodes[i].left, trie.nodes[i].right} ELSE {}

\* set and remove neither leak a node nor free one in use: every slot either
\* leads to a key, from one place, or is on the free list, once, and `len` and
\* `get` answer for the entries.
ArenaExact ==
  /\ Reached \cup ToSet(trie.free) = DOMAIN trie.nodes /\ Reached \cap ToSet(trie.free) = {}
  /\ \A m, n \in DOMAIN trie.free : trie.free[m] = trie.free[n] => m = n
  /\ \A i \in Reached : /\ Below(i) \subseteq Reached \ {trie.root}
                        /\ IsBranch(trie, i) => trie.nodes[i].left # trie.nodes[i].right
  /\ \A i, j \in Reached : i # j => Below(i) \cap Below(j) = {}
  /\ trie.len = Cardinality(Present)
  /\ \A k \in TrieKeys : get(trie, k) = Claim(k)

\* A proof binds: a proof that Trie::prove made of any earlier state passes
\* TrieProof::verify under the present root only for what is true now, and the
\* one made now passes for exactly that.
ProofsBind ==
  LET Claims(k) == {<<>>} \cup {<<leaf_digest(k, v)>> : v \in Vals[k]}
      rt        == root(trie)
  IN /\ held # <<>> =>
          \A k \in TrieKeys : \A c \in Claims(k) : verify(held[1], rt, k, c) => c = Claim(k)
     /\ \A k \in TrieKeys : verify(prove(trie, k), rt, k, Claim(k))
=============================================================================
