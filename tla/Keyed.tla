------------------------------- MODULE Keyed --------------------------------
(***************************************************************************)
(* Keyed (keyed.rs): a committed map.  Every mutation marks the key it     *)
(* touched and drops the cached legacy commitment; the next read of the    *)
(* commitment brings the leaves of the touched keys up to date.  Trie.tla  *)
(* shows that the root of a trie is a function of its leaves alone, so the *)
(* trie is here the map of its leaves.                                     *)
(*                                                                         *)
(* A guard (ValueMut) borrows the Keyed until it is dropped, so nothing    *)
(* runs between taking it and the drop that marks the key: an access       *)
(* through a guard is one operation.  A KeyedSet is a Keyed of units.      *)
(***************************************************************************)
EXTENDS Maps

Unit == <<>>

NewKeyed == [map |-> Empty, leaves |-> Empty, dirty |-> {}, legacy |-> <<>>]

touched(m, k) == [m EXCEPT !.legacy = <<>>, !.dirty = @ \cup {k}]

insert(m, k, v) == touched([m EXCEPT !.map = Put(@, k, v)], k)

\* Mutant: the removed key is not marked.
removeUnmarked(m, k) ==
  IF k \in DOMAIN m.map THEN [m EXCEPT !.map = Del(@, k), !.legacy = <<>>] ELSE m

remove(m, k) ==
  IF k \in DOMAIN m.map THEN touched([m EXCEPT !.map = Del(@, k)], k) ELSE m

clear(m) == NewKeyed

\* get_mut, a write of v through the guard, the drop.
get_mut(m, k, v) ==
  IF k \in DOMAIN m.map THEN touched([m EXCEPT !.map = Put(@, k, v)], k) ELSE m

\* entry(k).or_insert(default): the guard is dropped, whether or not v was
\* written through it (written is <<>> or <<v>>).
entry(m, k, default, written) ==
  LET old == Look(m.map, k, default)
  IN touched([m EXCEPT !.map = Put(@, k, IF written = <<>> THEN old ELSE written[1])], k)

\* flush, digests giving the leaf digest of every record: a touched key that is
\* gone loses its leaf.
flush(m, digests) ==
  [m EXCEPT
     !.leaves = [k \in (DOMAIN @ \ m.dirty) \cup (DOMAIN m.map \cap m.dirty) |->
                   IF k \in m.dirty THEN digests[k] ELSE @[k]],
     !.dirty  = {}]

\* legacy_commitment: what the cache holds after a read, c being what the
\* map commits to now.
legacy_commitment(m, c) == [m EXCEPT !.legacy = IF @ = <<>> THEN <<c>> ELSE @]
=============================================================================
