------------------------------ MODULE AxonIndex -----------------------------
(***************************************************************************)
(* AxonIndex (keyed.rs): adjacency.  For a particle, the list of axons in  *)
(* the order they came and the set of the same axons; a histogram of the   *)
(* lengths of the lists; and outer leaves (degree, root of the set) that   *)
(* the next commitment read brings up to date for the touched particles.   *)
(* The root of a set is the set itself.                                    *)
(***************************************************************************)
EXTENDS Naturals, Sequences, SequencesExt, FiniteSetsExt, Maps, Vec

NewIndex ==
  [map |-> Empty, degrees |-> Empty, sets |-> Empty, leaves |-> Empty,
   dirty |-> {}, legacy |-> <<>>]

degree(x, p) == Len(Look(x.map, p, <<>>))

mark(x, p) == [x EXCEPT !.legacy = <<>>, !.dirty = @ \cup {p}]

\* The histogram without one particle of degree d, and with one more.
Fewer(h, d) == IF h[d] = 1 THEN Del(h, d) ELSE Put(h, d, h[d] - 1)
More(h, d) == Put(h, d, Look(h, d, 0) + 1)

\* Mutant: the old degree keeps its count.
degree_gained(h, old, new) == IF new > 0 /\ old # new THEN More(h, new) ELSE h

degree_moved(h, old, new) ==
  LET left == IF old > 0 /\ old # new THEN Fewer(h, old) ELSE h
  IN IF new > 0 /\ old # new THEN More(left, new) ELSE left

\* add: an axon that the set has is not listed again.
add(x, p, a) ==
  LET set  == Look(x.sets, p, {})
      list == Look(x.map, p, <<>>)
  IN IF a \in set THEN x
     ELSE mark([x EXCEPT !.sets    = Put(@, p, set \cup {a}),
                         !.map     = Put(@, p, Append(list, a)),
                         !.degrees = degree_moved(@, Len(list), Len(list) + 1)], p)

\* remove: the whole list of p.
remove_list(x, p) ==
  IF p \notin DOMAIN x.map THEN x
  ELSE mark([x EXCEPT !.map = Del(@, p), !.sets = Del(@, p),
                      !.degrees = degree_moved(@, degree(x, p), 0)], p)

\* The filter of insert: each axon at its first position only.
Firsts(list) ==
  FoldLeft(LAMBDA kept, a : IF a \in ToSet(kept) THEN kept ELSE Append(kept, a), <<>>, list)

\* insert: the list of p is replaced.
insert_list(x, p, list) ==
  LET bare == remove_list(x, p)
      kept == Firsts(list)
  IN IF kept = <<>> THEN bare
     ELSE mark([bare EXCEPT !.map = Put(@, p, kept), !.sets = Put(@, p, ToSet(kept)),
                            !.degrees = degree_moved(@, 0, Len(kept))], p)

\* remove_axon: an emptied list goes.
remove_axon(x, p, a) ==
  LET rest == Retain(x.map[p], {a})
  IN IF a \notin Look(x.sets, p, {}) THEN x
     ELSE mark([x EXCEPT !.map     = IF rest = <<>> THEN Del(@, p) ELSE Put(@, p, rest),
                         !.sets    = IF rest = <<>> THEN Del(@, p) ELSE Put(@, p, @[p] \ {a}),
                         !.degrees = degree_moved(@, degree(x, p), Len(rest))], p)

\* truncate: the first n axons stay, the others leave the list and the set.
truncate(x, p, n) ==
  IF degree(x, p) <= n THEN x
  ELSE IF n = 0 THEN remove_list(x, p)
  ELSE mark([x EXCEPT !.map     = Put(@, p, SubSeq(@[p], 1, n)),
                      !.sets    = Put(@, p, @[p] \ ToSet(SubSeq(x.map[p], n + 1, Len(x.map[p])))),
                      !.degrees = degree_moved(@, degree(x, p), n)], p)

clear_index(x) == NewIndex

max_degree(x) == IF DOMAIN x.degrees = {} THEN 0 ELSE Max(DOMAIN x.degrees)

\* flush, digests giving the outer leaf of every particle with a list and a set.
flush_index(x, digests) ==
  [x EXCEPT
     !.leaves = [p \in (DOMAIN @ \ x.dirty) \cup (DOMAIN digests \cap x.dirty) |->
                   IF p \in x.dirty THEN digests[p] ELSE @[p]],
     !.dirty  = {}]
=============================================================================
