---------------------------- MODULE UnimemStore ----------------------------
(***************************************************************************)
(* UnimemStore (storage/unimem.rs): the HOT tier for unified memory.  A    *)
(* value has a block of its own, or a cell of the pool reserved for its    *)
(* dimension.  Whether a block of its own is pinned or on the heap makes   *)
(* no difference to a caller.  A call that answers an error changes        *)
(* nothing and is no action.                                               *)
(***************************************************************************)
EXTENDS UnimemState, Vec

vars == <<entries, pools, dirty, panicked, reservations, owed, view, lost>>

Nothing == [d \in Dims |-> [k \in Keys |-> <<>>]]

Init ==
  /\ entries = Nothing /\ pools = [d \in Dims |-> <<>>] /\ dirty = <<>>
  /\ panicked = FALSE /\ reservations = 0 /\ owed = {} /\ view = Nothing /\ lost = {}

-----------------------------------------------------------------------------

\* A block with the first w elements from a cell on replaced by v and zeros;
\* what falls behind the block is not the store's.
Overwrite(block, index, w, v) ==
  [i \in 1..Offset(capacity) |->
     IF i \in (Offset(index) + 1)..(Offset(index) + w)
     THEN IF i - Offset(index) <= Len(v) THEN v[i - Offset(index)] ELSE 0
     ELSE block[i]]

\* Mutant: a freed slot is given out without being taken from the free list.
alloc_slotTwice(pool, k) ==
  IF pool.slots[k] # <<>> THEN [pool |-> pool, index |-> pool.slots[k][1].index]
  ELSE IF pool.free # <<>> THEN [pool |-> pool, index |-> pool.free[Len(pool.free)]]
  ELSE [pool |-> [pool EXCEPT !.next_slot = @ + 1], index |-> pool.next_slot]

\* Pool::alloc_slot: the slot of the key, the slot freed last, or a new one.
alloc_slot(pool, k) ==
  IF pool.slots[k] # <<>> THEN [pool |-> pool, index |-> pool.slots[k][1].index]
  ELSE IF pool.free # <<>>
  THEN [pool  |-> [pool EXCEPT !.free = SubSeq(@, 1, Len(@) - 1)],
        index |-> pool.free[Len(pool.free)]]
  ELSE [pool |-> [pool EXCEPT !.next_slot = @ + 1], index |-> pool.next_slot]

\* A pool with v in the cell of k: what a cell holds of it is written, and all
\* of it is counted.
Pooled(pool, k, v) ==
  LET slot == alloc_slot(pool, k)
  IN [slot.pool EXCEPT
        !.block = Overwrite(@, slot.index, CellElements, v),
        !.slots[k] = <<[index |-> slot.index, count |-> Len(v)]>>]

Staged(d, k, v) ==
  IF d = EPHEMERAL THEN dirty ELSE Append(dirty, [dim |-> d, key |-> k, value |-> v])

\* The history of an entry after a call that spoilt it, or did not.
Lost(d, k, spoilt) == IF spoilt THEN lost \cup {<<d, k>>} ELSE lost \ {<<d, k>>}

\* The entries of d that have a cell.
InCells(d) == {<<d, k>> : k \in {j \in Keys : HasCell(d, j)}}

put(d, k, v) ==
  /\ ~panicked /\ Len(dirty) < MaxDirty
  /\ dirty' = Staged(d, k, v) /\ owed' = owed \ {<<d, k>>}
  /\ IF HasPool(d)
     THEN LET full == alloc_slot(pools[d][1], k).index >= capacity
          IN /\ panicked' = full
             /\ pools' = IF full THEN pools
                         ELSE [pools EXCEPT ![d] = <<Pooled(@[1], k, v)>>]
             /\ view' = IF full THEN view ELSE [view EXCEPT ![d][k] = <<v>>]
             /\ lost' = IF full THEN lost ELSE Lost(d, k, Len(v) > CellElements)
             /\ UNCHANGED entries
     ELSE /\ entries' = [entries EXCEPT ![d][k] = <<v>>]
          /\ view' = [view EXCEPT ![d][k] = <<v>>]
          /\ lost' = Lost(d, k, FALSE)
          /\ UNCHANGED <<pools, panicked>>
  /\ UNCHANGED reservations

\* A pool with v written through the slice of k.
Written(pool, k, v) ==
  [pool EXCEPT !.block = Overwrite(@, pool.slots[k][1].index, Len(v), v)]

\* The caller writes v through the slice it borrows.
get_mut(d, k, v) ==
  /\ ~panicked /\ get(d, k) # <<>> /\ Len(v) = Len(get(d, k)[1])
  /\ IF HasCell(d, k)
     THEN pools' = [pools EXCEPT ![d] = <<Written(@[1], k, v)>>] /\ UNCHANGED entries
     ELSE entries' = [entries EXCEPT ![d][k] = <<v>>] /\ UNCHANGED pools
  /\ view' = [view EXCEPT ![d][k] = <<v>>]
  /\ lost' = IF HasCell(d, k) /\ Len(v) > CellElements THEN lost \cup InCells(d)
             ELSE Lost(d, k, FALSE)
  /\ owed' = owed \cup {<<d, k>>}
  /\ UNCHANGED <<dirty, panicked, reservations>>

mark_dirty(d, k) ==
  /\ ~panicked /\ d # EPHEMERAL /\ get(d, k) # <<>> /\ Len(dirty) < MaxDirty
  /\ dirty' = Staged(d, k, get(d, k)[1]) /\ owed' = owed \ {<<d, k>>}
  /\ UNCHANGED <<entries, pools, panicked, reservations, view, lost>>

\* Mutant: what is staged for the entry stays.
UnstagedKept(d, k) == dirty

Unstaged(d, k) == Retain(dirty, {x \in ToSet(dirty) : x.dim = d /\ x.key = k})

\* A pool with the slot of k given back.
Freed(pool, k) ==
  [pool EXCEPT !.free = Append(@, pool.slots[k][1].index), !.slots[k] = <<>>]

\* In a dimension with a pool only the slot goes: a block of its own that the
\* entry had before the pool was reserved stays, and is read again.
remove(d, k) ==
  /\ ~panicked /\ get(d, k) # <<>>
  /\ IF HasPool(d)
     THEN /\ UNCHANGED entries
          /\ pools' = IF ~HasCell(d, k) THEN pools
                      ELSE [pools EXCEPT ![d] = <<Freed(@[1], k)>>]
     ELSE entries' = [entries EXCEPT ![d][k] = <<>>] /\ UNCHANGED pools
  /\ dirty' = Unstaged(d, k) /\ owed' = owed \ {<<d, k>>}
  /\ view' = [view EXCEPT ![d][k] = <<>>]
  /\ lost' = Lost(d, k, HasPool(d) /\ entries[d][k] # <<>>)
  /\ UNCHANGED <<panicked, reservations>>

commit ==
  /\ ~panicked /\ dirty' = <<>>
  /\ UNCHANGED <<entries, pools, panicked, reservations, owed, view, lost>>

\* A new block and an empty pool over it, in place of the pool the dimension
\* had and over the blocks its entries have.
reserve_pool(d) ==
  /\ ~panicked /\ reservations < MaxReservations
  /\ pools' = [pools EXCEPT ![d] =
       <<[block |-> [i \in 1..Offset(capacity) |-> 0],
          next_slot |-> 0, slots |-> [k \in Keys |-> <<>>], free |-> <<>>]>>]
  /\ lost' = lost \cup InCells(d)
  /\ reservations' = reservations + 1
  /\ UNCHANGED <<entries, dirty, panicked, owed, view>>

Next ==
  \/ \E d \in Dims : reserve_pool(d)
  \/ \E d \in Dims, k \in Keys : mark_dirty(d, k) \/ remove(d, k)
  \/ \E d \in Dims, k \in Keys, v \in Vectors : put(d, k, v) \/ get_mut(d, k, v)
  \/ commit

Spec == Init /\ [][Next]_vars
=============================================================================
