---------------------------- MODULE UnimemState ----------------------------
(***************************************************************************)
(* The state of UnimemStore (storage/unimem.rs:17-78) and what must hold   *)
(* of it whatever the calls were; module UnimemStore gives the calls.      *)
(***************************************************************************)
EXTENDS Integers, Sequences

CONSTANTS
  Dims, EPHEMERAL,    \* dimensions, and the one that is never staged
  Keys, Vectors,      \* field element vectors
  capacity,           \* expected_count: cells of a pool
  CellElements,       \* bytes_per_entry / 8
  Unknown,            \* any element of the memory behind a pool's block
  MaxDirty,           \* bound on the vector of staged changes
  MaxReservations     \* bound on the calls of reserve_pool

ASSUME CellsAssumption ==
  /\ \A v \in Vectors : v \in Seq(Int)
  /\ capacity \in Nat \ {0} /\ CellElements \in Nat \ {0}
  /\ MaxDirty \in Nat /\ MaxReservations \in Nat

VARIABLES
  entries,        \* values with a block of their own, <<>> for none
  pools,          \* the pool of each dimension, <<>> for none
  dirty,          \* the staged puts, in order
  panicked,       \* a put found the pool full
  reservations,   \* pools reserved so far
  owed,           \* entries written through get_mut since their last mark_dirty
  view,           \* history: what puts, in-place writes and removals left
  lost            \* history: entries a call of the store's user has spoilt

HasPool(d) == pools[d] # <<>>

HasCell(d, k) == HasPool(d) /\ pools[d][1].slots[k] # <<>>

\* The first element of a cell in the block, and that of the cell behind it.
Offset(index) == index * CellElements

\* The n elements of a block from a cell on.  Nothing keeps n within the cell,
\* or within the block.
Slice(block, index, n) ==
  [i \in 1..n |-> IF Offset(index) + i <= Offset(capacity)
                  THEN block[Offset(index) + i] ELSE Unknown]

\* UnimemStore::get: as many elements as the slot counts, or the block of the
\* entry.
get(d, k) ==
  IF HasCell(d, k)
  THEN LET slot == pools[d][1].slots[k][1]
       IN <<Slice(pools[d][1].block, slot.index, slot.count)>>
  ELSE entries[d][k]

-----------------------------------------------------------------------------

\* A read shows what the last put, in-place write or removal of the entry left,
\* whether it lives in a cell or in a block of its own (unimem.rs:80-112), and
\* whatever happens to the other entries.  An entry is lost, until it is put,
\* written or removed again, when its pool is reserved anew, when it is removed
\* from a pool that was reserved over it, when its value is wider than a cell, or
\* when such a value of its pool is written in place.
ReadsBack == \A d \in Dims, k \in Keys : <<d, k>> \notin lost => get(d, k) = view[d][k]

\* The last change staged for an entry is its current value, unless the entry is
\* lost or a caller owes the mark_dirty of a write in place; what was removed is
\* not staged.
StagedIsCurrent ==
  \A i \in DOMAIN dirty :
    LET x == dirty[i]
    IN (/\ <<x.dim, x.key>> \notin owed \cup lost /\ ~panicked
        /\ \A j \in DOMAIN dirty :
             dirty[j].dim = x.dim /\ dirty[j].key = x.key => j <= i)
       => get(x.dim, x.key) = <<x.value>>
=============================================================================
