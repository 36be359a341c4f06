---------------------------- MODULE WriteBuffer ----------------------------
(***************************************************************************)
(* WriteBuffer (storage/buffer.rs): the cache of a shard store and the     *)
(* changes staged in it since its last commit.  MemStore is one buffer,    *)
(* DiskStore is one over the rows of a Database.  `dirty` is a vector with *)
(* one element per key, found through `positions`; `delete` takes an       *)
(* element out with swap_remove.  An absent value is <<>>, a value v is    *)
(* <<v>>, position 0 is no position.                                       *)
(***************************************************************************)
EXTENDS Integers, Sequences, FiniteSets

CONSTANTS
  Persistent,            \* entries (dimension, key) of the dimensions 0 to 12
  Local,                 \* entries of dimension EPHEMERAL
  Values,                \* field element vectors
  MAX_VALUE_ELEMENTS,    \* longest value a store takes
  MAX_PENDING_KEYS,      \* staged keys between two commits
  MAX_PENDING_ELEMENTS   \* elements of the staged values

ASSUME EntriesAssumption ==
  /\ Persistent \cap Local = {} /\ IsFiniteSet(Persistent)
  /\ \A v \in Values : v \in Seq(Int)
  /\ {MAX_VALUE_ELEMENTS, MAX_PENDING_KEYS, MAX_PENDING_ELEMENTS} \subseteq Nat

Entries == Persistent \cup Local

Option == {<<>>} \cup {<<v>> : v \in Values}

NewBuffer ==
  [cache |-> [e \in Entries |-> <<>>], dirty |-> <<>>, deleted |-> {},
   positions |-> [e \in Persistent |-> 0], elements |-> 0]

has_pending(b) == b.dirty # <<>> \/ b.deleted # {}

IsStaged(b, e) == b.positions[e] # 0

\* Mutant: staged deletions take no room.
check_put_capacity(b, e) ==
  e \in b.deleted \/ IsStaged(b, e) \/ Len(b.dirty) < MAX_PENDING_KEYS

check_key_capacity(b, e) ==
  \/ e \in b.deleted \/ IsStaged(b, e)
  \/ Len(b.dirty) + Cardinality(b.deleted) < MAX_PENDING_KEYS

\* Mutant: what is staged for e is counted still.
ElementsWithOld(b, e, v) == b.elements + Len(v)

\* The elements staged once v has replaced what is staged for e.
ElementsWith(b, e, v) ==
  b.elements - (IF IsStaged(b, e) THEN Len(b.dirty[b.positions[e]].value) ELSE 0)
             + Len(v)

CanPut(b, e, v) ==
  /\ Len(v) <= MAX_VALUE_ELEMENTS
  /\ e \in Persistent =>
       /\ ElementsWith(b, e, v) <= MAX_PENDING_ELEMENTS
       /\ check_key_capacity(b, e)

\* WriteBuffer::put; a local entry is cached and never staged.
Put(b, e, v) ==
  IF e \in Local THEN [b EXCEPT !.cache[e] = <<v>>] ELSE
  LET element == [key |-> e, value |-> v]
  IN [cache     |-> [b.cache EXCEPT ![e] = <<v>>],
      deleted   |-> b.deleted \ {e},
      elements  |-> ElementsWith(b, e, v),
      dirty     |-> IF IsStaged(b, e)
                    THEN [b.dirty EXCEPT ![b.positions[e]] = element]
                    ELSE Append(b.dirty, element),
      positions |-> IF IsStaged(b, e) THEN b.positions
                    ELSE [b.positions EXCEPT ![e] = Len(b.dirty) + 1]]

CanDelete(b, e) == e \in Persistent => check_key_capacity(b, e)

\* Vec::swap_remove: the last element takes the place of the one removed.
swap_remove(s, i) ==
  [j \in 1..(Len(s) - 1) |-> IF j = i THEN s[Len(s)] ELSE s[j]]

\* Mutant: the element that swap_remove moved keeps its old position.
UnstageForgetsMoved(b, e) ==
  [b EXCEPT !.dirty = swap_remove(b.dirty, b.positions[e]),
            !.elements = @ - Len(b.dirty[b.positions[e]].value),
            !.positions[e] = 0]

\* The buffer without the staged value of e.
Unstage(b, e) ==
  LET i    == b.positions[e]
      rest == swap_remove(b.dirty, i)
  IN [b EXCEPT
        !.dirty     = rest,
        !.elements  = @ - Len(b.dirty[i].value),
        !.positions = [f \in Persistent |->
                         IF f = e THEN 0
                         ELSE IF i <= Len(rest) /\ f = rest[i].key THEN i
                         ELSE @[f]]]

\* WriteBuffer::delete.
Delete(b, e) ==
  LET unstaged == IF e \in Persistent /\ IsStaged(b, e) THEN Unstage(b, e) ELSE b
  IN [unstaged EXCEPT !.cache[e] = <<>>,
                      !.deleted = IF e \in Persistent THEN @ \cup {e} ELSE @]

clear_pending(b) ==
  [b EXCEPT !.dirty = <<>>, !.deleted = {}, !.elements = 0,
            !.positions = [e \in Persistent |-> 0]]

\* WriteBuffer::finish, once the batch is on disk: only local values stay.
finish(b) ==
  [clear_pending(b) EXCEPT
     !.cache = [e \in Entries |-> IF e \in Local THEN @[e] ELSE <<>>]]

\* Mutant: the deletions are left out.
ChangesPut(b) ==
  [e \in {b.dirty[i].key : i \in DOMAIN b.dirty} |-> <<b.dirty[b.positions[e]].value>>]

\* The final change of each staged key: the puts in the order of dirty, then
\* the deletions.  change_id is a hash of it, and a disk commit carries it out.
Changes(b) ==
  LET Of(e)  == {i \in DOMAIN b.dirty : b.dirty[i].key = e}
      Last(e) == CHOOSE i \in Of(e) : \A j \in Of(e) : j <= i
  IN [e \in b.deleted \cup {f \in Persistent : Of(f) # {}} |->
        IF e \in b.deleted THEN <<>> ELSE <<b.dirty[Last(e)].value>>]

\* The rows (Persistent -> Option) after a batch of changes.
Applied(changes, rows) ==
  [e \in Persistent |-> IF e \in DOMAIN changes THEN changes[e] ELSE rows[e]]

-----------------------------------------------------------------------------

Elements == [key : Persistent, value : Values]

Buffers ==
  [cache : [Entries -> Option], dirty : Seq(Elements), deleted : SUBSET Persistent,
   positions : [Persistent -> Nat], elements : Int]

\* `positions` finds each element of `dirty` and nothing else, and no key is
\* staged for both a put and a deletion.
Exact(b) ==
  /\ \A i \in DOMAIN b.dirty : b.positions[b.dirty[i].key] = i
  /\ \A e \in Persistent : IsStaged(b, e) =>
       b.positions[e] \in DOMAIN b.dirty /\ b.dirty[b.positions[e]].key = e
  /\ \A e \in b.deleted : ~IsStaged(b, e)

WithinLimits(b) ==
  /\ b.elements <= MAX_PENDING_ELEMENTS
  /\ Len(b.dirty) + Cardinality(b.deleted) <= MAX_PENDING_KEYS

=============================================================================
