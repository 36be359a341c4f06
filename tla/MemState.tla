------------------------------ MODULE MemState ------------------------------
(***************************************************************************)
(* The state of MemStore (storage/mem.rs:8) and what must hold of it       *)
(* whatever the calls were; module MemStore gives the calls.               *)
(***************************************************************************)
EXTENDS WriteBuffer, SequencesExt

VARIABLES
  state,      \* the WriteBuffer
  unmarked,   \* entries written through get_mut since their last mark_dirty
  replica     \* history: the rows the committed batches add up to

TypeOK ==
  /\ state \in Buffers
  /\ unmarked \subseteq Entries
  /\ replica \in [Persistent -> Option]

\* However puts and swap_removes moved its elements (buffer.rs:83), the vector
\* of staged values and its index agree, and no key is staged for both a put
\* and a deletion, which a commit would carry out in that order.
PositionsExact == Exact(state)

\* The elements of the values of a sequence of staged changes.
Size(changes) == FoldSeq(LAMBDA d, n : Len(d.value) + n, 0, changes)

\* The counter of pending elements is the number of elements staged: a
\* deletion or an overwrite gives back what it replaces (buffer.rs:49 and 84).
ElementsCounted == state.elements = Size(state.dirty)

\* Both limits hold after any sequence of calls (access.rs:6): staging a
\* deletion of a key whose put is pending, or the reverse, takes no new room.
PendingBounded == WithinLimits(state)

\* The batches committed so far followed by the batch pending add up to the
\* cache, but for entries written through get_mut without the mark_dirty that
\* mod.rs:140 asks of the caller: no sequence of puts, deletions, in-place
\* writes and commits makes a batch miss a change or undo one.
BatchesExplainCache ==
  \A e \in Persistent \ unmarked :
    Applied(Changes(state), replica)[e] = state.cache[e]

=============================================================================
