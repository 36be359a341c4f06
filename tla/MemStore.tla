------------------------------ MODULE MemStore ------------------------------
(***************************************************************************)
(* MemStore (storage/mem.rs): a shard store in memory, the HOT tier.  Its  *)
(* commit gives whoever persists or replicates the shards the batch of     *)
(* changes since the last one and keeps the cache.  A call that fails      *)
(* leaves the store as it was, so only the calls that succeed are actions. *)
(***************************************************************************)
EXTENDS MemState

vars == <<state, unmarked, replica>>

Init ==
  /\ state = NewBuffer /\ unmarked = {}
  /\ replica = [e \in Persistent |-> <<>>]

put(e, v) ==
  /\ CanPut(state, e, v)
  /\ state' = Put(state, e, v)
  /\ unmarked' = unmarked \ {e} /\ UNCHANGED replica

remove(e) ==
  /\ CanDelete(state, e)
  /\ state' = Delete(state, e)
  /\ unmarked' = unmarked \ {e} /\ UNCHANGED replica

\* The caller writes elements through the slice it borrows.
get_mut(e, v) ==
  /\ state.cache[e] # <<>> /\ Len(v) = Len(state.cache[e][1])
  /\ state' = [state EXCEPT !.cache[e] = <<v>>]
  /\ unmarked' = unmarked \cup {e} /\ UNCHANGED replica

mark_dirty(e) ==
  /\ e \in Persistent /\ state.cache[e] # <<>>
  /\ CanPut(state, e, state.cache[e][1])
  /\ state' = Put(state, e, state.cache[e][1])
  /\ unmarked' = unmarked \ {e} /\ UNCHANGED replica

commit ==
  /\ state' = clear_pending(state)
  /\ replica' = Applied(Changes(state), replica)
  /\ UNCHANGED unmarked

Next ==
  \/ \E e \in Entries : remove(e) \/ mark_dirty(e)
  \/ \E e \in Entries, v \in Values : put(e, v) \/ get_mut(e, v)
  \/ commit

Spec == Init /\ [][Next]_vars

=============================================================================
