------------------------------ MODULE ShardMap ------------------------------
(***************************************************************************)
(* What a shard store promises its caller (storage/mod.rs, ShardStore;     *)
(* docs/api/storage.md): reads show one map, a commit makes the persistent *)
(* part of it durable as a whole, and a failure freezes the store with the *)
(* batch either durable or not at all, until it is opened again.  Moving   *)
(* values between tiers is invisible.                                      *)
(***************************************************************************)
CONSTANTS Persistent, Local, Values

VARIABLES
  view,       \* what a read of each entry shows
  durable,    \* the rows a reopened store starts from
  archive,    \* what a store without a durable tier falls back to
  attached,   \* the store has its durable tier
  frozen      \* calls are refused until the store is opened again

shardVars == <<view, durable, archive, attached, frozen>>

Entries == Persistent \cup Local

Option == {<<>>} \cup {<<v>> : v \in Values}

\* The view of a store that was just opened over these rows.
Opened(rows) == [e \in Entries |-> IF e \in Persistent THEN rows[e] ELSE <<>>]

Init ==
  /\ durable \in [Persistent -> Option] /\ archive \in [Persistent -> Option]
  /\ attached = FALSE /\ frozen = FALSE /\ view = Opened(archive)

\* A put, a removal or a write in place.
Set(e, o) ==
  /\ ~frozen
  /\ view' = [view EXCEPT ![e] = o]
  /\ UNCHANGED <<durable, archive, attached, frozen>>

\* The durable tier is attached only while there is nothing it would hide.
Attach ==
  /\ ~attached
  /\ frozen \/ \A e \in Persistent : view[e] = archive[e]
  /\ attached' = TRUE
  /\ view' = [e \in Entries |-> IF e \in Persistent THEN durable[e] ELSE view[e]]
  /\ UNCHANGED <<durable, archive, frozen>>

Commit ==
  /\ ~frozen /\ attached
  /\ durable' = [e \in Persistent |-> view[e]]
  /\ UNCHANGED <<view, archive, attached, frozen>>

\* The batch is durable or lost, and there is nothing to read meanwhile.
Freeze ==
  /\ ~frozen
  /\ durable' = durable \/ (attached /\ durable' = [e \in Persistent |-> view[e]])
  /\ frozen' = TRUE /\ view' = Opened(durable')
  /\ UNCHANGED <<archive, attached>>

Reopen ==
  /\ attached' = FALSE /\ frozen' = FALSE /\ view' = Opened(archive)
  /\ UNCHANGED <<durable, archive>>

Next ==
  \/ Attach \/ Commit \/ Freeze \/ Reopen
  \/ \E e \in Entries : view'[e] # view[e] /\ Set(e, view'[e])

Spec == Init /\ [][Next]_shardVars
=============================================================================
