---------------------------- MODULE TieredStore ----------------------------
(***************************************************************************)
(* TieredStore (storage/tiered.rs): a MemStore as HOT cache and a          *)
(* DiskStore (storage/disk.rs) as the WARM tier that owns the persistent   *)
(* entries, over the shard tables of a Database that other views share.    *)
(* COLD is an archive read only while there is no WARM tier.  Each tier is *)
(* a WriteBuffer; a call stages in WARM, then in HOT, and either may       *)
(* refuse.  A call refused before it changed anything is no action.        *)
(***************************************************************************)
EXTENDS WriteBuffer

CONSTANT Archives   \* contents of the COLD tier a store may be made with

ASSUME ArchivesAssumption == Archives \subseteq [Persistent -> Option]

VARIABLES
  hot,          \* WriteBuffer of the HOT tier
  warm,         \* WriteBuffer of the WARM tier
  attached,     \* with_warm was called
  cold,         \* the rows of the COLD tier, none for no archive
  failure,      \* TieredStore::failure
  rows,         \* the committed shard tables
  marker,       \* the last_commit record: the identity of a batch, or <<>>
  poisoned,     \* the Database holds a commit whose outcome is unknown
  borrowed,     \* the entry written through get_mut and not yet marked
  unresolved    \* history: the unknown commit the caller has to resolve

vars == <<hot, warm, attached, cold, failure, rows, marker, poisoned,
          borrowed, unresolved>>

NoRows == [e \in Persistent |-> <<>>]

Init ==
  /\ hot = NewBuffer /\ warm = NewBuffer /\ attached = FALSE
  /\ cold \in Archives
  /\ failure = FALSE /\ rows = NoRows /\ marker = <<>> /\ poisoned = FALSE
  /\ borrowed = <<>> /\ unresolved = <<>>

\* Entries that WARM owns.
Owned(e) == attached /\ e \in Persistent

Unowned(e) == ~Owned(e)

is_poisoned == failure \/ (attached /\ poisoned)

\* DiskStore::read of an owner that is not poisoned: staged, then committed.
WarmRead(e) ==
  IF e \in warm.deleted THEN <<>>
  ELSE IF warm.cache[e] # <<>> THEN warm.cache[e]
  ELSE rows[e]

\* TieredStore::read of a store that is not poisoned.
Read(e) ==
  IF hot.cache[e] # <<>> THEN hot.cache[e]
  ELSE IF Owned(e) THEN WarmRead(e)
  ELSE IF e \in Local THEN <<>> ELSE cold[e]

\* Whether read answers at all: a value in HOT is no excuse for a poisoned owner.
Readable(e) == ~failure /\ (Owned(e) => ~poisoned)

Idle == borrowed = <<>>

\* What only commits and failures change.
Kept == UNCHANGED <<attached, cold, rows, marker, poisoned, unresolved>>

-----------------------------------------------------------------------------

\* with_warm takes a disk tier only under a HOT without persistent entries.
Attachable ==
  ~has_pending(hot) /\ \A e \in Persistent : hot.cache[e] = <<>>

with_warm ==
  /\ ~attached /\ Idle /\ Attachable
  /\ attached' = TRUE /\ warm' = NewBuffer
  /\ UNCHANGED <<hot, cold, failure, rows, marker, poisoned, borrowed, unresolved>>

\* Mutant: a HOT tier that is full is not noticed.
StageHotQuietly(accepts, staged) ==
  /\ hot' = IF accepts THEN staged ELSE hot
  /\ failure' = failure

\* HOT follows WARM; if it refuses, the two differ and the store is frozen.
StageHot(accepts, staged) ==
  /\ hot' = IF accepts THEN staged ELSE hot
  /\ failure' = ~accepts

put(e, v) ==
  /\ Readable(e) /\ Idle
  /\ \/ Owned(e) /\ CanPut(warm, e, v)
          /\ warm' = Put(warm, e, v)
          /\ StageHot(CanPut(hot, e, v), Put(hot, e, v))
     \/ Unowned(e) /\ CanPut(hot, e, v)
          /\ hot' = Put(hot, e, v) /\ UNCHANGED <<warm, failure>>
  /\ Kept /\ UNCHANGED borrowed

remove(e) ==
  /\ Readable(e) /\ Idle
  /\ \/ Owned(e) /\ CanDelete(warm, e)
          /\ warm' = Delete(warm, e)
          /\ StageHot(CanDelete(hot, e), Delete(hot, e))
     \/ Unowned(e) /\ CanDelete(hot, e)
          \* an archive cannot hide the entry without an authoritative WARM
          /\ (e \in Persistent => cold = NoRows)
          /\ hot' = Delete(hot, e) /\ UNCHANGED <<warm, failure>>
  /\ Kept /\ UNCHANGED borrowed

\* A copy of what read shows goes to HOT, where it counts as pending.
promote(e) ==
  /\ Readable(e) /\ Idle /\ Read(e) # <<>>
  /\ CanPut(hot, e, Read(e)[1])
  /\ hot' = Put(hot, e, Read(e)[1])
  /\ Kept /\ UNCHANGED <<warm, failure, borrowed>>

\* WARM holds the value HOT would lose, committed.
Evictable(e) ==
  ~has_pending(warm) /\ hot.cache[e] # <<>> /\ WarmRead(e) = hot.cache[e]

evict(e) ==
  /\ Readable(e) /\ Owned(e) /\ Idle
  /\ Evictable(e) /\ CanDelete(hot, e)
  /\ hot' = Delete(hot, e)
  /\ Kept /\ UNCHANGED <<warm, failure, borrowed>>

\* The caller writes in place through the slice it borrows from HOT ...
get_mut(e, v) ==
  /\ ~is_poisoned /\ Idle
  /\ hot.cache[e] # <<>> /\ Len(v) = Len(hot.cache[e][1])
  /\ hot' = [hot EXCEPT !.cache[e] = <<v>>]
  /\ borrowed' = <<e>>
  /\ Kept /\ UNCHANGED <<warm, failure>>

\* ... and must mark the entry before it goes on.  Any refusal freezes the
\* store, since HOT was changed already.
mark_dirty(e) ==
  /\ ~failure /\ borrowed \in {<<>>, <<e>>} /\ borrowed' = <<>>
  /\ IF e \in Local \/ hot.cache[e] = <<>> THEN UNCHANGED <<hot, warm, failure>>
     ELSE LET v      == hot.cache[e][1]
              toWarm == ~poisoned /\ CanPut(warm, e, v)
          IN /\ warm' = IF attached /\ toWarm THEN Put(warm, e, v) ELSE warm
             /\ StageHot((attached => toWarm) /\ CanPut(hot, e, v), Put(hot, e, v))
  /\ Kept

\* Database::transaction with a batch of shard changes: the rows and the marker.
Written == Applied(Changes(warm), rows)

\* Mutant: the marker is written whether the batch is or not.
DiskCommitMarked(done) ==
  /\ rows' = IF done /\ has_pending(warm) THEN Written ELSE rows
  /\ marker' = IF has_pending(warm) THEN <<Changes(warm)>> ELSE marker

\* An empty batch is not written and leaves the marker.
DiskCommit(done) ==
  IF done /\ has_pending(warm)
  THEN rows' = Written /\ marker' = <<Changes(warm)>>
  ELSE UNCHANGED <<rows, marker>>

\* What the caller knows of a commit that answered CommitUnknown.
Unresolved(id) == unresolved' = <<[id |-> id, before |-> rows]>>

commit ==
  /\ ~failure /\ Idle /\ (attached => ~poisoned)
  /\ hot' = clear_pending(hot)
  /\ IF attached THEN warm' = finish(warm) /\ DiskCommit(TRUE)
     ELSE UNCHANGED <<warm, rows, marker>>
  /\ UNCHANGED <<attached, cold, failure, poisoned, borrowed, unresolved>>

\* WARM refuses before anything was written, or because of an earlier commit.
CommitFails ==
  /\ ~failure /\ Idle /\ attached /\ (poisoned \/ has_pending(warm))
  /\ failure' = TRUE
  /\ UNCHANGED <<hot, warm, attached, cold, rows, marker, poisoned, borrowed, unresolved>>

\* The engine cannot say whether the batch was written.
CommitUnknown ==
  /\ ~failure /\ Idle /\ attached /\ ~poisoned /\ has_pending(warm)
  /\ \E done \in BOOLEAN : DiskCommit(done)
  /\ failure' = TRUE /\ poisoned' = TRUE /\ Unresolved(Changes(warm))
  /\ UNCHANGED <<hot, warm, attached, cold, borrowed>>

\* WARM has committed and HOT, which need not be a MemStore, fails.  The
\* identity is that of the batch, or of the last one if this batch is empty.
HotCommitFails ==
  /\ ~failure /\ Idle /\ attached /\ ~poisoned
  /\ DiskCommit(TRUE) /\ warm' = finish(warm)
  /\ failure' = TRUE
  /\ Unresolved(IF has_pending(warm) THEN Changes(warm)
                ELSE IF marker # <<>> THEN marker[1] ELSE Changes(NewBuffer))
  /\ UNCHANGED <<hot, attached, cold, poisoned, borrowed>>

\* Another view of the Database, with its own batch of other tables, meets an
\* unknown outcome.
OwnerFails ==
  /\ attached /\ ~poisoned /\ poisoned' = TRUE
  /\ UNCHANGED <<hot, warm, attached, cold, failure, rows, marker, borrowed, unresolved>>

\* Every view is dropped, or the process ends, and a new store is made over the
\* database once its caller has resolved the last commit.
Reopen ==
  /\ hot' = NewBuffer /\ warm' = NewBuffer /\ attached' = FALSE
  /\ failure' = FALSE /\ poisoned' = FALSE /\ borrowed' = <<>>
  /\ unresolved' = <<>> /\ UNCHANGED <<cold, rows, marker>>

Next ==
  \/ \E e \in Entries : remove(e) \/ promote(e) \/ evict(e) \/ mark_dirty(e)
  \/ \E e \in Entries, v \in Values : put(e, v) \/ get_mut(e, v)
  \/ with_warm \/ commit \/ CommitFails \/ CommitUnknown \/ HotCommitFails
  \/ OwnerFails \/ Reopen

Spec == Init /\ [][Next]_vars

-----------------------------------------------------------------------------

Reads == [e \in Entries |-> Read(e)]

\* What reads show; a store that refuses them counts as its rows.
Shown ==
  IF is_poisoned THEN [e \in Entries |-> IF e \in Persistent THEN rows[e] ELSE <<>>]
  ELSE Reads

\* Reads of a TieredStore are reads of one map: what a put, a removal or a
\* write in place sets and nothing else does, wherever promote and evict move
\* the copies (tiered.rs:70-99); a commit makes exactly that map durable, and
\* a failure at any point of it leaves all of the batch or nothing of it.
Shards ==
  INSTANCE ShardMap WITH
    durable <- rows, archive <- cold, frozen <- is_poisoned, view <- Shown

ImplementsShardMap == Shards!Spec

\* A scan reads the committed rows alone (tiered.rs:226, disk.rs:138); when
\* it is admitted, a scan and the point reads show the same entries although
\* HOT answers the reads.
ScanMatchesReads ==
  ~is_poisoned /\ attached /\ Idle /\ ~has_pending(warm)
    => \A e \in Persistent : rows[e] = Read(e)

\* docs/api/storage.md: after an unknown outcome, comparing last_commit with
\* the identity of the batch tells whether its changes are there.
MarkerResolves ==
  unresolved # <<>> =>
    LET u == unresolved[1]
    IN IF marker = <<u.id>> THEN rows = Applied(u.id, u.before)
       ELSE rows = u.before

=============================================================================
