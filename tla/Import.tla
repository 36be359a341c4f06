------------------------------- MODULE Import -------------------------------
(***************************************************************************)
(* The import of a legacy redb file into a fresh Fjall directory           *)
(* (application/migration.rs) against everything else that opens that      *)
(* directory: Database::open and ApplicationArchive::open.  A sibling file,*)
(* the guard, seals the destination from before it exists until the import *)
(* is complete.  The directory entries of the guard and the destination    *)
(* survive a power loss for sure only once their parent was synced.        *)
(***************************************************************************)
EXTENDS ImportState

vars == <<guard_file, dir, synced, version, lock, status, copied, sound, at, troubles>>

Init ==
  /\ guard_file = FALSE /\ dir = "none" /\ version = FALSE
  /\ synced = [guard |-> FALSE, dir |-> "none"]
  /\ lock = {} /\ status = "none" /\ copied = 0 /\ sound \in BOOLEAN
  /\ at = [p \in Processes |-> "idle"] /\ troubles = 0

Go(p, from, to) == at[p] = from /\ at' = [at EXCEPT ![p] = to]

\* sync_parent: the guard is a sibling of the destination.
Sync == synced' = [guard |-> guard_file, dir |-> dir]

Tables == <<status, copied, sound, troubles>>

-----------------------------------------------------------------------------
(* The import.                                                             *)

\* destination.try_exists, then create_new of the guard.
CheckDestination(i) ==
  /\ i \in Importers /\ Go(i, "idle", IF dir = "none" THEN "fresh" ELSE "refused")
  /\ UNCHANGED <<guard_file, dir, synced, version, lock, Tables>>

CreateGuard(i) ==
  /\ Go(i, "fresh", IF guard_file THEN "refused" ELSE "guarded")
  /\ guard_file' = TRUE
  /\ UNCHANGED <<dir, synced, version, lock, Tables>>

SyncGuard(i) ==
  /\ Go(i, "guarded", "sealed") /\ Sync
  /\ UNCHANGED <<guard_file, dir, version, lock, Tables>>

\* Mutant: the destination is opened whether or not it is fresh.
CreateDestinationAny(i) ==
  /\ Go(i, "sealed", "made")
  /\ dir' = IF dir = "none" THEN "import" ELSE dir
  /\ UNCHANGED <<guard_file, synced, version, lock, Tables>>

\* create_destination is exclusive; if it fails nobody's store stays sealed.
CreateDestination(i) ==
  /\ IF dir = "none" THEN dir' = "import" /\ Go(i, "sealed", "made")
     ELSE UNCHANGED dir /\ Go(i, "sealed", "conflict")
  /\ UNCHANGED <<guard_file, synced, version, lock, Tables>>

\* Mutant: the import that found a competing store leaves its guard.
GiveUpSealed(i) ==
  /\ Go(i, "conflict", "refused")
  /\ UNCHANGED <<guard_file, dir, synced, version, lock, Tables>>

GiveUp(i) ==
  /\ Go(i, "conflict", "given_up") /\ guard_file' = FALSE
  /\ UNCHANGED <<dir, synced, version, lock, Tables>>

GivenUp(i) ==
  /\ Go(i, "given_up", "refused") /\ Sync
  /\ UNCHANGED <<guard_file, dir, version, lock, Tables>>

\* Engine::open of a directory that exists: Busy, or its lock and its keyspace.
Lock(p, from, to, busy) ==
  IF lock = {}
  THEN Go(p, from, to) /\ lock' = {p} /\ version' = TRUE /\ Sync
  ELSE Go(p, from, busy) /\ UNCHANGED <<lock, version, synced>>

OpenTarget(i) ==
  /\ Lock(i, "made", "locked", "refused")
  /\ UNCHANGED <<guard_file, dir, Tables>>

MarkCopying(i) ==
  /\ Go(i, "locked", "copying") /\ status' = "copying"
  /\ UNCHANGED <<guard_file, dir, synced, version, lock, copied, sound, troubles>>

\* A page of valid records, in one transaction.
CopyPage(i) ==
  /\ at[i] = "copying" /\ copied < Pages
  /\ copied' = copied + 1
  /\ UNCHANGED <<guard_file, dir, synced, version, lock, status, sound, at, troubles>>

\* The rows read back have the hash of the source's, and the links are valid.
Verified == copied = Pages /\ sound

Complete(i) ==
  /\ Go(i, "copying", "complete") /\ Verified /\ status' = "complete"
  /\ UNCHANGED <<guard_file, dir, synced, version, lock, copied, sound, troubles>>

\* Error::Corrupt: the target and its guard stay as they are.
RefuseSource(i) ==
  /\ Go(i, "copying", "refused") /\ ~sound /\ lock' = lock \ {i}
  /\ UNCHANGED <<guard_file, dir, synced, version, Tables>>

DropTarget(i) ==
  /\ Go(i, "complete", "closed") /\ lock' = lock \ {i}
  /\ UNCHANGED <<guard_file, dir, synced, version, Tables>>

RemoveGuard(i) ==
  /\ Go(i, "closed", "open_for_use") /\ guard_file' = FALSE
  /\ UNCHANGED <<dir, synced, version, lock, Tables>>

Return(i) ==
  /\ Go(i, "open_for_use", "done") /\ Sync
  /\ UNCHANGED <<guard_file, dir, version, lock, Tables>>

-----------------------------------------------------------------------------
(* Database::open.                                                         *)

CheckGuard(o) ==
  /\ o \in Openers /\ ~guard_file /\ Go(o, "idle", "unguarded")
  /\ UNCHANGED <<guard_file, dir, synced, version, lock, Tables>>

\* FjallEngine::open creates the directory or takes it as it is.
MakeDirectory(o) ==
  /\ Go(o, "unguarded", "made_or_found")
  /\ dir' = IF dir = "none" THEN "open" ELSE dir
  /\ UNCHANGED <<guard_file, synced, version, lock, Tables>>

LockDirectory(o) ==
  /\ Lock(o, "made_or_found", "held", "idle")
  /\ UNCHANGED <<guard_file, dir, Tables>>

\* Mutant: the guard is not looked at again under the lock.
AdmitsOnce == status # "copying"

\* validate_open: the guard once more, and the status record.
Admits == ~guard_file /\ status # "copying"

validate_open(o) ==
  /\ Go(o, "held", IF Admits THEN "open" ELSE "idle")
  /\ lock' = IF Admits THEN lock ELSE lock \ {o}
  /\ UNCHANGED <<guard_file, dir, synced, version, Tables>>

(* ApplicationArchive::open, which looks at the guard once.                *)

\* The version file first, then the guard.
FindVersion(a) ==
  /\ a \in Inspectors
  /\ \/ version /\ Go(a, "idle", "found")
     \/ ~guard_file /\ Go(a, "found", "made_or_found")
  /\ UNCHANGED <<guard_file, dir, synced, version, lock, Tables>>

LockArchive(a) ==
  /\ a \in Inspectors /\ Lock(a, "made_or_found", "read", "idle")
  /\ UNCHANGED <<guard_file, dir, Tables>>

ReadStatus(a) ==
  /\ Go(a, "read", IF status # "copying" THEN "open" ELSE "idle")
  /\ lock' = IF status # "copying" THEN lock ELSE lock \ {a}
  /\ UNCHANGED <<guard_file, dir, synced, version, Tables>>

Close(p) ==
  /\ Go(p, "open", "idle") /\ lock' = lock \ {p}
  /\ UNCHANGED <<guard_file, dir, synced, version, Tables>>

-----------------------------------------------------------------------------
(* What goes wrong.                                                        *)

Trouble == troubles < MaxTroubles /\ troubles' = troubles + 1

\* A step answers an error, or the process that runs it ends: what it did so
\* far stays, its lock does not.
Stopped(p) == IF p \in Importers /\ at[p] # "idle" THEN "refused" ELSE "idle"

Abandon(p) ==
  /\ Trouble /\ at[p] \notin {"idle", "refused", "done"}
  /\ at' = [at EXCEPT ![p] = Stopped(p)] /\ lock' = lock \ {p}
  /\ UNCHANGED <<guard_file, dir, synced, version, status, copied, sound>>

\* Every process ends and either entry is as it was when last synced, or later.
PowerLoss ==
  /\ Trouble /\ lock' = {}
  /\ at' = [p \in Processes |-> IF at[p] = "done" THEN "done" ELSE Stopped(p)]
  /\ guard_file' \in {guard_file, synced.guard} /\ dir' \in {dir, synced.dir}
  /\ synced' = [guard |-> guard_file', dir |-> dir']
  /\ version' = (version /\ dir' # "none")
  /\ UNCHANGED <<status, copied, sound>>

ImportStep(i) ==
  \/ CheckDestination(i) \/ CreateGuard(i) \/ SyncGuard(i) \/ CreateDestination(i)
  \/ GiveUp(i) \/ GivenUp(i) \/ OpenTarget(i) \/ MarkCopying(i) \/ CopyPage(i)
  \/ Complete(i) \/ RefuseSource(i) \/ DropTarget(i) \/ RemoveGuard(i) \/ Return(i)

Next ==
  \/ \E i \in Importers : ImportStep(i)
  \/ \E o \in Openers :
       CheckGuard(o) \/ MakeDirectory(o) \/ LockDirectory(o) \/ validate_open(o)
  \/ \E a \in Inspectors : FindVersion(a) \/ LockArchive(a) \/ ReadStatus(a)
  \/ \E p \in Openers \cup Inspectors : Close(p)
  \/ \E p \in Processes : Abandon(p)
  \/ PowerLoss

\* A call of migrate is sequential code: it goes on until it answers.
Spec ==
  Init /\ [][Next]_vars /\ \A i \in Importers : WF_vars(at[i] # "idle" /\ ImportStep(i))

-----------------------------------------------------------------------------

\* "Do not seal a competing store forever" (migration.rs:62): unless a call is
\* cut short, a guard beside somebody else's store is removed again.
CompetitorUnsealed ==
  (dir = "open" /\ guard_file) ~> (~guard_file \/ troubles > 0)

=============================================================================
