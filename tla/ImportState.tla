----------------------------- MODULE ImportState ----------------------------
(***************************************************************************)
(* The state of an import of a legacy redb file and of everything else     *)
(* that opens its destination, and what has to hold of it.  Import is what *)
(* changes it.                                                             *)
(***************************************************************************)
EXTENDS Integers, FiniteSets

CONSTANTS
  Importers,   \* calls of migrate with this destination and copies of one source
  Openers,     \* users of Database::open
  Inspectors,  \* users of ApplicationArchive::open
  Pages,       \* pages of the source, over all its tables
  MaxTroubles  \* bound on I/O errors, crashes and power losses

ASSUME ImportAssumption ==
  /\ Importers \cap Openers = {} /\ (Importers \cup Openers) \cap Inspectors = {}
  /\ Pages \in Nat /\ MaxTroubles \in Nat

VARIABLES
  guard_file,  \* the guard file is there
  dir,         \* who created the destination: "none", "import" or "open"
  synced,      \* both of them as they are after a power loss at the least
  version,     \* the directory holds a keyspace
  lock,        \* who holds bbg.lock, as a set
  status,      \* the status record: "none", "copying" or "complete"
  copied,      \* pages of the source in the store
  sound,       \* the source passes validate_record and validate_links
  at,          \* what each process does next
  troubles

Processes == Importers \cup Openers \cup Inspectors

-----------------------------------------------------------------------------
(* Properties *)

Whole == status = "complete" /\ copied = Pages /\ sound

\* application-storage.md: ordinary opens reject an incomplete import.  Whoever
\* holds the destination open and an import created it, the import is whole:
\* never an empty session, a partial copy or a source that failed validation,
\* although Database::open and ApplicationArchive::open read the guard, the
\* directory, the lock and the status at different times (mod.rs:65-90,
\* archive.rs:41-68).  And an import that answered success is durable as a
\* whole, after any later crash or power loss.
OpensWhole ==
  /\ \A p \in Openers \cup Inspectors : at[p] = "open" /\ dir = "import" => Whole
  /\ (\E i \in Importers : at[i] = "done") => Whole /\ dir = "import" /\ synced.dir = "import"

\* An import that is not complete is sealed, now and after a power loss
\* (migration.rs:48).
IncompleteSealed ==
  dir = "import" /\ status # "complete" => guard_file /\ synced.guard

\* application-storage.md: existing destinations are never overwritten.  A
\* store that an ordinary open created holds nothing of an import, whichever of
\* the two came first at every step.
CompetitorKept == dir = "open" => status = "none" /\ copied = 0
=============================================================================
