--------------------------- MODULE ApplicationLog ---------------------------
(***************************************************************************)
(* What ApplicationStore promises: every namespace is a log to which a     *)
(* request is appended at most once, in one order all readers agree on,    *)
(* and a migration appends to its target and closes its sources in the     *)
(* same step.                                                              *)
(***************************************************************************)
EXTENDS Naturals, Sequences

CONSTANTS Names, Requests, Commits

VARIABLES
  log,      \* the entries of each namespace, in order
  closed    \* the namespaces that were migrated away

Applied(ns) == {log[ns][i].request : i \in DOMAIN log[ns]}

Init == log = [ns \in Names |-> <<>>] /\ closed = {}

\* An entry after the others of its namespace; sources is empty but for a
\* migration.
Extend(ns, request, commit, sources) ==
  /\ ns \notin closed \cup sources
  /\ \A s \in sources : log[s] # <<>>
  /\ closed' = closed \cup sources
  /\ request \notin Applied(ns)
  /\ log' = [log EXCEPT ![ns] = Append(@, [request |-> request, commit |-> commit])]

Next ==
  \E ns \in Names, sources \in SUBSET Names, request \in Requests, commit \in Commits :
    Extend(ns, request, commit, sources)

Spec == Init /\ [][Next]_<<log, closed>>
=============================================================================
