-------------------------- MODULE ApplicationStore --------------------------
(***************************************************************************)
(* ApplicationStore over one Database (storage/application.rs,             *)
(* storage/database/mod.rs).  Clients, which the crate does not contain,   *)
(* carry one order each and may carry it out again at any time: read the   *)
(* heads, build a Write, call apply, apply_once or apply_migration.  A     *)
(* transaction holds the state mutex from its first read to the engine's   *)
(* commit, so it is one action; what interleaves is a client's reads with  *)
(* other clients' transactions, commits whose outcome is unknown, and the  *)
(* end of the process.                                                     *)
(***************************************************************************)
EXTENDS AppTables, Sequences

CONSTANTS
  Orders,        \* what the clients want: the fields of a Write that do not
                 \* depend on the heads, sources as a set of namespaces
  Required,      \* generations require_reader_generation is called with
  MaxFailures    \* failed commits and ends of the process in one behaviour

ASSUME OrdersAssumption ==
  \* apply_migration refuses its own namespace among the sources
  \A o \in Orders : o.ns \notin o.sources

Names == {o.ns : o \in Orders} \cup UNION {o.sources : o \in Orders}

Commits == {o.commit : o \in Orders}

NameRequests == {o.request : o \in Orders}

VARIABLES
  db,         \* the durable application tables
  failure,    \* State::failure: a commit's outcome is unknown
  pending,    \* the Write each order's client holds, <<>> for none
  failures,   \* failures so far
  taken,      \* history: the writes that were committed
  acked       \* history: the orders answered Ok, with the head answered

vars == <<db, failure, pending, failures, taken, acked>>

Init ==
  /\ db = NewTables /\ failure = FALSE
  /\ pending = [o \in Orders |-> <<>>]
  /\ failures = 0 /\ taken = {} /\ acked = {}

-----------------------------------------------------------------------------

\* The Write of an order after reading the heads it depends on.
WriteOf(o) ==
  [ns |-> o.ns, request |-> o.request, fingerprint |-> o.fingerprint,
   retry |-> o.retry, content |-> o.content, claims |-> o.claims,
   manifest |-> o.manifest,
   expected |-> head(db, o.ns),
   head     |-> [index |-> NextIndex(head(db, o.ns)), commit |-> o.commit],
   sources  |-> {<<s, db.heads[s]>> : s \in o.sources}]

\* A client reads the heads; it cannot migrate a namespace without one.
Prepare(o) ==
  /\ pending[o] = <<>> /\ ~failure
  /\ o.sources \subseteq DOMAIN db.heads
  /\ pending' = [pending EXCEPT ![o] = <<WriteOf(o)>>]
  /\ UNCHANGED <<db, failure, failures, taken, acked>>

Holds(o) == pending[o] # <<>>

Write(o) == pending[o][1]

Returned(o) == pending' = [pending EXCEPT ![o] = <<>>]

Acknowledged(o, answer) == acked' = acked \cup {<<o, answer>>}

\* apply_checked finds the receipt of a prior call: no change is committed.
Retry(o) ==
  /\ Holds(o) /\ ~failure
  /\ HasReceipt(db, Write(o)) /\ Returned(o)
  /\ IF Answers(db, Write(o))
     THEN Acknowledged(o, Receipt(db, Write(o)).head)
     ELSE acked' = acked
  /\ UNCHANGED <<db, failure, failures, taken>>

\* An error of apply_checked: the staged changes are dropped.
Refuse(o) ==
  /\ Holds(o) /\ ~failure
  /\ ~HasReceipt(db, Write(o)) /\ ~Accepts(db, Write(o)) /\ Returned(o)
  /\ UNCHANGED <<db, failure, failures, taken, acked>>

Commit(o) ==
  /\ Holds(o) /\ ~failure
  /\ Accepts(db, Write(o)) /\ Returned(o)
  /\ db' = Applied(db, Write(o))
  /\ taken' = taken \cup {Write(o)}
  /\ Acknowledged(o, Write(o).head)
  /\ UNCHANGED <<failure, failures>>

\* The engine cannot begin: a clean error, nothing written.
CommitFails(o) ==
  /\ Holds(o) /\ ~failure /\ failures < MaxFailures
  /\ Accepts(db, Write(o)) /\ Returned(o)
  /\ failures' = failures + 1
  /\ UNCHANGED <<db, failure, taken, acked>>

\* CommitUnknown: written or not, and every later call is refused.
CommitUnknown(o) ==
  /\ Holds(o) /\ ~failure /\ failures < MaxFailures
  /\ Accepts(db, Write(o)) /\ Returned(o)
  /\ \/ db' = Applied(db, Write(o)) /\ taken' = taken \cup {Write(o)}
     \/ UNCHANGED <<db, taken>>
  /\ failure' = TRUE /\ failures' = failures + 1
  /\ UNCHANGED acked

\* A call on an owner whose last outcome is unknown.
RefusePoisoned(o) ==
  /\ Holds(o) /\ failure /\ Returned(o)
  /\ UNCHANGED <<db, failure, failures, taken, acked>>

\* Database::require_reader_generation.
require_reader_generation(g) ==
  /\ ~failure /\ CanPromote(db)
  /\ db' = Promoted(db, g)
  /\ UNCHANGED <<failure, pending, failures, taken, acked>>

\* The process ends and the database is opened again: the tables stay, the
\* failure and what the clients held do not.
Reopen ==
  /\ failure' = FALSE
  /\ pending' = [o \in Orders |-> <<>>]
  /\ UNCHANGED <<db, taken, acked>>

Restart == failure /\ Reopen /\ failures' = failures

Crash == ~failure /\ failures < MaxFailures /\ Reopen /\ failures' = failures + 1

Serve(o) == Retry(o) \/ Refuse(o) \/ Commit(o)

Next ==
  \/ \E o \in Orders :
       \/ Prepare(o) \/ Retry(o) \/ Refuse(o) \/ Commit(o)
       \/ CommitFails(o) \/ CommitUnknown(o) \/ RefusePoisoned(o)
  \/ \E g \in Required : require_reader_generation(g)
  \/ Restart \/ Crash

Spec == Init /\ [][Next]_vars

\* The writes that migrate nothing.
Ordinary == {o \in Orders : o.sources = {}}

\* Every call returns, the client of an ordinary write repeats it, and an
\* owner with an unknown outcome is reopened.  Nobody has to migrate.
Fairness ==
  /\ \A o \in Orders : WF_vars(Serve(o))
  /\ \A o \in Ordinary : WF_vars(Prepare(o))
  /\ WF_vars(Restart)

FairSpec == Spec /\ Fairness

-----------------------------------------------------------------------------
(* Properties *)

\* Every namespace's history is gapless up to its head and its commits are
\* stored (what archives and transfers check of it in validate_links), and
\* receipts correspond to its entries one to one: whatever was lost, repeated
\* or raced, a request was applied once.
HistoryIntact == ChainIntact(db) /\ ReceiptsExact(db)

\* An Ok is never withdrawn: whoever was answered Ok finds that head under
\* its own fingerprint, after any failure and restart; and what a migration
\* published is what its sources hold, as no source advances after it, by a
\* late writer or one that read the head before.
AckedDurable ==
  /\ \A a \in acked :
       /\ HasReceipt(db, a[1])
       /\ Receipt(db, a[1]) = [fingerprint |-> a[1].fingerprint, head |-> a[2]]
  /\ \A w \in taken : \A s \in w.sources :
       head(db, s[1]) = <<s[2]>> /\ s[1] \in DOMAIN db.fences

\* The log of a namespace, from its history and its receipts.
LogOf(ns) ==
  LET count == IF ns \in DOMAIN db.heads THEN db.heads[ns].index + 1 ELSE 0
      RequestAt(i) ==
        (CHOOSE k \in DOMAIN db.requests : k[1] = ns /\ db.requests[k].head.index = i)[2]
  IN [i \in 1..count |->
        [request |-> RequestAt(i - 1), commit |-> db.history[history_key(ns, i - 1)]]]

Log == INSTANCE ApplicationLog
  WITH Requests <- NameRequests, log <- [ns \in Names |-> LogOf(ns)], closed <- DOMAIN db.fences

\* Every step is a step of the abstract log or changes nothing of it.
ImplementsLog == Log!Spec

\* An order that can never be accepted again.
Impossible(o) ==
  \/ Fenced(db, o.ns)
  \/ NextIndex(head(db, o.ns)) > MaxIndex
  \/ ~Immutable(db.claims, o.claims) \/ ~Immutable(db.content, o.content)
  \/ o.commit \notin DOMAIN db.content \cup {p[1] : p \in o.content}

\* However the clients race, each write is in the end applied or impossible:
\* a stale head costs a client another attempt, never the write.
EventuallySettled == \A o \in Ordinary : <>[](HasReceipt(db, o) \/ Impossible(o))
=============================================================================
