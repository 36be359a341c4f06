----------------------------- MODULE AppTables -----------------------------
(***************************************************************************)
(* The application tables of one Database (storage/application.rs,         *)
(* application/transfer.rs, database/generation.rs) and what the           *)
(* transactions of ApplicationStore and TransferSource write to them.  A   *)
(* database is a record of maps; the Migration table is split by the kind  *)
(* of its keys.  A transaction is atomic (Database::transaction holds the  *)
(* state mutex, and an error discards its staged changes), so an operator  *)
(* gives the tables a successful transaction leaves.                       *)
(***************************************************************************)
EXTENDS Naturals, FiniteSetsExt, Functions

CONSTANT MaxIndex      \* u64::MAX as the largest head index

ASSUME IndexAssumption == MaxIndex \in Nat \ {0}

\* Maps.
Put(f, k, v) == [x \in DOMAIN f \cup {k} |-> IF x = k THEN v ELSE f[x]]

Empty == [x \in {} |-> 0]

\* A set of pairs laid over a map.
PutAll(f, pairs) ==
  [x \in DOMAIN f \cup {p[1] : p \in pairs} |->
     IF x \in DOMAIN f THEN f[x] ELSE (CHOOSE p \in pairs : p[1] = x)[2]]

\* Some pairs agree with a map and with each other: immutable_put of each.
Immutable(f, pairs) ==
  \A p \in pairs : /\ p[1] \in DOMAIN f => f[p[1]] = p[2]
                   /\ \A q \in pairs : p[1] = q[1] => p[2] = q[2]

-----------------------------------------------------------------------------
(* Tables.  status: the reader generation, or a migration marker *)

Generations == {"original", "neuron-v1", "auth-v1"}

NewTables ==
  [content |-> Empty, heads |-> Empty, history |-> Empty, requests |-> Empty,
   claims  |-> Empty, fences |-> Empty, staged |-> Empty, cursors |-> Empty,
   targets |-> Empty, seal |-> <<>>, status |-> "original"]

\* The fields of the tables.
Fields == {"content", "heads", "history", "requests", "claims", "fences",
           "staged", "cursors", "targets", "seal", "status"}

\* A record with the fields of the tables.
IsTables(d) == d = [f \in Fields |-> d[f]]

\* validate_record: the keys of history and receipts are pairs, receipts are
\* records and indexes are numbers.
Keyed(d) ==
  /\ \A ns \in DOMAIN d.heads : d.heads[ns].index \in Nat
  /\ \A k \in DOMAIN d.history : k = <<k[1], k[2]>> /\ k[2] \in Nat
  /\ \A k \in DOMAIN d.requests :
       /\ k = <<k[1], k[2]>> /\ d.requests[k].head.index \in Nat
       /\ d.requests[k] = [fingerprint |-> d.requests[k].fingerprint, head |-> d.requests[k].head]

request_key(ns, request) == <<ns, request>>

history_key(ns, index) == <<ns, index>>

\* An optional head: <<>> or <<[index, commit]>>.
head(db, ns) == IF ns \in DOMAIN db.heads THEN <<db.heads[ns]>> ELSE <<>>

\* The index after an optional head; none after u64::MAX.
NextIndex(current) == IF current = <<>> THEN 0 ELSE current[1].index + 1

GenerationRank(g) == CASE g = "original" -> 0 [] g = "neuron-v1" -> 1 [] g = "auth-v1" -> 2

\* promote: refused while a migration marker stands, never downwards.
CanPromote(db) == db.status \in Generations

\* Mutant: whoever promotes last decides.
PromotedLast(db, required) == [db EXCEPT !.status = required]

Promoted(db, required) ==
  IF GenerationRank(db.status) >= GenerationRank(required) THEN db
  ELSE [db EXCEPT !.status = required]

-----------------------------------------------------------------------------
(* A write: namespace, request, fingerprint, allow_retry, expected and next
   head, content and claims as sets of pairs, and for apply_migration its
   manifest and the heads of its sources, as a set of <<namespace, head>>. *)

HasReceipt(db, w) == request_key(w.ns, w.request) \in DOMAIN db.requests

Receipt(db, w) == db.requests[request_key(w.ns, w.request)]

\* The receipt of a prior call answers this one; otherwise it is a conflict.
Answers(db, w) ==
  HasReceipt(db, w) /\ w.retry /\ Receipt(db, w).fingerprint = w.fingerprint

\* Mutant: the fence of a completed migration is not read.
FencedUnread(db, ns) == db.status = "export-v1" \/ ns \in DOMAIN db.staged

\* Mutant: a namespace under transfer is not.
FencedLate(db, ns) == ns \in DOMAIN db.fences \/ db.status = "export-v1"

\* No new request of a namespace that was migrated away, is being received
\* by a transfer, or lives in a sealed archive.
Fenced(db, ns) ==
  ns \in DOMAIN db.fences \/ db.status = "export-v1" \/ ns \in DOMAIN db.staged

HeadFollowsSame(db, w) ==
  head(db, w.ns) = w.expected /\ w.head.index = (IF w.expected = <<>> THEN 0 ELSE w.expected[1].index)

HeadFollows(db, w) ==
  /\ head(db, w.ns) = w.expected
  /\ NextIndex(w.expected) <= MaxIndex
  /\ w.head.index = NextIndex(w.expected)

\* transfer::require_complete, for a source that is being transferred here.
TransferComplete(db, origin, target) ==
  origin \in DOMAIN db.staged =>
    /\ db.cursors[db.staged[origin]].table = 5
    /\ db.targets[db.staged[origin]] = target

Fence(w) == [namespace |-> w.ns, manifest |-> w.manifest]

\* Mutant: the heads of the sources are not compared.
SourcesFitBlind(db, w) ==
  /\ \A s \in w.sources :
       /\ TransferComplete(db, s[1], w.ns)
       /\ s[1] \in DOMAIN db.fences => db.fences[s[1]] = Fence(w)
  /\ w.sources # {} => CanPromote(db)

\* The transition of apply_migration; other writes have no sources.
SourcesFit(db, w) ==
  /\ \A s \in w.sources :
       /\ TransferComplete(db, s[1], w.ns)
       /\ head(db, s[1]) = <<s[2]>>
       /\ s[1] \in DOMAIN db.fences => db.fences[s[1]] = Fence(w)
  /\ w.sources # {} => CanPromote(db)

Accepts(db, w) ==
  /\ ~HasReceipt(db, w)
  /\ ~Fenced(db, w.ns)
  /\ HeadFollows(db, w)
  /\ Immutable(db.claims, w.claims)
  /\ Immutable(db.content, w.content)
  /\ w.head.commit \in DOMAIN db.content \cup {p[1] : p \in w.content}
  /\ SourcesFit(db, w)

\* Mutant: the receipt is not written.
AppliedSilently(db, w) ==
  [db EXCEPT !.content = PutAll(@, w.content),
             !.claims  = PutAll(@, w.claims),
             !.history = Put(@, history_key(w.ns, w.head.index), w.head.commit),
             !.heads   = Put(@, w.ns, w.head)]

\* What an accepted write leaves, all in one transaction.
Applied(db, w) ==
  LET written ==
        [db EXCEPT
           !.content  = PutAll(@, w.content),
           !.claims   = PutAll(@, w.claims),
           !.history  = Put(@, history_key(w.ns, w.head.index), w.head.commit),
           !.heads    = Put(@, w.ns, w.head),
           !.requests = Put(@, request_key(w.ns, w.request),
                            [fingerprint |-> w.fingerprint, head |-> w.head]),
           !.fences   = PutAll(@, {<<s[1], Fence(w)>> : s \in w.sources})]
  IN IF w.sources = {} THEN written ELSE Promoted(written, "neuron-v1")

-----------------------------------------------------------------------------
(* What holds of the tables between two transactions *)

\* A namespace's history is the indexes up to its head, the last of them the
\* head itself, and every commit's content is stored.
ChainIntact(db) ==
  /\ \A key \in DOMAIN db.history :
       /\ key[1] \in DOMAIN db.heads
       /\ key[2] <= db.heads[key[1]].index
       /\ db.history[key] \in DOMAIN db.content
  /\ \A ns \in DOMAIN db.heads :
       /\ \A i \in 0..db.heads[ns].index : history_key(ns, i) \in DOMAIN db.history
       /\ db.history[history_key(ns, db.heads[ns].index)] = db.heads[ns].commit

\* Receipts and history entries correspond one to one: a request was applied
\* once, and every entry answers for one request.
ReceiptsExact(db) ==
  /\ \A key \in DOMAIN db.requests :
       LET h == db.requests[key].head IN
       /\ history_key(key[1], h.index) \in DOMAIN db.history
       /\ db.history[history_key(key[1], h.index)] = h.commit
  /\ \A k1, k2 \in DOMAIN db.requests :
       k1[1] = k2[1] /\ db.requests[k1].head.index = db.requests[k2].head.index => k1 = k2
  /\ \A key \in DOMAIN db.history :
       \E k \in DOMAIN db.requests : k[1] = key[1] /\ db.requests[k].head.index = key[2]

\* Rows that are never rewritten or removed.
Kept(f, g) == \A k \in DOMAIN f : k \in DOMAIN g /\ g[k] = f[k]

RowsKept(db, db2) ==
  /\ Kept(db.history, db2.history) /\ Kept(db.requests, db2.requests)
  /\ Kept(db.content, db2.content) /\ Kept(db.claims, db2.claims)
  /\ Kept(db.fences, db2.fences)
=============================================================================
