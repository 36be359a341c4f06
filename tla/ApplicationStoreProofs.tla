----------------------- MODULE ApplicationStoreProofs -----------------------
(***************************************************************************)
(* The safety of ApplicationStore for any orders, namespaces, generations  *)
(* and number of failures: histories stay whole, what was acknowledged or  *)
(* migrated stays, and the store implements ApplicationLog.                *)
(***************************************************************************)
EXTENDS ApplicationStore, AppTablesProofs, SequenceTheorems

\* A write that was drawn up for an order.
Drawn(o, w) ==
  /\ w.ns = o.ns /\ w.request = o.request /\ w.fingerprint = o.fingerprint
  /\ w.head.commit = o.commit /\ {s[1] : s \in w.sources} = o.sources

\* What a client holds was drawn up for its own order.
PendingDrawn ==
  /\ pending = [o \in Orders |-> pending[o]]
  /\ \A o \in Orders : Holds(o) => Drawn(o, Write(o))

Acknowledgements ==
  \A a \in acked :
    /\ HasReceipt(db, a[1])
    /\ Receipt(db, a[1]) = [fingerprint |-> a[1].fingerprint, head |-> a[2]]

SourcesClosed ==
  \A w \in taken : \A s \in w.sources :
    head(db, s[1]) = <<s[2]>> /\ s[1] \in DOMAIN db.fences

Inductive == Whole(db) /\ PendingDrawn /\ Acknowledgements /\ SourcesClosed

LEMMA InitInductive == Init => Inductive
<1> SUFFICES ASSUME Init PROVE Inductive
  OBVIOUS
<1>1. Whole(db)
  BY NewTablesWhole DEF Init
<1>2. PendingDrawn
  BY DEF Init, PendingDrawn, Holds
<1> QED BY <1>1, <1>2 DEF Init, Inductive, Acknowledgements, SourcesClosed

\* A client that returns holds nothing, and the others what they held.
LEMMA ReturnedDrawn ==
  ASSUME PendingDrawn, NEW o \in Orders, Returned(o)
  PROVE  PendingDrawn'
<1>1. /\ pending' = [p \in Orders |-> pending'[p]] /\ pending'[o] = <<>>
      /\ \A p \in Orders : p # o => pending'[p] = pending[p]
  BY DEF Returned, PendingDrawn
<1> QED BY <1>1 DEF PendingDrawn, Holds, Write

LEMMA PrepareDrawn ==
  ASSUME PendingDrawn, NEW o \in Orders, Prepare(o)
  PROVE  PendingDrawn'
<1>1. /\ pending' = [p \in Orders |-> pending'[p]] /\ pending'[o] = <<WriteOf(o)>>
      /\ \A p \in Orders : p # o => pending'[p] = pending[p]
  BY DEF Prepare, PendingDrawn
<1>2. Drawn(o, WriteOf(o))
  <2>1. WriteOf(o).sources = {<<s, db.heads[s]>> : s \in o.sources}
    BY DEF WriteOf
  <2>2. {s[1] : s \in WriteOf(o).sources} = o.sources
    <3>1. \A s \in o.sources : <<s, db.heads[s]>> \in WriteOf(o).sources /\ <<s, db.heads[s]>>[1] = s
      BY <2>1
    <3>2. \A p \in WriteOf(o).sources : p[1] \in o.sources
      BY <2>1
    <3> QED BY <3>1, <3>2
  <2> QED BY <2>2 DEF Drawn, WriteOf
<1> QED BY <1>1, <1>2 DEF PendingDrawn, Holds, Write

\* The tables of a commit: nothing acknowledged is lost, and no closed
\* namespace moves on.
LEMMA CommitKeeps ==
  ASSUME Inductive, NEW o \in Orders, Holds(o), Accepts(db, Write(o)),
         db' = Applied(db, Write(o))
  PROVE  /\ Whole(db)'
         /\ \A a : HasReceipt(db, a) => HasReceipt(db', a) /\ Receipt(db', a) = Receipt(db, a)
         /\ HasReceipt(db', o)
         /\ Receipt(db', o) = [fingerprint |-> o.fingerprint, head |-> Write(o).head]
         /\ \A w \in taken \cup {Write(o)} : \A s \in w.sources :
              head(db', s[1]) = <<s[2]>> /\ s[1] \in DOMAIN db'.fences
<1> DEFINE w == Write(o)
<1>1. Whole(db) /\ Drawn(o, w) /\ Accepts(db, w) /\ IsTables(db)
  BY DEF Inductive, PendingDrawn, Whole
<1>2. Whole(db') /\ RowsKept(db, db') /\ Leaves(db, w, db')
  BY <1>1, AppliedWhole, AppliedKeeps, AppliedFields, WholeEverywhere DEF Whole
<1>3. \A a : HasReceipt(db, a) => HasReceipt(db', a) /\ Receipt(db', a) = Receipt(db, a)
  BY <1>2 DEF RowsKept, Kept, HasReceipt, Receipt
<1>4. HasReceipt(db', o) /\ Receipt(db', o) = [fingerprint |-> o.fingerprint, head |-> w.head]
  BY <1>1, <1>2 DEF Leaves, Put, HasReceipt, Receipt, Drawn
<1>5. /\ \A ns : ns # w.ns => head(db', ns) = head(db, ns)
      /\ DOMAIN db'.fences = DOMAIN db.fences \cup {s[1] : s \in w.sources}
  BY <1>1, AppliedHeads
<1>6. w.ns \notin DOMAIN db.fences
  BY <1>1 DEF Accepts, Fenced
<1>7. ASSUME NEW x \in taken, NEW s \in x.sources
      PROVE  head(db', s[1]) = <<s[2]>> /\ s[1] \in DOMAIN db'.fences
  BY <1>5, <1>6 DEF Inductive, SourcesClosed
<1>8. ASSUME NEW s \in w.sources
      PROVE  head(db', s[1]) = <<s[2]>> /\ s[1] \in DOMAIN db'.fences
  <2>1. s[1] \in o.sources /\ s[1] # w.ns
    BY <1>1, OrdersAssumption DEF Drawn
  <2>2. head(db, s[1]) = <<s[2]>>
    BY <1>1 DEF Accepts, SourcesFit
  <2> QED BY <1>5, <2>1, <2>2
<1> QED BY <1>2, <1>3, <1>4, <1>7, <1>8

\* Tables and promises under a step that commits nothing.
LEMMA NothingCommitted ==
  ASSUME Inductive, UNCHANGED <<db, taken, acked>>
  PROVE  (Whole(db) /\ Acknowledgements /\ SourcesClosed)'
  BY DEF Inductive, Acknowledgements, SourcesClosed

LEMMA RetryKeeps ==
  ASSUME Inductive, NEW o \in Orders, Retry(o)
  PROVE  Inductive'
<1>1. PendingDrawn'
  BY ReturnedDrawn DEF Inductive, Retry
<1>2. db' = db /\ taken' = taken
  BY DEF Retry
<1>3. (Whole(db) /\ SourcesClosed)'
  BY <1>2 DEF Inductive, SourcesClosed
<1>4. Acknowledgements'
  <2>1. CASE acked' = acked
    BY <1>2, <2>1 DEF Inductive, Acknowledgements
  <2>2. CASE Answers(db, Write(o)) /\ acked' = acked \cup {<<o, Receipt(db, Write(o)).head>>}
    <3>1. Drawn(o, Write(o))
      BY DEF Retry, Inductive, PendingDrawn
    <3>2. HasReceipt(db, o) /\ Receipt(db, o) = Receipt(db, Write(o))
      BY <3>1 DEF Retry, HasReceipt, Receipt, Drawn
    <3>3. Receipt(db, o).fingerprint = o.fingerprint
      BY <2>2, <3>1, <3>2 DEF Answers, Drawn
    <3>4. Receipt(db, o) = [fingerprint |-> Receipt(db, o).fingerprint, head |-> Receipt(db, o).head]
      BY <3>2 DEF Inductive, Whole, Keyed, HasReceipt, Receipt
    <3>5. Receipt(db, o) = [fingerprint |-> o.fingerprint, head |-> Receipt(db, Write(o)).head]
      BY <3>2, <3>3, <3>4
    <3>6. \A a \in acked : HasReceipt(db, a[1])
            /\ Receipt(db, a[1]) = [fingerprint |-> a[1].fingerprint, head |-> a[2]]
      BY DEF Inductive, Acknowledgements
    <3> DEFINE new == <<o, Receipt(db, Write(o)).head>>
    <3>7. new[1] = o /\ new[2] = Receipt(db, Write(o)).head
      OBVIOUS
    <3> HIDE DEF new
    <3>8. \A a \in acked \cup {new} : HasReceipt(db, a[1])
            /\ Receipt(db, a[1]) = [fingerprint |-> a[1].fingerprint, head |-> a[2]]
      BY <3>2, <3>5, <3>6, <3>7
    <3> QED BY <1>2, <2>2, <3>8 DEF Acknowledgements, new
  <2> QED BY <2>1, <2>2 DEF Retry, Acknowledged
<1> QED BY <1>1, <1>3, <1>4 DEF Inductive

LEMMA CommitInductive ==
  ASSUME Inductive, NEW o \in Orders, Commit(o)
  PROVE  Inductive'
<1>1. PendingDrawn'
  BY ReturnedDrawn DEF Inductive, Commit
<1>2. /\ Holds(o) /\ Accepts(db, Write(o)) /\ db' = Applied(db, Write(o))
      /\ taken' = taken \cup {Write(o)} /\ acked' = acked \cup {<<o, Write(o).head>>}
  BY DEF Commit, Acknowledged
<1>3. Whole(db)' /\ SourcesClosed'
  BY <1>2, CommitKeeps DEF SourcesClosed
<1>4. Acknowledgements'
  <2> DEFINE new == <<o, Write(o).head>>
  <2>1. new[1] = o /\ new[2] = Write(o).head
    OBVIOUS
  <2> HIDE DEF new
  <2>2. \A a \in acked \cup {new} : HasReceipt(db', a[1])
          /\ Receipt(db', a[1]) = [fingerprint |-> a[1].fingerprint, head |-> a[2]]
    BY <1>2, <2>1, CommitKeeps DEF Inductive, Acknowledgements
  <2> QED BY <1>2, <2>2 DEF Acknowledgements, new
<1> QED BY <1>1, <1>3, <1>4 DEF Inductive

LEMMA CommitUnknownInductive ==
  ASSUME Inductive, NEW o \in Orders, CommitUnknown(o)
  PROVE  Inductive'
<1>1. PendingDrawn'
  BY ReturnedDrawn DEF Inductive, CommitUnknown
<1>2. CASE db' = Applied(db, Write(o)) /\ taken' = taken \cup {Write(o)}
  <2>1. Holds(o) /\ Accepts(db, Write(o)) /\ acked' = acked
    BY DEF CommitUnknown
  <2>2. Whole(db)' /\ SourcesClosed'
    BY <1>2, <2>1, CommitKeeps DEF SourcesClosed
  <2>3. Acknowledgements'
    BY <1>2, <2>1, CommitKeeps DEF Inductive, Acknowledgements
  <2> QED BY <1>1, <2>2, <2>3 DEF Inductive
<1>3. CASE UNCHANGED <<db, taken>>
  <2>1. UNCHANGED <<db, taken, acked>>
    BY <1>3 DEF CommitUnknown
  <2> QED BY <1>1, <2>1, NothingCommitted DEF Inductive
<1> QED BY <1>2, <1>3 DEF CommitUnknown

LEMMA GenerationInductive ==
  ASSUME Inductive, NEW g, require_reader_generation(g)
  PROVE  Inductive'
<1>1. /\ db' = Promoted(db, g) /\ UNCHANGED <<pending, taken, acked>> /\ IsTables(db)
  BY DEF require_reader_generation, Inductive, Whole
<1>2. Whole(db)'
  BY <1>1, PromotedWhole DEF Inductive
<1>3. db'.heads = db.heads /\ db'.requests = db.requests /\ db'.fences = db.fences
  BY <1>1, PromotedFields
<1>4. PendingDrawn'
  BY <1>1 DEF Inductive, PendingDrawn, Holds, Write
<1>5. Acknowledgements'
  BY <1>1, <1>3 DEF Inductive, Acknowledgements, HasReceipt, Receipt
<1>6. SourcesClosed'
  BY <1>1, <1>3 DEF Inductive, SourcesClosed, head
<1> QED BY <1>2, <1>4, <1>5, <1>6 DEF Inductive

LEMMA NextInductive == Inductive /\ [Next]_vars => Inductive'
<1> SUFFICES ASSUME Inductive, [Next]_vars PROVE Inductive'
  OBVIOUS
<1>1. ASSUME NEW o \in Orders, Prepare(o) PROVE Inductive'
  BY <1>1, PrepareDrawn, NothingCommitted DEF Inductive, Prepare
<1>2. ASSUME NEW o \in Orders, Retry(o) PROVE Inductive'
  BY <1>2, RetryKeeps
<1>3. ASSUME NEW o \in Orders, Refuse(o) PROVE Inductive'
  BY <1>3, ReturnedDrawn, NothingCommitted DEF Inductive, Refuse
<1>4. ASSUME NEW o \in Orders, Commit(o) PROVE Inductive'
  BY <1>4, CommitInductive
<1>5. ASSUME NEW o \in Orders, CommitFails(o) PROVE Inductive'
  BY <1>5, ReturnedDrawn, NothingCommitted DEF Inductive, CommitFails
<1>6. ASSUME NEW o \in Orders, CommitUnknown(o) PROVE Inductive'
  BY <1>6, CommitUnknownInductive
<1>7. ASSUME NEW o \in Orders, RefusePoisoned(o) PROVE Inductive'
  BY <1>7, ReturnedDrawn, NothingCommitted DEF Inductive, RefusePoisoned
<1>8. ASSUME NEW g \in Required, require_reader_generation(g) PROVE Inductive'
  BY <1>8, GenerationInductive
<1>9. CASE Reopen
  <2>1. PendingDrawn'
    BY <1>9 DEF Reopen, PendingDrawn, Holds
  <2> QED BY <1>9, <2>1, NothingCommitted DEF Inductive, Reopen
<1>10. CASE UNCHANGED vars
  <2>1. PendingDrawn'
    BY <1>10 DEF vars, Inductive, PendingDrawn, Holds, Write
  <2> QED BY <1>10, <2>1, NothingCommitted DEF Inductive, vars
<1> QED BY <1>1, <1>2, <1>3, <1>4, <1>5, <1>6, <1>7, <1>8, <1>9, <1>10
        DEF Next, Restart, Crash

LEMMA AlwaysInductive == Spec => []Inductive
  BY InitInductive, NextInductive, PTL DEF Spec

\* HistoryIntact, for any number of clients, failures and restarts: histories
\* are gapless up to their heads and each entry has exactly one receipt.
THEOREM HistoryAlwaysIntact == Spec => []HistoryIntact
<1>1. Inductive => HistoryIntact
  BY DEF Inductive, Whole, HistoryIntact
<1> QED BY <1>1, AlwaysInductive, PTL

\* AckedDurable, likewise: an Ok is never withdrawn, and the sources of a
\* migration stay what it published.
THEOREM AcksAlwaysDurable == Spec => []AckedDurable
<1>1. Inductive => AckedDurable
  BY DEF Inductive, Acknowledgements, SourcesClosed, AckedDurable
<1> QED BY <1>1, AlwaysInductive, PTL

-----------------------------------------------------------------------------
(* The log that the tables hold, and its refinement *)

Count(d, ns) == IF ns \in DOMAIN d.heads THEN d.heads[ns].index + 1 ELSE 0

RequestAt(d, ns, i) ==
  (CHOOSE k \in DOMAIN d.requests : k[1] = ns /\ d.requests[k].head.index = i)[2]

EntryAt(d, ns, i) ==
  [request |-> RequestAt(d, ns, i - 1), commit |-> d.history[history_key(ns, i - 1)]]

LogIn(d, ns) == [i \in 1..Count(d, ns) |-> EntryAt(d, ns, i)]

LEMMA LogOfTables == \A ns : LogOf(ns) = LogIn(db, ns)
  BY DEF LogOf, LogIn, EntryAt, Count, RequestAt

\* The log has as many entries as the head counts.
LEMMA CountType ==
  ASSUME NEW d, Whole(d), NEW ns
  PROVE  Count(d, ns) \in Nat
<1>1. ns \in DOMAIN d.heads => d.heads[ns].index \in Nat
  BY DEF Whole, Keyed
<1> QED BY <1>1 DEF Count

\* Whichever receipt has the index is the one chosen.
LEMMA RequestUnique ==
  ASSUME NEW d, Whole(d), NEW k \in DOMAIN d.requests
  PROVE  RequestAt(d, k[1], d.requests[k].head.index) = k[2]
<1> DEFINE same(x) == x[1] = k[1] /\ d.requests[x].head.index = d.requests[k].head.index
<1>1. \A x \in DOMAIN d.requests : same(x) => x = k
  BY DEF Whole, ReceiptsExact
<1>2. (CHOOSE x \in DOMAIN d.requests : same(x)) = k
  <2>1. same(k)
    OBVIOUS
  <2> HIDE DEF same
  <2> QED BY <1>1, <2>1
<1> QED BY <1>2 DEF RequestAt

\* Every entry has the receipt of its request.
LEMMA EntryReceipt ==
  ASSUME NEW d, Whole(d), NEW ns, NEW i \in 1..Count(d, ns)
  PROVE  \E k \in DOMAIN d.requests :
           /\ k = request_key(ns, RequestAt(d, ns, i - 1))
           /\ d.requests[k].head.index = i - 1
<1>1. ns \in DOMAIN d.heads /\ d.heads[ns].index \in Nat /\ i - 1 \in 0..d.heads[ns].index
  <2>1. ns \in DOMAIN d.heads
    BY DEF Count
  <2>2. d.heads[ns].index \in Nat
    BY <2>1 DEF Whole, Keyed
  <2> QED BY <2>1, <2>2 DEF Count
<1>2. history_key(ns, i - 1) \in DOMAIN d.history
  BY <1>1 DEF Whole, ChainIntact
<1>3. PICK k \in DOMAIN d.requests :
        k[1] = history_key(ns, i - 1)[1] /\ d.requests[k].head.index = history_key(ns, i - 1)[2]
  BY <1>2 DEF Whole, ReceiptsExact
<1>4. k[1] = ns /\ d.requests[k].head.index = i - 1
  BY <1>3 DEF history_key
<1>5. RequestAt(d, ns, i - 1) = k[2]
  BY <1>4, RequestUnique
<1>6. k = <<k[1], k[2]>>
  BY DEF Whole, Keyed
<1> QED BY <1>4, <1>5, <1>6 DEF request_key

\* Entries that two whole tables have in common.
LEMMA EntryKept ==
  ASSUME NEW d, Whole(d), NEW a, Whole(a), RowsKept(d, a),
         NEW ns, NEW i \in 1..Count(d, ns)
  PROVE  EntryAt(a, ns, i) = EntryAt(d, ns, i)
<1>1. PICK k \in DOMAIN d.requests :
        /\ k = request_key(ns, RequestAt(d, ns, i - 1))
        /\ d.requests[k].head.index = i - 1
  BY EntryReceipt
<1>2. k[1] = ns /\ k[2] = RequestAt(d, ns, i - 1)
  BY <1>1 DEF request_key
<1>3. k \in DOMAIN a.requests /\ a.requests[k] = d.requests[k]
  BY DEF RowsKept, Kept
<1>4. RequestAt(a, ns, i - 1) = RequestAt(d, ns, i - 1)
  BY <1>1, <1>2, <1>3, RequestUnique
<1>5. history_key(ns, i - 1) \in DOMAIN d.history
  <2>1. history_key(k[1], d.requests[k].head.index) \in DOMAIN d.history
    BY DEF Whole, ReceiptsExact
  <2> QED BY <1>1, <1>2, <2>1
<1>6. a.history[history_key(ns, i - 1)] = d.history[history_key(ns, i - 1)]
  BY <1>5 DEF RowsKept, Kept
<1> QED BY <1>4, <1>6 DEF EntryAt

\* A function on 1..n with another value at n + 1 is an appended sequence.
LEMMA AppendedFunction ==
  ASSUME NEW n \in Nat, NEW f, DOMAIN f = 1..n, f = [i \in 1..n |-> f[i]], NEW x,
         NEW g, g = [i \in 1..(n + 1) |-> IF i = n + 1 THEN x ELSE f[i]]
  PROVE  g = Append(f, x)
<1> DEFINE S == {f[i] : i \in 1..n} \cup {x}
<1>1. f \in [1..n -> S]
  OBVIOUS
<1>2. f \in Seq(S) /\ Len(f) = n /\ x \in S
  BY <1>1
<1> HIDE DEF S
<1>3. Append(f, x) \in Seq(S) /\ Len(Append(f, x)) = n + 1
      /\ \A i \in 1..n : Append(f, x)[i] = f[i]
      /\ Append(f, x)[n + 1] = x
  BY <1>2, AppendProperties
<1>4. DOMAIN Append(f, x) = 1..(n + 1)
  BY <1>3
<1>5. Append(f, x) = [i \in 1..(n + 1) |-> Append(f, x)[i]]
  BY <1>3, <1>4
<1>6. \A i \in 1..(n + 1) : Append(f, x)[i] = IF i = n + 1 THEN x ELSE f[i]
  BY <1>3
<1> QED BY <1>5, <1>6

\* An accepted write appends to the log of its namespace and to no other.
LEMMA AppliedLog ==
  ASSUME NEW d, Whole(d), NEW w, Accepts(d, w)
  PROVE  LET a == Applied(d, w) IN
         /\ LogIn(a, w.ns) =
              Append(LogIn(d, w.ns), [request |-> w.request, commit |-> w.head.commit])
         /\ \A ns : ns # w.ns => LogIn(a, ns) = LogIn(d, ns)
<1> DEFINE a == Applied(d, w)
           n == Count(d, w.ns)
           x == [request |-> w.request, commit |-> w.head.commit]
<1>1. Whole(a) /\ RowsKept(d, a) /\ Leaves(d, w, a) /\ n \in Nat
  BY AppliedWhole, AppliedKeeps, AppliedFields, WholeEverywhere, CountType DEF Whole
<1>2. w.head.index = n
  BY AcceptedIndex, WholeEverywhere DEF Accepts, Whole, Count
<1> HIDE DEF a, n
<1>3. Count(a, w.ns) = n + 1
  BY <1>1, <1>2 DEF Leaves, Put, Count
<1>4. EntryAt(a, w.ns, n + 1) = x
  <2> DEFINE k == request_key(w.ns, w.request)
  <2>1. k \in DOMAIN a.requests /\ a.requests[k].head = w.head
    BY <1>1 DEF Leaves, Put
  <2>2. k[1] = w.ns /\ k[2] = w.request
    BY DEF request_key
  <2> HIDE DEF k
  <2>3. RequestAt(a, w.ns, n) = w.request
    BY <1>1, <1>2, <2>1, <2>2, RequestUnique
  <2>4. a.history[history_key(w.ns, n)] = w.head.commit
    BY <1>1, <1>2 DEF Leaves, Put
  <2>5. (n + 1) - 1 = n
    BY <1>1
  <2> QED BY <2>3, <2>4, <2>5 DEF EntryAt
<1>5. LogIn(a, w.ns) = Append(LogIn(d, w.ns), x)
  <2> DEFINE f == LogIn(d, w.ns)
             g == LogIn(a, w.ns)
  <2>1. DOMAIN f = 1..n /\ f = [i \in 1..n |-> f[i]]
    BY DEF LogIn, n
  <2>2. \A i \in 1..n : EntryAt(a, w.ns, i) = f[i]
    BY <1>1, EntryKept DEF LogIn, n
  <2>3. g = [i \in 1..(n + 1) |-> EntryAt(a, w.ns, i)]
    BY <1>3 DEF LogIn
  <2> HIDE DEF f, g, x
  <2>4. \A i \in 1..(n + 1) : EntryAt(a, w.ns, i) = IF i = n + 1 THEN x ELSE f[i]
    BY <1>1, <1>4, <2>2
  <2>5. g = [i \in 1..(n + 1) |-> IF i = n + 1 THEN x ELSE f[i]]
    BY <2>3, <2>4
  <2> QED BY <1>1, <2>1, <2>5, AppendedFunction DEF f, g
<1>6. ASSUME NEW ns, ns # w.ns PROVE LogIn(a, ns) = LogIn(d, ns)
  <2>1. Count(a, ns) = Count(d, ns)
    BY <1>1, <1>6 DEF Leaves, Put, Count
  <2>2. \A i \in 1..Count(d, ns) : EntryAt(a, ns, i) = EntryAt(d, ns, i)
    BY <1>1, EntryKept
  <2> QED BY <2>1, <2>2 DEF LogIn
<1> QED BY <1>5, <1>6 DEF a, x

\* A request that has no receipt is nowhere in the log.
LEMMA RequestNew ==
  ASSUME NEW d, Whole(d), NEW ns, NEW request,
         request_key(ns, request) \notin DOMAIN d.requests
  PROVE  request \notin {LogIn(d, ns)[i].request : i \in DOMAIN LogIn(d, ns)}
<1> SUFFICES ASSUME NEW i \in 1..Count(d, ns), RequestAt(d, ns, i - 1) = request
             PROVE  FALSE
  BY DEF LogIn, EntryAt
<1> QED BY EntryReceipt

\* The log of the refinement mapping.
TheLog == [ns \in Names |-> LogOf(ns)]

\* A commit, acknowledged or unknown, extends the log.
LEMMA CommitExtends ==
  ASSUME Inductive, NEW o \in Orders, Holds(o), Accepts(db, Write(o)),
         db' = Applied(db, Write(o))
  PROVE  Log!Next
<1> DEFINE w == Write(o)
           sources == {s[1] : s \in w.sources}
<1>1. Whole(db) /\ Drawn(o, w) /\ Accepts(db, w) /\ IsTables(db)
  BY DEF Inductive, PendingDrawn, Whole
<1>2. /\ w.ns = o.ns /\ w.request = o.request /\ w.head.commit = o.commit
      /\ sources = o.sources /\ o.ns \notin o.sources
  BY <1>1, OrdersAssumption DEF Drawn
<1>3. /\ w.ns \in Names /\ sources \in SUBSET Names
      /\ w.request \in NameRequests /\ w.head.commit \in Commits
  BY <1>2 DEF Names, NameRequests, Commits
<1>4. w.ns \notin DOMAIN db.fences \cup sources
  BY <1>1, <1>2 DEF Accepts, Fenced
<1>5. \A s \in sources : TheLog[s] # <<>>
  <2> SUFFICES ASSUME NEW s \in w.sources PROVE TheLog[s[1]] # <<>>
    OBVIOUS
  <2>1. head(db, s[1]) = <<s[2]>>
    BY <1>1 DEF Accepts, SourcesFit
  <2>2. s[1] \in DOMAIN db.heads
    BY <2>1, OptionFacts DEF head
  <2>3. db.heads[s[1]].index \in Nat
    BY <1>1, <2>2 DEF Whole, Keyed
  <2>4. 1 \in DOMAIN LogIn(db, s[1])
    BY <2>2, <2>3 DEF LogIn, Count
  <2>5. s[1] \in Names /\ TheLog[s[1]] = LogIn(db, s[1])
    BY <1>3, LogOfTables DEF TheLog
  <2> QED BY <2>4, <2>5
<1>6. DOMAIN db'.fences = DOMAIN db.fences \cup sources
  BY <1>1, AppliedHeads
<1>7. w.request \notin {TheLog[w.ns][i].request : i \in DOMAIN TheLog[w.ns]}
  <2>1. request_key(w.ns, w.request) \notin DOMAIN db.requests
    BY <1>1 DEF Accepts, HasReceipt
  <2>2. TheLog[w.ns] = LogIn(db, w.ns)
    BY <1>3, LogOfTables DEF TheLog
  <2> QED BY <1>1, <2>1, <2>2, RequestNew
<1>8. TheLog' = [TheLog EXCEPT ![w.ns] =
                   Append(@, [request |-> w.request, commit |-> w.head.commit])]
  <2>1. /\ LogIn(db', w.ns) =
             Append(LogIn(db, w.ns), [request |-> w.request, commit |-> w.head.commit])
        /\ \A ns : ns # w.ns => LogIn(db', ns) = LogIn(db, ns)
    BY <1>1, AppliedLog
  <2>2. TheLog = [ns \in Names |-> LogIn(db, ns)]
    BY LogOfTables DEF TheLog
  <2>3. TheLog' = [ns \in Names |-> LogIn(db', ns)]
    <3>1. \A ns : LogOf(ns)' = LogIn(db', ns)
      BY DEF LogOf, LogIn, EntryAt, Count, RequestAt
    <3> QED BY <3>1 DEF TheLog
  <2> QED BY <1>3, <2>1, <2>2, <2>3
<1>9. Log!Extend(w.ns, w.request, w.head.commit, sources)
  BY <1>4, <1>5, <1>6, <1>7, <1>8 DEF Log!Extend, Log!Applied, TheLog
<1> QED BY <1>3, <1>9 DEF Log!Next

\* Steps that commit nothing change nothing of the log.
LEMMA LogUnchanged ==
  ASSUME db'.heads = db.heads, db'.requests = db.requests, db'.history = db.history,
         db'.fences = db.fences
  PROVE  UNCHANGED <<TheLog, DOMAIN db.fences>>
  BY DEF TheLog, LogOf

LEMMA StepImplements ==
  ASSUME Inductive, [Next]_vars
  PROVE  [Log!Next]_<<TheLog, DOMAIN db.fences>>
<1>1. ASSUME NEW o \in Orders, Commit(o) PROVE Log!Next
  BY <1>1, CommitExtends DEF Commit
<1>2. ASSUME NEW o \in Orders, CommitUnknown(o), db' # db PROVE Log!Next
  BY <1>2, CommitExtends DEF CommitUnknown
<1>3. CASE db' = db
  BY <1>3, LogUnchanged
<1>4. ASSUME NEW g \in Required, require_reader_generation(g)
      PROVE  UNCHANGED <<TheLog, DOMAIN db.fences>>
  <2>1. db' = Promoted(db, g) /\ IsTables(db)
    BY <1>4 DEF require_reader_generation, Inductive, Whole
  <2> QED BY <2>1, PromotedFields, LogUnchanged
<1> QED BY <1>1, <1>2, <1>3, <1>4
        DEF Next, vars, Prepare, Retry, Refuse, CommitFails, RefusePoisoned,
            Restart, Crash, Reopen

\* ImplementsLog: the store's tables, read as logs, take only the steps of
\* ApplicationLog.
THEOREM StoreImplementsLog == Spec => ImplementsLog
<1>1. Init => Log!Init
  <2> SUFFICES ASSUME Init PROVE Log!Init
    OBVIOUS
  <2>1. DOMAIN db.heads = {} /\ DOMAIN db.fences = {}
    BY DEF Init, NewTables, Empty
  <2>2. \A ns : LogOf(ns) = <<>>
    BY <2>1, LogOfTables DEF LogIn, Count
  <2> QED BY <2>1, <2>2 DEF Log!Init
<1>2. Inductive /\ [Next]_vars => [Log!Next]_<<[ns \in Names |-> LogOf(ns)], DOMAIN db.fences>>
  BY StepImplements DEF TheLog
<1> QED BY <1>1, <1>2, AlwaysInductive, PTL DEF Spec, ImplementsLog, Log!Spec
=============================================================================
