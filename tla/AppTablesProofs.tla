-------------------------- MODULE AppTablesProofs --------------------------
(***************************************************************************)
(* What the transactions on application tables keep, whatever the writes:  *)
(* lemmas about the operators of AppTables, for the stores built on them.  *)
(***************************************************************************)
EXTENDS AppTables, TLAPS

\* The tables are well formed and what archives and transfers check holds.
Whole(d) == IsTables(d) /\ Keyed(d) /\ ChainIntact(d) /\ ReceiptsExact(d)

-----------------------------------------------------------------------------
(* One namespace of the tables *)

\* ChainIntact and ReceiptsExact of one namespace.
ChainAt(d, ns) ==
  /\ \A k \in DOMAIN d.history : k[1] = ns =>
       /\ ns \in DOMAIN d.heads /\ k[2] <= d.heads[ns].index
       /\ d.history[k] \in DOMAIN d.content
  /\ ns \in DOMAIN d.heads =>
       /\ \A i \in 0..d.heads[ns].index : history_key(ns, i) \in DOMAIN d.history
       /\ d.history[history_key(ns, d.heads[ns].index)] = d.heads[ns].commit

ReceiptsAt(d, ns) ==
  /\ \A k \in DOMAIN d.requests : k[1] = ns =>
       /\ history_key(ns, d.requests[k].head.index) \in DOMAIN d.history
       /\ d.history[history_key(ns, d.requests[k].head.index)] = d.requests[k].head.commit
  /\ \A j, k \in DOMAIN d.requests :
       j[1] = ns /\ k[1] = ns /\ d.requests[j].head.index = d.requests[k].head.index => j = k
  /\ \A e \in DOMAIN d.history : e[1] = ns =>
       \E k \in DOMAIN d.requests : k[1] = ns /\ d.requests[k].head.index = e[2]

WholeAt(d, ns) == ChainAt(d, ns) /\ ReceiptsAt(d, ns)

\* Two databases hold the same rows of a namespace.
SameRows(f, g, ns) ==
  \A k \in DOMAIN f \cup DOMAIN g : k[1] = ns => k \in DOMAIN f /\ k \in DOMAIN g /\ f[k] = g[k]

SameAt(d, e, ns) ==
  /\ ns \in DOMAIN d.heads <=> ns \in DOMAIN e.heads
  /\ ns \in DOMAIN d.heads => d.heads[ns] = e.heads[ns]
  /\ SameRows(d.history, e.history, ns) /\ SameRows(d.requests, e.requests, ns)

\* Whole tables are whole at each namespace.
LEMMA WholeEverywhere ==
  ASSUME NEW d, ChainIntact(d), ReceiptsExact(d), NEW ns
  PROVE  WholeAt(d, ns)
<1>1. ChainAt(d, ns)
  BY DEF ChainIntact, ChainAt
<1>2. ReceiptsAt(d, ns)
  <2>1. \A k \in DOMAIN d.requests :
          /\ history_key(k[1], d.requests[k].head.index) \in DOMAIN d.history
          /\ d.history[history_key(k[1], d.requests[k].head.index)] = d.requests[k].head.commit
    BY DEF ReceiptsExact
  <2>2. \A j, k \in DOMAIN d.requests :
          j[1] = k[1] /\ d.requests[j].head.index = d.requests[k].head.index => j = k
    BY DEF ReceiptsExact
  <2>3. \A e \in DOMAIN d.history :
          \E k \in DOMAIN d.requests : k[1] = e[1] /\ d.requests[k].head.index = e[2]
    BY DEF ReceiptsExact
  <2> QED BY <2>1, <2>2, <2>3 DEF ReceiptsAt
<1> QED BY <1>1, <1>2 DEF WholeAt

\* A namespace stays whole as long as its rows stay and no content goes.
LEMMA SameWhole ==
  ASSUME NEW d, NEW e, NEW ns, Keyed(d), Keyed(e), SameAt(d, e, ns), WholeAt(d, ns),
         DOMAIN d.content \subseteq DOMAIN e.content
  PROVE  WholeAt(e, ns)
<1>1. ChainAt(e, ns)
  <2>1. \A k \in DOMAIN e.history : k[1] = ns => k \in DOMAIN d.history /\ e.history[k] = d.history[k]
    BY DEF SameAt, SameRows
  <2>2. \A k \in DOMAIN d.history : k[1] = ns => k \in DOMAIN e.history /\ e.history[k] = d.history[k]
    BY DEF SameAt, SameRows
  <2>3. \A i : history_key(ns, i)[1] = ns
    BY DEF history_key
  <2>4. \A k \in DOMAIN e.history : k[1] = ns =>
          /\ ns \in DOMAIN e.heads /\ k[2] <= e.heads[ns].index
          /\ e.history[k] \in DOMAIN e.content
    BY <2>1 DEF WholeAt, ChainAt, SameAt
  <2>5. ASSUME ns \in DOMAIN e.heads
        PROVE  /\ \A i \in 0..e.heads[ns].index : history_key(ns, i) \in DOMAIN e.history
               /\ e.history[history_key(ns, e.heads[ns].index)] = e.heads[ns].commit
    <3>1. ns \in DOMAIN d.heads /\ e.heads[ns] = d.heads[ns] /\ d.heads[ns].index \in Nat
      BY <2>5 DEF SameAt, Keyed
    <3>2. /\ \A i \in 0..d.heads[ns].index : history_key(ns, i) \in DOMAIN d.history
          /\ d.history[history_key(ns, d.heads[ns].index)] = d.heads[ns].commit
      BY <3>1 DEF WholeAt, ChainAt
    <3> QED BY <2>2, <2>3, <3>1, <3>2
  <2> QED BY <2>4, <2>5 DEF ChainAt
<1>2. ReceiptsAt(e, ns)
  <2>1. \A k \in DOMAIN e.requests : k[1] = ns => k \in DOMAIN d.requests /\ e.requests[k] = d.requests[k]
    BY DEF SameAt, SameRows
  <2>2. \A k \in DOMAIN d.requests : k[1] = ns => k \in DOMAIN e.requests /\ e.requests[k] = d.requests[k]
    BY DEF SameAt, SameRows
  <2>3. \A k \in DOMAIN d.history : k[1] = ns => k \in DOMAIN e.history /\ e.history[k] = d.history[k]
    BY DEF SameAt, SameRows
  <2>4. \A k \in DOMAIN e.history : k[1] = ns => k \in DOMAIN d.history
    BY DEF SameAt, SameRows
  <2>5. \A i : history_key(ns, i)[1] = ns
    BY DEF history_key
  <2>6. \A k \in DOMAIN e.requests : k[1] = ns =>
          /\ history_key(ns, e.requests[k].head.index) \in DOMAIN e.history
          /\ e.history[history_key(ns, e.requests[k].head.index)] = e.requests[k].head.commit
    BY <2>1, <2>3, <2>5 DEF WholeAt, ReceiptsAt
  <2>7. \A j, k \in DOMAIN e.requests :
          j[1] = ns /\ k[1] = ns /\ e.requests[j].head.index = e.requests[k].head.index => j = k
    BY <2>1 DEF WholeAt, ReceiptsAt
  <2>8. \A h \in DOMAIN e.history : h[1] = ns =>
          \E k \in DOMAIN e.requests : k[1] = ns /\ e.requests[k].head.index = h[2]
    BY <2>2, <2>4 DEF WholeAt, ReceiptsAt
  <2> QED BY <2>6, <2>7, <2>8 DEF ReceiptsAt
<1> QED BY <1>1, <1>2 DEF WholeAt

\* Tables that are whole at each namespace are whole.
LEMMA WholeTogether ==
  ASSUME NEW d, IsTables(d), Keyed(d), \A ns : WholeAt(d, ns)
  PROVE  Whole(d)
<1>1. ChainIntact(d)
  BY DEF WholeAt, ChainAt, ChainIntact
<1>2. ReceiptsExact(d)
  <2>1. \A k \in DOMAIN d.requests :
          /\ history_key(k[1], d.requests[k].head.index) \in DOMAIN d.history
          /\ d.history[history_key(k[1], d.requests[k].head.index)] = d.requests[k].head.commit
    BY DEF WholeAt, ReceiptsAt
  <2>2. \A j, k \in DOMAIN d.requests :
          j[1] = k[1] /\ d.requests[j].head.index = d.requests[k].head.index => j = k
    BY DEF WholeAt, ReceiptsAt
  <2>3. \A e \in DOMAIN d.history :
          \E k \in DOMAIN d.requests : k[1] = e[1] /\ d.requests[k].head.index = e[2]
    BY DEF WholeAt, ReceiptsAt
  <2> QED BY <2>1, <2>2, <2>3 DEF ReceiptsExact
<1> QED BY <1>1, <1>2 DEF Whole

-----------------------------------------------------------------------------
(* What the transactions leave *)

\* An optional value.
LEMMA OptionFacts == \A x : <<x>> # <<>> /\ <<x>>[1] = x
  OBVIOUS

\* No table has a row.
LEMMA NewTablesWhole == Whole(NewTables)
<1>1. IsTables(NewTables)
  BY DEF IsTables, Fields, NewTables
<1>2. /\ DOMAIN NewTables.heads = {} /\ DOMAIN NewTables.history = {}
      /\ DOMAIN NewTables.requests = {}
  BY DEF NewTables, Empty
<1> QED BY <1>1, <1>2 DEF Whole, Keyed, ChainIntact, ReceiptsExact

\* A reader generation is all that a promotion changes.
LEMMA PromotedFields ==
  ASSUME NEW d, IsTables(d), NEW g
  PROVE  LET p == Promoted(d, g) IN
         /\ IsTables(p)
         /\ p.content = d.content /\ p.heads = d.heads /\ p.history = d.history
         /\ p.requests = d.requests /\ p.claims = d.claims /\ p.fences = d.fences
         /\ p.staged = d.staged /\ p.cursors = d.cursors /\ p.targets = d.targets
         /\ p.seal = d.seal /\ p.status \in {d.status, g}
<1> DEFINE p == Promoted(d, g)
<1>1. p = d \/ p = [d EXCEPT !.status = g]
  BY DEF Promoted
<1> HIDE DEF p
<1>2. /\ IsTables(p)
      /\ p.content = d.content /\ p.heads = d.heads /\ p.history = d.history
      /\ p.requests = d.requests /\ p.claims = d.claims /\ p.fences = d.fences
      /\ p.staged = d.staged /\ p.cursors = d.cursors /\ p.targets = d.targets
      /\ p.seal = d.seal /\ p.status \in {d.status, g}
  BY <1>1 DEF IsTables, Fields
<1> QED BY <1>2 DEF p

\* The tables a that an accepted write leaves of d, one by one.
Leaves(d, w, a) ==
  /\ IsTables(a)
  /\ a.content = PutAll(d.content, w.content)
  /\ a.claims = PutAll(d.claims, w.claims)
  /\ a.history = Put(d.history, history_key(w.ns, w.head.index), w.head.commit)
  /\ a.heads = Put(d.heads, w.ns, w.head)
  /\ a.requests = Put(d.requests, request_key(w.ns, w.request),
                      [fingerprint |-> w.fingerprint, head |-> w.head])
  /\ a.fences = PutAll(d.fences, {<<s[1], Fence(w)>> : s \in w.sources})
  /\ a.staged = d.staged /\ a.cursors = d.cursors /\ a.targets = d.targets
  /\ a.seal = d.seal /\ a.status \in {d.status, "neuron-v1"}
  /\ w.sources = {} => a.status = d.status

\* Applied changes each table as its transaction does, and no other.
LEMMA AppliedFields ==
  ASSUME NEW d, IsTables(d), NEW w
  PROVE  Leaves(d, w, Applied(d, w))
<1> DEFINE content == PutAll(d.content, w.content)
           claims == PutAll(d.claims, w.claims)
           history == Put(d.history, history_key(w.ns, w.head.index), w.head.commit)
           heads == Put(d.heads, w.ns, w.head)
           requests == Put(d.requests, request_key(w.ns, w.request),
                           [fingerprint |-> w.fingerprint, head |-> w.head])
           fences == PutAll(d.fences, {<<s[1], Fence(w)>> : s \in w.sources})
           written == [d EXCEPT !.content = content, !.claims = claims, !.history = history,
                                !.heads = heads, !.requests = requests, !.fences = fences]
           a == Applied(d, w)
<1>1. a = IF w.sources = {} THEN written ELSE Promoted(written, "neuron-v1")
  BY DEF Applied
<1> HIDE DEF content, claims, history, heads, requests, fences, a
<1>2. /\ IsTables(written) /\ written.content = content /\ written.claims = claims
      /\ written.history = history /\ written.heads = heads
      /\ written.requests = requests /\ written.fences = fences
      /\ written.staged = d.staged /\ written.cursors = d.cursors
      /\ written.targets = d.targets /\ written.seal = d.seal
      /\ written.status = d.status
  BY DEF IsTables, Fields
<1> HIDE DEF written
<1>3. /\ IsTables(a) /\ a.content = content /\ a.claims = claims /\ a.history = history
      /\ a.heads = heads /\ a.requests = requests /\ a.fences = fences
      /\ a.staged = d.staged /\ a.cursors = d.cursors /\ a.targets = d.targets
      /\ a.seal = d.seal /\ a.status \in {d.status, "neuron-v1"}
  BY <1>1, <1>2, PromotedFields
<1>4. w.sources = {} => a.status = d.status
  BY <1>1, <1>2
<1> QED BY <1>3, <1>4 DEF a, content, claims, history, heads, requests, fences, Leaves

\* An accepted write follows the head of its namespace: no entry has its
\* index yet.
LEMMA AcceptedIndex ==
  ASSUME NEW d, Keyed(d), NEW w, WholeAt(d, w.ns), HeadFollows(d, w)
  PROVE  /\ w.head.index \in Nat
         /\ w.head.index = IF w.ns \in DOMAIN d.heads THEN d.heads[w.ns].index + 1 ELSE 0
         /\ history_key(w.ns, w.head.index) \notin DOMAIN d.history
<1>1. w.head.index = IF w.ns \in DOMAIN d.heads THEN d.heads[w.ns].index + 1 ELSE 0
  <2>1. w.expected = head(d, w.ns) /\ w.head.index = NextIndex(w.expected)
    BY DEF HeadFollows
  <2>2. CASE w.ns \in DOMAIN d.heads
    <3>1. w.expected = <<d.heads[w.ns]>>
      BY <2>1, <2>2 DEF head
    <3>2. w.expected # <<>> /\ w.expected[1] = d.heads[w.ns]
      BY <3>1, OptionFacts
    <3> QED BY <2>1, <2>2, <3>2 DEF NextIndex
  <2>3. CASE w.ns \notin DOMAIN d.heads
    BY <2>1, <2>3 DEF head, NextIndex
  <2> QED BY <2>2, <2>3
<1>2. w.ns \in DOMAIN d.heads => d.heads[w.ns].index \in Nat
  BY DEF Keyed
<1>3. w.head.index \in Nat
  BY <1>1, <1>2
<1>4. ASSUME history_key(w.ns, w.head.index) \in DOMAIN d.history PROVE FALSE
  <2>1. w.ns \in DOMAIN d.heads /\ w.head.index <= d.heads[w.ns].index
    BY <1>4 DEF WholeAt, ChainAt, history_key
  <2> QED BY <1>1, <1>2, <2>1
<1> QED BY <1>1, <1>3, <1>4

\* An accepted write rewrites and removes no row.
LEMMA AppliedKeeps ==
  ASSUME NEW d, IsTables(d), Keyed(d), NEW w, WholeAt(d, w.ns), Accepts(d, w)
  PROVE  RowsKept(d, Applied(d, w))
<1> DEFINE a == Applied(d, w)
<1>1. Leaves(d, w, a)
  BY AppliedFields
<1> HIDE DEF a
<1>2. history_key(w.ns, w.head.index) \notin DOMAIN d.history
  BY AcceptedIndex DEF Accepts
<1>3. request_key(w.ns, w.request) \notin DOMAIN d.requests
  BY DEF Accepts, HasReceipt
<1>4. Kept(d.history, a.history) /\ Kept(d.requests, a.requests)
  BY <1>1, <1>2, <1>3 DEF Leaves, Kept, Put
<1>5. Kept(d.content, a.content) /\ Kept(d.claims, a.claims) /\ Kept(d.fences, a.fences)
  BY <1>1 DEF Leaves, Kept, PutAll
<1> QED BY <1>4, <1>5 DEF RowsKept, a

\* A write leaves the rows of every other namespace alone.
LEMMA AppliedElsewhere ==
  ASSUME NEW d, IsTables(d), Keyed(d), NEW w, NEW ns, ns # w.ns
  PROVE  /\ SameAt(d, Applied(d, w), ns)
         /\ DOMAIN d.content \subseteq DOMAIN Applied(d, w).content
<1> DEFINE a == Applied(d, w)
           hk == history_key(w.ns, w.head.index)
           rk == request_key(w.ns, w.request)
<1>1. Leaves(d, w, a)
  BY AppliedFields
<1>2. hk[1] = w.ns /\ rk[1] = w.ns
  BY DEF history_key, request_key
<1> HIDE DEF a, hk, rk
<1>3. SameRows(d.history, a.history, ns)
  BY <1>1, <1>2 DEF Leaves, Put, hk, SameRows
<1>4. SameRows(d.requests, a.requests, ns)
  BY <1>1, <1>2 DEF Leaves, Put, rk, SameRows
<1>5. ns \in DOMAIN d.heads <=> ns \in DOMAIN a.heads
  BY <1>1 DEF Leaves, Put
<1>6. ns \in DOMAIN d.heads => d.heads[ns] = a.heads[ns]
  BY <1>1 DEF Leaves, Put
<1>7. DOMAIN d.content \subseteq DOMAIN a.content
  BY <1>1 DEF Leaves, PutAll
<1> QED BY <1>3, <1>4, <1>5, <1>6, <1>7 DEF SameAt, a

\* The tables an accepted write leaves are well formed.
LEMMA AppliedKeyed ==
  ASSUME NEW d, IsTables(d), Keyed(d), NEW w, w.head.index \in Nat
  PROVE  Keyed(Applied(d, w))
<1> DEFINE a == Applied(d, w)
           hk == history_key(w.ns, w.head.index)
           rk == request_key(w.ns, w.request)
<1>1. Leaves(d, w, a)
  BY AppliedFields
<1>2. hk = <<w.ns, w.head.index>> /\ rk = <<w.ns, w.request>>
  BY DEF history_key, request_key
<1> HIDE DEF a, hk, rk
<1>3. \A ns \in DOMAIN a.heads : a.heads[ns].index \in Nat
  BY <1>1 DEF Leaves, Put, Keyed
<1>4. \A k \in DOMAIN a.history : k = hk \/ k \in DOMAIN d.history
  BY <1>1 DEF Leaves, Put, hk
<1>5. \A k \in DOMAIN a.requests :
        \/ k = rk /\ a.requests[k] = [fingerprint |-> w.fingerprint, head |-> w.head]
        \/ k \in DOMAIN d.requests /\ a.requests[k] = d.requests[k]
  BY <1>1 DEF Leaves, Put, rk
<1> QED BY <1>2, <1>3, <1>4, <1>5 DEF Keyed, a

\* An accepted write adds one entry and its receipt: the history of its
\* namespace stays gapless, and receipts and entries correspond as before.
LEMMA AppliedAt ==
  ASSUME NEW d, IsTables(d), Keyed(d), NEW w, WholeAt(d, w.ns), Accepts(d, w)
  PROVE  WholeAt(Applied(d, w), w.ns)
<1> DEFINE a == Applied(d, w)
           hk == history_key(w.ns, w.head.index)
           rk == request_key(w.ns, w.request)
<1>1. Leaves(d, w, a)
  BY AppliedFields
<1>2. /\ w.head.index \in Nat /\ hk \notin DOMAIN d.history
      /\ w.head.index = IF w.ns \in DOMAIN d.heads THEN d.heads[w.ns].index + 1 ELSE 0
      /\ hk = <<w.ns, w.head.index>>
  BY AcceptedIndex DEF Accepts, history_key
<1>3. rk \notin DOMAIN d.requests /\ rk = <<w.ns, w.request>>
  BY DEF Accepts, HasReceipt, request_key
<1>4. ChainAt(d, w.ns) /\ ReceiptsAt(d, w.ns)
  BY DEF WholeAt
<1> HIDE DEF a, hk, rk
\* The tables after the write, row by row.
<1>5. w.ns \in DOMAIN a.heads /\ a.heads[w.ns] = w.head
  BY <1>1 DEF Leaves, Put
<1>6. /\ DOMAIN a.history = DOMAIN d.history \cup {hk} /\ a.history[hk] = w.head.commit
      /\ \A k \in DOMAIN d.history : k # hk /\ a.history[k] = d.history[k]
  BY <1>1, <1>2 DEF Leaves, Put, hk
<1>7. /\ DOMAIN a.requests = DOMAIN d.requests \cup {rk}
      /\ a.requests[rk] = [fingerprint |-> w.fingerprint, head |-> w.head]
      /\ \A k \in DOMAIN d.requests : k # rk /\ a.requests[k] = d.requests[k]
  BY <1>1, <1>3 DEF Leaves, Put, rk
<1>8. DOMAIN d.content \subseteq DOMAIN a.content /\ w.head.commit \in DOMAIN a.content
  BY <1>1 DEF Leaves, PutAll, Accepts
<1>9. ChainAt(a, w.ns)
  <2>1. ASSUME NEW k \in DOMAIN a.history, k[1] = w.ns
        PROVE  k[2] <= w.head.index /\ a.history[k] \in DOMAIN a.content
    <3>1. CASE k = hk
      BY <1>2, <1>6, <1>8, <3>1
    <3>2. CASE k \in DOMAIN d.history
      <4>1. /\ w.ns \in DOMAIN d.heads /\ k[2] <= d.heads[w.ns].index /\ k[2] \in Nat
            /\ d.history[k] \in DOMAIN d.content /\ d.heads[w.ns].index \in Nat
        BY <1>4, <2>1, <3>2 DEF ChainAt, Keyed
      <4> QED BY <1>2, <1>6, <1>8, <3>2, <4>1
    <3> QED BY <1>6, <3>1, <3>2
  <2>2. \A i \in 0..w.head.index : history_key(w.ns, i) \in DOMAIN a.history
    <3>1. \A i \in 0..w.head.index : i # w.head.index =>
            w.ns \in DOMAIN d.heads /\ i \in 0..d.heads[w.ns].index
      BY <1>2 DEF Keyed
    <3>2. \A i \in 0..w.head.index : i # w.head.index => history_key(w.ns, i) \in DOMAIN d.history
      BY <1>4, <3>1 DEF ChainAt
    <3> QED BY <1>6, <3>2 DEF hk
  <2> QED BY <1>5, <1>6, <2>1, <2>2 DEF ChainAt, hk
<1>10. ReceiptsAt(a, w.ns)
  <2>1. ASSUME NEW k \in DOMAIN a.requests, k[1] = w.ns
        PROVE  /\ history_key(w.ns, a.requests[k].head.index) \in DOMAIN a.history
               /\ a.history[history_key(w.ns, a.requests[k].head.index)] = a.requests[k].head.commit
    <3>1. CASE k = rk
      BY <1>6, <1>7, <3>1 DEF hk
    <3>2. CASE k \in DOMAIN d.requests
      <4>1. /\ history_key(w.ns, d.requests[k].head.index) \in DOMAIN d.history
            /\ d.history[history_key(w.ns, d.requests[k].head.index)] = d.requests[k].head.commit
        BY <1>4, <2>1, <3>2 DEF ReceiptsAt
      <4> QED BY <1>6, <1>7, <3>2, <4>1
    <3> QED BY <1>7, <3>1, <3>2
  <2>2. \A k \in DOMAIN d.requests : k[1] = w.ns => d.requests[k].head.index # w.head.index
    BY <1>2, <1>4 DEF ReceiptsAt, hk
  <2>3. \A j, k \in DOMAIN a.requests :
          j[1] = w.ns /\ k[1] = w.ns /\ a.requests[j].head.index = a.requests[k].head.index => j = k
    <3>1. \A j, k \in DOMAIN d.requests :
            j[1] = w.ns /\ k[1] = w.ns /\ d.requests[j].head.index = d.requests[k].head.index => j = k
      BY <1>4 DEF ReceiptsAt
    <3> QED BY <1>7, <2>2, <3>1
  <2>4. \A e \in DOMAIN a.history : e[1] = w.ns =>
          \E k \in DOMAIN a.requests : k[1] = w.ns /\ a.requests[k].head.index = e[2]
    <3>1. \A e \in DOMAIN d.history : e[1] = w.ns =>
            \E k \in DOMAIN d.requests : k[1] = w.ns /\ d.requests[k].head.index = e[2]
      BY <1>4 DEF ReceiptsAt
    <3> QED BY <1>2, <1>3, <1>6, <1>7, <3>1
  <2> QED BY <2>1, <2>3, <2>4 DEF ReceiptsAt
<1> QED BY <1>9, <1>10 DEF WholeAt, a

\* Whole tables stay whole.
LEMMA AppliedWhole ==
  ASSUME NEW d, Whole(d), NEW w, Accepts(d, w)
  PROVE  Whole(Applied(d, w))
<1>1. IsTables(d) /\ Keyed(d) /\ \A ns : WholeAt(d, ns)
  BY WholeEverywhere DEF Whole
<1>2. w.head.index \in Nat
  BY <1>1, AcceptedIndex DEF Accepts
<1>3. IsTables(Applied(d, w)) /\ Keyed(Applied(d, w))
  BY <1>1, <1>2, AppliedFields, AppliedKeyed DEF Leaves
<1>4. ASSUME NEW ns PROVE WholeAt(Applied(d, w), ns)
  <2>1. CASE ns = w.ns
    BY <1>1, <2>1, AppliedAt
  <2>2. CASE ns # w.ns
    BY <1>1, <1>3, <2>2, AppliedElsewhere, SameWhole
  <2> QED BY <2>1, <2>2
<1> QED BY <1>3, <1>4, WholeTogether

\* A write moves no head but its own, and closes its sources.
LEMMA AppliedHeads ==
  ASSUME NEW d, IsTables(d), NEW w
  PROVE  /\ \A ns : ns # w.ns => head(Applied(d, w), ns) = head(d, ns)
         /\ DOMAIN Applied(d, w).fences = DOMAIN d.fences \cup {s[1] : s \in w.sources}
<1> DEFINE a == Applied(d, w)
<1>1. Leaves(d, w, a)
  BY AppliedFields
<1> HIDE DEF a
<1>2. \A ns : ns # w.ns => head(a, ns) = head(d, ns)
  <2>1. DOMAIN a.heads = DOMAIN d.heads \cup {w.ns}
    BY <1>1 DEF Leaves, Put
  <2>2. \A ns \in DOMAIN d.heads : ns # w.ns => a.heads[ns] = d.heads[ns]
    BY <1>1 DEF Leaves, Put
  <2> QED BY <2>1, <2>2 DEF head
<1>3. DOMAIN a.fences = DOMAIN d.fences \cup {s[1] : s \in w.sources}
  <2>1. DOMAIN a.fences = DOMAIN d.fences \cup {p[1] : p \in {<<s[1], Fence(w)>> : s \in w.sources}}
    BY <1>1 DEF Leaves, PutAll
  <2>2. {p[1] : p \in {<<s[1], Fence(w)>> : s \in w.sources}} = {s[1] : s \in w.sources}
    <3> DEFINE pairs == {<<s[1], Fence(w)>> : s \in w.sources}
    <3>1. \A s \in w.sources : <<s[1], Fence(w)>> \in pairs /\ <<s[1], Fence(w)>>[1] = s[1]
      OBVIOUS
    <3>2. \A p \in pairs : \E s \in w.sources : p[1] = s[1]
      OBVIOUS
    <3> HIDE DEF pairs
    <3>3. {p[1] : p \in pairs} = {s[1] : s \in w.sources}
      BY <3>1, <3>2
    <3> QED BY <3>3 DEF pairs
  <2> QED BY <2>1, <2>2
<1> QED BY <1>2, <1>3 DEF a

\* A promotion to the generation of neurons is none downwards.
LEMMA PromotedStatus ==
  ASSUME NEW d, IsTables(d)
  PROVE  Promoted(d, "neuron-v1").status = d.status \/ d.status # "auth-v1"
  BY DEF Promoted, GenerationRank

LEMMA AppliedStatus ==
  ASSUME NEW d, IsTables(d), NEW w
  PROVE  Applied(d, w).status = d.status \/ d.status # "auth-v1"
<1> DEFINE written == [d EXCEPT
             !.content  = PutAll(@, w.content),
             !.claims   = PutAll(@, w.claims),
             !.history  = Put(@, history_key(w.ns, w.head.index), w.head.commit),
             !.heads    = Put(@, w.ns, w.head),
             !.requests = Put(@, request_key(w.ns, w.request),
                              [fingerprint |-> w.fingerprint, head |-> w.head]),
             !.fences   = PutAll(@, {<<s[1], Fence(w)>> : s \in w.sources})]
<1>1. Applied(d, w) = IF w.sources = {} THEN written ELSE Promoted(written, "neuron-v1")
  BY DEF Applied
<1>2. IsTables(written) /\ written.status = d.status
  BY DEF IsTables, Fields
<1> HIDE DEF written
<1> QED BY <1>1, <1>2, PromotedStatus

\* A promotion leaves the tables whole.
LEMMA PromotedWhole ==
  ASSUME NEW d, Whole(d), NEW g
  PROVE  Whole(Promoted(d, g))
<1> DEFINE p == Promoted(d, g)
<1>1. /\ IsTables(p) /\ p.content = d.content /\ p.heads = d.heads
      /\ p.history = d.history /\ p.requests = d.requests
  BY PromotedFields DEF Whole
<1> HIDE DEF p
<1>2. Keyed(p)
  BY <1>1 DEF Whole, Keyed
<1>3. ChainIntact(p) /\ ReceiptsExact(p)
  BY <1>1 DEF Whole, ChainIntact, ReceiptsExact
<1> QED BY <1>1, <1>2, <1>3 DEF Whole, p

=============================================================================
