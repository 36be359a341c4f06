--------------------- MODULE ApplicationTransferProofs ---------------------
(***************************************************************************)
(* The safety of ApplicationTransfer for any archives, sessions, threads   *)
(* and clients: what a transfer copies, what it keeps out, and what it     *)
(* leaves whole.                                                           *)
(***************************************************************************)
EXTENDS ApplicationTransfer, AppTablesProofs, FiniteSetTheorems

IsCursor(c) == c = [table |-> c.table, after |-> c.after] /\ c.table \in 0..5 /\ c.after \in Nat

\* The seal of an archive names a session that was opened on it.
SealSound(a) ==
  archive[a].seal # <<>> =>
    /\ archive[a].status = "export-v1"
    /\ \E s \in Sessions :
         /\ s.archive = a
         /\ archive[a].seal[1].manifest = [target |-> s.target, key |-> s.key, heads |-> archive[a].heads]

ArchivesSound ==
  /\ archive = [a \in Archives |-> archive[a]]
  /\ \A a \in Archives : Archived(archive[a]) /\ SealSound(a)

\* A source that is open has sealed its archive.
SourcesSealed ==
  /\ held = [a \in Archives |-> held[a]]
  /\ \A a \in Archives : held[a] # <<>> => SealedFor(a, held[a][1])

\* A call of stage is of an open source whose namespaces are reserved.
CallSound(c) ==
  /\ c = [f \in {"archive", "cursor", "copied"} |-> c[f]]
  /\ c.archive \in Archives /\ IsCursor(c.cursor)
  /\ held[c.archive] # <<>> /\ held[c.archive][1] \in DOMAIN db.cursors

CallsSound ==
  /\ stage = [t \in Threads |-> stage[t]]
  /\ \A t \in Threads : stage[t] # <<>> => CallSound(stage[t][1])

TargetSound == IsTables(db) /\ Keyed(db) /\ db.status \in Generations

\* A transfer reserves the namespaces of its archive, together.
Reservation(m) ==
  /\ IsCursor(db.cursors[m])
  /\ \E a \in Archives : SealedFor(a, m)
  /\ m \in DOMAIN db.targets /\ db.targets[m] = m.target
  /\ \A ns \in DOMAIN m.heads : ns \in DOMAIN db.staged /\ db.staged[ns] = m

Reservations ==
  /\ \A m \in DOMAIN db.cursors : Reservation(m)
  /\ \A ns \in DOMAIN db.staged :
       db.staged[ns] \in DOMAIN db.cursors /\ ns \in DOMAIN db.staged[ns].heads

\* What a cursor says is copied of the tables s to the tables d is there: the
\* tables before the cursor's, and of its own the rows of the first keys.
RowCopied(f, g, k) == k \in DOMAIN g /\ g[k] = f[k]

CopiedTo(s, d, c) ==
  /\ \A i \in 1..5 : i <= c.table => Kept(s[TABLES[i]], d[TABLES[i]])
  /\ c.table < 5 =>
       \A j \in 1..Cardinality(DOMAIN s[TABLES[c.table + 1]]) : j <= c.after =>
         RowCopied(s[TABLES[c.table + 1]], d[TABLES[c.table + 1]],
                   SetToSeq(DOMAIN s[TABLES[c.table + 1]])[j])

Copied ==
  \A a \in Archives : \A m \in DOMAIN db.cursors :
    SealedFor(a, m) => CopiedTo(archive[a], db, db.cursors[m])

\* No transfer of the namespace is under way.
Settled(ns) == ns \in DOMAIN db.staged => Complete(db.staged[ns])

NamespacesWhole == \A ns : Settled(ns) => WholeAt(db, ns)

\* What holds of the target.
Received == TargetSound /\ Reservations /\ Copied /\ NamespacesWhole /\ StagedInert

Inductive == ArchivesSound /\ SourcesSealed /\ CallsSound /\ Received

-----------------------------------------------------------------------------
(* Seals, pages and tables *)

\* A manifest pins the heads of its archive, and no two archives share one.
LEMMA SealPins ==
  ASSUME ArchivesSound, NEW a \in Archives, NEW m, SealedFor(a, m)
  PROVE  /\ m.heads = archive[a].heads
         /\ \E s \in Sessions :
              s.archive = a /\ m = [target |-> s.target, key |-> s.key, heads |-> archive[a].heads]
<1>1. PICK s \in Sessions :
        s.archive = a /\ m = [target |-> s.target, key |-> s.key, heads |-> archive[a].heads]
  BY DEF ArchivesSound, SealSound, SealedFor
<1>2. m.heads = archive[a].heads
  BY <1>1
<1> QED BY <1>1, <1>2

LEMMA SealedOnce ==
  ASSUME ArchivesSound, NEW a \in Archives, NEW b \in Archives, NEW m,
         SealedFor(a, m), SealedFor(b, m)
  PROVE  a = b
<1>1. PICK s \in Sessions :
        s.archive = a /\ m = [target |-> s.target, key |-> s.key, heads |-> archive[a].heads]
  BY SealPins
<1>2. PICK z \in Sessions :
        z.archive = b /\ m = [target |-> z.target, key |-> z.key, heads |-> archive[b].heads]
  BY SealPins
<1>3. s.target = z.target /\ s.key = z.key
  <2>1. m.target = s.target /\ m.key = s.key
    BY <1>1
  <2>2. m.target = z.target /\ m.key = z.key
    BY <1>2
  <2> QED BY <2>1, <2>2
<1> QED BY <1>1, <1>2, <1>3, SessionsAssumption

\* The keys of a finite table, one by one.
LEMMA KeysListed ==
  ASSUME NEW S, IsFiniteSet(S)
  PROVE  /\ Cardinality(S) \in Nat
         /\ SetToSeq(S) \in [1..Cardinality(S) -> S]
         /\ Len(SetToSeq(S)) = Cardinality(S)
         /\ \A x \in S : \E j \in 1..Cardinality(S) : SetToSeq(S)[j] = x
<1> DEFINE n == Cardinality(S)
           keys == SetToSeq(S)
<1>1. n \in Nat /\ ExistsBijection(1..n, S)
  BY FS_CardinalityType
<1>2. \E f \in [1..n -> S] : IsInjective(f)
  BY <1>1 DEF ExistsBijection, Bijection, Injection
<1>3. keys \in [1..n -> S] /\ IsInjective(keys)
  BY <1>2 DEF SetToSeq
<1> HIDE DEF keys, n
<1>4. Len(keys) = n
  BY <1>1, <1>3
<1>5. keys \in Injection(1..n, S)
  BY <1>3 DEF Injection
<1>6. Cardinality(1..n) = n
  BY <1>1, FS_Interval
<1>7. keys \in Surjection(1..n, S)
  <2>1. Cardinality(1..n) = Cardinality(S)
    BY <1>6 DEF n
  <2> QED BY <1>5, <2>1, FS_Injection
<1>8. \A x \in S : \E j \in 1..n : keys[j] = x
  BY <1>7 DEF Surjection
<1> QED BY <1>1, <1>3, <1>4, <1>8 DEF n, keys

\* A page is rows of the table, the next ones after the cursor; it is empty
\* only when the cursor has passed the last.
LEMMA PageRowsNext ==
  ASSUME NEW a, NEW c, IsCursor(c), NEW T, T = archive[a][TABLES[c.table + 1]],
         IsFiniteSet(DOMAIN T)
  PROVE  /\ \A p \in Page(a, c) : p[1] \in DOMAIN T /\ p[2] = T[p[1]]
         /\ Cardinality(Page(a, c)) \in Nat
         /\ Page(a, c) = {} => Cardinality(DOMAIN T) <= c.after
         /\ \A j \in 1..Cardinality(DOMAIN T) :
              j > c.after /\ j <= c.after + Cardinality(Page(a, c)) =>
                \E p \in Page(a, c) : p[1] = SetToSeq(DOMAIN T)[j]
<1> DEFINE keys == SetToSeq(DOMAIN T)
           n == Cardinality(DOMAIN T)
           last == IF c.after + PageRows < n THEN c.after + PageRows ELSE n
           rows == Page(a, c)
           row(i) == <<keys[i], T[keys[i]]>>
           I == (c.after + 1)..last
<1>1. /\ n \in Nat /\ keys \in [1..n -> DOMAIN T] /\ Len(keys) = n
  BY KeysListed
<1>2. rows = {row(i) : i \in I}
  BY <1>1 DEF Page
<1>3. c.after \in Nat /\ last \in Nat /\ PageRows \in Nat /\ PageRows > 0 /\ last <= n
  BY <1>1, PageAssumption DEF IsCursor
<1>4. \A i \in I : i \in 1..n
  BY <1>1, <1>3
<1>5. \A p \in rows : p[1] \in DOMAIN T /\ p[2] = T[p[1]]
  <2>1. \A i \in I : row(i)[1] \in DOMAIN T /\ row(i)[2] = T[row(i)[1]]
    BY <1>1, <1>4
  <2> HIDE DEF row, I
  <2> QED BY <1>2, <2>1
<1>6. Cardinality(rows) \in Nat /\ Cardinality(rows) <= (IF c.after < last THEN last - c.after ELSE 0)
  <2> DEFINE g == [i \in I |-> row(i)]
  <2>1. g \in Surjection(I, rows)
    <3> HIDE DEF row, I
    <3> QED BY <1>2 DEF Surjection
  <2>2. IsFiniteSet(I) /\ Cardinality(I) = IF c.after + 1 > last THEN 0 ELSE last - (c.after + 1) + 1
    <3> HIDE DEF last
    <3>1. c.after + 1 \in Int /\ last \in Int
      BY <1>3
    <3> QED BY <3>1, FS_Interval
  <2>3. IsFiniteSet(rows) /\ Cardinality(rows) <= Cardinality(I)
    BY <2>1, <2>2, FS_Surjection
  <2>4. Cardinality(rows) \in Nat
    BY <2>3, FS_CardinalityType
  <2> QED BY <1>3, <2>2, <2>3, <2>4
<1>7. rows = {} => n <= c.after
  <2>1. ASSUME n > c.after PROVE c.after + 1 \in I
    BY <1>1, <1>3, <2>1
  <2>2. ASSUME n > c.after PROVE rows # {}
    BY <1>2, <2>1, <2>2
  <2> QED BY <1>1, <1>3, <2>2
<1>8. ASSUME NEW j \in 1..n, j > c.after, j <= c.after + Cardinality(rows)
      PROVE  \E p \in rows : p[1] = keys[j]
  <2>1. j \in I
    BY <1>1, <1>3, <1>6, <1>8
  <2>2. row(j) \in rows /\ row(j)[1] = keys[j]
    BY <1>2, <2>1
  <2> QED BY <2>2
<1> QED BY <1>5, <1>6, <1>7, <1>8

LEMMA TableNames ==
  /\ DOMAIN TABLES = 1..5
  /\ TABLES[1] = "content" /\ TABLES[2] = "claims" /\ TABLES[3] = "requests"
  /\ TABLES[4] = "history" /\ TABLES[5] = "heads"
  BY DEF TABLES

\* The write that an order becomes.
LEMMA WriteOnFields ==
  ASSUME NEW d, Keyed(d), NEW o
  PROVE  LET w == WriteOn(d, o) IN
         /\ w.ns = o.ns /\ w.content = o.content /\ w.claims = o.claims
         /\ w.head.index \in Nat
<1> DEFINE w == WriteOn(d, o)
<1>1. /\ w.ns = o.ns /\ w.content = o.content /\ w.claims = o.claims
      /\ w.head.index = NextIndex(head(d, o.ns))
  BY DEF WriteOn
<1>2. NextIndex(head(d, o.ns)) \in Nat
  <2>1. CASE o.ns \in DOMAIN d.heads
    <3>1. head(d, o.ns) = <<d.heads[o.ns]>>
      BY <2>1 DEF head
    <3>2. head(d, o.ns) # <<>> /\ head(d, o.ns)[1] = d.heads[o.ns]
      BY <3>1, OptionFacts
    <3> QED BY <2>1, <3>2 DEF NextIndex, Keyed
  <2>2. CASE o.ns \notin DOMAIN d.heads
    BY <2>2 DEF head, NextIndex
  <2> QED BY <2>1, <2>2
<1> QED BY <1>1, <1>2

\* A write leaves the tables of an archive well formed.
LEMMA AppliedArchived ==
  ASSUME NEW d, Archived(d), NEW w, w.head.index \in Nat,
         IsFiniteSet(w.content), IsFiniteSet(w.claims)
  PROVE  Archived(Applied(d, w))
<1> DEFINE a == Applied(d, w)
           hk == history_key(w.ns, w.head.index)
           rk == request_key(w.ns, w.request)
<1>1. Leaves(d, w, a) /\ Keyed(a)
  BY AppliedFields, AppliedKeyed DEF Archived
<1>2. hk[1] = w.ns /\ rk[1] = w.ns
  BY DEF history_key, request_key
<1> HIDE DEF a, hk, rk
<1>3. /\ IsFiniteSet(DOMAIN d.content) /\ IsFiniteSet(DOMAIN d.claims)
      /\ IsFiniteSet(DOMAIN d.requests) /\ IsFiniteSet(DOMAIN d.history)
      /\ IsFiniteSet(DOMAIN d.heads)
  BY TableNames DEF Archived
<1>4. /\ DOMAIN a.heads = DOMAIN d.heads \cup {w.ns}
      /\ DOMAIN a.history = DOMAIN d.history \cup {hk}
      /\ DOMAIN a.requests = DOMAIN d.requests \cup {rk}
      /\ DOMAIN a.content = DOMAIN d.content \cup {p[1] : p \in w.content}
      /\ DOMAIN a.claims = DOMAIN d.claims \cup {p[1] : p \in w.claims}
  BY <1>1 DEF Leaves, Put, PutAll, hk, rk
<1>5. ASSUME NEW S, IsFiniteSet(S) PROVE IsFiniteSet({p[1] : p \in S})
  <2> DEFINE g == [p \in S |-> p[1]]
             U == {p[1] : p \in S}
  <2>1. g \in Surjection(S, U)
    BY DEF Surjection
  <2> HIDE DEF g, U
  <2>2. IsFiniteSet(U)
    BY <1>5, <2>1, FS_Surjection
  <2> QED BY <2>2 DEF U
<1>6. /\ IsFiniteSet(DOMAIN a.heads) /\ IsFiniteSet(DOMAIN a.history)
      /\ IsFiniteSet(DOMAIN a.requests)
  <2>1. /\ IsFiniteSet(DOMAIN d.heads \cup {w.ns}) /\ IsFiniteSet(DOMAIN d.history \cup {hk})
        /\ IsFiniteSet(DOMAIN d.requests \cup {rk})
    BY <1>3, FS_AddElement, Zenon
  <2> QED BY <1>4, <2>1, Zenon
<1>7. IsFiniteSet(DOMAIN a.content) /\ IsFiniteSet(DOMAIN a.claims)
  <2>1. IsFiniteSet({p[1] : p \in w.content}) /\ IsFiniteSet({p[1] : p \in w.claims})
    BY <1>5, Zenon
  <2>2. /\ IsFiniteSet(DOMAIN d.content \cup {p[1] : p \in w.content})
        /\ IsFiniteSet(DOMAIN d.claims \cup {p[1] : p \in w.claims})
    BY <1>3, <2>1, FS_Union, Zenon
  <2> QED BY <1>4, <2>2, Zenon
<1>8. \A i \in DOMAIN TABLES : IsFiniteSet(DOMAIN a[TABLES[i]])
  <2>1. \A i \in 1..5 : i = 1 \/ i = 2 \/ i = 3 \/ i = 4 \/ i = 5
    OBVIOUS
  <2> QED BY <1>6, <1>7, <2>1, TableNames
<1>9. \A k \in DOMAIN a.history \cup DOMAIN a.requests : k[1] \in DOMAIN a.heads
  BY <1>2, <1>4 DEF Archived
<1> QED BY <1>1, <1>8, <1>9 DEF Archived, Leaves, a

-----------------------------------------------------------------------------
(* The inductive invariant, action by action *)

LEMMA InitInductive == Init => Inductive
<1> SUFFICES ASSUME Init PROVE Inductive
  OBVIOUS
<1>1. ArchivesSound
  BY ContentsAssumption DEF Init, ArchivesSound, SealSound
<1>2. SourcesSealed /\ CallsSound
  BY DEF Init, SourcesSealed, CallsSound
<1>3. /\ DOMAIN db.cursors = {} /\ DOMAIN db.staged = {} /\ DOMAIN db.heads = {}
      /\ db.status = "original"
  BY DEF Init, NewTables, Empty
<1>4. Whole(db)
  BY NewTablesWhole DEF Init
<1>5. TargetSound
  BY <1>3, <1>4 DEF TargetSound, Whole, Generations
<1>6. NamespacesWhole
  BY <1>4, WholeEverywhere DEF NamespacesWhole, Whole
<1>7. Reservations /\ Copied /\ StagedInert
  BY <1>3 DEF Reservations, Copied, StagedInert
<1> QED BY <1>1, <1>2, <1>5, <1>6, <1>7 DEF Inductive, Received

\* The target does not notice what happens to an archive that no transfer
\* of it is under way from.
LEMMA ArchivesMove ==
  ASSUME Received, db' = db,
         \A b \in Archives : \A m \in DOMAIN db.cursors :
           SealedFor(b, m)' => SealedFor(b, m),
         \A b \in Archives : archive[b].seal # <<>> => archive'[b] = archive[b]
  PROVE  Received'
<1>1. \A b \in Archives : \A m \in DOMAIN db.cursors :
        (SealedFor(b, m)' <=> SealedFor(b, m)) /\ (SealedFor(b, m) => archive'[b] = archive[b])
  BY DEF SealedFor
<1>2. TargetSound' /\ NamespacesWhole'
  BY DEF Received, TargetSound, NamespacesWhole, Settled, Complete
<1>3. Reservations'
  BY <1>1 DEF Received, Reservations, Reservation
<1>4. Copied'
  BY <1>1 DEF Received, Copied
<1>5. StagedInert'
  <2>1. \A ns \in DOMAIN db.staged : db.staged[ns] \in DOMAIN db.cursors
    BY DEF Received, Reservations
  <2> QED BY <1>1, <2>1 DEF Received, StagedInert, Complete
<1> QED BY <1>2, <1>3, <1>4, <1>5 DEF Received

\* Sealing an archive changes nothing of its rows.
LEMMA SealedTables ==
  ASSUME NEW d, Archived(d), NEW target, NEW key, NEW m
  PROVE  LET e == Sealed(d, target, key, m) IN
         /\ Archived(e) /\ e.heads = d.heads /\ e.status = "export-v1"
         /\ e.seal # <<>> /\ e.seal[1].manifest = m
<1> DEFINE seal == [target |-> target, key |-> key, manifest |-> m]
           e == Sealed(d, target, key, m)
<1>1. e = [d EXCEPT !.seal = <<seal>>, !.status = "export-v1"]
  BY DEF Sealed
<1>2. seal.manifest = m
  OBVIOUS
<1> HIDE DEF seal, e
<1>3. /\ IsTables(e) /\ e.content = d.content /\ e.claims = d.claims /\ e.heads = d.heads
      /\ e.history = d.history /\ e.requests = d.requests
      /\ e.seal = <<seal>> /\ e.status = "export-v1"
  BY <1>1 DEF Archived, IsTables, Fields
<1>4. Keyed(e)
  BY <1>3 DEF Archived, Keyed
<1>5. \A i \in DOMAIN TABLES : e[TABLES[i]] = d[TABLES[i]]
  <2>1. \A i \in 1..5 : i = 1 \/ i = 2 \/ i = 3 \/ i = 4 \/ i = 5
    OBVIOUS
  <2> QED BY <1>3, <2>1, TableNames
<1>6. Archived(e)
  BY <1>3, <1>4, <1>5 DEF Archived
<1>7. e.seal # <<>> /\ e.seal[1] = seal
  BY <1>3, OptionFacts
<1> QED BY <1>2, <1>3, <1>6, <1>7 DEF e

LEMMA OpenInductive ==
  ASSUME Inductive, NEW s \in Sessions, Open(s.archive, s.target, s.key)
  PROVE  Inductive'
<1> DEFINE a == s.archive
           m == [target |-> s.target, key |-> s.key, heads |-> archive[a].heads]
<1>1. /\ a \in Archives /\ held[a] = <<>> /\ SealFits(a, s.target, s.key)
      /\ Manifest(a, s.target, s.key) = m
      /\ held' = [held EXCEPT ![a] = <<m>>]
      /\ db' = db /\ stage' = stage
  BY SessionsAssumption DEF Open, CanInspect, Manifest
<1>2. ArchivesSound /\ SourcesSealed /\ CallsSound /\ Received
  BY DEF Inductive
\* A fresh seal pins the heads; an exact resume finds them pinned.
<1>3. /\ archive' = [b \in Archives |-> archive'[b]]
      /\ \A b \in Archives : b # a => archive'[b] = archive[b]
      /\ Archived(archive'[a]) /\ archive'[a].heads = archive[a].heads
      /\ archive'[a].seal # <<>> /\ archive'[a].seal[1].manifest = m
      /\ archive'[a].status = "export-v1"
      /\ archive[a].seal # <<>> => archive'[a] = archive[a]
  <2>1. CASE archive[a].seal # <<>>
    <3>1. archive' = archive
      BY <2>1 DEF Open
    <3> QED BY <1>1, <1>2, <2>1, <3>1 DEF ArchivesSound, SealSound, SealFits
  <2>2. CASE archive[a].seal = <<>>
    <3>1. archive' = [archive EXCEPT ![a] = Sealed(archive[a], s.target, s.key, m)]
      BY <1>1, <2>2 DEF Open
    <3>2. Archived(archive[a])
      BY <1>1, <1>2 DEF ArchivesSound
    <3> DEFINE e == Sealed(archive[a], s.target, s.key, m)
    <3>3. /\ Archived(e) /\ e.heads = archive[a].heads /\ e.status = "export-v1"
          /\ e.seal # <<>> /\ e.seal[1].manifest = m
      BY <3>2, SealedTables
    <3> HIDE DEF e, m
    <3>4. /\ archive' = [b \in Archives |-> archive'[b]] /\ archive'[a] = e
          /\ \A b \in Archives : b # a => archive'[b] = archive[b]
      BY <1>1, <1>2, <3>1 DEF ArchivesSound, e
    <3> QED BY <2>2, <3>3, <3>4
  <2> QED BY <2>1, <2>2
<1>4. ArchivesSound'
  BY <1>2, <1>3 DEF ArchivesSound, SealSound
<1>5. /\ held' = [b \in Archives |-> held'[b]] /\ held'[a] = <<m>>
      /\ \A b \in Archives : b # a => held'[b] = held[b]
  BY <1>1, <1>2 DEF SourcesSealed
<1>6. SourcesSealed'
  <2>1. held'[a][1] = m
    BY <1>5, OptionFacts
  <2>2. ASSUME NEW b \in Archives, held'[b] # <<>> PROVE SealedFor(b, held[b][1])'
    BY <1>2, <1>3, <1>5, <2>1, <2>2 DEF SourcesSealed, SealedFor
  <2> QED BY <1>5, <2>2 DEF SourcesSealed
<1>7. CallsSound'
  BY <1>1, <1>2, <1>5 DEF CallsSound, CallSound
<1>8. ASSUME NEW b \in Archives, NEW n \in DOMAIN db.cursors, SealedFor(b, n)'
      PROVE  SealedFor(b, n)
  <2>1. CASE b # a \/ archive[a].seal # <<>>
    BY <1>3, <1>8, <2>1 DEF SealedFor
  <2>2. CASE b = a /\ archive[a].seal = <<>>
    <3>1. n = m
      BY <1>3, <1>8, <2>2 DEF SealedFor
    <3>2. PICK c \in Archives : SealedFor(c, n)
      BY <1>2, <1>8 DEF Received, Reservations, Reservation
    <3>3. PICK z \in Sessions :
            z.archive = c /\ n = [target |-> z.target, key |-> z.key, heads |-> archive[c].heads]
      BY <1>2, <3>2, SealPins
    <3>4. z.target = s.target /\ z.key = s.key
      <4>1. n.target = z.target /\ n.key = z.key
        BY <3>3
      <4>2. n.target = s.target /\ n.key = s.key
        BY <3>1
      <4> QED BY <4>1, <4>2
    <3>5. c = a
      BY <3>3, <3>4, SessionsAssumption
    <3> QED BY <2>2, <3>2, <3>5 DEF SealedFor
  <2> QED BY <2>1, <2>2
<1>9. Received'
  BY <1>1, <1>2, <1>3, <1>8, ArchivesMove
<1> QED BY <1>4, <1>6, <1>7, <1>9 DEF Inductive

LEMMA WriteArchiveInductive ==
  ASSUME Inductive, NEW l \in Late, WriteArchive(l.archive, l.order)
  PROVE  Inductive'
<1> DEFINE a == l.archive
           w == WriteOn(archive[a], l.order)
<1>1. /\ a \in Archives /\ CanPromote(archive[a]) /\ held[a] = <<>>
      /\ archive' = [archive EXCEPT ![a] = Applied(archive[a], w)]
      /\ held' = held /\ db' = db /\ stage' = stage
  BY LateAssumption DEF WriteArchive
<1>2. ArchivesSound /\ SourcesSealed /\ CallsSound /\ Received
  BY DEF Inductive
<1>3. archive[a].seal = <<>> /\ Archived(archive[a])
  BY <1>1, <1>2 DEF ArchivesSound, SealSound, CanPromote, Generations
<1>4. /\ w.content = l.order.content /\ w.claims = l.order.claims /\ w.head.index \in Nat
  BY <1>3, WriteOnFields DEF Archived
<1> HIDE DEF w
<1>5. Archived(Applied(archive[a], w)) /\ Applied(archive[a], w).seal = <<>>
  BY <1>3, <1>4, AppliedArchived, AppliedFields, LateAssumption DEF Archived, Leaves
<1>6. /\ archive' = [b \in Archives |-> archive'[b]] /\ archive'[a] = Applied(archive[a], w)
      /\ \A b \in Archives : b # a => archive'[b] = archive[b]
  BY <1>1, <1>2 DEF ArchivesSound
<1>7. ArchivesSound'
  BY <1>2, <1>5, <1>6 DEF ArchivesSound, SealSound
<1>8. SourcesSealed' /\ CallsSound'
  BY <1>1, <1>2, <1>6 DEF SourcesSealed, SealedFor, CallsSound, CallSound
<1>9. Received'
  BY <1>1, <1>2, <1>3, <1>5, <1>6, ArchivesMove DEF SealedFor
<1> QED BY <1>7, <1>8, <1>9 DEF Inductive

\* A call of stage that returns, with or without an error.
LEMMA CallEnds ==
  ASSUME Inductive, NEW t \in Threads, stage' = [stage EXCEPT ![t] = <<>>],
         archive' = archive, held' = held, db' = db
  PROVE  Inductive'
<1>1. ArchivesSound' /\ SourcesSealed'
  BY DEF Inductive, ArchivesSound, SealSound, SourcesSealed, SealedFor
<1>2. Received'
  BY ArchivesMove DEF Inductive, SealedFor
<1>3. /\ stage' = [u \in Threads |-> stage'[u]] /\ stage'[t] = <<>>
      /\ \A u \in Threads : u # t => stage'[u] = stage[u]
  BY DEF Inductive, CallsSound
<1>4. CallsSound'
  BY <1>3 DEF Inductive, CallsSound, CallSound
<1> QED BY <1>1, <1>2, <1>4 DEF Inductive

LEMMA CrashInductive ==
  ASSUME Inductive, Crash
  PROVE  Inductive'
<1>1. /\ archive' = archive /\ db' = db
      /\ held' = [a \in Archives |-> <<>>] /\ stage' = [t \in Threads |-> <<>>]
  BY DEF Crash
<1>2. ArchivesSound'
  BY <1>1 DEF Inductive, ArchivesSound, SealSound
<1>3. Received'
  BY <1>1, ArchivesMove DEF Inductive, SealedFor
<1>4. SourcesSealed' /\ CallsSound'
  BY <1>1 DEF SourcesSealed, CallsSound
<1> QED BY <1>2, <1>3, <1>4 DEF Inductive

\* A reservation adds its namespaces, target and cursor, and no row.
LEMMA ReservedFields ==
  ASSUME IsTables(db), NEW m
  PROVE  LET r == Reserved(m) IN
         /\ IsTables(r)
         /\ r.content = db.content /\ r.heads = db.heads /\ r.history = db.history
         /\ r.requests = db.requests /\ r.claims = db.claims /\ r.fences = db.fences
         /\ r.staged = PutAll(db.staged, {<<ns, m>> : ns \in DOMAIN m.heads})
         /\ r.targets = Put(db.targets, m, m.target)
         /\ r.cursors = Put(db.cursors, m, Start)
         /\ r.status = Promoted(db, "neuron-v1").status
<1> DEFINE q == Promoted(db, "neuron-v1")
           staged == PutAll(q.staged, {<<ns, m>> : ns \in DOMAIN m.heads})
           targets == Put(q.targets, m, m.target)
           cursors == Put(q.cursors, m, Start)
           r == Reserved(m)
<1>1. r = [q EXCEPT !.staged = staged, !.targets = targets, !.cursors = cursors]
  BY DEF Reserved
<1>2. /\ IsTables(q)
      /\ q.content = db.content /\ q.heads = db.heads /\ q.history = db.history
      /\ q.requests = db.requests /\ q.claims = db.claims /\ q.fences = db.fences
      /\ q.staged = db.staged /\ q.cursors = db.cursors /\ q.targets = db.targets
  BY PromotedFields
<1> HIDE DEF q, staged, targets, cursors, r
<1>3. /\ IsTables(r)
      /\ r.content = q.content /\ r.heads = q.heads /\ r.history = q.history
      /\ r.requests = q.requests /\ r.claims = q.claims /\ r.fences = q.fences
      /\ r.staged = staged /\ r.targets = targets /\ r.cursors = cursors
      /\ r.status = q.status
  BY <1>1, <1>2 DEF IsTables, Fields
<1> QED BY <1>2, <1>3 DEF r, q, staged, targets, cursors

\* Nobody has written to a namespace that a reservation finds free.
LEMMA FreeEmpty ==
  ASSUME Received, NEW ns, ns \notin DOMAIN db.heads, ns \notin DOMAIN db.staged
  PROVE  /\ \A k \in DOMAIN db.history : k[1] # ns
         /\ \A k \in DOMAIN db.requests : k[1] # ns
<1>1. WholeAt(db, ns)
  BY DEF Received, NamespacesWhole, Settled
<1>2. \A k \in DOMAIN db.history : k[1] # ns
  BY <1>1 DEF WholeAt, ChainAt
<1>3. \A i : history_key(ns, i)[1] = ns
  BY DEF history_key
<1> QED BY <1>1, <1>2, <1>3 DEF WholeAt, ReceiptsAt

LEMMA ReserveReceived ==
  ASSUME ArchivesSound, Received, NEW a \in Archives, NEW m, SealedFor(a, m),
         m \notin DOMAIN db.cursors, CanReserve(m), db' = Reserved(m), archive' = archive
  PROVE  Received'
<1>1. /\ IsTables(db') /\ db'.content = db.content /\ db'.heads = db.heads
      /\ db'.history = db.history /\ db'.requests = db.requests
      /\ db'.claims = db.claims /\ db'.fences = db.fences
      /\ db'.staged = PutAll(db.staged, {<<ns, m>> : ns \in DOMAIN m.heads})
      /\ db'.targets = Put(db.targets, m, m.target)
      /\ db'.cursors = Put(db.cursors, m, Start)
      /\ db'.status \in {db.status, "neuron-v1"}
  BY ReservedFields, PromotedFields DEF Received, TargetSound
<1>2. /\ DOMAIN db'.cursors = DOMAIN db.cursors \cup {m} /\ db'.cursors[m] = Start
      /\ \A n \in DOMAIN db.cursors : n # m /\ db'.cursors[n] = db.cursors[n]
  BY <1>1 DEF Put
<1>3. /\ DOMAIN db'.targets = DOMAIN db.targets \cup {m} /\ db'.targets[m] = m.target
      /\ \A n \in DOMAIN db.targets : n # m => db'.targets[n] = db.targets[n]
  BY <1>1 DEF Put
<1>4. \A ns \in DOMAIN m.heads :
        ns \notin DOMAIN db.heads /\ ns \notin DOMAIN db.fences /\ ns \notin DOMAIN db.staged
  BY DEF CanReserve
<1>5. /\ DOMAIN db'.staged = DOMAIN db.staged \cup DOMAIN m.heads
      /\ \A ns \in DOMAIN db.staged : db'.staged[ns] = db.staged[ns]
      /\ \A ns \in DOMAIN m.heads : db'.staged[ns] = m
  <2> DEFINE pairs == {<<ns, m>> : ns \in DOMAIN m.heads}
  <2>1. \A p \in pairs : p[1] \in DOMAIN m.heads /\ p[2] = m
    OBVIOUS
  <2>2. \A ns \in DOMAIN m.heads : \E p \in pairs : p[1] = ns
    <3>1. \A ns \in DOMAIN m.heads : <<ns, m>> \in pairs /\ <<ns, m>>[1] = ns
      OBVIOUS
    <3> QED BY <3>1
  <2>3. db'.staged = PutAll(db.staged, pairs)
    BY <1>1
  <2> HIDE DEF pairs
  <2>4. {p[1] : p \in pairs} = DOMAIN m.heads
    BY <2>1, <2>2
  <2>5. DOMAIN db'.staged = DOMAIN db.staged \cup DOMAIN m.heads
    BY <2>3, <2>4 DEF PutAll
  <2>6. \A ns \in DOMAIN db.staged : db'.staged[ns] = db.staged[ns]
    BY <2>3 DEF PutAll
  <2>7. ASSUME NEW ns \in DOMAIN m.heads PROVE db'.staged[ns] = m
    <3>1. ns \notin DOMAIN db.staged
      BY <1>4
    <3>2. db'.staged[ns] = (CHOOSE p \in pairs : p[1] = ns)[2]
      BY <2>3, <2>4, <3>1 DEF PutAll
    <3>3. (CHOOSE p \in pairs : p[1] = ns) \in pairs
      BY <2>2
    <3> QED BY <2>1, <3>2, <3>3
  <2> QED BY <2>5, <2>6, <2>7
<1>6. \A b \in Archives : \A n : SealedFor(b, n)' <=> SealedFor(b, n)
  BY DEF SealedFor
<1>7. IsCursor(Start) /\ Start.table = 0 /\ Start.after = 0
  BY DEF IsCursor, Start
<1>8. TargetSound'
  BY <1>1 DEF Received, TargetSound, Keyed, Generations
<1>9. \A n \in DOMAIN db.cursors : Complete(n)' <=> Complete(n)
  BY <1>2 DEF Complete
<1>10. Reservations'
  <2>1. ASSUME NEW n \in DOMAIN db'.cursors PROVE Reservation(n)'
    <3>1. CASE n = m
      BY <1>2, <1>3, <1>5, <1>6, <1>7, <3>1 DEF Reservation
    <3>2. CASE n \in DOMAIN db.cursors
      BY <1>2, <1>3, <1>5, <1>6, <3>2 DEF Received, Reservations, Reservation
    <3> QED BY <1>2, <2>1, <3>1, <3>2
  <2>2. \A ns \in DOMAIN db'.staged :
          db'.staged[ns] \in DOMAIN db'.cursors /\ ns \in DOMAIN db'.staged[ns].heads
    BY <1>2, <1>5 DEF Received, Reservations
  <2> QED BY <2>1, <2>2 DEF Reservations
<1>11. \A i \in 1..5 : db'[TABLES[i]] = db[TABLES[i]]
  <2>1. \A i \in 1..5 : i = 1 \/ i = 2 \/ i = 3 \/ i = 4 \/ i = 5
    OBVIOUS
  <2> QED BY <1>1, <2>1, TableNames
<1>12. Copied'
  <2>1. ASSUME NEW b \in Archives, NEW n \in DOMAIN db'.cursors, SealedFor(b, n)
        PROVE  CopiedTo(archive[b], db', db'.cursors[n])
    <3>1. CASE n = m
      BY <1>2, <1>7, <3>1 DEF CopiedTo
    <3>2. CASE n \in DOMAIN db.cursors
      <4>1. CopiedTo(archive[b], db, db.cursors[n]) /\ IsCursor(db.cursors[n])
        BY <2>1, <3>2 DEF Received, Copied, Reservations, Reservation
      <4>2. db.cursors[n].table < 5 => db.cursors[n].table + 1 \in 1..5
        BY <4>1 DEF IsCursor
      <4> QED BY <1>2, <1>11, <3>2, <4>1, <4>2 DEF CopiedTo
    <3> QED BY <1>2, <3>1, <3>2
  <2> QED BY <1>6, <2>1 DEF Copied
<1>13. NamespacesWhole'
  <2>1. ASSUME NEW ns, Settled(ns)' PROVE Settled(ns)
    <3>1. ASSUME ns \in DOMAIN db.staged PROVE Complete(db.staged[ns])
      BY <1>5, <1>9, <2>1, <3>1 DEF Settled, Received, Reservations
    <3> QED BY <3>1 DEF Settled
  <2>2. ASSUME NEW ns, WholeAt(db, ns) PROVE WholeAt(db', ns)
    BY <1>1, <2>2 DEF WholeAt, ChainAt, ReceiptsAt
  <2> QED BY <2>1, <2>2 DEF Received, NamespacesWhole
<1>14. StagedInert'
  <2>1. ASSUME NEW b \in Archives, NEW ns \in DOMAIN db'.staged, SealedFor(b, db'.staged[ns])
        PROVE  /\ ns \in DOMAIN db.heads => db.heads[ns] = archive[b].heads[ns]
               /\ \A k \in DOMAIN db.history : k[1] = ns =>
                    k \in DOMAIN archive[b].history /\ db.history[k] = archive[b].history[k]
               /\ \A k \in DOMAIN db.requests : k[1] = ns =>
                    k \in DOMAIN archive[b].requests /\ db.requests[k] = archive[b].requests[k]
    <3>1. CASE ns \in DOMAIN db.staged
      BY <1>5, <2>1, <3>1 DEF Received, StagedInert
    <3>2. CASE ns \in DOMAIN m.heads
      BY <1>4, <3>2, FreeEmpty
    <3> QED BY <1>5, <3>1, <3>2
  <2>2. ASSUME NEW ns \in DOMAIN db'.fences \cap DOMAIN db'.staged
        PROVE  /\ Complete(db.staged[ns])'
               /\ db'.fences[ns].namespace = db'.staged[ns].target
               /\ db'.heads[ns] = db'.staged[ns].heads[ns]
    <3>1. ns \in DOMAIN db.fences /\ ns \in DOMAIN db.staged /\ db'.staged[ns] = db.staged[ns]
      BY <1>1, <1>4, <1>5
    <3>2. db.staged[ns] \in DOMAIN db.cursors
      BY <3>1 DEF Received, Reservations
    <3>3. /\ Complete(db.staged[ns]) /\ db.fences[ns].namespace = db.staged[ns].target
          /\ db.heads[ns] = db.staged[ns].heads[ns]
      BY <3>1 DEF Received, StagedInert
    <3>4. Complete(db.staged[ns])'
      BY <1>2, <3>1, <3>2, <3>3 DEF Complete
    <3> QED BY <1>1, <3>1, <3>3, <3>4
  <2> QED BY <1>1, <1>6, <2>1, <2>2 DEF StagedInert
<1> QED BY <1>8, <1>10, <1>12, <1>13, <1>14 DEF Received

\* A call that goes on from a cursor of its source.
LEMMA CallGoesOn ==
  ASSUME CallsSound, NEW t \in Threads, NEW c, stage' = [stage EXCEPT ![t] = <<c>>],
         held' = held, DOMAIN db.cursors \subseteq DOMAIN db'.cursors, CallSound(c)'
  PROVE  CallsSound'
<1>1. /\ stage' = [u \in Threads |-> stage'[u]] /\ stage'[t] = <<c>>
      /\ \A u \in Threads : u # t => stage'[u] = stage[u]
  BY DEF CallsSound
<1>2. stage'[t][1] = c
  BY <1>1, OptionFacts
<1>3. ASSUME NEW u \in Threads, stage'[u] # <<>> PROVE CallSound(stage[u][1])'
  <2>1. CASE u = t
    BY <1>2, <2>1 DEF CallSound
  <2>2. CASE u # t
    BY <1>1, <1>3, <2>2 DEF CallsSound, CallSound
  <2> QED BY <2>1, <2>2
<1> QED BY <1>1, <1>3 DEF CallsSound

LEMMA BeginInductive ==
  ASSUME Inductive, NEW t \in Threads, NEW a \in Archives, Begin(t, a)
  PROVE  Inductive'
<1> DEFINE m == held[a][1]
<1>1. held[a] # <<>> /\ archive' = archive /\ held' = held
  BY DEF Begin
<1>2. ArchivesSound /\ SourcesSealed /\ CallsSound /\ Received /\ SealedFor(a, m)
  BY <1>1 DEF Inductive, SourcesSealed
<1>3. ArchivesSound' /\ SourcesSealed'
  BY <1>1, <1>2 DEF ArchivesSound, SealSound, SourcesSealed, SealedFor
<1> HIDE DEF m
<1>4. CASE m \in DOMAIN db.cursors
  <2>0. PICK c : c = [archive |-> a, cursor |-> db.cursors[m], copied |-> FALSE]
    OBVIOUS
  <2>1. db' = db /\ stage' = [stage EXCEPT ![t] = <<c>>]
    BY <1>4, <2>0 DEF Begin, m
  <2>2. IsCursor(db.cursors[m])
    BY <1>2, <1>4 DEF Received, Reservations, Reservation
  <2>3. c = [f \in {"archive", "cursor", "copied"} |-> c[f]]
        /\ c.archive = a /\ c.cursor = db.cursors[m]
    BY <2>0
  <2>4. CallSound(c)'
    BY <1>1, <1>4, <2>1, <2>2, <2>3 DEF CallSound, m
  <2>5. CallsSound'
    BY <1>1, <1>2, <2>1, <2>4, CallGoesOn
  <2>6. Received'
    BY <1>1, <1>2, <2>1, ArchivesMove DEF SealedFor
  <2> QED BY <1>3, <2>5, <2>6 DEF Inductive
<1>5. CASE m \notin DOMAIN db.cursors
  <2>0. PICK c : c = [archive |-> a, cursor |-> Start, copied |-> FALSE]
    OBVIOUS
  <2>1. db' = Reserved(m) /\ CanReserve(m) /\ stage' = [stage EXCEPT ![t] = <<c>>]
    BY <1>5, <2>0 DEF Begin, m
  <2>2. Received'
    BY <1>1, <1>2, <1>5, <2>1, ReserveReceived
  <2>3. db'.cursors = Put(db.cursors, m, Start)
    BY <1>2, <2>1, ReservedFields DEF Received, TargetSound
  <2>4. DOMAIN db'.cursors = DOMAIN db.cursors \cup {m} /\ IsCursor(Start)
    BY <2>3 DEF Put, IsCursor, Start
  <2>5. c = [f \in {"archive", "cursor", "copied"} |-> c[f]]
        /\ c.archive = a /\ c.cursor = Start
    BY <2>0
  <2>6. CallSound(c)'
    BY <1>1, <2>4, <2>5 DEF CallSound, m
  <2>7. CallsSound'
    BY <1>1, <1>2, <2>1, <2>4, <2>6, CallGoesOn
  <2> QED BY <1>3, <2>2, <2>7 DEF Inductive
<1> QED BY <1>4, <1>5

-----------------------------------------------------------------------------
(* Copying a page *)

\* A table f becomes g by rows of the source's table s.
Grown(f, g, s) ==
  /\ Kept(f, g)
  /\ \A x \in DOMAIN g : x \in DOMAIN f \/ (x \in DOMAIN s /\ g[x] = s[x])

\* Rows of a source that fit are laid over a table, each as it is there.
LEMMA RowsGrow ==
  ASSUME NEW f, NEW s, NEW rows, Immutable(f, rows),
         \A p \in rows : p[1] \in DOMAIN s /\ p[2] = s[p[1]]
  PROVE  /\ Grown(f, PutAll(f, rows), s)
         /\ \A p \in rows : RowCopied(s, PutAll(f, rows), p[1])
<1> DEFINE g == PutAll(f, rows)
<1>1. /\ DOMAIN g = DOMAIN f \cup {p[1] : p \in rows}
      /\ \A x \in DOMAIN f : g[x] = f[x]
      /\ \A x \in DOMAIN g : x \notin DOMAIN f => g[x] = (CHOOSE p \in rows : p[1] = x)[2]
  BY DEF PutAll
<1> HIDE DEF g
<1>2. ASSUME NEW x \in DOMAIN g, x \notin DOMAIN f
      PROVE  x \in DOMAIN s /\ g[x] = s[x]
  <2>1. \E p \in rows : p[1] = x
    BY <1>1, <1>2
  <2> DEFINE q == CHOOSE p \in rows : p[1] = x
  <2>2. q \in rows /\ q[1] = x
    BY <2>1
  <2>3. g[x] = q[2]
    BY <1>1, <1>2
  <2> HIDE DEF q
  <2> QED BY <2>2, <2>3
<1>3. ASSUME NEW p \in rows PROVE RowCopied(s, g, p[1])
  <2>1. CASE p[1] \in DOMAIN f
    BY <1>1, <2>1 DEF Immutable, RowCopied
  <2>2. CASE p[1] \notin DOMAIN f
    BY <1>1, <1>2, <2>2 DEF RowCopied
  <2> QED BY <2>1, <2>2
<1>4. Grown(f, g, s)
  BY <1>1, <1>2 DEF Grown, Kept
<1> QED BY <1>3, <1>4 DEF g

\* The target's tables after a page of the source a was copied under m.
PageCopied(a, m, c) ==
  LET rows == Page(a, c)
      T == TABLES[c.table + 1]
  IN /\ IsTables(db') /\ db'.fences = db.fences /\ db'.staged = db.staged
     /\ db'.targets = db.targets /\ db'.status = db.status
     /\ db'.cursors = [db.cursors EXCEPT ![m] = Advanced(c, rows)]
     /\ \A i \in 1..5 : Grown(db[TABLES[i]], db'[TABLES[i]], archive[a][TABLES[i]])
     /\ \A p \in rows : RowCopied(archive[a][T], db'[T], p[1])

\* The copy, as CopyPage writes it.
Copies(a, m, c) ==
  db' = [db EXCEPT ![TABLES[c.table + 1]] = PutAll(@, Page(a, c)),
                   !.cursors[m] = Advanced(c, Page(a, c))]

LEMMA CopyPageTables ==
  ASSUME IsTables(db), NEW a, Archived(archive[a]), NEW m, NEW c, IsCursor(c), c.table < 5,
         RowsFit(c, Page(a, c)), Copies(a, m, c)
  PROVE  PageCopied(a, m, c)
<1> DEFINE rows == Page(a, c)
           next == Advanced(c, rows)
           j == c.table + 1
           T == TABLES[j]
           new == PutAll(db[T], rows)
           cursors == [db.cursors EXCEPT ![m] = next]
<1>1. j \in 1..5
  BY DEF IsCursor
<1>2. \A i \in 1..5 : i = 1 \/ i = 2 \/ i = 3 \/ i = 4 \/ i = 5
  OBVIOUS
<1>3. T \in {"content", "claims", "requests", "history", "heads"}
  BY <1>1, <1>2, TableNames
<1>4. \A p \in rows : p[1] \in DOMAIN archive[a][T] /\ p[2] = archive[a][T][p[1]]
  <2>1. IsFiniteSet(DOMAIN archive[a][T])
    BY <1>1, TableNames DEF Archived
  <2> QED BY <2>1, PageRowsNext
<1>5. /\ Grown(db[T], new, archive[a][T])
      /\ \A p \in rows : RowCopied(archive[a][T], new, p[1])
  BY <1>4, RowsGrow DEF RowsFit
<1>6. db' = [db EXCEPT ![T] = new, !.cursors = cursors]
  BY <1>3 DEF IsTables, Fields, Copies
<1> HIDE DEF new, cursors, T, rows
<1>7. /\ IsTables(db') /\ db'.fences = db.fences /\ db'.staged = db.staged
      /\ db'.targets = db.targets /\ db'.status = db.status
      /\ db'.cursors = cursors /\ db'[T] = new
      /\ \A f \in {"content", "claims", "requests", "history", "heads"} :
           f # T => db'[f] = db[f]
  BY <1>3, <1>6 DEF IsTables, Fields
<1>8. ASSUME NEW i \in 1..5 PROVE Grown(db[TABLES[i]], db'[TABLES[i]], archive[a][TABLES[i]])
  <2>1. CASE TABLES[i] = T
    BY <1>5, <1>7, <2>1
  <2>2. CASE TABLES[i] # T
    <3>1. TABLES[i] \in {"content", "claims", "requests", "history", "heads"}
      BY <1>2, TableNames
    <3>2. db'[TABLES[i]] = db[TABLES[i]]
      BY <1>7, <2>2, <3>1
    <3> QED BY <3>2 DEF Grown, Kept
  <2> QED BY <2>1, <2>2
<1> QED BY <1>5, <1>7, <1>8 DEF PageCopied, rows, T, cursors

\* What a cursor says is copied stays copied while no copied row changes.
LEMMA CopiedStays ==
  ASSUME NEW s, NEW d, NEW e, NEW c, Archived(s), IsCursor(c), CopiedTo(s, d, c),
         \A i \in 1..5 : \A k \in DOMAIN s[TABLES[i]] :
           RowCopied(s[TABLES[i]], d[TABLES[i]], k) => RowCopied(s[TABLES[i]], e[TABLES[i]], k)
  PROVE  CopiedTo(s, e, c)
<1>1. ASSUME NEW i \in 1..5, i <= c.table PROVE Kept(s[TABLES[i]], e[TABLES[i]])
  <2>1. Kept(s[TABLES[i]], d[TABLES[i]])
    BY <1>1 DEF CopiedTo
  <2> QED BY <2>1 DEF Kept, RowCopied
<1>2. ASSUME c.table < 5,
             NEW j \in 1..Cardinality(DOMAIN s[TABLES[c.table + 1]]), j <= c.after
      PROVE  RowCopied(s[TABLES[c.table + 1]], e[TABLES[c.table + 1]],
                       SetToSeq(DOMAIN s[TABLES[c.table + 1]])[j])
  <2> DEFINE i == c.table + 1
             S == DOMAIN s[TABLES[i]]
  <2>1. i \in 1..5
    BY <1>2 DEF IsCursor
  <2>2. IsFiniteSet(S)
    BY <2>1, TableNames DEF Archived
  <2>3. SetToSeq(S)[j] \in S
    <3>1. SetToSeq(S) \in [1..Cardinality(S) -> S]
      BY <2>2, KeysListed
    <3> QED BY <3>1
  <2>4. RowCopied(s[TABLES[i]], d[TABLES[i]], SetToSeq(S)[j])
    BY <1>2 DEF CopiedTo
  <2> QED BY <2>1, <2>3, <2>4
<1> QED BY <1>1, <1>2 DEF CopiedTo

\* A transfer that is complete brought the heads it sealed.
LEMMA CompleteHeads ==
  ASSUME ArchivesSound, Received, NEW ns \in DOMAIN db.staged, Complete(db.staged[ns])
  PROVE  ns \in DOMAIN db.heads /\ db.heads[ns] = db.staged[ns].heads[ns]
<1> DEFINE m == db.staged[ns]
<1>1. m \in DOMAIN db.cursors /\ ns \in DOMAIN m.heads /\ db.cursors[m].table = 5
  BY DEF Received, Reservations, Complete
<1>2. PICK a \in Archives : SealedFor(a, m)
  BY <1>1 DEF Received, Reservations, Reservation
<1>3. m.heads = archive[a].heads
  BY <1>2, SealPins
<1>4. Kept(archive[a].heads, db.heads)
  BY <1>1, <1>2, TableNames DEF Received, Copied, CopiedTo
<1> QED BY <1>1, <1>3, <1>4 DEF Kept

\* A page moves its cursor on.
LEMMA AdvancedCursor ==
  ASSUME NEW c, IsCursor(c), c.table < 5, NEW rows, Cardinality(rows) \in Nat
  PROVE  /\ IsCursor(Advanced(c, rows))
         /\ \/ Advanced(c, rows).table > c.table
            \/ Advanced(c, rows).table = c.table /\ Advanced(c, rows).after >= c.after
<1>1. CASE rows = {}
  BY <1>1 DEF Advanced, IsCursor
<1>2. CASE rows # {}
  <2>1. Advanced(c, rows) = [table |-> c.table, after |-> c.after + Cardinality(rows)]
    BY <1>2 DEF Advanced, IsCursor
  <2> QED BY <2>1 DEF IsCursor
<1> QED BY <1>1, <1>2

\* After the page, what the cursor says is copied.
LEMMA PageAdvances ==
  ASSUME NEW a, NEW m, NEW c, Archived(archive[a]), IsCursor(c), c.table < 5,
         CopiedTo(archive[a], db, c), PageCopied(a, m, c)
  PROVE  CopiedTo(archive[a], db', Advanced(c, Page(a, c)))
<1> DEFINE s == archive[a]
           rows == Page(a, c)
           next == Advanced(c, rows)
           T == TABLES[c.table + 1]
           n == Cardinality(DOMAIN s[T])
           keys == SetToSeq(DOMAIN s[T])
<1>1. c.table + 1 \in 1..5 /\ IsFiniteSet(DOMAIN s[T])
  BY TableNames DEF Archived, IsCursor
<1>2. /\ n \in Nat /\ keys \in [1..n -> DOMAIN s[T]]
      /\ \A x \in DOMAIN s[T] : \E j \in 1..n : keys[j] = x
  BY <1>1, KeysListed
<1>3. /\ rows = {} => n <= c.after
      /\ \A j \in 1..n : j > c.after /\ j <= c.after + Cardinality(rows) =>
           \E p \in rows : p[1] = keys[j]
      /\ Cardinality(rows) \in Nat
  BY <1>1, PageRowsNext
<1>4. \A p \in rows : RowCopied(s[T], db'[T], p[1])
  BY DEF PageCopied
<1>5. CopiedTo(s, db', c)
  <2>1. \A i \in 1..5 : \A k \in DOMAIN s[TABLES[i]] :
          RowCopied(s[TABLES[i]], db[TABLES[i]], k) => RowCopied(s[TABLES[i]], db'[TABLES[i]], k)
    BY DEF PageCopied, Grown, Kept, RowCopied
  <2> QED BY <2>1, CopiedStays
<1>6. \A j \in 1..n : j <= c.after => RowCopied(s[T], db'[T], keys[j])
  BY <1>5 DEF CopiedTo
<1>7. c.after \in Nat /\ c.table \in Nat
  BY DEF IsCursor
<1> HIDE DEF rows, keys, n
<1>8. ASSUME rows = {} PROVE CopiedTo(s, db', next)
  <2>1. Kept(s[T], db'[T])
    <3>1. ASSUME NEW x \in DOMAIN s[T] PROVE RowCopied(s[T], db'[T], x)
      <4>1. PICK j \in 1..n : keys[j] = x
        BY <1>2
      <4>2. j <= c.after
        BY <1>2, <1>3, <1>7, <1>8
      <4> QED BY <1>6, <4>1, <4>2
    <3> QED BY <3>1 DEF Kept, RowCopied
  <2>2. next.table = c.table + 1 /\ next.after = 0
    BY <1>8 DEF Advanced
  <2>3. ASSUME NEW i \in 1..5, i <= next.table PROVE Kept(s[TABLES[i]], db'[TABLES[i]])
    <3>1. CASE i = c.table + 1
      BY <2>1, <3>1
    <3>2. CASE i <= c.table
      BY <1>5, <3>2 DEF CopiedTo
    <3> QED BY <1>7, <2>2, <2>3, <3>1, <3>2
  <2>4. ASSUME next.table < 5,
               NEW j \in 1..Cardinality(DOMAIN s[TABLES[next.table + 1]]), j <= next.after
        PROVE  FALSE
    <3>1. next.table + 1 \in 1..5
      BY <1>7, <2>2, <2>4
    <3>2. Cardinality(DOMAIN s[TABLES[next.table + 1]]) \in Nat
      BY <3>1, TableNames, FS_CardinalityType DEF Archived
    <3> QED BY <2>2, <2>4, <3>2
  <2> HIDE DEF next
  <2> QED BY <2>3, <2>4 DEF CopiedTo
<1>9. ASSUME rows # {} PROVE CopiedTo(s, db', next)
  <2>1. next.table = c.table /\ next.after = c.after + Cardinality(rows)
    BY <1>9 DEF Advanced, IsCursor
  <2>2. ASSUME NEW j \in 1..n, j <= next.after PROVE RowCopied(s[T], db'[T], keys[j])
    <3>1. CASE j <= c.after
      BY <1>6, <3>1
    <3>2. CASE j > c.after
      <4>1. PICK p \in rows : p[1] = keys[j]
        BY <1>3, <2>1, <2>2, <3>2
      <4> QED BY <1>4, <4>1
    <3> QED BY <1>2, <1>7, <3>1, <3>2
  <2> HIDE DEF next
  <2> QED BY <1>5, <2>1, <2>2 DEF CopiedTo, n, keys
<1> QED BY <1>8, <1>9 DEF rows

LEMMA CopyReceived ==
  ASSUME ArchivesSound, Received, NEW a \in Archives, NEW m \in DOMAIN db.cursors, SealedFor(a, m),
         NEW c, IsCursor(c), c.table < 5, db.cursors[m] = c,
         PageValid(a, c, Page(a, c)), RowsFit(c, Page(a, c)), Copies(a, m, c), archive' = archive
  PROVE  Received' /\ PageCopied(a, m, c)
<1> DEFINE s == archive[a]
           next == Advanced(c, Page(a, c))
<1>1. Archived(s)
  BY DEF ArchivesSound
<1>2. PageCopied(a, m, c)
  BY <1>1, CopyPageTables DEF Received, TargetSound
<1>3. /\ IsTables(db') /\ db'.fences = db.fences /\ db'.staged = db.staged
      /\ db'.targets = db.targets /\ db'.status = db.status
      /\ DOMAIN db'.cursors = DOMAIN db.cursors /\ db'.cursors[m] = next
      /\ \A n \in DOMAIN db.cursors : n # m => db'.cursors[n] = db.cursors[n]
  BY <1>2 DEF PageCopied
<1>4. /\ Grown(db.content, db'.content, s.content) /\ Grown(db.claims, db'.claims, s.claims)
      /\ Grown(db.requests, db'.requests, s.requests)
      /\ Grown(db.history, db'.history, s.history) /\ Grown(db.heads, db'.heads, s.heads)
  BY <1>2, TableNames DEF PageCopied
<1>5. Cardinality(Page(a, c)) \in Nat
  <2>1. c.table + 1 \in 1..5
    BY DEF IsCursor
  <2>2. IsFiniteSet(DOMAIN s[TABLES[c.table + 1]])
    BY <1>1, <2>1, TableNames DEF Archived
  <2> QED BY <2>2, PageRowsNext
<1>6. IsCursor(next)
  BY <1>5, AdvancedCursor
<1>7. m.heads = s.heads
  BY SealPins
<1>8. \A b \in Archives : \A n : SealedFor(b, n)' <=> SealedFor(b, n)
  BY DEF SealedFor
<1>9. \A ns \in DOMAIN s.heads : ns \in DOMAIN db.staged /\ db.staged[ns] = m
  BY <1>7 DEF Received, Reservations, Reservation
<1> HIDE DEF next
<1>10. TargetSound'
  <2>1. \A ns \in DOMAIN db'.heads : db'.heads[ns].index \in Nat
    BY <1>1, <1>4 DEF Grown, Kept, Archived, Received, TargetSound, Keyed
  <2>2. \A k \in DOMAIN db'.history : k \in DOMAIN db.history \/ k \in DOMAIN s.history
    BY <1>4 DEF Grown
  <2>3. \A k \in DOMAIN db'.requests :
          \/ k \in DOMAIN db.requests /\ db'.requests[k] = db.requests[k]
          \/ k \in DOMAIN s.requests /\ db'.requests[k] = s.requests[k]
    BY <1>4 DEF Grown, Kept
  <2>4. Keyed(db')
    BY <1>1, <2>1, <2>2, <2>3 DEF Archived, Received, TargetSound, Keyed
  <2> QED BY <1>3, <2>4 DEF Received, TargetSound
<1>11. Reservations'
  <2>1. ASSUME NEW n \in DOMAIN db'.cursors PROVE Reservation(n)'
    <3>1. n \in DOMAIN db.cursors
      BY <1>3
    <3>2. Reservation(n)
      BY <3>1 DEF Received, Reservations
    <3>3. IsCursor(db'.cursors[n])
      BY <1>3, <1>6, <3>1, <3>2 DEF Reservation
    <3> QED BY <1>3, <1>8, <3>2, <3>3 DEF Reservation
  <2> QED BY <1>3, <2>1 DEF Received, Reservations
<1>12. ASSUME NEW b \in Archives, NEW n \in DOMAIN db.cursors, SealedFor(b, n)
       PROVE  CopiedTo(archive[b], db', db'.cursors[n])
  <2>1. CopiedTo(archive[b], db, db.cursors[n]) /\ IsCursor(db.cursors[n]) /\ Archived(archive[b])
    BY <1>12 DEF Received, Copied, Reservations, Reservation, ArchivesSound
  <2>2. CASE n = m
    <3>1. b = a
      BY <1>12, <2>2, SealedOnce
    <3> QED BY <1>1, <1>2, <1>3, <2>1, <2>2, <3>1, PageAdvances DEF next
  <2>3. CASE n # m
    <3>1. \A i \in 1..5 : \A k \in DOMAIN archive[b][TABLES[i]] :
            RowCopied(archive[b][TABLES[i]], db[TABLES[i]], k) =>
              RowCopied(archive[b][TABLES[i]], db'[TABLES[i]], k)
      BY <1>2 DEF PageCopied, Grown, Kept, RowCopied
    <3>2. CopiedTo(archive[b], db', db.cursors[n])
      BY <2>1, <3>1, CopiedStays
    <3> QED BY <1>3, <2>3, <3>2
  <2> QED BY <2>2, <2>3
<1>13. Copied'
  BY <1>3, <1>8, <1>12 DEF Copied
\* No row of a namespace of another transfer, or of none, is touched.
<1>14. ASSUME NEW b \in Archives, NEW ns \in DOMAIN db.staged, SealedFor(b, db.staged[ns])
       PROVE  /\ ns \in DOMAIN db'.heads => db'.heads[ns] = archive[b].heads[ns]
              /\ \A k \in DOMAIN db'.history : k[1] = ns =>
                   k \in DOMAIN archive[b].history /\ db'.history[k] = archive[b].history[k]
              /\ \A k \in DOMAIN db'.requests : k[1] = ns =>
                   k \in DOMAIN archive[b].requests /\ db'.requests[k] = archive[b].requests[k]
  <2>1. /\ ns \in DOMAIN db.heads => db.heads[ns] = archive[b].heads[ns]
        /\ \A k \in DOMAIN db.history : k[1] = ns =>
             k \in DOMAIN archive[b].history /\ db.history[k] = archive[b].history[k]
        /\ \A k \in DOMAIN db.requests : k[1] = ns =>
             k \in DOMAIN archive[b].requests /\ db.requests[k] = archive[b].requests[k]
    BY <1>14 DEF Received, StagedInert
  <2>2. ns \in DOMAIN s.heads => b = a
    BY <1>9, <1>14, SealedOnce
  <2>3. \A k \in DOMAIN s.history \cup DOMAIN s.requests : k[1] \in DOMAIN s.heads
    BY <1>1 DEF Archived
  <2>4. ns \in DOMAIN db'.heads => db'.heads[ns] = archive[b].heads[ns]
    BY <1>4, <2>1, <2>2 DEF Grown, Kept
  <2>5. \A k \in DOMAIN db'.history : k[1] = ns =>
          k \in DOMAIN archive[b].history /\ db'.history[k] = archive[b].history[k]
    BY <1>4, <2>1, <2>2, <2>3 DEF Grown, Kept
  <2>6. \A k \in DOMAIN db'.requests : k[1] = ns =>
          k \in DOMAIN archive[b].requests /\ db'.requests[k] = archive[b].requests[k]
    BY <1>4, <2>1, <2>2, <2>3 DEF Grown, Kept
  <2> QED BY <2>4, <2>5, <2>6
<1>15. StagedInert'
  <2>1. ASSUME NEW ns \in DOMAIN db.fences \cap DOMAIN db.staged
        PROVE  /\ Complete(db.staged[ns])'
               /\ db'.fences[ns].namespace = db'.staged[ns].target
               /\ db'.heads[ns] = db'.staged[ns].heads[ns]
    <3>1. Complete(db.staged[ns]) /\ db.fences[ns].namespace = db.staged[ns].target
      BY DEF Received, StagedInert
    <3>2. ns \in DOMAIN db.heads /\ db.heads[ns] = db.staged[ns].heads[ns]
      BY <3>1, CompleteHeads
    <3>3. db'.heads[ns] = db.heads[ns]
      BY <1>4, <3>2 DEF Grown, Kept
    <3>4. db.staged[ns] # m
      BY <3>1 DEF Complete
    <3>5. Complete(db.staged[ns])'
      BY <1>3, <3>1, <3>4 DEF Complete
    <3> QED BY <1>3, <3>1, <3>2, <3>3, <3>5
  <2> QED BY <1>3, <1>8, <1>14, <2>1 DEF StagedInert
<1>16. NamespacesWhole'
  <2> SUFFICES ASSUME NEW ns, Settled(ns)' PROVE WholeAt(db', ns)
    BY DEF NamespacesWhole
  <2>1. Keyed(db') /\ Keyed(db) /\ Keyed(s)
    BY <1>1, <1>10 DEF TargetSound, Received, Archived
  <2>2. CASE ns \in DOMAIN s.heads
    <3>1. next.table = 5
      BY <1>3, <1>9, <2>2 DEF Settled, Complete
    <3>2. ChainIntact(s) /\ ReceiptsExact(s)
      BY <3>1 DEF PageValid, next
    <3>3. \A i \in 1..5 : Kept(s[TABLES[i]], db'[TABLES[i]])
      <4>1. CopiedTo(s, db', next)
        BY <1>3, <1>12
      <4> QED BY <3>1, <4>1 DEF CopiedTo
    <3>4. /\ Kept(s.content, db'.content) /\ Kept(s.heads, db'.heads)
          /\ Kept(s.history, db'.history) /\ Kept(s.requests, db'.requests)
      BY <3>3, TableNames
    <3>5. ns \in DOMAIN db.staged /\ SealedFor(a, db.staged[ns])
      BY <1>9, <2>2
    <3>6. SameAt(s, db', ns)
      <4>1. SameRows(s.history, db'.history, ns) /\ SameRows(s.requests, db'.requests, ns)
        BY <1>14, <3>4, <3>5 DEF Kept, SameRows
      <4>2. ns \in DOMAIN db'.heads /\ db'.heads[ns] = s.heads[ns]
        BY <2>2, <3>4 DEF Kept
      <4> QED BY <2>2, <4>1, <4>2 DEF SameAt
    <3>7. DOMAIN s.content \subseteq DOMAIN db'.content
      BY <3>4 DEF Kept
    <3>8. WholeAt(s, ns)
      BY <3>2, WholeEverywhere
    <3> QED BY <2>1, <3>6, <3>7, <3>8, SameWhole
  <2>3. CASE ns \notin DOMAIN s.heads
    <3>1. Settled(ns)
      <4>1. ASSUME ns \in DOMAIN db.staged PROVE db.staged[ns] # m
        BY <1>7, <2>3, <4>1 DEF Received, Reservations
      <4> QED BY <1>3, <4>1 DEF Settled, Complete
    <3>2. \A k \in DOMAIN s.history \cup DOMAIN s.requests : k[1] # ns
      BY <1>1, <2>3 DEF Archived
    <3>3. SameRows(db.history, db'.history, ns) /\ SameRows(db.requests, db'.requests, ns)
      BY <1>4, <3>2 DEF Grown, Kept, SameRows
    <3>4. /\ ns \in DOMAIN db.heads <=> ns \in DOMAIN db'.heads
          /\ ns \in DOMAIN db.heads => db.heads[ns] = db'.heads[ns]
      BY <1>4, <2>3 DEF Grown, Kept
    <3>5. SameAt(db, db', ns)
      BY <3>3, <3>4 DEF SameAt
    <3>6. DOMAIN db.content \subseteq DOMAIN db'.content
      BY <1>4 DEF Grown, Kept
    <3>7. WholeAt(db, ns)
      BY <3>1 DEF Received, NamespacesWhole
    <3> QED BY <2>1, <3>5, <3>6, <3>7, SameWhole
  <2> QED BY <2>2, <2>3
<1> QED BY <1>2, <1>10, <1>11, <1>13, <1>15, <1>16 DEF Received

\* A call copies its page, or ends with an error and leaves all as it was.
LEMMA CopyPageCases ==
  ASSUME Inductive, NEW t \in Threads, CopyPage(t)
  PROVE  /\ archive' = archive /\ held' = held
         /\ \/ db' = db /\ stage' = [stage EXCEPT ![t] = <<>>]
            \/ \E a \in Archives, m \in DOMAIN db.cursors : \E c, d :
                 /\ m = held[a][1] /\ held[a] # <<>> /\ SealedFor(a, m)
                 /\ IsCursor(c) /\ c.table < 5 /\ db.cursors[m] = c
                 /\ PageValid(a, c, Page(a, c)) /\ RowsFit(c, Page(a, c)) /\ Copies(a, m, c)
                 /\ d = [f \in {"archive", "cursor", "copied"} |-> d[f]]
                 /\ d.archive = a /\ d.cursor = Advanced(c, Page(a, c))
                 /\ stage' = [stage EXCEPT ![t] = <<d>>]
<1> DEFINE call == stage[t][1]
           a == call.archive
           c == call.cursor
           m == held[a][1]
           rows == Page(a, c)
           next == Advanced(c, rows)
<1>1. CallSound(call) /\ stage[t] # <<>>
  BY DEF CopyPage, Inductive, CallsSound
<1>2. /\ call = [f \in {"archive", "cursor", "copied"} |-> call[f]]
      /\ a \in Archives /\ IsCursor(c) /\ held[a] # <<>> /\ m \in DOMAIN db.cursors
  BY <1>1 DEF CallSound
<1>3. SealedFor(a, m)
  BY <1>2 DEF Inductive, SourcesSealed
<1>4. /\ c.table < 5 /\ archive' = archive /\ held' = held
      /\ IF PageValid(a, c, rows) /\ CursorCurrent(m, c) /\ RowsFit(c, rows)
         THEN /\ Copies(a, m, c)
              /\ stage' = [stage EXCEPT ![t] = <<[call EXCEPT !.cursor = next, !.copied = TRUE]>>]
         ELSE db' = db /\ stage' = [stage EXCEPT ![t] = <<>>]
  BY DEF CopyPage, Copies
<1>5. ASSUME NEW x, NEW n, x = [f \in {"archive", "cursor", "copied"} |-> x[f]]
      PROVE  LET d == [x EXCEPT !.cursor = n, !.copied = TRUE] IN
             /\ d = [f \in {"archive", "cursor", "copied"} |-> d[f]]
             /\ d.archive = x.archive /\ d.cursor = n
  BY <1>5
<1>6. CASE PageValid(a, c, rows) /\ CursorCurrent(m, c) /\ RowsFit(c, rows)
  <2>1. PICK d : d = [call EXCEPT !.cursor = next, !.copied = TRUE]
    OBVIOUS
  <2> HIDE DEF call, a, c, m, rows, next
  <2>2. Copies(a, m, c) /\ stage' = [stage EXCEPT ![t] = <<d>>]
    BY <1>4, <1>6, <2>1
  <2>3. /\ d = [f \in {"archive", "cursor", "copied"} |-> d[f]]
        /\ d.archive = a /\ d.cursor = next
    BY <1>2, <1>5, <2>1 DEF a
  <2> QED BY <1>2, <1>3, <1>4, <1>6, <2>2, <2>3 DEF CursorCurrent, m, rows, next
<1>7. CASE ~(PageValid(a, c, rows) /\ CursorCurrent(m, c) /\ RowsFit(c, rows))
  BY <1>4, <1>7
<1> QED BY <1>6, <1>7

LEMMA CopyPageInductive ==
  ASSUME Inductive, NEW t \in Threads, CopyPage(t)
  PROVE  Inductive'
<1>1. archive' = archive /\ held' = held
  BY CopyPageCases
<1>2. CASE db' = db /\ stage' = [stage EXCEPT ![t] = <<>>]
  BY <1>1, <1>2, CallEnds
<1>3. ASSUME NEW a \in Archives, NEW m \in DOMAIN db.cursors, NEW c, NEW d,
             m = held[a][1] /\ held[a] # <<>> /\ SealedFor(a, m),
             IsCursor(c) /\ c.table < 5 /\ db.cursors[m] = c,
             PageValid(a, c, Page(a, c)) /\ RowsFit(c, Page(a, c)) /\ Copies(a, m, c),
             d = [f \in {"archive", "cursor", "copied"} |-> d[f]],
             d.archive = a /\ d.cursor = Advanced(c, Page(a, c)),
             stage' = [stage EXCEPT ![t] = <<d>>]
      PROVE  Inductive'
  <2>1. Received' /\ PageCopied(a, m, c)
    BY <1>1, <1>3, CopyReceived DEF Inductive
  <2>2. DOMAIN db'.cursors = DOMAIN db.cursors /\ db'.cursors[m] = Advanced(c, Page(a, c))
    BY <2>1 DEF PageCopied
  <2>3. IsCursor(Advanced(c, Page(a, c)))
    BY <2>1, <2>2 DEF Received, Reservations, Reservation
  <2>4. CallSound(d)'
    BY <1>1, <1>3, <2>2, <2>3 DEF CallSound
  <2>5. CallsSound'
    BY <1>1, <1>3, <2>2, <2>4, CallGoesOn DEF Inductive
  <2>6. ArchivesSound' /\ SourcesSealed'
    BY <1>1 DEF Inductive, ArchivesSound, SealSound, SourcesSealed, SealedFor
  <2> QED BY <2>1, <2>5, <2>6 DEF Inductive
<1> QED BY <1>2, <1>3, CopyPageCases

-----------------------------------------------------------------------------
(* The clients of the target *)

\* A client's write reaches no namespace under transfer, and follows the head
\* of its own.
LEMMA ApplyAccepted ==
  ASSUME Received, NEW o \in Orders, Apply(o)
  PROVE  LET w == WriteOn(db, o) IN
         /\ Accepts(db, w) /\ db' = Applied(db, w)
         /\ w.ns \notin DOMAIN db.staged /\ WholeAt(db, w.ns) /\ w.head.index \in Nat
<1> DEFINE w == WriteOn(db, o)
<1>1. Accepts(db, w) /\ db' = Applied(db, w)
  BY DEF Apply
<1>2. w.head.index \in Nat
  BY WriteOnFields DEF Received, TargetSound
<1>3. w.ns \notin DOMAIN db.staged
  BY <1>1 DEF Accepts, Fenced
<1>4. WholeAt(db, w.ns)
  BY <1>3 DEF Received, NamespacesWhole, Settled
<1> QED BY <1>1, <1>2, <1>3, <1>4

LEMMA ApplyReceived ==
  ASSUME ArchivesSound, Received, NEW o \in Orders, Apply(o)
  PROVE  Received'
<1> DEFINE w == WriteOn(db, o)
<1>1. /\ Accepts(db, w) /\ db' = Applied(db, w)
      /\ w.ns \notin DOMAIN db.staged /\ WholeAt(db, w.ns) /\ w.head.index \in Nat
  BY ApplyAccepted
<1>2. archive' = archive
  BY DEF Apply
<1> HIDE DEF w
<1>3. IsTables(db) /\ Keyed(db) /\ db.status \in Generations
  BY DEF Received, TargetSound
<1>4. Leaves(db, w, db') /\ Keyed(db') /\ RowsKept(db, db')
  BY <1>1, <1>3, AppliedFields, AppliedKeyed, AppliedKeeps
<1>5. /\ IsTables(db') /\ db'.staged = db.staged /\ db'.cursors = db.cursors
      /\ db'.targets = db.targets /\ db'.status \in {db.status, "neuron-v1"}
      /\ db'.fences = PutAll(db.fences, {<<s[1], Fence(w)>> : s \in w.sources})
  BY <1>4 DEF Leaves
<1>6. \A ns : ns # w.ns => SameAt(db, db', ns) /\ DOMAIN db.content \subseteq DOMAIN db'.content
  BY <1>1, <1>3, AppliedElsewhere
<1>7. \A b \in Archives : \A n : SealedFor(b, n)' <=> SealedFor(b, n)
  BY <1>2 DEF SealedFor
<1>8. TargetSound'
  BY <1>3, <1>4, <1>5 DEF TargetSound, Generations
<1>9. Reservations'
  BY <1>5, <1>7 DEF Received, Reservations, Reservation
<1>10. Copied'
  <2>1. ASSUME NEW b \in Archives, NEW m \in DOMAIN db.cursors, SealedFor(b, m)
        PROVE  CopiedTo(archive[b], db', db.cursors[m])
    <3> DEFINE s == archive[b]
    <3>1. CopiedTo(s, db, db.cursors[m]) /\ IsCursor(db.cursors[m]) /\ Archived(s)
      BY <2>1 DEF Received, Copied, Reservations, Reservation, ArchivesSound
    <3>2. \A ns \in DOMAIN s.heads : ns # w.ns
      BY <1>1, <2>1, SealPins DEF Received, Reservations, Reservation
    <3>3. \A k \in DOMAIN s.heads : RowCopied(s.heads, db.heads, k) => RowCopied(s.heads, db'.heads, k)
      BY <1>6, <3>2 DEF SameAt, RowCopied
    <3>4. \A i \in 1..5 : \A k \in DOMAIN s[TABLES[i]] :
            RowCopied(s[TABLES[i]], db[TABLES[i]], k) => RowCopied(s[TABLES[i]], db'[TABLES[i]], k)
      <4>1. \A i \in 1..5 : i = 5 \/ Kept(db[TABLES[i]], db'[TABLES[i]])
        <5>1. \A i \in 1..5 : i = 1 \/ i = 2 \/ i = 3 \/ i = 4 \/ i = 5
          OBVIOUS
        <5> QED BY <1>4, <5>1, TableNames DEF RowsKept
      <4>2. ASSUME NEW i \in 1..5, i # 5, NEW k \in DOMAIN s[TABLES[i]],
                   RowCopied(s[TABLES[i]], db[TABLES[i]], k)
            PROVE  RowCopied(s[TABLES[i]], db'[TABLES[i]], k)
        BY <4>1, <4>2 DEF Kept, RowCopied
      <4> QED BY <3>3, <4>2, TableNames
    <3> QED BY <3>1, <3>4, CopiedStays
  <2> QED BY <1>2, <1>5, <1>7, <2>1 DEF Copied
<1>11. NamespacesWhole'
  <2> SUFFICES ASSUME NEW ns, Settled(ns)' PROVE WholeAt(db', ns)
    BY DEF NamespacesWhole
  <2>1. WholeAt(db, ns)
    BY <1>5 DEF Received, NamespacesWhole, Settled, Complete
  <2>2. CASE ns = w.ns
    BY <1>1, <1>3, <2>2, AppliedAt
  <2>3. CASE ns # w.ns
    BY <1>3, <1>4, <1>6, <2>1, <2>3, SameWhole
  <2> QED BY <2>2, <2>3
<1>12. StagedInert'
  <2>1. ASSUME NEW b \in Archives, NEW ns \in DOMAIN db.staged, SealedFor(b, db.staged[ns])
        PROVE  /\ ns \in DOMAIN db'.heads => db'.heads[ns] = archive[b].heads[ns]
               /\ \A k \in DOMAIN db'.history : k[1] = ns =>
                    k \in DOMAIN archive[b].history /\ db'.history[k] = archive[b].history[k]
               /\ \A k \in DOMAIN db'.requests : k[1] = ns =>
                    k \in DOMAIN archive[b].requests /\ db'.requests[k] = archive[b].requests[k]
    <3>1. SameAt(db, db', ns)
      BY <1>1, <1>6
    <3> QED BY <2>1, <3>1 DEF Received, StagedInert, SameAt, SameRows
  <2>2. ASSUME NEW ns \in DOMAIN db'.fences, ns \in DOMAIN db.staged
        PROVE  Complete(db.staged[ns]) /\ db'.fences[ns].namespace = db.staged[ns].target
    <3>1. CASE ns \in DOMAIN db.fences
      BY <1>5, <2>2, <3>1 DEF Received, StagedInert, PutAll
    <3>2. CASE ns \notin DOMAIN db.fences
      <4> DEFINE pairs == {<<s[1], Fence(w)>> : s \in w.sources}
      <4>1. \A p \in pairs : p[2] = Fence(w) /\ \E s \in w.sources : p[1] = s[1]
        OBVIOUS
      <4>2. db'.fences = PutAll(db.fences, pairs)
        BY <1>5
      <4> HIDE DEF pairs
      <4>3. ns \in {p[1] : p \in pairs}
        BY <2>2, <3>2, <4>2 DEF PutAll
      <4>4. PICK s \in w.sources : s[1] = ns
        BY <4>1, <4>3
      <4>5. db'.fences[ns] = Fence(w)
        <5>1. db'.fences[ns] = (CHOOSE p \in pairs : p[1] = ns)[2]
          BY <2>2, <3>2, <4>2 DEF PutAll
        <5>2. (CHOOSE p \in pairs : p[1] = ns) \in pairs
          BY <4>3
        <5> QED BY <4>1, <5>1, <5>2
      <4>6. TransferComplete(db, ns, w.ns)
        BY <1>1, <4>4 DEF Accepts, SourcesFit
      <4>7. /\ db.staged[ns] \in DOMAIN db.cursors
            /\ db.targets[db.staged[ns]] = db.staged[ns].target
        BY <2>2 DEF Received, Reservations, Reservation
      <4> QED BY <2>2, <4>5, <4>6, <4>7 DEF TransferComplete, Complete, Fence
    <3> QED BY <3>1, <3>2
  <2>3. ASSUME NEW ns \in DOMAIN db'.fences, ns \in DOMAIN db.staged
        PROVE  db'.heads[ns] = db.staged[ns].heads[ns]
    <3>1. ns \in DOMAIN db.heads /\ db.heads[ns] = db.staged[ns].heads[ns]
      BY <2>2, <2>3, CompleteHeads
    <3> QED BY <1>1, <1>6, <2>3, <3>1 DEF SameAt
  <2>4. ASSUME NEW ns \in DOMAIN db'.fences \cap DOMAIN db'.staged
        PROVE  /\ Complete(db.staged[ns])'
               /\ db'.fences[ns].namespace = db'.staged[ns].target
               /\ db'.heads[ns] = db'.staged[ns].heads[ns]
    BY <1>5, <2>2, <2>3 DEF Complete
  <2> QED BY <1>2, <1>5, <1>7, <2>1, <2>4 DEF StagedInert
<1> QED BY <1>8, <1>9, <1>10, <1>11, <1>12 DEF Received

LEMMA ApplyInductive ==
  ASSUME Inductive, NEW o \in Orders, Apply(o)
  PROVE  Inductive'
<1>1. archive' = archive /\ held' = held /\ stage' = stage
  BY DEF Apply
<1>2. Received'
  BY ApplyReceived DEF Inductive
<1>3. db'.cursors = db.cursors
  <2>1. IsTables(db) /\ db' = Applied(db, WriteOn(db, o))
    BY DEF Apply, Inductive, Received, TargetSound
  <2>2. Leaves(db, WriteOn(db, o), db')
    BY <2>1, AppliedFields
  <2> QED BY <2>2 DEF Leaves
<1>4. ArchivesSound' /\ SourcesSealed' /\ CallsSound'
  BY <1>1, <1>3 DEF Inductive, ArchivesSound, SealSound, SourcesSealed, SealedFor, CallsSound, CallSound
<1> QED BY <1>2, <1>4 DEF Inductive

LEMMA RequireInductive ==
  ASSUME Inductive, NEW g \in Required, require_reader_generation(g)
  PROVE  Inductive'
<1>1. /\ archive' = archive /\ held' = held /\ stage' = stage /\ db' = Promoted(db, g)
      /\ IsTables(db) /\ g \in Generations
  BY RequiredAssumption DEF require_reader_generation, Inductive, Received, TargetSound
<1>2. /\ IsTables(db')
      /\ db'.content = db.content /\ db'.heads = db.heads /\ db'.history = db.history
      /\ db'.requests = db.requests /\ db'.claims = db.claims /\ db'.fences = db.fences
      /\ db'.staged = db.staged /\ db'.cursors = db.cursors /\ db'.targets = db.targets
      /\ db'.status \in {db.status, g}
  BY <1>1, PromotedFields
<1>3. TargetSound'
  BY <1>1, <1>2 DEF Inductive, Received, TargetSound, Keyed
<1>4. \A m : Complete(m)' <=> Complete(m)
  BY <1>2 DEF Complete
<1>5. \A a : \A m : SealedFor(a, m)' <=> SealedFor(a, m)
  BY <1>1 DEF SealedFor
<1>6. Reservations'
  BY <1>2, <1>5 DEF Inductive, Received, Reservations, Reservation
<1>7. \A i \in 1..5 : db'[TABLES[i]] = db[TABLES[i]]
  <2>1. \A i \in 1..5 : i = 1 \/ i = 2 \/ i = 3 \/ i = 4 \/ i = 5
    OBVIOUS
  <2> QED BY <1>2, <2>1, TableNames
<1>8. Copied'
  <2>1. ASSUME NEW b \in Archives, NEW n \in DOMAIN db.cursors, SealedFor(b, n)
        PROVE  CopiedTo(archive[b], db', db.cursors[n])
    <3>1. CopiedTo(archive[b], db, db.cursors[n]) /\ IsCursor(db.cursors[n])
      BY <2>1 DEF Inductive, Received, Copied, Reservations, Reservation
    <3>2. db.cursors[n].table < 5 => db.cursors[n].table + 1 \in 1..5
      BY <3>1 DEF IsCursor
    <3> QED BY <1>7, <3>1, <3>2 DEF CopiedTo
  <2> QED BY <1>1, <1>2, <1>5, <2>1 DEF Copied
<1>9. NamespacesWhole'
  <2>1. \A ns : Settled(ns)' <=> Settled(ns)
    BY <1>2, <1>4 DEF Settled
  <2>2. ASSUME NEW ns, WholeAt(db, ns) PROVE WholeAt(db', ns)
    BY <1>2, <2>2 DEF WholeAt, ChainAt, ReceiptsAt
  <2> QED BY <2>1, <2>2 DEF Inductive, Received, NamespacesWhole
<1>10. StagedInert'
  BY <1>1, <1>2, <1>4, <1>5 DEF Inductive, Received, StagedInert
<1>11. ArchivesSound' /\ SourcesSealed' /\ CallsSound'
  BY <1>1, <1>2 DEF Inductive, ArchivesSound, SealSound, SourcesSealed, SealedFor, CallsSound, CallSound
<1> QED BY <1>3, <1>6, <1>8, <1>9, <1>10, <1>11 DEF Inductive, Received

LEMMA NextInductive ==
  ASSUME Inductive, [Next]_vars
  PROVE  Inductive'
<1>1. CASE UNCHANGED vars
  <2>1. archive' = archive /\ held' = held /\ db' = db /\ stage' = stage
    BY <1>1 DEF vars
  <2> QED BY <2>1, ArchivesMove DEF Inductive, ArchivesSound, SealSound, SourcesSealed,
                                    SealedFor, CallsSound, CallSound
<1>2. CASE \E s \in Sessions : Open(s.archive, s.target, s.key)
  BY <1>2, OpenInductive
<1>3. CASE \E l \in Late : WriteArchive(l.archive, l.order)
  BY <1>3, WriteArchiveInductive
<1>4. CASE \E t \in Threads, a \in Archives : Begin(t, a)
  BY <1>4, BeginInductive
<1>5. CASE \E t \in Threads : CopyPage(t)
  BY <1>5, CopyPageInductive
<1>6. CASE \E t \in Threads : Return(t) \/ ContentRefused(t)
  BY <1>6, CallEnds DEF Return, ContentRefused
<1>7. CASE \E o \in Orders : Apply(o)
  BY <1>7, ApplyInductive
<1>8. CASE \E g \in Required : require_reader_generation(g)
  BY <1>8, RequireInductive
<1>9. CASE Crash
  BY <1>9, CrashInductive
<1> QED BY <1>1, <1>2, <1>3, <1>4, <1>5, <1>6, <1>7, <1>8, <1>9 DEF Next

-----------------------------------------------------------------------------
(* Theorems *)

LEMMA AlwaysInductive == Spec => []Inductive
  BY InitInductive, NextInductive, PTL DEF Spec

\* StagedInert for every archive, session and client: until an archive is
\* wholly transferred no writer of the target gets into its namespaces, and
\* it is migrated only once, whole, into the target of its seal.
THEOREM AlwaysInert == Spec => []StagedInert
<1>1. Inductive => StagedInert
  BY DEF Inductive, Received
<1> QED BY <1>1, AlwaysInductive, PTL

\* The target without the namespaces under transfer is whole.
LEMMA RestWhole ==
  ASSUME Received, NEW open, \A ns : ns \notin open => Settled(ns), NEW whole,
         whole = [db EXCEPT !.heads = Restrict(@, DOMAIN @ \ open),
                            !.history = Without(@, open), !.requests = Without(@, open)]
  PROVE  ChainIntact(whole) /\ ReceiptsExact(whole)
<1> DEFINE heads == Restrict(db.heads, DOMAIN db.heads \ open)
           history == Without(db.history, open)
           requests == Without(db.requests, open)
<1>1. whole = [db EXCEPT !.heads = heads, !.history = history, !.requests = requests]
  OBVIOUS
<1> HIDE DEF heads, history, requests
<1>2. IsTables(db) /\ Keyed(db)
  BY DEF Received, TargetSound
<1>3. /\ IsTables(whole) /\ whole.content = db.content
      /\ whole.heads = heads /\ whole.history = history /\ whole.requests = requests
  BY <1>1, <1>2 DEF IsTables, Fields
<1>4. /\ DOMAIN heads = DOMAIN db.heads \ open
      /\ \A ns \in DOMAIN heads : heads[ns] = db.heads[ns]
      /\ DOMAIN history = {k \in DOMAIN db.history : k[1] \notin open}
      /\ \A k \in DOMAIN history : history[k] = db.history[k]
      /\ DOMAIN requests = {k \in DOMAIN db.requests : k[1] \notin open}
      /\ \A k \in DOMAIN requests : requests[k] = db.requests[k]
  BY DEF heads, history, requests, Without, Restrict
<1>5. Keyed(whole)
  BY <1>2, <1>3, <1>4 DEF Keyed
<1>6. ASSUME NEW ns PROVE WholeAt(whole, ns)
  <2>1. CASE ns \in open
    <3>1. /\ ns \notin DOMAIN whole.heads
          /\ \A k \in DOMAIN whole.history : k[1] # ns
          /\ \A k \in DOMAIN whole.requests : k[1] # ns
      BY <1>3, <1>4, <2>1
    <3> QED BY <3>1 DEF WholeAt, ChainAt, ReceiptsAt
  <2>2. CASE ns \notin open
    <3>1. WholeAt(db, ns)
      BY <2>2 DEF Received, NamespacesWhole
    <3>2. SameRows(db.history, whole.history, ns) /\ SameRows(db.requests, whole.requests, ns)
      BY <1>3, <1>4, <2>2 DEF SameRows
    <3>3. SameAt(db, whole, ns)
      BY <1>3, <1>4, <2>2, <3>2 DEF SameAt
    <3>4. DOMAIN db.content \subseteq DOMAIN whole.content
      BY <1>3
    <3> QED BY <1>2, <1>5, <3>1, <3>3, <3>4, SameWhole
  <2> QED BY <2>1, <2>2
<1>7. Whole(whole)
  BY <1>3, <1>5, <1>6, WholeTogether
<1> QED BY <1>7 DEF Whole

\* CompleteExact for every archive, session, page size and client: whatever
\* calls of stage race and wherever they are interrupted, a transfer whose
\* cursor says complete has brought every row, and the histories and receipts
\* of the target are whole.
THEOREM TransfersExact == Spec => []CompleteExact
<1>1. Inductive => CompleteExact
  <2> SUFFICES ASSUME Inductive PROVE CompleteExact
    OBVIOUS
  <2>1. Received
    BY DEF Inductive
  <2> DEFINE open == {ns \in DOMAIN db.staged : ~Complete(db.staged[ns])}
             whole == [db EXCEPT !.heads = Restrict(@, DOMAIN @ \ open),
                                 !.history = Without(@, open), !.requests = Without(@, open)]
  <2>2. \A a \in Archives : \A m \in DOMAIN db.cursors :
          (SealedFor(a, m) /\ Complete(m)) =>
            \A i \in DOMAIN TABLES : Kept(archive[a][TABLES[i]], db[TABLES[i]])
    BY <2>1, TableNames DEF Received, Copied, CopiedTo, Complete
  <2>3. \A ns : ns \notin open => Settled(ns)
    BY DEF Settled
  <2>4. ChainIntact(whole) /\ ReceiptsExact(whole)
    <3> HIDE DEF open
    <3> QED BY <2>1, <2>3, RestWhole
  <2> QED BY <2>2, <2>4 DEF CompleteExact
<1> QED BY <1>1, AlwaysInductive, PTL

\* What TargetGrows says of one step.
CursorsAdvance ==
  \A m \in DOMAIN db.cursors :
    \/ db'.cursors[m].table > db.cursors[m].table
    \/ db'.cursors[m].table = db.cursors[m].table /\ db'.cursors[m].after >= db.cursors[m].after

Grows ==
  /\ RowsKept(db, db')
  /\ GenerationRank(db.status) <= GenerationRank(db'.status)
  /\ CursorsAdvance

LEMMA GenerationNotLower ==
  ASSUME NEW g \in Generations, NEW h \in {g, "neuron-v1"}, h = g \/ g # "auth-v1"
  PROVE  GenerationRank(g) <= GenerationRank(h)
  BY DEF Generations, GenerationRank

LEMMA CursorNumbers ==
  ASSUME Received, NEW m \in DOMAIN db.cursors
  PROVE  db.cursors[m].table \in Nat /\ db.cursors[m].after \in Nat
<1>1. IsCursor(db.cursors[m])
  BY DEF Received, Reservations, Reservation
<1> QED BY <1>1 DEF IsCursor

LEMMA CursorsSame ==
  ASSUME Received, \A m \in DOMAIN db.cursors : db'.cursors[m] = db.cursors[m]
  PROVE  CursorsAdvance
  BY CursorNumbers DEF CursorsAdvance

LEMMA SameGrows ==
  ASSUME Received, db' = db
  PROVE  Grows
<1>1. RowsKept(db, db')
  BY DEF RowsKept, Kept
<1>2. GenerationRank(db.status) <= GenerationRank(db'.status)
  BY GenerationNotLower DEF Received, TargetSound
<1> QED BY <1>1, <1>2, CursorsSame DEF Grows

LEMMA ReserveGrows ==
  ASSUME Received, NEW m, m \notin DOMAIN db.cursors, db' = Reserved(m)
  PROVE  Grows
<1>1. /\ db'.content = db.content /\ db'.history = db.history /\ db'.requests = db.requests
      /\ db'.claims = db.claims /\ db'.fences = db.fences
      /\ db'.cursors = Put(db.cursors, m, Start)
      /\ db'.status = Promoted(db, "neuron-v1").status
  BY ReservedFields DEF Received, TargetSound
<1>2. RowsKept(db, db')
  BY <1>1 DEF RowsKept, Kept
<1>3. GenerationRank(db.status) <= GenerationRank(db'.status)
  BY <1>1, PromotedStatus, PromotedFields, GenerationNotLower DEF Received, TargetSound
<1>4. \A n \in DOMAIN db.cursors : db'.cursors[n] = db.cursors[n]
  BY <1>1 DEF Put
<1>5. CursorsAdvance
  BY <1>4, CursorsSame
<1> QED BY <1>2, <1>3, <1>5 DEF Grows

LEMMA CopyPageGrows ==
  ASSUME Inductive, NEW t \in Threads, CopyPage(t)
  PROVE  Grows
<1>1. CASE db' = db
  BY <1>1, SameGrows DEF Inductive
<1>2. ASSUME NEW a \in Archives, NEW m \in DOMAIN db.cursors, NEW c, SealedFor(a, m),
             IsCursor(c) /\ c.table < 5 /\ db.cursors[m] = c,
             PageValid(a, c, Page(a, c)) /\ RowsFit(c, Page(a, c)) /\ Copies(a, m, c)
      PROVE  Grows
  <2> DEFINE next == Advanced(c, Page(a, c))
  <2>1. PageCopied(a, m, c)
    BY <1>2, CopyReceived, CopyPageCases DEF Inductive
  <2>2. RowsKept(db, db')
    <3>1. /\ Kept(db.content, db'.content) /\ Kept(db.claims, db'.claims)
          /\ Kept(db.requests, db'.requests) /\ Kept(db.history, db'.history)
      BY <2>1, TableNames DEF PageCopied, Grown
    <3>2. Kept(db.fences, db'.fences)
      BY <2>1 DEF PageCopied, Kept
    <3> QED BY <3>1, <3>2 DEF RowsKept
  <2>3. GenerationRank(db.status) <= GenerationRank(db'.status)
    BY <2>1, GenerationNotLower DEF PageCopied, Inductive, Received, TargetSound
  <2>4. /\ db'.cursors[m] = next
        /\ \A n \in DOMAIN db.cursors : n # m => db'.cursors[n] = db.cursors[n]
    BY <2>1 DEF PageCopied
  <2>5. \/ next.table > c.table
        \/ next.table = c.table /\ next.after >= c.after
    <3>1. c.table + 1 \in 1..5
      BY <1>2 DEF IsCursor
    <3>2. IsFiniteSet(DOMAIN archive[a][TABLES[c.table + 1]])
      BY <3>1, TableNames DEF Archived, Inductive, ArchivesSound
    <3>3. Cardinality(Page(a, c)) \in Nat
      BY <1>2, <3>2, PageRowsNext
    <3> QED BY <1>2, <3>3, AdvancedCursor
  <2> HIDE DEF next
  <2>6. CursorsAdvance
    BY <1>2, <2>4, <2>5, CursorNumbers DEF Inductive, CursorsAdvance
  <2> QED BY <2>2, <2>3, <2>6 DEF Grows
<1> QED BY <1>1, <1>2, CopyPageCases

LEMMA ApplyGrows ==
  ASSUME Inductive, NEW o \in Orders, Apply(o)
  PROVE  Grows
<1> DEFINE w == WriteOn(db, o)
<1>1. /\ Accepts(db, w) /\ db' = Applied(db, w) /\ WholeAt(db, w.ns)
  BY ApplyAccepted DEF Inductive
<1> HIDE DEF w
<1>2. IsTables(db) /\ Keyed(db) /\ db.status \in Generations
  BY DEF Inductive, Received, TargetSound
<1>3. RowsKept(db, db') /\ Leaves(db, w, db')
  BY <1>1, <1>2, AppliedKeeps, AppliedFields
<1>4. db'.cursors = db.cursors /\ db'.status \in {db.status, "neuron-v1"}
  BY <1>3 DEF Leaves
<1>5. db'.status = db.status \/ db.status # "auth-v1"
  BY <1>1, <1>2, AppliedStatus
<1> QED BY <1>2, <1>3, <1>4, <1>5, GenerationNotLower, CursorsSame DEF Grows, Inductive

LEMMA RequireGrows ==
  ASSUME Inductive, NEW g \in Required, require_reader_generation(g)
  PROVE  Grows
<1>1. db' = Promoted(db, g) /\ IsTables(db) /\ db.status \in Generations /\ g \in Generations
  BY RequiredAssumption DEF require_reader_generation, Inductive, Received, TargetSound
<1>2. /\ db'.content = db.content /\ db'.history = db.history /\ db'.requests = db.requests
      /\ db'.claims = db.claims /\ db'.fences = db.fences /\ db'.cursors = db.cursors
  BY <1>1, PromotedFields
<1>3. RowsKept(db, db')
  BY <1>2 DEF RowsKept, Kept
<1>4. \/ db'.status = db.status
      \/ ~(GenerationRank(db.status) >= GenerationRank(g)) /\ db'.status = g
  BY <1>1 DEF Promoted, IsTables, Fields
<1>5. GenerationRank(db.status) \in Nat /\ GenerationRank(g) \in Nat
  BY <1>1 DEF Generations, GenerationRank
<1>6. GenerationRank(db.status) <= GenerationRank(db'.status)
  BY <1>4, <1>5
<1>7. CursorsAdvance
  BY <1>2, CursorsSame DEF Inductive
<1> QED BY <1>3, <1>6, <1>7 DEF Grows

\* TargetGrows for all constants: through any interleaving of calls of stage,
\* clients and failures no row of the target is removed or rewritten, the
\* generation never falls and no cursor moves back.
THEOREM TargetOnlyGrows == Spec => TargetGrows
<1>1. ASSUME Inductive, [Next]_vars PROVE Grows \/ UNCHANGED vars
  <2>1. CASE UNCHANGED vars
    BY <2>1
  <2>2. CASE \E t \in Threads, a \in Archives : Begin(t, a)
    <3>1. PICK t \in Threads, a \in Archives : Begin(t, a)
      BY <2>2
    <3>2. \/ db' = db
          \/ held[a][1] \notin DOMAIN db.cursors /\ db' = Reserved(held[a][1])
      BY <3>1 DEF Begin
    <3> QED BY <1>1, <3>2, SameGrows, ReserveGrows DEF Inductive
  <2>3. CASE \E t \in Threads : CopyPage(t)
    BY <1>1, <2>3, CopyPageGrows
  <2>4. CASE \E o \in Orders : Apply(o)
    BY <1>1, <2>4, ApplyGrows
  <2>5. CASE \/ \E s \in Sessions : Open(s.archive, s.target, s.key)
             \/ \E l \in Late : WriteArchive(l.archive, l.order)
             \/ \E t \in Threads : Return(t) \/ ContentRefused(t)
             \/ Crash
    <3>1. db' = db
      BY <2>5 DEF Open, WriteArchive, Return, ContentRefused, Crash
    <3> QED BY <1>1, <3>1, SameGrows DEF Inductive
  <2>6. CASE \E g \in Required : require_reader_generation(g)
    BY <1>1, <2>6, RequireGrows
  <2> QED BY <1>1, <2>1, <2>2, <2>3, <2>4, <2>5, <2>6 DEF Next
<1>2. ASSUME Inductive, [Next]_vars
      PROVE  [/\ RowsKept(db, db')
              /\ GenerationRank(db.status) <= GenerationRank(db'.status)
              /\ \A m \in DOMAIN db.cursors :
                   \/ db'.cursors[m].table > db.cursors[m].table
                   \/ db'.cursors[m].table = db.cursors[m].table /\ db'.cursors[m].after >= db.cursors[m].after
             ]_vars
  BY <1>1, <1>2 DEF Grows, CursorsAdvance
<1> QED BY <1>2, AlwaysInductive, PTL DEF Spec, TargetGrows

=============================================================================
