----------------------- MODULE MCApplicationTransfer -----------------------
(***************************************************************************)
(* An instance of ApplicationTransfer: an archive whose namespace has two  *)
(* entries or, when a late writer comes first, three; a copy of it that    *)
(* lost a receipt; two threads; and target clients that write content and  *)
(* claims of the archive, its namespace, and migrations of it.             *)
(***************************************************************************)
EXTENDS ApplicationTransfer

CONSTANTS A, B, C, r1, r2, r3, r4, f1, f2, c1, c2, k1, key1, key2, m1, good, torn, t1, t2

Order(ns, request, commit, content, claims, sources) ==
  [ns |-> ns, request |-> request, fingerprint |-> f1, retry |-> TRUE,
   commit |-> commit, content |-> content, claims |-> claims,
   manifest |-> m1, sources |-> sources]

First  == Order(A, r1, c1, {<<c1, f1>>}, {<<k1, f1>>}, {})
Second == Order(A, r2, c2, {<<c2, f2>>}, {}, {})

\* Tables that only ordinary writes made.
Written ==
  LET one == Applied(NewTables, WriteOn(NewTables, First))
  IN Applied(one, WriteOn(one, Second))

MCContents ==
  (good :> Applied(NewTables, WriteOn(NewTables, First))) @@
  (torn :> [Written EXCEPT !.requests = Restrict(@, {request_key(A, r1)})])

MCSessions ==
  {[archive |-> good, target |-> B, key |-> key1], [archive |-> good, target |-> C, key |-> key2],
   [archive |-> torn, target |-> B, key |-> key2]}

MCLate == {[archive |-> good, order |-> Second]}

MCOrders ==
  {Order(B, r3, c1, {}, {}, {A}),                      \* the migration, and
   Order(C, r3, c1, {}, {}, {A}),                      \* into another target
   Order(C, r4, c1, {<<c1, f1>>}, {<<k1, f2>>}, {}),   \* a contradicting claim
   Order(A, r4, c2, {<<c2, f2>>}, {}, {})}             \* the same namespace
=============================================================================
