------------------------- MODULE MCApplicationStore -------------------------
(***************************************************************************)
(* An instance of ApplicationStore: two writers of one namespace that the  *)
(* largest index leaves room for two entries in, an apply_once racing the  *)
(* same request under another fingerprint, and a migration of that         *)
(* namespace into another.                                                 *)
(***************************************************************************)
EXTENDS ApplicationStore

CONSTANTS A, B, r1, r2, r3, r4, f1, f2, c1, c2, k1, m1

Order(id, ns, request, fingerprint, retry, commit, content, claims, sources) ==
  [id |-> id, ns |-> ns, request |-> request, fingerprint |-> fingerprint,
   retry |-> retry, commit |-> commit, content |-> content, claims |-> claims,
   manifest |-> m1, sources |-> sources]

Write1  == Order(1, A, r1, f1, TRUE,  c1, {<<c1, f1>>}, {<<k1, f1>>}, {})

Write2  == Order(2, A, r2, f1, TRUE,  c2, {<<c2, f2>>}, {}, {})

\* Its commit is content that only Write1 stores; its claim is Write1's.
Once    == Order(3, A, r3, f1, FALSE, c1, {}, {<<k1, f1>>}, {})

\* The same request meant otherwise, with a claim that contradicts theirs.
Forged  == Order(4, A, r3, f2, TRUE,  c2, {<<c2, f2>>}, {<<k1, f2>>}, {})

Migrate == Order(5, B, r4, f1, TRUE,  c2, {<<c2, f2>>}, {}, {A})

MCOrders == {Write1, Write2, Once, Forged, Migrate}

MCRequired == {"auth-v1"}
=============================================================================
