------------------------------- MODULE Query --------------------------------
(***************************************************************************)
(* Authenticated reads (proof.rs, query.rs, query_auth.rs, certificate.rs) *)
(* over the dimensions: a cell of the flat table of a dimension, opened    *)
(* with a certificate that discloses the table under the root.  A client   *)
(* keeps one answer while the state changes and checks it against a root   *)
(* it trusts.  Under RootVersion V2 no table matches its leaf and these    *)
(* reads answer nothing.                                                   *)
(*                                                                         *)
(* A namespace is named by its dimension.  An option is <<>> or <<x>>.     *)
(***************************************************************************)
EXTENDS Dimensions

CONSTANTS
  MAX_FIELDS,        \* fields of a certificate
  MAX_QUERY_FIELDS,  \* fields of a query table
  Queried,           \* bound: the subjects in which a client asks
  LookCells          \* bound: the cells whose look openings a client keeps

ASSUME QueryAssumption ==
  /\ Queried \subseteq Subjects /\ LookCells \subseteq Nat
  /\ MAX_FIELDS \in Nat /\ MAX_QUERY_FIELDS \in Nat /\ MAX_QUERY_FIELDS <= MAX_FIELDS

VARIABLE held        \* the answer the client keeps: a proof, an opening, or none

vars == <<keyed, axons_out, by_axon, root_version, subject, held>>

\* Dim: the eleven namespaces have neither A nor N.  Balances are private.
Dims == (KeyedDims \ {"nullifiers"}) \cup {"axons_out"}

Public == Dims \ {"balances"}

Entries(d) ==
  IF d = "axons_out" THEN AxonEntries(axons_out.map) ELSE KeyedEntries(d, keyed[d].map)

Table(d) == dim_serialize(Entries(d))

Cell(fields, idx) == IF idx < Len(fields) THEN <<fields[idx + 1]>> ELSE <<>>

\* cell_value, which BbgLookProvider::look answers for a public dimension.
cell_value(d, idx) == Cell(Table(d), idx)

look(d, idx) == IF d \in Public THEN cell_value(d, idx) ELSE <<>>

-----------------------------------------------------------------------------
(* StateCertificate *)

validate_shape(cert) ==
  \A d \in DOMAIN cert.dimensions :
    LET fields == cert.dimensions[d] IN
    /\ Len(fields) >= HEADER_FIELDS
    /\ fields[1] = TABLE_VERSION /\ fields[2] = Len(fields)
    /\ fields[3] <= (Len(fields) - HEADER_FIELDS) \div KEY_FIELDS
    /\ (fields[3] = 0) => (Len(fields) = HEADER_FIELDS)

\* StateCertificate::root: every table has to match its leaf.
CertRoot(cert) ==
  IF /\ validate_shape(cert)
     /\ \A d \in DOMAIN cert.dimensions : commit_fields(cert.dimensions[d]) = cert.leaves.dims[d]
  THEN <<cert.leaves>> ELSE <<>>

\* StateCertificate::verify
CertVerify(cert, rt) == CertRoot(cert) = <<rt>>

\* A certificate has its limit and has to match its own leaves.
Certified(cert) ==
  IF \/ SumOf([d \in DOMAIN cert.dimensions |-> Len(cert.dimensions[d])]) > MAX_FIELDS
     \/ CertRoot(cert) = <<>>
  THEN <<>> ELSE <<cert>>

\* from_state, for the namespaces of the set S.
from_state(S) ==
  Certified([leaves |-> root_leaves, dimensions |-> [d \in S |-> Table(d)]])

\* StateCertificate::cell
CertCell(cert, d, idx) ==
  IF d \in DOMAIN cert.dimensions THEN Cell(cert.dimensions[d], idx) ELSE <<>>

-----------------------------------------------------------------------------
(* Proofs *)

Log2(n) == CHOOSE i \in 0..n : 2^i = n

\* corner_point: the bits of an index, the lowest first.
corner_point(idx, n) == [j \in 1..n |-> (idx \div 2^(j - 1)) % 2]

\* Brakedown::open and ::verify at a corner.
BrakedownOpen(commitment, point) ==
  LET idx == SumOf([j \in DOMAIN point |-> point[j] * 2^(j - 1)])
  IN [of |-> commitment, at |-> point, value |-> commitment[2][idx + 1]]

BrakedownVerify(commitment, point, value, opening) ==
  opening = BrakedownOpen(commitment, point) /\ opening.value = value

\* open_cell_from_entries: an opening without context.
open_bare(fields, idx) ==
  LET commitment == commit_fields(fields)
      point      == corner_point(idx, Log2(Len(commitment[2])))
      opening    == BrakedownOpen(commitment, point)
  IN IF idx >= Len(fields) THEN <<>>
     ELSE <<[commitment |-> commitment, opening |-> opening, value |-> opening.value,
             point |-> point, context |-> <<>>]>>

\* The proof, if there is one, with a certificate, if there is one.
WithContext(proof, cert, d, idx) ==
  IF proof = <<>> \/ cert = <<>> THEN <<>>
  ELSE <<[proof[1] EXCEPT !.context =
            <<[certificate |-> cert[1], namespace |-> d, index |-> idx]>>]>>

OpenIn(table, d, idx) ==
  IF d \notin Public THEN open_bare(table, idx)
  ELSE IF Len(table) > MAX_QUERY_FIELDS THEN <<>>
  ELSE WithContext(open_bare(table, idx), from_state({d}), d, idx)

open_cell(d, idx) == OpenIn(Table(d), d, idx)

\* Where the cells of entry n begin.
EntryOffset(entries, n) ==
  HEADER_FIELDS + SumOf([i \in 1..(n - 1) |-> KEY_FIELDS + Len(entries[i].vals)])

\* The flat index of column col of the entry with this key, as a set.
CellIndex(entries, key, col) ==
  LET found == {n \in DOMAIN entries : entries[n].key = key /\ col < Len(entries[n].vals)}
  IN {EntryOffset(entries, n) + KEY_FIELDS + col : n \in found}

OpenAt(cells, d) == IF cells = {} THEN <<>> ELSE open_cell(d, Min(cells))

open_entity(d, key, col) == OpenAt(CellIndex(Entries(d), key, col), d)

\* The column a query of a dimension opens: link_count follows two ids.
PrimaryColumn(d) == IF d = "signals" THEN 2 * KEY_FIELDS ELSE 0

\* A height is in the first limbs of its key, the others are zero.
IsHeight(key) == \A i \in 3..KEY_FIELDS : key[i] = 0

\* bbg_query: balances have a call of their own.
bbg_query(d, key) ==
  IF d = "balances" \/ (d = "time" /\ ~IsHeight(key)) THEN <<>>
  ELSE open_entity(d, key, PrimaryColumn(d))

Disclosed(cells) ==
  IF cells = {} THEN <<>>
  ELSE WithContext(open_cell("balances", Min(cells)), from_state({"balances"}),
                   "balances", Min(cells))

\* prove_public_balance: the table is disclosed on request.
prove_public_balance(key) ==
  IF HEADER_FIELDS + Cardinality(DOMAIN keyed["balances"].map) * (KEY_FIELDS + 2) > MAX_QUERY_FIELDS
  THEN <<>>
  ELSE Disclosed(CellIndex(KeyedEntries("balances", keyed["balances"].map), key, 0))

-----------------------------------------------------------------------------
(* Verification *)

\* Mutant: the root the context describes is taken for the trusted one.
authenticatedSelf(proof, rt) ==
  /\ proof.context # <<>>
  /\ CertRoot(proof.context[1].certificate) # <<>>
  /\ Cell(proof.context[1].certificate.dimensions[proof.context[1].namespace],
          proof.context[1].index) = <<proof.value>>

\* authenticated, under a root the caller trusts.
authenticated(proof, rt) ==
  /\ proof.context # <<>>
  /\ LET context == proof.context[1]
         cert    == context.certificate
         fields  == cert.dimensions[context.namespace]
     IN /\ DOMAIN cert.dimensions = {context.namespace}
        /\ Len(fields) <= MAX_QUERY_FIELDS
        /\ CertRoot(cert) = <<rt>>
        /\ Cell(fields, context.index) = <<proof.value>>
        /\ proof.point = corner_point(context.index, Log2(next_power_of_two(Len(fields))))
        /\ proof.commitment = cert.leaves.dims[context.namespace]
        /\ BrakedownVerify(proof.commitment, proof.point, proof.value, proof.opening)

verify_query_at(proof, rt, d, idx) ==
  /\ proof.context # <<>> /\ proof.context[1].namespace = d /\ proof.context[1].index = idx
  /\ authenticated(proof, rt)

\* Mutant: heights are compared as the bytes of their keys.
SortKeyBytes(d, bytes) == bytes

\* What the order of entries is checked on: heights as big-endian numbers.
SortKey(d, bytes) == IF d = "time" THEN <<bytes[2], bytes[1]>> ELSE bytes

\* The fields of the record that begins at an offset of the table, with the
\* ones that leaf_vals leaves out left out.
Width(fields, d, start) ==
  CASE d \in {"neurons", "balances"} -> 2
    [] d = "time"      -> KEY_FIELDS
    [] d = "cards"     -> KEY_FIELDS + 2
    [] d = "signals"   -> 2 * KEY_FIELDS + 4
    [] d = "axons_out" -> 2 + KEY_FIELDS * (fields[start + 1] + Base * fields[start + 2])

\* primary_index: the table is walked entry by entry, its keys have to
\* increase and its entries to fill it.
primary_index(fields, d, key) ==
  LET count == fields[3]
      offset[n \in 1..(count + 1)] ==
        IF n = 1 THEN HEADER_FIELDS
        ELSE offset[n - 1] + KEY_FIELDS + Width(fields, d, offset[n - 1] + KEY_FIELDS)
      Key(n) == SubSeq(fields, offset[n] + 1, offset[n] + KEY_FIELDS)
      found  == {n \in 1..count : Key(n) = key}
  IN IF /\ offset[count + 1] = Len(fields)
        /\ (d = "time") => \A n \in 1..count : IsHeight(Key(n))
        /\ \A n \in 2..count : BytesLess(SortKey(d, Key(n - 1)), SortKey(d, Key(n)))
        /\ found # {}
     THEN <<offset[Max(found)] + KEY_FIELDS + PrimaryColumn(d)>> ELSE <<>>

verify_entity(proof, rt, d, key) ==
  /\ authenticated(proof, rt)
  /\ proof.context[1].namespace = d
  /\ primary_index(proof.context[1].certificate.dimensions[d], d, key) = <<proof.context[1].index>>

\* verify_public_balance: both limbs of the amount.
verify_public_balance(proof, rt, key) ==
  IF ~verify_entity(proof, rt, "balances", key) THEN <<>>
  ELSE LET context == proof.context[1]
           fields  == context.certificate.dimensions["balances"]
       IN <<fields[context.index + 1] + Base * fields[context.index + 2]>>

\* LookOpening: a proof without its context, with the leaves the provider took
\* when it was made.
LookOpening(proof, d) ==
  IF proof = <<>> THEN <<>>
  ELSE <<[commitment |-> proof[1].commitment, point |-> proof[1].point,
          value |-> proof[1].value, opening |-> proof[1].opening,
          leaves |-> root_leaves, namespace |-> d]>>

\* ProofLookProvider::look
look_opening(d, idx) == IF d \notin Public THEN <<>> ELSE LookOpening(open_cell(d, idx), d)

verify_opening_with_context(lo, proof, rt, idx) ==
  /\ verify_query_at(proof, rt, lo.namespace, idx)
  /\ lo.leaves = proof.context[1].certificate.leaves
  /\ lo.commitment = proof.commitment /\ lo.point = proof.point
  /\ lo.value = proof.value /\ lo.opening = proof.opening

-----------------------------------------------------------------------------

Init == DimInit /\ held = <<>>

\* An answer is kept; making it reads the root.
Keep(kind, answer) ==
  /\ subject \in Queried
  /\ answer # <<>>
  /\ held' = <<kind, answer[1]>>
  /\ Root

QueryKeys(d) == IF d = "axons_out" THEN Ids ELSE {key_bytes(d, k) : k \in Keys[d]}

Query(d, key) == Keep("proof", bbg_query(d, key))

QueryBalance(key) == Keep("proof", prove_public_balance(key))

LookProof(d, idx) == Keep("look", look_opening(d, idx))

Next ==
  \/ DimNext /\ UNCHANGED held
  \/ \E d \in subject \cap Public : \E key \in QueryKeys(d) : Query(d, key)
  \/ "balances" \in subject /\ \E key \in QueryKeys("balances") : QueryBalance(key)
  \/ \E d \in subject \cap Public : \E idx \in LookCells : LookProof(d, idx)

Spec == Init /\ [][Next]_vars

-----------------------------------------------------------------------------
(* Properties *)

\* The first limb of the primary field of a record, read from the maps; <<>>
\* where the dimension has no record at the key.
Primary(d, key) ==
  IF d = "axons_out"
  THEN IF key \in DOMAIN axons_out.map THEN <<Len(axons_out.map[key]) % Base>> ELSE <<>>
  ELSE LET at == {k \in DOMAIN keyed[d].map : key_bytes(d, k) = key}
           r  == keyed[d].map[CHOOSE k \in at : TRUE]
       IN IF at = {} THEN <<>>
          ELSE <<CASE d \in {"neurons", "balances"} -> r % Base
                   [] d \in {"time"} -> r[1]
                   [] d = "cards" -> r.particle[1]
                   [] d = "signals" -> r.link_count % Base>>

\* The query of a key, whichever call serves its dimension.
Answer(d, key) == IF d = "balances" THEN prove_public_balance(key) ELSE bbg_query(d, key)

\* Proof p of a key shows the field and passes for this key alone.
Shows(p, rt, d, key, field) ==
  /\ p # <<>> /\ p[1].value = field[1]
  /\ \A e \in Ids \cup QueryKeys(d) : verify_entity(p[1], rt, d, e) <=> e = key
  /\ (d = "balances") => verify_public_balance(p[1], rt, key) = <<balance_at(key)>>

\* Under V1 a query of a present record of a table that fits is answered, its
\* proof passes the verification of exactly that entity under the present
\* root and shows its primary field; a query of anything else is refused, and
\* so is every query under V2.  A public balance comes back whole.
QueriesAnswer ==
  LET rt == root_leaves
  IN \A d \in subject \cap Dims : \A key \in Ids \cup QueryKeys(d) :
       IF \/ root_version = "V2" \/ Primary(d, key) = <<>>
          \/ Len(Table(d)) > MAX_QUERY_FIELDS
       THEN Answer(d, key) = <<>>
       ELSE Shows(Answer(d, key), rt, d, key, Primary(d, key))

\* An answer kept from an earlier state is accepted under the present root
\* only for what the present state says: a proof for a cell or an entity, its
\* certificate for any cell, and a look opening beside a fresh proof.
QueriesBind ==
  LET rt == root_leaves
  IN held # <<>> =>
       \A d \in subject \cap Dims :
         IF held[1] = "proof"
         THEN /\ \A idx \in 0..(Len(Table(d)) - 1) :
                   /\ verify_query_at(held[2], rt, d, idx) => (<<held[2].value>> = cell_value(d, idx))
                   /\ LET cert == held[2].context[1].certificate
                      IN (CertVerify(cert, rt) /\ d \in DOMAIN cert.dimensions)
                           => (CertCell(cert, d, idx) = cell_value(d, idx))
              /\ \A key \in Ids \cup QueryKeys(d) :
                   verify_entity(held[2], rt, d, key) => (<<held[2].value>> = Primary(d, key))
         ELSE \A idx \in 0..(Len(Table(d)) - 1) :
                LET p == open_cell(d, idx)
                IN (p # <<>> /\ verify_opening_with_context(held[2], p[1], rt, idx))
                     => (<<held[2].value>> = look(d, idx))
=============================================================================
