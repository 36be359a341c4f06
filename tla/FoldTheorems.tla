---------------------------- MODULE FoldTheorems ----------------------------
(***************************************************************************)
(* What the folds of the community modules compute.  They are recursive    *)
(* functions over the subsets of a finite set: here it is shown that such  *)
(* a function exists, that a sum does not depend on the order in which it  *)
(* takes its elements, that a fold over a sequence is a loop, what the     *)
(* loop of Vec::retain leaves and where a flattened sequence has its       *)
(* parts.  At the end, powers of two and quotients.                        *)
(***************************************************************************)
EXTENDS Integers, Sequences, FiniteSetsExt, Vec, FiniteSetTheorems, TLAPS

-----------------------------------------------------------------------------
(* Induction *)

\* A set of naturals has a least element.
LEMMA LeastNatural ==
  ASSUME NEW T \in SUBSET Nat, T # {}
  PROVE  \E n \in T : \A m \in T : n <= m
<1> DEFINE R == OpToRel(<, Nat)
<1>1. IsWellFoundedOn(R, Nat)
  BY NatLessThanWellFounded, Zenon
<1>2. PICK n \in T : \A m \in T : <<m, n>> \notin R
  <2> HIDE DEF R
  <2> QED BY <1>1, WFMin
<1>3. \A m \in T : ~(m < n)
  BY <1>2 DEF OpToRel
<1> QED BY <1>3

\* Induction over the naturals, the property being a set.
LEMMA Induction ==
  ASSUME NEW T, 0 \in T, \A n \in Nat : n \in T => n + 1 \in T
  PROVE  Nat \subseteq T
<1> DEFINE U == Nat \ T
<1> SUFFICES ASSUME U # {} PROVE FALSE
  OBVIOUS
<1>1. PICK n \in U : \A m \in U : n <= m
  <2>1. U \in SUBSET Nat
    OBVIOUS
  <2> HIDE DEF U
  <2> QED BY <2>1, LeastNatural
<1>2. n # 0 /\ n - 1 \in Nat /\ n - 1 \in T
  BY <1>1
<1> QED BY <1>1, <1>2

\* The element a fold over a set takes first.
Pick(s) == CHOOSE x \in s : TRUE

LEMMA PickIn == ASSUME NEW s, s # {} PROVE Pick(s) \in s
  BY DEF Pick

LEMMA Smaller ==
  ASSUME NEW S, IsFiniteSet(S), NEW s \in SUBSET S
  PROVE  /\ IsFiniteSet(s) /\ Cardinality(s) \in Nat /\ Cardinality(s) <= Cardinality(S)
         /\ s # {} => /\ Pick(s) \in s /\ s \ {Pick(s)} \in SUBSET S
                      /\ Cardinality(s \ {Pick(s)}) = Cardinality(s) - 1
         /\ Cardinality(s) = 0 => s = {}
         /\ s = {} => Cardinality(s) = 0
<1>1. IsFiniteSet(s) /\ Cardinality(s) <= Cardinality(S) /\ Cardinality(s) \in Nat
  BY FS_Subset, FS_CardinalityType
<1>2. (Cardinality(s) = 0 => s = {}) /\ (s = {} => Cardinality(s) = 0)
  BY <1>1, FS_EmptySet
<1>3. ASSUME s # {} PROVE Pick(s) \in s /\ Cardinality(s \ {Pick(s)}) = Cardinality(s) - 1
  BY <1>1, <1>3, PickIn, FS_RemoveElement
<1> QED BY <1>1, <1>2, <1>3

\* A set without one of its elements.
LEMMA Without ==
  ASSUME NEW S, IsFiniteSet(S), NEW s \in SUBSET S, NEW x \in s
  PROVE  /\ x \in S /\ s \ {x} \in SUBSET S /\ Cardinality(s) \in Nat
         /\ Cardinality(s \ {x}) \in Nat /\ Cardinality(s \ {x}) = Cardinality(s) - 1
<1>1. IsFiniteSet(s) /\ Cardinality(s) \in Nat
  BY FS_Subset, FS_CardinalityType
<1>2. IsFiniteSet(s \ {x}) /\ Cardinality(s \ {x}) = Cardinality(s) - 1
  BY <1>1, FS_RemoveElement
<1>3. Cardinality(s \ {x}) \in Nat
  BY <1>2, FS_CardinalityType
<1> QED BY <1>1, <1>2, <1>3

-----------------------------------------------------------------------------
(* Folds over a finite set *)

\* The value at s of a fold of F from b that takes P[s] first, from its values
\* at smaller sets.
FoldAt(g, F, b, P, s) == IF s = {} THEN b ELSE F[<<P[s], g[s \ {P[s]}]>>]

\* g gives the fold over each subset of S.
IsFold(g, F, b, P, S) == g = [s \in SUBSET S |-> FoldAt(g, F, b, P, s)]

\* Such a function exists: the fold over a finite set is defined.
LEMMA FoldExists ==
  ASSUME NEW S, IsFiniteSet(S), NEW F, NEW b, NEW P, \A s \in SUBSET S : s # {} => P[s] \in s
  PROVE  \E g : IsFold(g, F, b, P, S)
<1> DEFINE Upto(k, g) == \A s \in SUBSET S : Cardinality(s) <= k => g[s] = FoldAt(g, F, b, P, s)
           T == {k \in Nat : \E g : Upto(k, g)}
<1>1. 0 \in T
  <2> DEFINE g == [s \in SUBSET S |-> b]
  <2>1. ASSUME NEW s \in SUBSET S, Cardinality(s) <= 0 PROVE s = {}
    <3>1. Cardinality(s) \in Nat /\ IsFiniteSet(s)
      BY FS_Subset, FS_CardinalityType
    <3>2. Cardinality(s) = 0
      BY <2>1, <3>1
    <3> QED BY <3>1, <3>2, FS_EmptySet
  <2>2. Upto(0, g)
    BY <2>1 DEF FoldAt
  <2> HIDE DEF Upto, g
  <2> QED BY <2>2
<1>2. ASSUME NEW k \in Nat, k \in T PROVE k + 1 \in T
  <2>1. PICK g : Upto(k, g)
    BY <1>2
  <2> DEFINE h == [s \in SUBSET S |-> FoldAt(g, F, b, P, s)]
  <2>2. \A s \in SUBSET S : Cardinality(s) <= k => h[s] = g[s]
    BY <2>1
  <2>3. ASSUME NEW s \in SUBSET S, Cardinality(s) <= k + 1 PROVE h[s] = FoldAt(h, F, b, P, s)
    <3>1. ASSUME s # {} PROVE h[s \ {P[s]}] = g[s \ {P[s]}]
      <4> DEFINE x == P[s]
                 q == s \ {x}
      <4>1. x \in s
        BY <3>1
      <4> HIDE DEF x
      <4>2. q \in SUBSET S /\ Cardinality(q) <= k
        BY <2>3, <4>1, Without
      <4> HIDE DEF h, q
      <4>3. h[q] = g[q]
        BY <2>2, <4>2
      <4> QED BY <4>3 DEF q, x
    <3>2. h[s] = FoldAt(g, F, b, P, s)
      OBVIOUS
    <3> HIDE DEF h
    <3> QED BY <3>1, <3>2 DEF FoldAt
  <2>4. Upto(k + 1, h)
    <3> HIDE DEF h
    <3> QED BY <2>3
  <2> HIDE DEF Upto, h
  <2> QED BY <2>4
<1>3. Cardinality(S) \in T
  <2> HIDE DEF T
  <2> QED BY <1>1, <1>2, Induction, FS_CardinalityType
<1>4. PICK g : Upto(Cardinality(S), g)
  BY <1>3
<1> DEFINE h == [s \in SUBSET S |-> g[s]]
<1>5. \A s \in SUBSET S : g[s] = FoldAt(g, F, b, P, s)
  BY <1>4, Smaller
<1>6. \A s \in SUBSET S : h[s] = FoldAt(h, F, b, P, s)
  BY <1>5, Smaller DEF FoldAt
<1>7. IsFold(h, F, b, P, S)
  BY <1>6 DEF IsFold
<1> QED BY <1>7

\* The values of a fold are where its steps lead.
LEMMA FoldIn ==
  ASSUME NEW S, IsFiniteSet(S), NEW A, NEW b \in A, NEW F \in [S \X A -> A], NEW P,
         \A s \in SUBSET S : s # {} => P[s] \in s, NEW g, IsFold(g, F, b, P, S), NEW s \in SUBSET S
  PROVE  g[s] \in A
<1> DEFINE T == {k \in Nat : \A r \in SUBSET S : Cardinality(r) = k => g[r] \in A}
<1>1. \A r \in SUBSET S : g[r] = FoldAt(g, F, b, P, r)
  BY DEF IsFold
<1>2. 0 \in T
  BY <1>1, Smaller DEF FoldAt
<1>3. ASSUME NEW k \in Nat, k \in T PROVE k + 1 \in T
  <2> SUFFICES ASSUME NEW r \in SUBSET S, Cardinality(r) = k + 1 PROVE g[r] \in A
    OBVIOUS
  <2>1. r # {}
    <3>1. r = {} => Cardinality(r) = 0
      BY Smaller
    <3> QED BY <3>1
  <2> DEFINE x == P[r]
             q == r \ {x}
  <2>2. x \in S /\ x \in r /\ q \in SUBSET S /\ Cardinality(q) = k
    <3>1. x \in r
      BY <2>1
    <3> HIDE DEF x
    <3> QED BY <3>1, Without
  <2>3. g[r] = F[<<x, g[q]>>]
    BY <1>1, <2>1 DEF FoldAt
  <2> HIDE DEF x, q
  <2>4. g[q] \in A
    BY <1>3, <2>2
  <2> QED BY <2>2, <2>3, <2>4
<1>4. Cardinality(s) \in T
  <2>1. Cardinality(s) \in Nat
    BY Smaller
  <2> HIDE DEF T
  <2> QED BY <1>2, <1>3, <2>1, Induction
<1> QED BY <1>4

-----------------------------------------------------------------------------
(* Sums *)

\* The value of a sum at s, from its values at smaller sets.
SumAt(g, w, s) == IF s = {} THEN 0 ELSE w[Pick(s)] + g[s \ {Pick(s)}]

\* g gives the sum of the weights w over each subset of S.
IsSum(g, w, S) == g = [s \in SUBSET S |-> SumAt(g, w, s)]

\* A sum is a fold, so there is one.
LEMMA SumExists ==
  ASSUME NEW S, IsFiniteSet(S), NEW w, \A x \in S : w[x] \in Int
  PROVE  \E g : IsSum(g, w, S)
<1> DEFINE F == [z \in S \X Int |-> w[z[1]] + z[2]]
           P == [s \in SUBSET S |-> Pick(s)]
<1>1. F \in [S \X Int -> Int]
  OBVIOUS
<1>2. \A s \in SUBSET S : s # {} => P[s] \in s /\ P[s] = Pick(s)
  BY PickIn
<1>3. \A x \in S : \A v \in Int : F[<<x, v>>] = w[x] + v
  OBVIOUS
<1> HIDE DEF F, P
<1>4. PICK g : IsFold(g, F, 0, P, S)
  BY <1>2, FoldExists
<1>5. \A s \in SUBSET S : g[s] \in Int
  BY <1>1, <1>2, <1>4, FoldIn
<1>6. ASSUME NEW s \in SUBSET S PROVE FoldAt(g, F, 0, P, s) = SumAt(g, w, s)
  <2>1. CASE s = {}
    BY <2>1 DEF FoldAt, SumAt
  <2>2. CASE s # {}
    <3> DEFINE q == s \ {Pick(s)}
    <3>1. Pick(s) \in S /\ P[s] = Pick(s) /\ q \in SUBSET S
      BY <1>2, <2>2
    <3>2. g[q] \in Int
      BY <1>5, <3>1
    <3>3. F[<<Pick(s), g[q]>>] = w[Pick(s)] + g[q]
      BY <1>3, <3>1, <3>2
    <3> QED BY <2>2, <3>1, <3>3 DEF FoldAt, SumAt
  <2> QED BY <2>1, <2>2
<1> QED BY <1>4, <1>6 DEF IsFold, IsSum

\* Two sums of the same weights over a set agree, whatever sets
\* they are defined on.
LEMMA SumUnique ==
  ASSUME NEW S, NEW R, IsFiniteSet(S), IsFiniteSet(R), NEW v, NEW w, NEW g, NEW h,
         IsSum(g, v, S), IsSum(h, w, R), NEW s \in SUBSET S, s \subseteq R,
         \A x \in s : v[x] = w[x]
  PROVE  g[s] = h[s]
<1> DEFINE T == {k \in Nat : \A r \in SUBSET s : Cardinality(r) = k => g[r] = h[r]}
<1>0. \A r \in SUBSET s : r \in SUBSET S /\ r \in SUBSET R
  OBVIOUS
<1>1. \A r \in SUBSET s : g[r] = SumAt(g, v, r) /\ h[r] = SumAt(h, w, r)
  BY <1>0 DEF IsSum
<1>2. 0 \in T
  <2>1. \A r \in SUBSET s : Cardinality(r) = 0 => r = {}
    BY <1>0, Smaller
  <2> QED BY <1>1, <2>1 DEF SumAt
<1>3. ASSUME NEW k \in Nat, k \in T PROVE k + 1 \in T
  <2> SUFFICES ASSUME NEW r \in SUBSET s, Cardinality(r) = k + 1 PROVE g[r] = h[r]
    OBVIOUS
  <2>1. r # {}
    BY FS_EmptySet
  <2>2. Pick(r) \in r /\ r \ {Pick(r)} \in SUBSET s /\ Cardinality(r \ {Pick(r)}) = k
    BY <1>0, <2>1, Smaller
  <2>3. g[r \ {Pick(r)}] = h[r \ {Pick(r)}]
    BY <1>3, <2>2
  <2>4. v[Pick(r)] = w[Pick(r)]
    BY <2>2
  <2>5. g[r] = v[Pick(r)] + g[r \ {Pick(r)}] /\ h[r] = w[Pick(r)] + h[r \ {Pick(r)}]
    BY <1>1, <2>1 DEF SumAt
  <2> QED BY <2>3, <2>4, <2>5
<1>4. Cardinality(s) \in T
  <2>1. Cardinality(s) \in Nat
    BY Smaller
  <2> HIDE DEF T
  <2> QED BY <1>2, <1>3, <2>1, Induction
<1> QED BY <1>4

\* The order in which a sum takes its elements makes no difference.
LEMMA SumAdds ==
  ASSUME NEW S, IsFiniteSet(S), NEW w, NEW g, IsSum(g, w, S), \A x \in S : w[x] \in Int,
         NEW s \in SUBSET S, NEW x \in S, x \notin s
  PROVE  g[s] \in Int /\ g[s \cup {x}] = g[s] + w[x]
<1> DEFINE T == {k \in Nat : \A r \in SUBSET S : Cardinality(r) = k =>
                    g[r] \in Int /\ \A y \in S \ r : g[r \cup {y}] = g[r] + w[y]}
<1>1. \A r \in SUBSET S : g[r] = SumAt(g, w, r)
  BY DEF IsSum
<1>2. \A r \in SUBSET S : \A y \in S : r \cup {y} \in SUBSET S
  OBVIOUS
<1>3. 0 \in T
  <2> SUFFICES ASSUME NEW r \in SUBSET S, Cardinality(r) = 0
               PROVE  g[r] \in Int /\ \A y \in S \ r : g[r \cup {y}] = g[r] + w[y]
    OBVIOUS
  <2>1. r = {} /\ g[{}] = 0
    BY <1>1, Smaller DEF SumAt
  <2>2. ASSUME NEW y \in S PROVE g[{y}] = w[y]
    <3>1. Pick({y}) = y /\ {y} \ {y} = {} /\ {y} \in SUBSET S /\ {y} # {}
      BY PickIn
    <3>2. g[{y}] = w[y] + g[{}]
      BY <1>1, <3>1 DEF SumAt
    <3> QED BY <2>1, <2>2, <3>2
  <2>3. ASSUME NEW y \in S \ r PROVE g[r \cup {y}] = g[r] + w[y]
    <3>1. r \cup {y} = {y}
      BY <2>1
    <3> QED BY <2>1, <2>2, <3>1
  <2> QED
    <3>1. g[r] = 0
      BY <2>1
    <3> QED BY <2>3, <3>1
<1>4. ASSUME NEW k \in Nat, k \in T PROVE k + 1 \in T
  <2> SUFFICES ASSUME NEW r \in SUBSET S, Cardinality(r) = k + 1
               PROVE  g[r] \in Int /\ \A y \in S \ r : g[r \cup {y}] = g[r] + w[y]
    OBVIOUS
  <2>0. \A q \in SUBSET S : Cardinality(q) = k =>
          g[q] \in Int /\ \A y \in S \ q : g[q \cup {y}] = g[q] + w[y]
    BY <1>4
  <2>1. r # {}
    BY FS_EmptySet
  <2> DEFINE c == Pick(r)
             q == r \ {c}
  <2>2. c \in r /\ q \in SUBSET S /\ Cardinality(q) = k /\ r = q \cup {c} /\ c \in S \ q
    BY <2>1, Smaller
  <2> HIDE DEF c, q
  <2>3. g[q] \in Int /\ g[r] = g[q] + w[c] /\ g[r] \in Int
    BY <2>0, <2>2
  <2>4. ASSUME NEW y \in S \ r PROVE g[r \cup {y}] = g[r] + w[y]
    <3> DEFINE u == r \cup {y}
               d == Pick(u)
               rest == u \ {d}
    <3>1. u \in SUBSET S /\ u # {} /\ d \in u
      BY PickIn
    <3>2. g[u] = w[d] + g[rest] /\ w[d] \in Int /\ w[y] \in Int
      BY <1>1, <3>1 DEF SumAt
    <3>3. CASE d = y
      <4>1. rest = r
        BY <2>4, <3>3
      <4>2. g[u] = g[r] + w[y]
        <5> HIDE DEF u, d, rest
        <5> QED BY <2>3, <3>2, <3>3, <4>1
      <4> QED BY <4>2
    <3>4. CASE d # y
      <4> DEFINE e == r \ {d}
      <4>1. d \in r /\ e \in SUBSET S /\ y \in S \ e /\ d \in S \ e
            /\ rest = e \cup {y} /\ e \cup {d} = r
        BY <2>4, <3>1, <3>4
      <4>2. Cardinality(e) = k
        <5>1. IsFiniteSet(r)
          BY Smaller
        <5>2. Cardinality(e) = Cardinality(r) - 1
          <6> HIDE DEF d, u
          <6> QED BY <4>1, <5>1, FS_RemoveElement
        <5> QED BY <5>2
      <4>4. g[u] = g[r] + w[y]
       <5> HIDE DEF u, d, e, rest
       <5>3. g[e] \in Int /\ g[e \cup {y}] = g[e] + w[y] /\ g[e \cup {d}] = g[e] + w[d]
         BY <2>0, <4>1, <4>2
       <5>4. g[rest] = g[e \cup {y}] /\ g[r] = g[e \cup {d}]
         BY <4>1, Zenon
       <5> QED BY <3>2, <5>3, <5>4
      <4> QED BY <4>4
    <3> QED BY <3>3, <3>4
  <2> QED BY <2>3, <2>4
<1>5. Cardinality(s) \in T
  <2>1. Cardinality(s) \in Nat
    BY Smaller
  <2> HIDE DEF T
  <2> QED BY <1>3, <1>4, <2>1, Induction
<1> QED BY <1>5

LEMMA SumType ==
  ASSUME NEW S, IsFiniteSet(S), NEW w, NEW g, IsSum(g, w, S), \A y \in S : w[y] \in Int,
         NEW s \in SUBSET S
  PROVE  g[s] \in Int
<1>1. CASE s = {}
  BY <1>1 DEF IsSum, SumAt
<1>2. CASE s # {}
  <2> DEFINE x == Pick(s)
             r == s \ {x}
  <2>1. x \in s /\ r \in SUBSET S /\ x \notin r /\ x \in S /\ w[x] \in Int
    BY <1>2, PickIn
  <2>2. g[s] = w[x] + g[r]
    BY <1>2 DEF IsSum, SumAt
  <2> HIDE DEF x, r
  <2>3. g[r] \in Int /\ g[r \cup {x}] = g[r] + w[x]
    BY <2>1, SumAdds
  <2> QED BY <2>1, <2>2, <2>3
<1> QED BY <1>1, <1>2

\* The same with a name for the larger set.
LEMMA SumGrows ==
  ASSUME NEW S, IsFiniteSet(S), NEW w, NEW g, IsSum(g, w, S), \A y \in S : w[y] \in Int,
         NEW s \in SUBSET S, NEW x \in S, x \notin s, NEW r, r = s \cup {x}
  PROVE  g[s] \in Int /\ g[r] = g[s] + w[x]
<1>1. g[s] \in Int /\ g[s \cup {x}] = g[s] + w[x]
  BY SumAdds
<1>2. g[r] = g[s \cup {x}]
  BY Zenon
<1> QED BY <1>1, <1>2

\* A sum in which the weight of x is put, or replaced.
LEMMA SumPut ==
  ASSUME NEW S, IsFiniteSet(S), NEW x, NEW R, R = S \cup {x}, NEW v, NEW w, NEW g, NEW h,
         IsSum(g, v, S), IsSum(h, w, R),
         \A y \in S : v[y] \in Int, \A y \in R : w[y] \in Int,
         \A y \in S : y # x => v[y] = w[y]
  PROVE  g[S] \in Int /\ h[R] = g[S] - (IF x \in S THEN v[x] ELSE 0) + w[x]
<1> DEFINE s == S \ {x}
<1>1. IsFiniteSet(R)
  BY FS_AddElement
<1>2. s \in SUBSET S /\ s \in SUBSET R /\ x \notin s /\ x \in R /\ R = s \cup {x}
      /\ \A y \in s : v[y] = w[y]
  OBVIOUS
<1>3. x \in S => S = s \cup {x}
  OBVIOUS
<1>4. x \notin S => S = s
  OBVIOUS
<1> HIDE DEF s
<1>5. g[s] = h[s]
  BY <1>1, <1>2, SumUnique
<1>6. h[s] \in Int /\ h[R] = h[s] + w[x]
  BY <1>1, <1>2, SumGrows
<1>7. CASE x \in S
  <2>1. g[S] = g[s] + v[x]
    BY <1>2, <1>3, <1>7, SumGrows
  <2> QED BY <1>2, <1>5, <1>6, <1>7, <2>1
<1>8. CASE x \notin S
  <2>1. g[S] = g[s]
    BY <1>4, <1>8, Zenon
  <2> QED BY <1>2, <1>5, <1>6, <1>8, <2>1
<1> QED BY <1>7, <1>8

\* The sum over two disjoint sets.
LEMMA SumUnion ==
  ASSUME NEW S, IsFiniteSet(S), NEW w, NEW g, IsSum(g, w, S), \A y \in S : w[y] \in Int,
         NEW A \in SUBSET S, NEW B \in SUBSET S, A \cap B = {}, NEW C, C = A \cup B
  PROVE  g[A] \in Int /\ g[B] \in Int /\ g[C] = g[A] + g[B]
<1>1. \A r \in SUBSET S : g[r] = SumAt(g, w, r)
  BY DEF IsSum
<1>2. g[{}] = 0
  BY <1>1 DEF SumAt
<1> DEFINE Adds(r) == g[r] \in Int /\ g[A \cup r] = g[A] + g[r]
           T == {k \in Nat : \A r \in SUBSET B : Cardinality(r) = k => Adds(r)}
<1>3. g[A] \in Int
  BY SumType
<1>4. 0 \in T
  <2> SUFFICES ASSUME NEW r \in SUBSET B, Cardinality(r) = 0
               PROVE  Adds(r)
    <3> HIDE DEF Adds
    <3> QED OBVIOUS
  <2>1. r = {} /\ A \cup r = A
    BY Smaller
  <2>2. g[r] = 0 /\ g[A \cup r] = g[A]
    BY <1>2, <2>1, Zenon
  <2> QED BY <1>3, <2>2
<1>5. ASSUME NEW k \in Nat, k \in T PROVE k + 1 \in T
  <2> SUFFICES ASSUME NEW r \in SUBSET B, Cardinality(r) = k + 1
               PROVE  Adds(r)
    <3> HIDE DEF Adds
    <3> QED OBVIOUS
  <2>1. PICK x : x \in r
    BY FS_EmptySet
  <2> DEFINE q == r \ {x}
             v == A \cup q
             u == A \cup r
  <2>2. /\ q \in SUBSET B /\ q \in SUBSET S /\ v \in SUBSET S /\ x \in S /\ x \notin q /\ x \notin v
        /\ r = q \cup {x} /\ u = v \cup {x}
    BY <2>1
  <2>3. Cardinality(q) = k
    BY <2>1, Without
  <2> HIDE DEF q, u
  <2>5. g[q] \in Int /\ g[v] = g[A] + g[q]
    BY <1>5, <2>2, <2>3
  <2> HIDE DEF v
  <2>6. g[r] = g[q] + w[x]
    BY <2>2, SumGrows
  <2>7. g[u] = g[v] + w[x]
    BY <2>2, SumGrows
  <2> QED BY <1>3, <2>2, <2>5, <2>6, <2>7 DEF u
<1>6. Cardinality(B) \in T
  <2>1. Cardinality(B) \in Nat
    BY Smaller
  <2> HIDE DEF T
  <2> QED BY <1>4, <1>5, <2>1, Induction
<1>7. g[C] = g[A \cup B]
  BY Zenon
<1> QED BY <1>3, <1>6, <1>7

\* The elements of S that c puts into class k.
Class(S, c, k) == {x \in S : c[x] = k}

\* The sum over the classes of a partition, s[k] being the sum of class k.
LEMMA SumPartition ==
  ASSUME NEW S, IsFiniteSet(S), NEW w, NEW g, IsSum(g, w, S), \A y \in S : w[y] \in Int,
         NEW K, IsFiniteSet(K), NEW c, \A x \in S : c[x] \in K,
         NEW s, \A k \in K : s[k] = g[Class(S, c, k)],
         NEW h, IsSum(h, s, K)
  PROVE  h[K] = g[S]
<1> DEFINE Of(J) == {x \in S : c[x] \in J}
           T == {n \in Nat : \A J \in SUBSET K : Cardinality(J) = n => h[J] = g[Of(J)]}
<1>1. \A k \in K : Class(S, c, k) \in SUBSET S /\ s[k] = g[Class(S, c, k)] /\ s[k] \in Int
  <2>1. \A k \in K : Class(S, c, k) \in SUBSET S
    BY DEF Class
  <2> QED BY <2>1, SumType
<1>2. h[{}] = 0 /\ g[{}] = 0
  BY DEF IsSum, SumAt
<1>3. 0 \in T
  <2> SUFFICES ASSUME NEW J \in SUBSET K, Cardinality(J) = 0 PROVE h[J] = g[Of(J)]
    OBVIOUS
  <2>1. J = {}
    BY Smaller
  <2>2. Of(J) = {}
    BY <2>1
  <2> HIDE DEF Of
  <2> QED BY <1>2, <2>1, <2>2, Zenon
<1>4. ASSUME NEW n \in Nat, n \in T PROVE n + 1 \in T
  <2> SUFFICES ASSUME NEW J \in SUBSET K, Cardinality(J) = n + 1 PROVE h[J] = g[Of(J)]
    OBVIOUS
  <2>0. J # {}
    <3>1. J = {} => Cardinality(J) = 0
      BY Smaller
    <3> QED BY <3>1
  <2>1. PICK k : k \in J
    BY <2>0
  <2> DEFINE I == J \ {k}
             A == Of(I)
             B == Class(S, c, k)
             D == Of(J)
  <2>2. I \in SUBSET K /\ k \in K /\ k \notin I /\ J = I \cup {k}
    BY <2>1
  <2>3. Cardinality(I) = n
    BY <2>1, Without
  <2>4. A \in SUBSET S /\ B \in SUBSET S /\ A \cap B = {} /\ D = A \cup B
    BY <2>1 DEF Class
  <2>5. h[I] = g[A]
    <3> HIDE DEF I, Of
    <3> QED BY <1>4, <2>2, <2>3
  <2>6. h[J] = h[I] + s[k]
    <3> HIDE DEF I
    <3>1. \A j \in K : s[j] \in Int
      BY <1>1
    <3> QED BY <2>2, <3>1, SumGrows
  <2>7. s[k] = g[B]
    BY <1>1, <2>2
  <2> HIDE DEF A, B, D, I
  <2>8. g[D] = g[A] + g[B]
    BY <2>4, SumUnion
  <2> QED BY <2>5, <2>6, <2>7, <2>8 DEF D
<1>5. Cardinality(K) \in T
  <2>1. Cardinality(K) \in Nat
    BY FS_CardinalityType
  <2> HIDE DEF T
  <2> QED BY <1>3, <1>4, <2>1, Induction
<1>6. Of(K) = S
  OBVIOUS
<1>7. h[K] = g[Of(K)]
  BY <1>5
<1> HIDE DEF Of
<1> QED BY <1>6, <1>7, Zenon

\* The number of elements is a sum.
LEMMA SumOnes ==
  ASSUME NEW S, IsFiniteSet(S), NEW w, NEW g, IsSum(g, w, S), \A y \in S : w[y] = 1,
         NEW r \in SUBSET S
  PROVE  g[r] = Cardinality(r)
<1> DEFINE T == {k \in Nat : \A q \in SUBSET S : Cardinality(q) = k => g[q] = k}
<1>1. \A q \in SUBSET S : g[q] = SumAt(g, w, q)
  BY DEF IsSum
<1>2. 0 \in T
  <2>1. \A q \in SUBSET S : Cardinality(q) = 0 => q = {}
    BY Smaller
  <2> QED BY <1>1, <2>1 DEF SumAt
<1>3. ASSUME NEW k \in Nat, k \in T PROVE k + 1 \in T
  <2> SUFFICES ASSUME NEW q \in SUBSET S, Cardinality(q) = k + 1 PROVE g[q] = k + 1
    OBVIOUS
  <2>1. q # {}
    BY FS_EmptySet
  <2> DEFINE t == q \ {Pick(q)}
  <2>2. Pick(q) \in S /\ t \in SUBSET S /\ Cardinality(t) = k
    BY <2>1, Smaller
  <2>3. g[q] = w[Pick(q)] + g[t]
    BY <1>1, <2>1 DEF SumAt
  <2> HIDE DEF t
  <2> QED BY <1>3, <2>2, <2>3
<1>4. Cardinality(r) \in T
  <2>1. Cardinality(r) \in Nat
    BY Smaller
  <2> HIDE DEF T
  <2> QED BY <1>2, <1>3, <2>1, Induction
<1> QED BY <1>4

-----------------------------------------------------------------------------
(* Loops.  FoldLeft takes the last position of a prefix last.              *)

LEMMA MaxIn ==
  ASSUME NEW n \in Nat, NEW s \in SUBSET (1..n), s # {}
  PROVE  Max(s) \in s /\ \A y \in s : y <= Max(s)
<1> DEFINE T == {n - y : y \in s}
<1>0. \A y \in s : y \in Int /\ n - y \in Nat
  OBVIOUS
<1>1. T \in SUBSET Nat /\ T # {}
  BY <1>0
<1>2. PICK m \in T : \A z \in T : m <= z
  <2> HIDE DEF T
  <2> QED BY <1>1, LeastNatural
<1>3. PICK x \in s : m = n - x
  BY <1>2
<1>4. ASSUME NEW y \in s PROVE x >= y
  <2>1. n - y \in T
    OBVIOUS
  <2>2. n - x <= n - y
    <3> HIDE DEF T
    <3> QED BY <1>2, <1>3, <2>1
  <2> QED BY <1>0, <2>2
<1>5. Max(s) \in s /\ \A y \in s : Max(s) >= y
  BY <1>3, <1>4, Zenon DEF Max
<1> QED BY <1>5

LEMMA MaxPrefix ==
  ASSUME NEW k \in Nat, k # 0
  PROVE  Max(1..k) = k /\ (1..k) \ {k} = 1..(k - 1) /\ 1..k # {}
<1>1. 1..k \in SUBSET (1..k) /\ k \in 1..k
  OBVIOUS
<1>2. Max(1..k) \in 1..k /\ \A y \in 1..k : y <= Max(1..k)
  BY <1>1, MaxIn
<1> QED BY <1>1, <1>2

\* The fold over positions 1..n that takes the last one last: F[<<i, v>>] is
\* what the loop makes of v at position i.
IsLoop(f, F, b, A, S) ==
  /\ f = [s \in SUBSET S |-> f[s]] /\ f[{}] = b
  /\ \A s \in SUBSET S : s # {} =>
       /\ Max(s) \in S /\ f[s \ {Max(s)}] \in A
       /\ f[s] = F[<<Max(s), f[s \ {Max(s)}]>>]

LEMMA LoopExists ==
  ASSUME NEW n \in Nat, NEW A, NEW b \in A, NEW F \in [(1..n) \X A -> A]
  PROVE  \E f : IsLoop(f, F, b, A, 1..n)
<1> DEFINE S == 1..n
<1> DEFINE P == [s \in SUBSET S |-> Max(s)]
<1>1. IsFiniteSet(S)
  BY FS_Interval
<1>2. \A s \in SUBSET S : s # {} => P[s] \in s /\ P[s] = Max(s)
  BY MaxIn
<1> HIDE DEF P
<1>3. PICK f : IsFold(f, F, b, P, S)
  BY <1>1, <1>2, FoldExists
<1>4. \A s \in SUBSET S : f[s] \in A
  BY <1>1, <1>2, <1>3, FoldIn
<1>5. ASSUME NEW s \in SUBSET S, s # {}
      PROVE  /\ Max(s) \in S /\ f[s \ {Max(s)}] \in A
             /\ f[s] = F[<<Max(s), f[s \ {Max(s)}]>>]
  <2> DEFINE m == Max(s)
             t == s \ {m}
  <2>1. m \in S /\ t \in SUBSET S /\ P[s] = m
    BY <1>2, <1>5
  <2>2. f[t] \in A
    BY <1>4, <2>1
  <2>3. f[s] = F[<<m, f[t]>>]
    BY <1>3, <1>5, <2>1 DEF IsFold, FoldAt
  <2> QED BY <2>1, <2>2, <2>3
<1>6. f = [s \in SUBSET S |-> f[s]] /\ f[{}] = b
  BY <1>3 DEF IsFold, FoldAt
<1> QED BY <1>5, <1>6 DEF IsLoop

-----------------------------------------------------------------------------
(* Vec::retain *)

\* r[k] is what Retain has kept after k elements.
LEMMA RetainLoop ==
  ASSUME NEW T, NEW q \in Seq(T), NEW gone
  PROVE  \E r : /\ r[0] = <<>> /\ Retain(q, gone) = r[Len(q)]
                /\ \A k \in 1..Len(q) :
                     r[k] = IF q[k] \in gone THEN r[k - 1] ELSE Append(r[k - 1], q[k])
<1> DEFINE S == DOMAIN q
           F == [z \in S \X Seq(T) |-> IF q[z[1]] \in gone THEN z[2] ELSE Append(z[2], q[z[1]])]
           Q(g) == g = [s \in SUBSET S |->
                          IF s = {} THEN <<>>
                          ELSE IF q[Max(s)] \in gone THEN g[s \ {Max(s)}]
                          ELSE Append(g[s \ {Max(s)}], q[Max(s)])]
<1>1. Len(q) \in Nat /\ S = 1..Len(q) /\ (\A i \in S : q[i] \in T) /\ <<>> \in Seq(T)
  OBVIOUS
<1>2. F \in [S \X Seq(T) -> Seq(T)]
  BY <1>1
<1>3. \A i \in S : \A t \in Seq(T) : F[<<i, t>>] = IF q[i] \in gone THEN t ELSE Append(t, q[i])
  OBVIOUS
<1> HIDE DEF S, F
<1>4. PICK f : IsLoop(f, F, <<>>, Seq(T), S)
  BY <1>1, <1>2, LoopExists, Zenon
<1>5. Q(f)
  <2>1. ASSUME NEW s \in SUBSET S, s # {}
        PROVE  f[s] = IF q[Max(s)] \in gone THEN f[s \ {Max(s)}]
                      ELSE Append(f[s \ {Max(s)}], q[Max(s)])
    <3> DEFINE m == Max(s)
               t == f[s \ {Max(s)}]
    <3>1. m \in S /\ t \in Seq(T) /\ f[s] = F[<<m, t>>]
      BY <1>4, <2>1 DEF IsLoop
    <3> HIDE DEF m, t
    <3>2. f[s] = IF q[m] \in gone THEN t ELSE Append(t, q[m])
      BY <1>3, <3>1
    <3> QED BY <3>2 DEF m, t
  <2> QED BY <1>4, <2>1 DEF IsLoop
<1> DEFINE g == CHOOSE h : Q(h)
<1>6. Q(g)
  <2> HIDE DEF Q
  <2> QED BY <1>5, Zenon
<1>7. Retain(q, gone) = g[S]
  BY Zenon DEF Retain, FoldLeft, MapThenFoldSet, S
<1>8. g[{}] = <<>> /\ \A s \in SUBSET S : s # {} =>
        g[s] = IF q[Max(s)] \in gone THEN g[s \ {Max(s)}] ELSE Append(g[s \ {Max(s)}], q[Max(s)])
  BY <1>6
<1> HIDE DEF Q, g
<1> DEFINE r == [k \in 0..Len(q) |-> g[1..k]]
<1>9. ASSUME NEW k \in 1..Len(q)
      PROVE  r[k] = IF q[k] \in gone THEN r[k - 1] ELSE Append(r[k - 1], q[k])
  <2> DEFINE s == 1..k
             t == 1..(k - 1)
  <2>1. Max(s) = k /\ s \ {k} = t /\ s # {}
    BY MaxPrefix
  <2>2. s \in SUBSET S /\ r[k] = g[s] /\ r[k - 1] = g[t]
    BY <1>1
  <2> HIDE DEF s, t, r
  <2>3. g[s] = IF q[Max(s)] \in gone THEN g[s \ {Max(s)}] ELSE Append(g[s \ {Max(s)}], q[Max(s)])
    BY <1>8, <2>1, <2>2
  <2>4. g[s] = IF q[k] \in gone THEN g[t] ELSE Append(g[t], q[k])
    BY <2>1, <2>3, Zenon
  <2> QED BY <2>2, <2>4
<1>10. r[0] = <<>> /\ Retain(q, gone) = r[Len(q)]
  <2>1. 1..0 = {} /\ r[0] = g[1..0] /\ r[Len(q)] = g[1..Len(q)]
    BY <1>1
  <2> QED BY <1>1, <1>7, <1>8, <2>1
<1> QED BY <1>9, <1>10

\* r is what is left of the first n elements of q: h says where each of its
\* elements was.
KeptFrom(r, q, gone, n, h) ==
  /\ h \in [1..Len(r) -> 1..n]
  /\ \A i, j \in 1..Len(r) : i < j => h[i] < h[j]
  /\ \A i \in 1..Len(r) : r[i] = q[h[i]] /\ r[i] \notin gone
  /\ \A j \in 1..n : q[j] \notin gone => \E i \in 1..Len(r) : h[i] = j

\* Retain keeps all others, in their order, and nothing else.
LEMMA RetainKeeps ==
  ASSUME NEW T, NEW q \in Seq(T), NEW gone
  PROVE  /\ Retain(q, gone) \in Seq(T)
         /\ \E h : KeptFrom(Retain(q, gone), q, gone, Len(q), h)
<1>1. Len(q) \in Nat /\ \A i \in 1..Len(q) : q[i] \in T
  OBVIOUS
<1>2. PICK r : /\ r[0] = <<>> /\ Retain(q, gone) = r[Len(q)]
               /\ \A k \in 1..Len(q) :
                    r[k] = IF q[k] \in gone THEN r[k - 1] ELSE Append(r[k - 1], q[k])
  BY RetainLoop
<1> DEFINE Good(k) == k <= Len(q) => r[k] \in Seq(T) /\ \E h : KeptFrom(r[k], q, gone, k, h)
           N == {k \in Nat : Good(k)}
<1>3. 0 \in N
  <2> DEFINE h == [i \in 1..0 |-> i]
  <2>1. Len(<<>>) = 0 /\ h \in [1..0 -> 1..0] /\ ~\E i \in 1..0 : TRUE
    OBVIOUS
  <2> HIDE DEF h
  <2>2. KeptFrom(<<>>, q, gone, 0, h)
    BY <2>1 DEF KeptFrom
  <2>3. <<>> \in Seq(T)
    OBVIOUS
  <2> QED BY <1>2, <2>2, <2>3
<1>4. ASSUME NEW k \in Nat, k \in N PROVE k + 1 \in N
  <2> SUFFICES ASSUME k + 1 <= Len(q)
               PROVE  r[k + 1] \in Seq(T) /\ \E h : KeptFrom(r[k + 1], q, gone, k + 1, h)
    OBVIOUS
  <2>1. k + 1 \in 1..Len(q) /\ (k + 1) - 1 = k /\ k <= Len(q)
    BY <1>1
  <2>2. PICK h : KeptFrom(r[k], q, gone, k, h)
    BY <1>4, <2>1
  <2>3. r[k] \in Seq(T) /\ q[k + 1] \in T /\ Len(r[k]) \in Nat
    BY <1>1, <1>4, <2>1
  <2>4. r[k + 1] = IF q[k + 1] \in gone THEN r[k] ELSE Append(r[k], q[k + 1])
    BY <1>2, <2>1
  <2> HIDE DEF N
  <2>5. CASE q[k + 1] \in gone
    <3>1. KeptFrom(r[k], q, gone, k + 1, h)
      BY <2>2, <2>3, <2>5 DEF KeptFrom
    <3> QED BY <2>3, <2>4, <2>5, <3>1
  <2>6. CASE q[k + 1] \notin gone
    <3> DEFINE s == r[k]
               l == Len(s)
               t == Append(s, q[k + 1])
               g == [i \in 1..(l + 1) |-> IF i = l + 1 THEN k + 1 ELSE h[i]]
    <3>1. /\ Len(t) = l + 1 /\ t \in Seq(T) /\ t[l + 1] = q[k + 1]
          /\ \A i \in 1..l : t[i] = s[i]
      BY <2>3
    <3>2. /\ h \in [1..l -> 1..k] /\ \A i, j \in 1..l : i < j => h[i] < h[j]
          /\ \A i \in 1..l : s[i] = q[h[i]] /\ s[i] \notin gone
          /\ \A j \in 1..k : q[j] \notin gone => \E i \in 1..l : h[i] = j
      BY <2>2 DEF KeptFrom
    <3>3. l \in Nat
      BY <2>3
    <3> HIDE DEF s, l, t
    <3>4. g[l + 1] = k + 1 /\ \A i \in 1..l : g[i] = h[i] /\ h[i] \in 1..k /\ h[i] < k + 1
      BY <3>2, <3>3
    <3>5. g \in [1..(l + 1) -> 1..(k + 1)]
      BY <3>2, <3>3
    <3> HIDE DEF g
    <3>6. ASSUME NEW i \in 1..(l + 1), NEW j \in 1..(l + 1), i < j PROVE g[i] < g[j]
      <4>1. i \in 1..l
        BY <3>3, <3>6
      <4>2. CASE j = l + 1
        BY <3>4, <4>1, <4>2
      <4>3. CASE j # l + 1
        <5>1. j \in 1..l
          BY <3>3, <4>3
        <5> QED BY <3>2, <3>4, <3>6, <4>1, <5>1
      <4> QED BY <4>2, <4>3
    <3>7. \A i \in 1..(l + 1) : t[i] = q[g[i]] /\ t[i] \notin gone
      <4>1. \A i \in 1..l : t[i] = q[g[i]] /\ t[i] \notin gone
        BY <3>1, <3>2, <3>4
      <4>2. t[l + 1] = q[g[l + 1]] /\ t[l + 1] \notin gone
        BY <2>6, <3>1, <3>4
      <4> QED BY <3>3, <4>1, <4>2
    <3>8. ASSUME NEW j \in 1..(k + 1), q[j] \notin gone PROVE \E i \in 1..(l + 1) : g[i] = j
      <4>1. CASE j = k + 1
        BY <3>3, <3>4, <4>1
      <4>2. CASE j # k + 1
        <5>1. j \in 1..k
          BY <4>2
        <5>2. PICK i \in 1..l : h[i] = j
          BY <3>2, <3>8, <5>1
        <5> QED BY <3>3, <3>4, <5>2
      <4> QED BY <4>1, <4>2
    <3>9. KeptFrom(t, q, gone, k + 1, g)
      BY <3>1, <3>5, <3>6, <3>7, <3>8 DEF KeptFrom
    <3>10. r[k + 1] = t
      BY <2>4, <2>6 DEF t, s
    <3> QED BY <3>1, <3>9, <3>10
  <2> QED BY <2>5, <2>6
<1>5. Len(q) \in N
  <2> HIDE DEF N
  <2> QED BY <1>1, <1>3, <1>4, Induction
<1> QED BY <1>1, <1>2, <1>5

NoDup(q) == \A i, j \in DOMAIN q : q[i] = q[j] => i = j

\* What is left of a list without duplicates has none.
LEMMA RetainNoDup ==
  ASSUME NEW T, NEW q \in Seq(T), NoDup(q), NEW gone
  PROVE  /\ Retain(q, gone) \in Seq(T) /\ NoDup(Retain(q, gone))
         /\ ToSet(Retain(q, gone)) = ToSet(q) \ gone
<1> DEFINE r == Retain(q, gone)
<1>1. r \in Seq(T) /\ \E h : KeptFrom(r, q, gone, Len(q), h)
  BY RetainKeeps
<1> HIDE DEF r
<1>2. PICK h : KeptFrom(r, q, gone, Len(q), h)
  BY <1>1
<1>3. /\ h \in [1..Len(r) -> 1..Len(q)] /\ \A i \in 1..Len(r) : r[i] = q[h[i]] /\ r[i] \notin gone
      /\ \A i, j \in 1..Len(r) : i < j => h[i] < h[j]
      /\ \A j \in 1..Len(q) : q[j] \notin gone => \E i \in 1..Len(r) : h[i] = j
      /\ Len(r) \in Nat /\ Len(q) \in Nat /\ DOMAIN r = 1..Len(r) /\ DOMAIN q = 1..Len(q)
  BY <1>1, <1>2 DEF KeptFrom
<1>4. \A i, j \in 1..Len(r) : r[i] = r[j] => h[i] = h[j]
  BY <1>3 DEF NoDup
<1>5. NoDup(r)
  BY <1>3, <1>4 DEF NoDup
<1>6. ToSet(r) = ToSet(q) \ gone
  <2>1. ASSUME NEW y \in ToSet(r) PROVE y \in ToSet(q) \ gone
    BY <1>3, <2>1 DEF ToSet
  <2>2. ASSUME NEW y \in ToSet(q), y \notin gone PROVE y \in ToSet(r)
    <3>1. PICK j \in 1..Len(q) : y = q[j]
      BY <1>3, <2>2 DEF ToSet
    <3>2. PICK i \in 1..Len(r) : h[i] = j
      BY <1>3, <2>2, <3>1
    <3> QED BY <1>3, <3>1, <3>2 DEF ToSet
  <2> QED BY <2>1, <2>2
<1> QED BY <1>1, <1>5, <1>6 DEF r

\* A list without duplicates is as long as its set of elements is large.
LEMMA NoDupCardinality ==
  ASSUME NEW T, NEW q \in Seq(T)
  PROVE  /\ IsFiniteSet(ToSet(q)) /\ Cardinality(ToSet(q)) \in Nat
         /\ Cardinality(ToSet(q)) = Len(q) <=> NoDup(q)
<1> DEFINE n == Len(q)
           S == 1..n
           R == ToSet(q)
<1>1. n \in Nat /\ DOMAIN q = S /\ IsFiniteSet(S) /\ Cardinality(S) = n
  <2>1. n \in Nat /\ DOMAIN q = S
    OBVIOUS
  <2> HIDE DEF n
  <2>2. IsFiniteSet(1..n) /\ Cardinality(1..n) = IF 1 > n THEN 0 ELSE n - 1 + 1
    BY <2>1, FS_Interval
  <2> QED BY <2>1, <2>2
<1>2. R = {q[i] : i \in S} /\ q = [i \in S |-> q[i]]
  BY <1>1 DEF ToSet
<1> HIDE DEF S, R
<1>3. q \in Surjection(S, R)
  BY <1>2 DEF Surjection
<1>4. IsFiniteSet(R) /\ (Cardinality(R) = Cardinality(S) <=> q \in Injection(S, R))
  BY <1>1, <1>3, FS_Surjection
<1>5. q \in Injection(S, R) <=> NoDup(q)
  BY <1>1, <1>2 DEF Injection, IsInjective, NoDup
<1> QED BY <1>1, <1>4, <1>5, FS_CardinalityType DEF R

-----------------------------------------------------------------------------
(* Ranks.  The elements of a finite set in a strict total order R: as many *)
(* are before one as precede it in the sequence.                           *)

Orders(R, S) ==
  /\ \A k \in S : <<k, k>> \notin R
  /\ \A k, l \in S : k = l \/ <<k, l>> \in R \/ <<l, k>> \in R
  /\ \A k, l, m \in S : <<k, l>> \in R /\ <<l, m>> \in R => <<k, m>> \in R

Before(R, S, k) == {o \in S : <<o, k>> \in R}

LEMMA BeforeCounts ==
  ASSUME NEW S, IsFiniteSet(S), NEW R, Orders(R, S)
  PROVE  /\ \A k \in S : Cardinality(Before(R, S, k)) \in 0..(Cardinality(S) - 1)
         /\ \A k, l \in S :
              <<k, l>> \in R => Cardinality(Before(R, S, k)) < Cardinality(Before(R, S, l))
<1> DEFINE n(T) == Cardinality(T)
<1>1. ASSUME NEW T \in SUBSET S PROVE IsFiniteSet(T) /\ n(T) \in Nat /\ n(T) <= n(S) /\ n(S) \in Nat
  BY FS_Subset, FS_CardinalityType
<1>2. ASSUME NEW k \in S
      PROVE  n(Before(R, S, k) \cup {k}) = n(Before(R, S, k)) + 1 /\ n(Before(R, S, k)) \in Nat
  <2> DEFINE T == Before(R, S, k)
  <2>1. T \in SUBSET S /\ k \notin T
    BY DEF Before, Orders
  <2> HIDE DEF T
  <2> QED BY <1>1, <2>1, FS_AddElement DEF T
<1>3. ASSUME NEW k \in S PROVE n(Before(R, S, k)) \in 0..(n(S) - 1)
  <2> DEFINE T == Before(R, S, k) \cup {k}
  <2>1. T \in SUBSET S
    BY DEF Before
  <2>2. n(T) <= n(S) /\ n(S) \in Nat
    <3> HIDE DEF T
    <3> QED BY <1>1, <2>1
  <2> HIDE DEF n
  <2> QED BY <1>2, <2>2
<1>4. ASSUME NEW k \in S, NEW l \in S, <<k, l>> \in R PROVE n(Before(R, S, k)) < n(Before(R, S, l))
  <2> DEFINE T == Before(R, S, k) \cup {k}
             U == Before(R, S, l)
  <2>1. T \in SUBSET U /\ U \in SUBSET S
    BY <1>4 DEF Before, Orders
  <2> HIDE DEF T, U
  <2>2. n(T) <= n(U) /\ n(U) \in Nat
    BY <1>1, <2>1, FS_Subset
  <2>3. n(T) = n(Before(R, S, k)) + 1 /\ n(Before(R, S, k)) \in Nat
    BY <1>2 DEF T
  <2> HIDE DEF n
  <2> QED BY <2>2, <2>3 DEF U
<1> QED BY <1>3, <1>4

IsVector(q, n) == q = [i \in 1..n |-> q[i]]

LEMMA VectorSeq ==
  ASSUME NEW n \in Nat, NEW S, NEW q, IsVector(q, n), \A i \in 1..n : q[i] \in S
  PROVE  q \in Seq(S) /\ Len(q) = n
BY DEF IsVector

LEMMA RankExact ==
  ASSUME NEW S, IsFiniteSet(S), NEW R, Orders(R, S),
         NEW q, IsVector(q, Cardinality(S)),
         \A i \in 1..Cardinality(S) : \A k \in S : Cardinality(Before(R, S, k)) = i - 1
           => q[i] \in S /\ Cardinality(Before(R, S, q[i])) = i - 1
  PROVE  /\ q \in Seq(S) /\ Len(q) = Cardinality(S) /\ Cardinality(S) \in Nat
         /\ \A k \in S : \E i \in 1..Len(q) : q[i] = k
         /\ \A i, j \in 1..Len(q) : i < j => <<q[i], q[j]>> \in R
<1> DEFINE n == Cardinality(S)
           rank == [k \in S |-> Cardinality(Before(R, S, k)) + 1]
<1>1. n \in Nat
  BY FS_CardinalityType
<1>2. /\ \A k \in S : Cardinality(Before(R, S, k)) \in 0..(n - 1)
      /\ \A k, l \in S : <<k, l>> \in R => Cardinality(Before(R, S, k)) < Cardinality(Before(R, S, l))
  BY BeforeCounts
<1>3. /\ IsVector(q, n)
      /\ \A i \in 1..n : \A k \in S : Cardinality(Before(R, S, k)) = i - 1
           => q[i] \in S /\ Cardinality(Before(R, S, q[i])) = i - 1
  OBVIOUS
<1> HIDE DEF n
<1>4. rank \in [S -> 1..n]
  BY <1>1, <1>2
<1>5. \A k \in S : rank[k] = Cardinality(Before(R, S, k)) + 1
  OBVIOUS
<1>6. \A k, l \in S : <<k, l>> \in R => rank[k] < rank[l]
  BY <1>1, <1>2
<1> HIDE DEF rank
<1>7. \A k, l \in S : rank[k] = rank[l] => k = l
  <2>1. \A k, l \in S : rank[k] = rank[l] => ~(rank[k] < rank[l]) /\ ~(rank[l] < rank[k])
    BY <1>1, <1>4
  <2> QED BY <1>6, <2>1, Zenon DEF Orders
<1>8. rank \in Injection(S, 1..n)
  BY <1>4, <1>7 DEF Injection, IsInjective
<1>9. IsFiniteSet(1..n) /\ Cardinality(1..n) = n
  BY <1>1, FS_Interval
<1>10. rank \in Surjection(S, 1..n)
  BY <1>8, <1>9, FS_Injection DEF n
<1>11. \A i \in 1..n : \E k \in S : rank[k] = i
  BY <1>10 DEF Surjection
<1>12. ASSUME NEW i \in 1..n PROVE q[i] \in S /\ rank[q[i]] = i
  <2>1. PICK k \in S : rank[k] = i
    BY <1>11
  <2>2. Cardinality(Before(R, S, k)) = i - 1
    BY <1>1, <1>2, <1>5, <2>1
  <2>3. q[i] \in S /\ Cardinality(Before(R, S, q[i])) = i - 1
    BY <1>3, <2>2
  <2> QED BY <1>5, <2>3
<1>13. q \in Seq(S) /\ Len(q) = n
  BY <1>1, <1>3, <1>12, VectorSeq
<1>14. ASSUME NEW k \in S PROVE \E i \in 1..n : q[i] = k
  <2>1. rank[k] \in 1..n
    BY <1>4
  <2>2. q[rank[k]] = k
    BY <1>7, <1>12, <2>1
  <2> QED BY <2>1, <2>2
<1>15. ASSUME NEW i \in 1..n, NEW j \in 1..n, i < j PROVE <<q[i], q[j]>> \in R
  <2>1. q[i] \in S /\ q[j] \in S /\ rank[q[i]] = i /\ rank[q[j]] = j
    BY <1>12
  <2>2. q[i] # q[j] /\ <<q[j], q[i]>> \notin R
    <3>1. i # j /\ ~(j < i)
      BY <1>15
    <3> QED BY <1>6, <2>1, <3>1, Zenon
  <2> QED BY <2>1, <2>2, Zenon DEF Orders
<1> QED BY <1>1, <1>13, <1>14, <1>15 DEF n

-----------------------------------------------------------------------------
(* Parts put together *)

\* r[k] is what the first k parts of q make together.
Joins(r, q, m, T) ==
  /\ r[0] = <<>>
  /\ \A k \in 0..m : r[k] \in Seq(T)
  /\ \A k \in 1..m : r[k] = r[k - 1] \o q[k]

LEMMA JoinStep ==
  ASSUME NEW r, NEW q, NEW m \in Nat, NEW T, Joins(r, q, m, T), NEW k \in 1..m
  PROVE  r[k] = r[k - 1] \o q[k] /\ r[k - 1] \in Seq(T) /\ r[k] \in Seq(T)
<1>1. k - 1 \in 0..m /\ k \in 0..m
  OBVIOUS
<1> QED BY <1>1, Zenon DEF Joins

LEMMA JoinExists ==
  ASSUME NEW T, NEW m \in Nat, NEW q, \A i \in 1..m : q[i] \in Seq(T)
  PROVE  \E r : Joins(r, q, m, T)
<1> DEFINE S == 1..m
           A == Seq(T)
           F == [z \in S \X A |-> z[2] \o q[z[1]]]
<1>1. <<>> \in A
  OBVIOUS
<1>2. F \in [S \X A -> A]
  OBVIOUS
<1>3. \A i \in S : \A t \in A : F[<<i, t>>] = t \o q[i]
  OBVIOUS
<1> HIDE DEF F
<1>4. PICK f : IsLoop(f, F, <<>>, A, S)
  <2> HIDE DEF A
  <2> QED BY <1>1, <1>2, LoopExists, Zenon
<1> DEFINE r == [k \in 0..m |-> f[1..k]]
<1>5. r[0] = <<>>
  <2>1. 1..0 = {} /\ r[0] = f[1..0]
    OBVIOUS
  <2> QED BY <1>4, <2>1 DEF IsLoop
<1>6. ASSUME NEW k \in 1..m PROVE r[k - 1] \in A /\ r[k] = r[k - 1] \o q[k]
  <2> DEFINE s == 1..k
             t == 1..(k - 1)
  <2>1. Max(s) = k /\ s \ {k} = t /\ s # {}
    <3>1. k \in Nat /\ k # 0
      OBVIOUS
    <3> QED BY <3>1, MaxPrefix
  <2>2. s \in SUBSET S /\ r[k] = f[s] /\ r[k - 1] = f[t]
    OBVIOUS
  <2> HIDE DEF s, t, r, A, S
  <2>3. f[s \ {Max(s)}] \in A /\ f[s] = F[<<Max(s), f[s \ {Max(s)}]>>] /\ Max(s) \in S
    BY <1>4, <2>1, <2>2 DEF IsLoop
  <2>4. f[t] \in A /\ f[s] = F[<<k, f[t]>>] /\ k \in S
    BY <2>1, <2>3, Zenon
  <2> QED BY <1>3, <2>2, <2>4
<1>7. ASSUME NEW k \in 0..m PROVE r[k] \in A
  <2>1. CASE k = 0
    BY <1>1, <1>5, <2>1
  <2>2. CASE k # 0
    <3>1. k \in 1..m
      BY <2>2
    <3>2. r[k - 1] \in A /\ r[k] = r[k - 1] \o q[k] /\ q[k] \in A
      BY <1>6, <3>1
    <3> HIDE DEF r
    <3> QED BY <3>2
  <2> QED BY <2>1, <2>2
<1> HIDE DEF r
<1>8. Joins(r, q, m, T)
  BY <1>5, <1>6, <1>7 DEF Joins
<1> QED BY <1>8

\* A loop that begins with the first part makes the same.
LEMMA JoinUnique ==
  ASSUME NEW T, NEW m \in Nat, m # 0, NEW q, NEW r, Joins(r, q, m, T), NEW g,
         \A i \in 1..m : g[i] = IF i = 1 THEN q[i] ELSE g[i - 1] \o q[i],
         \A i \in 1..m : q[i] \in Seq(T)
  PROVE  g[m] = r[m]
<1> DEFINE U == {n \in Nat : n + 1 \in 1..m => g[n + 1] = r[n + 1]}
<1>1. 0 \in U
  <2>0. 1 \in 1..m /\ 1 - 1 = 0 /\ r[0] = <<>>
    BY DEF Joins
  <2>1. g[1] = q[1] /\ r[1] = <<>> \o q[1] /\ q[1] \in Seq(T)
    <3>1. \A k \in 1..m : r[k] = r[k - 1] \o q[k]
      BY Zenon DEF Joins
    <3>2. r[1] = r[0] \o q[1]
      BY <2>0, <3>1
    <3> QED BY <2>0, <3>2, Zenon
  <2> QED BY <2>1
<1>2. ASSUME NEW n \in Nat, n \in U PROVE n + 1 \in U
  <2> SUFFICES ASSUME n + 2 \in 1..m PROVE g[n + 2] = r[n + 2]
    OBVIOUS
  <2>1. g[n + 1] = r[n + 1] /\ (n + 2) - 1 = n + 1 /\ n + 2 # 1
    BY <1>2
  <2>2. g[n + 2] = g[n + 1] \o q[n + 2]
    BY <2>1
  <2>3. r[n + 2] = r[n + 1] \o q[n + 2]
    BY <2>1 DEF Joins
  <2> QED BY <2>1, <2>2, <2>3
<1>3. m - 1 \in U
  <2> HIDE DEF U
  <2> QED BY <1>1, <1>2, Induction
<1> QED BY <1>3

\* Part n of t begins after o[n] elements.
Laid(t, q, m, o) ==
  /\ o \in [1..(m + 1) -> Nat] /\ o[1] = 0 /\ o[m + 1] = Len(t)
  /\ \A n \in 1..m : /\ o[n + 1] = o[n] + Len(q[n])
                     /\ \A j \in 1..Len(q[n]) : o[n] + j <= Len(t) /\ t[o[n] + j] = q[n][j]

LEMMA JoinLaid ==
  ASSUME NEW T, NEW m \in Nat, NEW q, NEW r, Joins(r, q, m, T), \A i \in 1..m : q[i] \in Seq(T)
  PROVE  r[m] \in Seq(T) /\ \E o : Laid(r[m], q, m, o)
<1> DEFINE o == [n \in 1..(m + 1) |-> Len(r[n - 1])]
           l == [n \in 1..m |-> Len(q[n])]
<1>3. \A k \in 0..m : r[k] \in Seq(T) /\ Len(r[k]) \in Nat
  BY DEF Joins
<1>4. o \in [1..(m + 1) -> Nat] /\ o[1] = 0 /\ o[m + 1] = Len(r[m])
  <2>1. r[0] = <<>>
    BY DEF Joins
  <2> QED BY <1>3, <2>1
<1>5. ASSUME NEW n \in 1..m
      PROVE  /\ o[n + 1] = o[n] + l[n] /\ o[n] = Len(r[n - 1]) /\ o[n + 1] = Len(r[n])
             /\ l[n] \in Nat /\ l[n] = Len(q[n]) /\ o[n] \in Nat
             /\ \A j \in 1..l[n] : r[n][o[n] + j] = q[n][j]
             /\ \A j \in 1..o[n] : r[n][j] = r[n - 1][j]
  <2>1. r[n] = r[n - 1] \o q[n] /\ q[n] \in Seq(T) /\ r[n - 1] \in Seq(T)
    BY JoinStep
  <2>2. o[n] = Len(r[n - 1]) /\ o[n + 1] = Len(r[n]) /\ l[n] = Len(q[n])
    OBVIOUS
  <2> HIDE DEF o, l
  <2> DEFINE a == r[n - 1]
             b == q[n]
             c == r[n]
  <2>3. c = a \o b /\ a \in Seq(T) /\ b \in Seq(T)
    BY <2>1
  <2> HIDE DEF a, b, c
  <2>4. /\ Len(c) = Len(a) + Len(b) /\ Len(a) \in Nat /\ Len(b) \in Nat
        /\ \A j \in 1..Len(b) : c[Len(a) + j] = b[j]
        /\ \A j \in 1..Len(a) : c[j] = a[j]
    BY <2>3
  <2> QED BY <2>2, <2>4 DEF a, b, c
<1> HIDE DEF o, l
<1> DEFINE U == {k \in Nat : k \in 0..m => \A n \in 1..k : \A j \in 1..l[n] :
                   o[n] + j <= o[k + 1] /\ r[k][o[n] + j] = q[n][j]}
<1>6. 0 \in U
  OBVIOUS
<1>7. ASSUME NEW k \in Nat, k \in U PROVE k + 1 \in U
  <2> SUFFICES ASSUME k + 1 \in 0..m PROVE k + 1 \in U
    OBVIOUS
  <2> SUFFICES ASSUME NEW n \in 1..(k + 1), NEW j \in 1..l[n]
               PROVE  o[n] + j <= o[k + 2] /\ r[k + 1][o[n] + j] = q[n][j]
    <3>1. (k + 1) + 1 = k + 2
      OBVIOUS
    <3> QED BY <3>1
  <2>0. k + 1 \in 1..m /\ (k + 1) + 1 = k + 2 /\ (k + 1) - 1 = k /\ k \in 0..m
    OBVIOUS
  <2>1. /\ o[k + 2] = o[k + 1] + l[k + 1]
        /\ \A i \in 1..l[k + 1] : r[k + 1][o[k + 1] + i] = q[k + 1][i]
        /\ \A i \in 1..o[k + 1] : r[k + 1][i] = r[k][i]
        /\ l[k + 1] \in Nat /\ o[k + 1] \in Nat
    <3> DEFINE h == k + 1
    <3>1. h \in 1..m /\ h + 1 = k + 2 /\ h - 1 = k
      BY <2>0
    <3> HIDE DEF h
    <3>2. /\ o[h + 1] = o[h] + l[h] /\ l[h] \in Nat /\ o[h] \in Nat
          /\ \A i \in 1..l[h] : r[h][o[h] + i] = q[h][i]
          /\ \A i \in 1..o[h] : r[h][i] = r[h - 1][i]
      BY <1>5, <3>1, Zenon
    <3>3. /\ o[k + 2] = o[h] + l[h] /\ l[h] \in Nat /\ o[h] \in Nat
          /\ \A i \in 1..l[h] : r[h][o[h] + i] = q[h][i]
          /\ \A i \in 1..o[h] : r[h][i] = r[k][i]
      BY <3>1, <3>2, Zenon
    <3> QED BY <3>3, Zenon DEF h
  <2>2. CASE n = k + 1
    BY <2>1, <2>2
  <2>3. CASE n # k + 1
    <3>1. n \in 1..k /\ n \in 1..m
      BY <2>0, <2>3
    <3>2. o[n] + j <= o[k + 1] /\ r[k][o[n] + j] = q[n][j]
      BY <1>7, <2>0, <3>1
    <3>3. l[n] \in Nat /\ o[n] \in Nat
      BY <1>5, <3>1
    <3>4. o[n] + j \in 1..o[k + 1]
      BY <2>1, <3>2, <3>3
    <3> QED BY <2>1, <3>2, <3>4
  <2> QED BY <2>2, <2>3
<1>8. m \in U
  <2> HIDE DEF U
  <2> QED BY <1>6, <1>7, Induction
<1>9. \A n \in 1..m : \A j \in 1..l[n] : o[n] + j <= o[m + 1] /\ r[m][o[n] + j] = q[n][j]
  BY <1>8
<1>10. Laid(r[m], q, m, o)
  BY <1>4, <1>5, <1>9 DEF Laid
<1> QED BY <1>3, <1>10

LEMMA FlattenLaid ==
  ASSUME NEW T, NEW q \in Seq(Seq(T))
  PROVE  FlattenSeq(q) \in Seq(T) /\ \E o : Laid(FlattenSeq(q), q, Len(q), o)
<1> DEFINE m == Len(q)
           Q(g) == g = [i \in 1..Len(q) |-> IF i = 1 THEN q[i] ELSE g[i - 1] \o q[i]]
<1>1. m \in Nat /\ \A n \in 1..m : q[n] \in Seq(T)
  OBVIOUS
<1>2. PICK r : Joins(r, q, m, T)
  <2> HIDE DEF m
  <2> QED BY <1>1, JoinExists
<1>3. FlattenSeq(q) = r[m]
  <2>1. CASE m = 0
    BY <1>2, <2>1 DEF FlattenSeq, Joins
  <2>2. CASE m # 0
    <3> DEFINE h == [i \in 1..Len(q) |-> r[i]]
    <3>1. Q(h)
      <4>1. ASSUME NEW i \in 1..m
            PROVE  r[i] = IF i = 1 THEN q[i] ELSE r[i - 1] \o q[i]
        <5> HIDE DEF m
        <5>1. r[i] = r[i - 1] \o q[i] /\ q[i] \in Seq(T) /\ r[0] = <<>>
          <6>1. r[0] = <<>>
            BY <1>2 DEF Joins
          <6> QED BY <1>1, <1>2, <6>1, JoinStep, Zenon
        <5>2. CASE i = 1
          <6>1. i - 1 = 0
            BY <5>2
          <6>2. r[i] = <<>> \o q[i] /\ q[i] \in Seq(T)
            BY <5>1, <6>1, Zenon
          <6> HIDE DEF Q
          <6>3. r[i] = q[i]
            BY <6>2
          <6> QED BY <5>2, <6>3
        <5> QED BY <5>1, <5>2
      <4>2. ASSUME NEW i \in 1..m, i # 1 PROVE i - 1 \in 1..m
        <5> HIDE DEF m
        <5> QED BY <1>1, <4>2
      <4> QED BY <4>1, <4>2
    <3> HIDE DEF h
    <3> DEFINE g == CHOOSE u : Q(u)
    <3>2. Q(g)
      <4> HIDE DEF Q
      <4> QED BY <3>1, Zenon
    <3>3. FlattenSeq(q) = g[Len(q)]
      BY <2>2, Zenon DEF FlattenSeq
    <3>4. \A i \in 1..m : g[i] = IF i = 1 THEN q[i] ELSE g[i - 1] \o q[i]
      BY <3>2
    <3> HIDE DEF g, Q
    <3>5. g[m] = r[m]
      <4> HIDE DEF m
      <4> QED BY <1>1, <1>2, <2>2, <3>4, JoinUnique
    <3> QED BY <3>3, <3>5
  <2> QED BY <2>1, <2>2
<1>4. r[m] \in Seq(T) /\ \E o : Laid(r[m], q, m, o)
  <2> HIDE DEF m
  <2> QED BY <1>1, <1>2, JoinLaid
<1> QED BY <1>3, <1>4

-----------------------------------------------------------------------------
(* Powers of two and quotients *)

LEMMA PowerBound ==
  ASSUME NEW i \in Nat PROVE 2^i \in Nat /\ i <= 2^i
<1> DEFINE S == 1..i
           f == [x \in S |-> {x}]
<1>1. IsFiniteSet(S) /\ Cardinality(S) = i
  BY FS_Interval
<1>2. IsFiniteSet(SUBSET S) /\ Cardinality(SUBSET S) = 2^i
  <2> HIDE DEF S
  <2>1. IsFiniteSet(SUBSET S) /\ Cardinality(SUBSET S) = 2^Cardinality(S)
    BY <1>1, FS_SUBSET, Zenon
  <2> QED BY <1>1, <2>1, Zenon
<1>3. f \in Injection(S, SUBSET S)
  <2> HIDE DEF S
  <2> QED BY DEF Injection, IsInjective
<1>4. Cardinality(S) <= Cardinality(SUBSET S)
  <2> HIDE DEF S, f
  <2> QED BY <1>2, <1>3, FS_Injection, Zenon
<1>5. Cardinality(SUBSET S) \in Nat
  <2> HIDE DEF S
  <2> QED BY <1>2, FS_CardinalityType, Zenon
<1> HIDE DEF S
<1> QED BY <1>1, <1>2, <1>4, <1>5, Zenon

LEMMA PowerZero == 2^0 = 1
<1>1. IsFiniteSet({}) /\ Cardinality({}) = 0
  BY FS_EmptySet
<1>2. Cardinality(SUBSET {}) = 2^Cardinality({})
  BY <1>1, FS_SUBSET, Zenon
<1>3. SUBSET {} = {{}}
  OBVIOUS
<1>4. Cardinality({{}}) = 1
  BY FS_Singleton, Zenon
<1> QED BY <1>1, <1>2, <1>3, <1>4, Zenon

LEMMA PowerOf ==
  ASSUME NEW i \in Nat
  PROVE  IsFiniteSet(SUBSET (1..i)) /\ Cardinality(SUBSET (1..i)) = 2^i /\ 2^i \in Nat
<1> DEFINE S == 1..i
<1>1. IsFiniteSet(S) /\ Cardinality(S) = i
  BY FS_Interval
<1> HIDE DEF S
<1>2. IsFiniteSet(SUBSET S) /\ Cardinality(SUBSET S) = 2^Cardinality(S)
  BY <1>1, FS_SUBSET, Zenon
<1>3. IsFiniteSet(SUBSET S) /\ Cardinality(SUBSET S) = 2^i
  BY <1>1, <1>2, Zenon
<1> QED BY <1>3, FS_CardinalityType, Zenon DEF S

LEMMA PowerStep ==
  ASSUME NEW i \in Nat PROVE 2^(i + 1) = 2 * 2^i /\ 2^i \in Nat /\ 2^(i + 1) \in Nat
<1> DEFINE S == 1..i
           x == i + 1
           A == SUBSET S
           f == [s \in A |-> s \cup {x}]
           B == {s \cup {x} : s \in A}
           C == SUBSET (1..x)
<1>1. x \notin S /\ 1..x = S \cup {x} /\ x \in Nat
  OBVIOUS
<1>2. IsFiniteSet(A) /\ Cardinality(A) = 2^i /\ 2^i \in Nat /\ Cardinality(C) = 2^x /\ 2^x \in Nat
  <2>1. IsFiniteSet(A) /\ Cardinality(A) = 2^i /\ 2^i \in Nat
    BY PowerOf, Zenon
  <2>2. Cardinality(C) = 2^x /\ 2^x \in Nat
    BY <1>1, PowerOf, Zenon
  <2> QED BY <2>1, <2>2, Zenon
<1> HIDE DEF S, x
<1>3. A \cap B = {} /\ C = A \cup B
  <2>1. C \subseteq A \cup B
    <3> SUFFICES ASSUME NEW s \in C, s \notin A PROVE s \in B
      OBVIOUS
    <3>1. x \in s /\ s \ {x} \in A /\ s = (s \ {x}) \cup {x}
      BY <1>1
    <3> QED BY <3>1
  <2> QED BY <1>1, <2>1
<1>4. f \in Bijection(A, B)
  <2>1. f \in [A -> B]
    OBVIOUS
  <2>2. \A s, t \in A : f[s] = f[t] => s = t
    BY <1>1
  <2>3. \A t \in B : \E s \in A : f[s] = t
    OBVIOUS
  <2> HIDE DEF A, B, f
  <2> QED BY <2>1, <2>2, <2>3 DEF Bijection, Injection, Surjection, IsInjective
<1> HIDE DEF A, B, C, f
<1>5. IsFiniteSet(B) /\ Cardinality(B) = Cardinality(A)
  <2>1. ExistsBijection(A, B)
    BY <1>4 DEF ExistsBijection
  <2> QED BY <1>2, <2>1, FS_Bijection, Zenon
<1>6. Cardinality(A \cup B) = Cardinality(A) + Cardinality(B) - Cardinality(A \cap B)
  BY <1>2, <1>5, FS_Union, Zenon
<1>7. Cardinality(A \cap B) = 0
  BY <1>3, FS_EmptySet
<1>8. 2^x = 2^i + 2^i - 0
  BY <1>2, <1>3, <1>5, <1>6, <1>7, Zenon
<1>9. \A n \in Nat : n + n - 0 = 2 * n
  OBVIOUS
<1>10. 2^x = 2 * 2^i
  BY <1>2, <1>8, <1>9, Zenon
<1> QED BY <1>2, <1>10, Zenon DEF x

LEMMA PowerPositive == ASSUME NEW i \in Nat PROVE 2^i \in Nat /\ 2^i # 0
<1> DEFINE A == SUBSET (1..i)
<1>1. IsFiniteSet(A) /\ Cardinality(A) = 2^i /\ 2^i \in Nat
  BY PowerOf, Zenon
<1>2. {} \in A
  OBVIOUS
<1> HIDE DEF A
<1>3. A # {}
  BY <1>2
<1>4. Cardinality(A) # 0
  BY <1>1, <1>3, FS_EmptySet, Zenon
<1> QED BY <1>1, <1>4, Zenon

LEMMA Quotient ==
  ASSUME NEW x \in Nat, NEW q \in Nat, q # 0
  PROVE  x \div q \in Nat /\ x % q \in 0..(q - 1) /\ x = q * (x \div q) + (x % q)
<1>1. q > 0
  OBVIOUS
<1>2. x \div q \in Nat
  BY <1>1
<1>3. x % q \in 0..(q - 1)
  BY <1>1
<1>4. (x % q) + q * (x \div q) = x
  BY <1>1
<1> DEFINE a == x \div q
           r == x % q
<1>5. q * a \in Nat
  <2> HIDE DEF a
  <2> QED BY <1>2 DEF a
<1>6. x = q * a + r
  <2> DEFINE y == q * a
  <2>1. r + y = x /\ r \in Nat /\ y \in Nat
    BY <1>3, <1>4, <1>5
  <2> HIDE DEF y, r
  <2> QED BY <2>1 DEF y
<1> QED BY <1>2, <1>3, <1>6

LEMMA QuotientUnique ==
  ASSUME NEW q \in Nat, NEW a \in Nat, NEW b \in Nat, NEW r \in 0..(q - 1), NEW s \in 0..(q - 1),
         q * a + r = q * b + s
  PROVE  a = b
<1>1. ASSUME a < b PROVE FALSE
  <2>1. PICK c \in Nat : b = a + 1 + c
    BY <1>1
  <2>2. q * b = q * a + q + q * c /\ q * c \in Nat /\ q * a \in Nat
    BY <2>1
  <2> QED BY <2>2
<1>2. ASSUME b < a PROVE FALSE
  <2>1. PICK c \in Nat : a = b + 1 + c
    BY <1>2
  <2>2. q * a = q * b + q + q * c /\ q * c \in Nat /\ q * b \in Nat
    BY <2>1
  <2> QED BY <2>2
<1> QED BY <1>1, <1>2

LEMMA QuotientHalf ==
  ASSUME NEW x \in Nat, NEW p \in Nat, p # 0
  PROVE  x \div (2 * p) = (x \div p) \div 2
<1> DEFINE q == 2 * p
           a == x \div q
           r == x % q
           u == x \div p
           b == u \div 2
           t == u % 2
           s == x % p
<1>1. q \in Nat /\ q # 0
  OBVIOUS
<1>2. a \in Nat /\ r \in 0..(q - 1) /\ x = q * a + r
  <2> HIDE DEF q
  <2> QED BY <1>1, Quotient
<1>3. u \in Nat /\ s \in 0..(p - 1) /\ x = p * u + s
  BY Quotient
<1>4. b \in Nat /\ t \in 0..1 /\ u = 2 * b + t
  <2> HIDE DEF u
  <2> QED BY <1>3
<1> HIDE DEF a, r, u, b, t, s
<1>5. x = q * b + (p * t + s)
  <2>1. p * u = q * b + p * t
    BY <1>4
  <2> QED BY <1>3, <1>4, <2>1
<1>6. p * t + s \in 0..(q - 1)
  <2>1. CASE t = 0
    BY <1>3, <2>1
  <2>2. CASE t = 1
    BY <1>3, <2>2
  <2> QED BY <1>4, <2>1, <2>2
<1> DEFINE e == p * t + s
<1>7. q * a + r = q * b + e /\ e \in 0..(q - 1)
  BY <1>2, <1>5, <1>6
<1> HIDE DEF e, q
<1>8. a = b
  BY <1>1, <1>2, <1>4, <1>7, QuotientUnique
<1> QED BY <1>8 DEF a, b, u, q
=============================================================================
