--------------------------- MODULE SequenceLemmas ---------------------------
(* Facts about sequences that the proofs of several components rest on: the  *)
(* least element of a set, functions defined by recursion over a sequence,   *)
(* and what FlattenSeq does to two sequences in a row.                       *)
EXTENDS Integers, SequencesExt, TLAPS, SequenceTheorems, WellFoundedInduction

-----------------------------------------------------------------------------
(* Least and largest elements, and induction from the least counterexample *)

LEMMA Least ==
    ASSUME NEW T \in SUBSET Nat, T # {}
    PROVE  \E n \in T : \A m \in T : n <= m
  <1> DEFINE R == {p \in Nat \X Nat : p[1] < p[2]}
  <1>1. R = OpToRel(<, Nat)
    BY DEF OpToRel
  <1>2. IsWellFoundedOn(R, Nat)
    BY <1>1, NatLessThanWellFounded, Zenon
  <1> HIDE DEF R
  <1>3. PICK x \in T : \A y \in T : ~(<<y, x>> \in R)
    BY <1>2, WFMin
  <1>4. \A y \in T : ~(y < x)
    BY <1>3 DEF R
  <1> QED
    BY <1>4

LEMMA MinIsLeast ==
    ASSUME NEW T \in SUBSET Nat, T # {}
    PROVE  Min(T) \in T /\ \A m \in T : Min(T) <= m
  BY Least DEF Min

LEMMA MaxIsLargest ==
    ASSUME NEW n \in Nat, NEW T \in SUBSET 1 .. n, T # {}
    PROVE  Max(T) \in T /\ \A m \in T : m <= Max(T)
  <1> DEFINE U == {n - m : m \in T}
  <1>0. \A m \in T : n - m \in Nat
    OBVIOUS
  <1>1. U \in SUBSET Nat /\ U # {}
    BY <1>0, Zenon
  <1> HIDE DEF U
  <1>2. PICK u \in U : \A v \in U : u <= v
    BY <1>1, Least
  <1>3. PICK x \in T : u = n - x
    BY <1>2 DEF U
  <1>4. \A m \in T : n - m \in U
    BY DEF U
  <1>5. \A m \in T : m <= x
    BY <1>2, <1>3, <1>4
  <1> QED
    BY <1>3, <1>5 DEF Max

\* A set that has 0 and with each number the next has them all.
LEMMA Induction ==
    ASSUME NEW n \in Nat, NEW G, 0 \in G,
           \A k \in 0 .. n : k < n /\ k \in G => k + 1 \in G
    PROVE  n \in G
  <1> DEFINE Bad == {k \in 0 .. n : k \notin G}
  <1>1. ASSUME n \notin G PROVE FALSE
    <2>1. n \in Bad /\ Bad \in SUBSET Nat
      BY <1>1
    <2>2. PICK k \in Bad : \A m \in Bad : k <= m
      BY <2>1, Least, Zenon
    <2>3. k # 0 /\ k - 1 \in 0 .. n /\ k - 1 < n /\ k - 1 \notin Bad
      BY <2>2
    <2>4. k - 1 + 1 \in G
      BY <2>3
    <2> QED
      BY <2>2, <2>4
  <1> QED
    BY <1>1

-----------------------------------------------------------------------------
(* Recursion over a sequence                                               *)

\* D has a step for each of n positions.
Steps(n, S) == [1 .. n -> [S -> S]]

\* The values that follow b.
Values(n, S) == [0 .. n -> S]

\* f starts with b, and each value is D's of the one before.
Follows(f, b, n, D) == f[0] = b /\ \A i \in 1 .. n : f[i] = D[i][f[i - 1]]

LEMMA RecursionExists ==
    ASSUME NEW S, NEW b \in S, NEW n \in Nat, NEW D \in Steps(n, S)
    PROVE  \E f \in Values(n, S) : Follows(f, b, n, D)
  <1> DEFINE Good == {k \in 0 .. n : \E f \in [0 .. k -> S] : Follows(f, b, k, D)}
  <1>1. 0 \in Good
    <2> DEFINE f == [i \in 0 .. 0 |-> b]
    <2>1. f \in [0 .. 0 -> S] /\ f[0] = b
      OBVIOUS
    <2> HIDE DEF f
    <2>2. Follows(f, b, 0, D)
      BY <2>1 DEF Follows
    <2> QED
      BY <2>1, <2>2
  <1>2. ASSUME NEW k \in 0 .. n, k < n, k \in Good PROVE k + 1 \in Good
    <2>1. PICK f \in [0 .. k -> S] : f[0] = b /\ \A i \in 1 .. k : f[i] = D[i][f[i - 1]]
      BY <1>2 DEF Follows
    <2> DEFINE g == [i \in 0 .. k + 1 |-> IF i = k + 1 THEN D[i][f[k]] ELSE f[i]]
    <2>2. D[k + 1][f[k]] \in S
      BY <1>2 DEF Steps
    <2>3. g \in [0 .. k + 1 -> S]
      BY <2>2
    <2>4. g[0] = b /\ \A i \in 1 .. k + 1 : g[i] = D[i][g[i - 1]]
      BY <2>1
    <2>5. k + 1 \in 0 .. n
      BY <1>2
    <2> HIDE DEF g
    <2>6. Follows(g, b, k + 1, D)
      BY <2>4 DEF Follows
    <2> QED
      BY <2>3, <2>5, <2>6
  <1> HIDE DEF Good
  <1>3. n \in Good
    BY <1>1, <1>2, Induction
  <1> QED
    BY <1>3 DEF Good, Values

-----------------------------------------------------------------------------
(* FlattenSeq                                                              *)

\* The partial results of FlattenSeq(q).
Flattens(F, q) ==
    /\ DOMAIN F = 1 .. Len(q)
    /\ \A i \in 1 .. Len(q) : F[i] = IF i = 1 THEN q[1] ELSE F[i - 1] \o q[i]

LEMMA FlattensExists ==
    ASSUME NEW S, NEW q \in Seq(Seq(S)), q # <<>>
    PROVE  \E F \in [1 .. Len(q) -> Seq(S)] : Flattens(F, q)
  <1>1. PICK n \in Nat : n = Len(q) /\ n >= 1
    OBVIOUS
  <1>2. \A i \in 1 .. n : q[i] \in Seq(S)
    BY <1>1
  <1>3. PICK D \in Steps(n, Seq(S)) : \A i \in 1 .. n : D[i] = [s \in Seq(S) |-> s \o q[i]]
    <2> DEFINE D == [i \in 1 .. n |-> [s \in Seq(S) |-> s \o q[i]]]
    <2>1. D \in Steps(n, Seq(S))
      BY <1>2 DEF Steps
    <2> QED
      BY <2>1
  <1>4. PICK f \in Values(n, Seq(S)) : Follows(f, <<>>, n, D)
    <2>1. <<>> \in Seq(S)
      OBVIOUS
    <2> QED
      BY <2>1, RecursionExists
  <1>5. \A i \in 0 .. n : f[i] \in Seq(S)
    BY DEF Values
  <1>6. ASSUME NEW i \in 1 .. n PROVE f[i] = f[i - 1] \o q[i]
    <2>1. f[i - 1] \in Seq(S)
      BY <1>5
    <2> QED
      BY <1>3, <1>4, <2>1 DEF Follows
  <1>7. f[1] = q[1]
    <2>0. 1 \in 1 .. n
      BY <1>1
    <2>1. f[1] = f[1 - 1] \o q[1]
      BY <1>6, <2>0, Zenon
    <2>2. f[1 - 1] = <<>> /\ q[1] \in Seq(S)
      BY <1>1, <1>2, <1>4 DEF Follows
    <2> QED
      BY <2>1, <2>2
  <1> DEFINE F == [i \in 1 .. n |-> f[i]]
  <1>8. F \in [1 .. n -> Seq(S)]
    BY <1>5
  <1>9. Flattens(F, q)
    <2>1. \A i \in 1 .. n : i # 1 => i - 1 \in 1 .. n
      OBVIOUS
    <2> QED
      BY <1>1, <1>6, <1>7, <2>1 DEF Flattens
  <1> QED
    BY <1>1, <1>8, <1>9

\* The step of a partial result.
LEMMA FlattensStep ==
    ASSUME NEW F, NEW q, Flattens(F, q), NEW k \in Nat, k + 1 \in 1 .. Len(q)
    PROVE  F[k + 1] = IF k = 0 THEN q[1] ELSE F[k] \o q[k + 1]
  <1>1. PICK i \in 1 .. Len(q) : i = k + 1
    OBVIOUS
  <1>2. F[i] = IF i = 1 THEN q[1] ELSE F[i - 1] \o q[i]
    BY DEF Flattens
  <1>3. i - 1 = k /\ (i = 1 <=> k = 0)
    BY <1>1
  <1> QED
    BY <1>1, <1>2, <1>3, Zenon

LEMMA FlattenIs ==
    ASSUME NEW S, NEW q \in Seq(Seq(S)), q # <<>>
    PROVE  \E F \in [1 .. Len(q) -> Seq(S)] : Flattens(F, q) /\ FlattenSeq(q) = F[Len(q)]
  <1> DEFINE n == Len(q)
             Body(F) == [i \in 1 .. n |-> IF i = 1 THEN q[i] ELSE F[i - 1] \o q[i]]
             C == CHOOSE F : F = Body(F)
  <1>1. n \in Nat /\ n >= 1
    OBVIOUS
  <1>2. FlattenSeq(q) = C[n]
    BY <1>1 DEF FlattenSeq
  <1>3. PICK F \in [1 .. n -> Seq(S)] : Flattens(F, q)
    BY FlattensExists
  <1>4. F = Body(F)
    BY <1>3 DEF Flattens
  <1>5. C = Body(C)
    BY <1>4
  <1>6. Flattens(C, q)
    BY <1>5, ZenonT(40) DEF Flattens
  <1> HIDE DEF C
  <1>7. \A i \in 1 .. n : C[i] \in Seq(S)
    <2> TAKE i \in 1 .. n
    <2> DEFINE G == {k \in 0 .. n : k = 0 \/ C[k] \in Seq(S)}
    <2>1. ASSUME NEW k \in 0 .. i, k < i, k \in G PROVE k + 1 \in G
      <3>1. k + 1 \in 1 .. n /\ q[k + 1] \in Seq(S)
        BY <1>1, <2>1
      <3>2. C[k + 1] = IF k = 0 THEN q[1] ELSE C[k] \o q[k + 1]
        BY <1>6, <3>1, FlattensStep
      <3>3. C[k + 1] \in Seq(S)
        BY <2>1, <3>1, <3>2
      <3> QED
        BY <3>1, <3>3
    <2>2. 0 \in G
      BY <1>1
    <2> HIDE DEF G
    <2>3. i \in G
      BY <2>1, <2>2, Induction
    <2> QED
      BY <2>3 DEF G
  <1>8. DOMAIN C = 1 .. n
    BY <1>6 DEF Flattens
  <1>9. C = [i \in 1 .. n |-> C[i]]
    BY <1>5, <1>8
  <1>10. C \in [1 .. n -> Seq(S)]
    BY <1>7, <1>9
  <1> QED
    BY <1>2, <1>6, <1>10

LEMMA FlattenType ==
    ASSUME NEW S, NEW q \in Seq(Seq(S))
    PROVE  FlattenSeq(q) \in Seq(S)
  <1>1. CASE q = <<>>
    BY <1>1 DEF FlattenSeq
  <1>2. CASE q # <<>>
    <2>1. Len(q) \in 1 .. Len(q)
      BY <1>2
    <2>2. PICK F \in [1 .. Len(q) -> Seq(S)] : FlattenSeq(q) = F[Len(q)]
      BY <1>2, FlattenIs
    <2> QED
      BY <2>1, <2>2
  <1> QED
    BY <1>1, <1>2

LEMMA FlattenEmpty == FlattenSeq(<<>>) = <<>>
  BY DEF FlattenSeq

LEMMA FlattenOne ==
    ASSUME NEW S, NEW x \in Seq(S)
    PROVE  FlattenSeq(<<x>>) = x
  <1>1. <<x>> \in Seq(Seq(S)) /\ <<x>> # <<>> /\ Len(<<x>>) = 1
    OBVIOUS
  <1>2. PICK F : Flattens(F, <<x>>) /\ FlattenSeq(<<x>>) = F[1]
    BY <1>1, FlattenIs
  <1> QED
    BY <1>2 DEF Flattens

LEMMA FlattenAppend ==
    ASSUME NEW S, NEW q \in Seq(Seq(S)), NEW x \in Seq(S)
    PROVE  FlattenSeq(Append(q, x)) = FlattenSeq(q) \o x
  <1>1. CASE q = <<>>
    <2>1. Append(q, x) = <<x>>
      BY <1>1
    <2> QED
      BY <1>1, <2>1, FlattenEmpty, FlattenOne
  <1>2. CASE q # <<>>
    <2> DEFINE r == Append(q, x)
    <2>1. PICK n \in Nat : n = Len(q) /\ n >= 1
      BY <1>2
    <2>2. r \in Seq(Seq(S)) /\ r # <<>> /\ Len(r) = n + 1 /\ r[n + 1] = x
      BY <2>1
    <2>3. \A i \in 1 .. n : r[i] = q[i]
      BY <2>1
    <2> HIDE DEF r
    <2>4. PICK F : Flattens(F, q) /\ FlattenSeq(q) = F[n]
      BY <1>2, <2>1, FlattenIs
    <2>5. PICK G : Flattens(G, r) /\ FlattenSeq(r) = G[n + 1]
      BY <2>2, FlattenIs
    <2> DEFINE Same == {k \in 0 .. n : k = 0 \/ F[k] = G[k]}
    <2>6. ASSUME NEW k \in 0 .. n, k < n, k \in Same PROVE k + 1 \in Same
      <3>1. k \in Nat /\ k + 1 \in 1 .. Len(q) /\ k + 1 \in 1 .. Len(r) /\ 1 \in 1 .. n
        BY <2>1, <2>2, <2>6
      <3>2. F[k + 1] = IF k = 0 THEN q[1] ELSE F[k] \o q[k + 1]
        BY <2>4, <3>1, FlattensStep
      <3>3. G[k + 1] = IF k = 0 THEN r[1] ELSE G[k] \o r[k + 1]
        BY <2>5, <3>1, FlattensStep
      <3>4. k + 1 \in 1 .. n
        BY <2>1, <3>1
      <3> QED
        BY <2>3, <2>6, <3>1, <3>2, <3>3, <3>4
    <2>7. 0 \in Same
      OBVIOUS
    <2> HIDE DEF Same
    <2>8. n \in Same
      BY <2>6, <2>7, Induction
    <2>9. F[n] = G[n]
      BY <2>1, <2>8 DEF Same
    <2>10. G[n + 1] = G[n] \o r[n + 1]
      <3>1. n + 1 \in 1 .. Len(r) /\ n # 0
        BY <2>1, <2>2
      <3> QED
        BY <2>5, <3>1, FlattensStep
    <2> QED
      BY <2>2, <2>4, <2>5, <2>9, <2>10 DEF r
  <1> QED
    BY <1>1, <1>2

LEMMA ConcatAppend ==
    ASSUME NEW S, NEW s \in Seq(S), NEW t \in Seq(S), NEW x \in S
    PROVE  s \o Append(t, x) = Append(s \o t, x)
  OBVIOUS

LEMMA FlattenConcatStep ==
    ASSUME NEW S, NEW q \in Seq(Seq(S)), NEW p \in Seq(Seq(S)), NEW x \in Seq(S),
           FlattenSeq(q \o p) = FlattenSeq(q) \o FlattenSeq(p)
    PROVE  FlattenSeq(q \o Append(p, x)) = FlattenSeq(q) \o FlattenSeq(Append(p, x))
  <1>1. q \o Append(p, x) = Append(q \o p, x)
    OBVIOUS
  <1>2. q \o p \in Seq(Seq(S)) /\ FlattenSeq(q) \in Seq(S) /\ FlattenSeq(p) \in Seq(S)
    BY FlattenType
  <1>3. FlattenSeq(Append(q \o p, x)) = FlattenSeq(q \o p) \o x
    BY <1>2, FlattenAppend
  <1>4. FlattenSeq(Append(p, x)) = FlattenSeq(p) \o x
    BY FlattenAppend
  <1>5. (FlattenSeq(q) \o FlattenSeq(p)) \o x = FlattenSeq(q) \o (FlattenSeq(p) \o x)
    BY <1>2, ConcatAssociative, SMTT(30)
  <1> QED
    BY <1>1, <1>3, <1>4, <1>5

LEMMA FlattenConcat ==
    ASSUME NEW S, NEW q \in Seq(Seq(S)), NEW r \in Seq(Seq(S))
    PROVE  FlattenSeq(q \o r) = FlattenSeq(q) \o FlattenSeq(r)
  <1> DEFINE part(k) == SubSeq(r, 1, k)
             Good == {k \in 0 .. Len(r) : FlattenSeq(q \o part(k)) = FlattenSeq(q) \o FlattenSeq(part(k))}
  <1>1. \A k \in 0 .. Len(r) : part(k) \in Seq(Seq(S))
    OBVIOUS
  <1>2. FlattenSeq(q) \in Seq(S)
    BY FlattenType
  <1>3. 0 \in Good
    <2>1. part(0) = <<>> /\ q \o part(0) = q
      OBVIOUS
    <2>2. FlattenSeq(q) \o <<>> = FlattenSeq(q)
      BY <1>2
    <2>3. 0 \in 0 .. Len(r)
      OBVIOUS
    <2> HIDE DEF part
    <2>4. FlattenSeq(q \o part(0)) = FlattenSeq(q) \o FlattenSeq(part(0))
      BY <2>1, <2>2, FlattenEmpty
    <2> QED
      BY <2>3, <2>4
  <1>4. ASSUME NEW k \in 0 .. Len(r), k < Len(r), k \in Good PROVE k + 1 \in Good
    <2>1. k + 1 \in 0 .. Len(r) /\ r[k + 1] \in Seq(S)
      BY <1>4
    <2>2. part(k + 1) = Append(part(k), r[k + 1])
      BY <1>4
    <2>3. part(k) \in Seq(Seq(S))
      BY <1>1
    <2> HIDE DEF part
    <2>4. FlattenSeq(q \o part(k)) = FlattenSeq(q) \o FlattenSeq(part(k))
      BY <1>4
    <2> HIDE DEF Good
    <2>5. FlattenSeq(q \o part(k + 1)) = FlattenSeq(q) \o FlattenSeq(part(k + 1))
      BY <2>1, <2>2, <2>3, <2>4, FlattenConcatStep, ZenonT(40)
    <2> QED
      BY <2>1, <2>5 DEF Good
  <1>5. Len(r) \in Nat
    OBVIOUS
  <1>6. part(Len(r)) = r
    OBVIOUS
  <1> HIDE DEF Good
  <1>7. Len(r) \in Good
    BY <1>3, <1>4, <1>5, Induction
  <1> QED
    BY <1>6, <1>7 DEF Good

-----------------------------------------------------------------------------
(* A sequence for each element, one after the other                        *)

\* e gives a C for every A.
Each(A, C) == [A -> C]

Map(e, t) == [i \in DOMAIN t |-> e[t[i]]]

FlatMap(e, t) == FlattenSeq(Map(e, t))

LEMMA MapType ==
    ASSUME NEW A, NEW C, NEW e \in Each(A, C), NEW t \in Seq(A)
    PROVE  /\ Map(e, t) \in Seq(C) /\ Len(Map(e, t)) = Len(t)
           /\ \A i \in 1 .. Len(t) : Map(e, t)[i] = e[t[i]]
  BY DEF Map, Each

LEMMA MapConcat ==
    ASSUME NEW A, NEW C, NEW e \in Each(A, C), NEW s \in Seq(A), NEW t \in Seq(A)
    PROVE  Map(e, s \o t) = Map(e, s) \o Map(e, t)
  <1>1. PICK u \in Seq(A) : u = s \o t
    BY ConcatProperties, Zenon
  <1>2. PICK l \in Seq(C) : l = Map(e, u)
    BY MapType
  <1>3. PICK m \in Seq(C) : m = Map(e, s)
    BY MapType
  <1>4. PICK n \in Seq(C) : n = Map(e, t)
    BY MapType
  <1>5. Len(l) = Len(u) /\ Len(m) = Len(s) /\ Len(n) = Len(t)
    BY <1>2, <1>3, <1>4, MapType
  <1>6. Len(u) = Len(s) + Len(t)
    BY <1>1
  <1>7. \A i \in 1 .. Len(u) : l[i] = e[u[i]]
    BY <1>2, MapType
  <1>8. \A i \in 1 .. Len(s) : m[i] = e[s[i]]
    BY <1>3, MapType
  <1>9. \A i \in 1 .. Len(t) : n[i] = e[t[i]]
    BY <1>4, MapType
  <1>10. ASSUME NEW i \in 1 .. Len(l) PROVE l[i] = (m \o n)[i]
    <2>1. CASE i <= Len(s)
      <3>1. i \in 1 .. Len(s) /\ i \in 1 .. Len(u)
        BY <1>5, <1>6, <2>1
      <3>2. u[i] = s[i]
        BY <1>1, <3>1
      <3>3. (m \o n)[i] = m[i]
        BY <1>5, <3>1
      <3> QED
        BY <1>7, <1>8, <3>1, <3>2, <3>3
    <2>2. CASE i > Len(s)
      <3>1. i - Len(s) \in 1 .. Len(t) /\ i \in 1 .. Len(u) /\ i \in 1 .. Len(m) + Len(n)
        BY <1>5, <1>6, <2>2
      <3>2. u[i] = t[i - Len(s)]
        BY <1>1, <1>6, <2>2, <3>1
      <3>3. (m \o n)[i] = n[i - Len(s)]
        BY <1>5, <2>2, <3>1
      <3> QED
        BY <1>7, <1>9, <3>1, <3>2, <3>3
    <2>3. i <= Len(s) \/ i > Len(s)
      OBVIOUS
    <2> QED
      BY <2>1, <2>2, <2>3, Zenon
  <1>11. m \o n \in Seq(C) /\ Len(m \o n) = Len(m) + Len(n)
    BY ConcatProperties, Zenon
  <1>12. l = m \o n
    <2>1. Len(l) = Len(m \o n)
      BY <1>5, <1>6, <1>11
    <2> QED
      BY <1>10, <1>11, <2>1, SeqEqual
  <1> QED
    BY <1>1, <1>2, <1>3, <1>4, <1>12

LEMMA FlatMapType ==
    ASSUME NEW A, NEW B, NEW e \in Each(A, Seq(B)), NEW t \in Seq(A)
    PROVE  FlatMap(e, t) \in Seq(B)
  BY MapType, FlattenType DEF FlatMap

LEMMA FlatMapEmpty == \A e : FlatMap(e, <<>>) = <<>>
  <1> TAKE e
  <1>1. Map(e, <<>>) = <<>>
    BY DEF Map
  <1> QED
    BY <1>1, FlattenEmpty DEF FlatMap

LEMMA FlatMapOne ==
    ASSUME NEW A, NEW B, NEW e \in Each(A, Seq(B)), NEW x \in A
    PROVE  FlatMap(e, <<x>>) = e[x]
  <1>1. Map(e, <<x>>) = <<e[x]>>
    BY DEF Map
  <1>2. e[x] \in Seq(B)
    BY DEF Each
  <1> QED
    BY <1>1, <1>2, FlattenOne DEF FlatMap

LEMMA FlatMapConcat ==
    ASSUME NEW A, NEW B, NEW e \in Each(A, Seq(B)), NEW s \in Seq(A), NEW t \in Seq(A)
    PROVE  FlatMap(e, s \o t) = FlatMap(e, s) \o FlatMap(e, t)
  <1>1. Map(e, s) \in Seq(Seq(B)) /\ Map(e, t) \in Seq(Seq(B))
    BY MapType
  <1>2. Map(e, s \o t) = Map(e, s) \o Map(e, t)
    BY MapConcat
  <1> QED
    BY <1>1, <1>2, FlattenConcat DEF FlatMap

\* Where each element gives itself, nothing changes.
LEMMA FlatMapSame ==
    ASSUME NEW A, NEW e \in Each(A, Seq(A)), \A a \in A : e[a] = <<a>>, NEW t \in Seq(A)
    PROVE  FlatMap(e, t) = t
  <1> DEFINE part(k) == SubSeq(t, 1, k)
             G == {k \in 0 .. Len(t) : FlatMap(e, part(k)) = part(k)}
  <1>1. 0 \in G
    <2>1. part(0) = <<>> /\ 0 \in 0 .. Len(t)
      OBVIOUS
    <2> HIDE DEF part
    <2> QED
      BY <2>1, FlatMapEmpty
  <1>2. ASSUME NEW k \in 0 .. Len(t), k < Len(t), k \in G PROVE k + 1 \in G
    <2>1. k + 1 \in 0 .. Len(t) /\ t[k + 1] \in A
      BY <1>2
    <2>2. part(k + 1) = part(k) \o <<t[k + 1]>>
      <3>1. part(k + 1) = Append(part(k), t[k + 1])
        BY <1>2
      <3>2. part(k) \in Seq(A)
        OBVIOUS
      <3> HIDE DEF part
      <3> QED
        BY <2>1, <3>1, <3>2, SMTT(30)
    <2>3. part(k) \in Seq(A)
      OBVIOUS
    <2> HIDE DEF part
    <2>4. PICK x \in A, p \in Seq(A) : x = t[k + 1] /\ p = part(k)
      BY <2>1, <2>3
    <2>5. <<x>> \in Seq(A)
      OBVIOUS
    <2>6. FlatMap(e, p \o <<x>>) = FlatMap(e, p) \o FlatMap(e, <<x>>)
      <3>1. PICK y \in Seq(A) : y = <<x>>
        BY <2>5
      <3>2. FlatMap(e, p \o y) = FlatMap(e, p) \o FlatMap(e, y)
        BY FlatMapConcat
      <3> QED
        BY <3>1, <3>2
    <2>7. FlatMap(e, <<x>>) = <<x>>
      <3>1. FlatMap(e, <<x>>) = e[x]
        BY FlatMapOne
      <3> QED
        BY <3>1
    <2>8. FlatMap(e, p) = p
      BY <1>2, <2>4
    <2>9. FlatMap(e, part(k + 1)) = part(k + 1)
      BY <2>2, <2>4, <2>6, <2>7, <2>8
    <2> QED
      BY <2>1, <2>9
  <1>3. part(Len(t)) = t
    OBVIOUS
  <1> HIDE DEF G
  <1>4. Len(t) \in G
    BY <1>1, <1>2, Induction
  <1> QED
    BY <1>3, <1>4 DEF G

-----------------------------------------------------------------------------
(* Parts of a sequence                                                     *)

LEMMA CutAt ==
    ASSUME NEW S, NEW t \in Seq(S), NEW k \in 0 .. Len(t)
    PROVE  /\ SubSeq(t, 1, k) \in Seq(S) /\ Len(SubSeq(t, 1, k)) = k
           /\ \A i \in 1 .. k : SubSeq(t, 1, k)[i] = t[i]
           /\ SubSeq(t, k + 1, Len(t)) \in Seq(S) /\ Len(SubSeq(t, k + 1, Len(t))) = Len(t) - k
           /\ \A i \in 1 .. Len(t) - k : SubSeq(t, k + 1, Len(t))[i] = t[i + k]
           /\ t = SubSeq(t, 1, k) \o SubSeq(t, k + 1, Len(t))
  <1>1. SubSeq(t, 1, k) \in Seq(S) /\ Len(SubSeq(t, 1, k)) = k
    OBVIOUS
  <1>2. \A i \in 1 .. k : SubSeq(t, 1, k)[i] = t[i]
    OBVIOUS
  <1>3. SubSeq(t, k + 1, Len(t)) \in Seq(S) /\ Len(SubSeq(t, k + 1, Len(t))) = Len(t) - k
    OBVIOUS
  <1>4. \A i \in 1 .. Len(t) - k : SubSeq(t, k + 1, Len(t))[i] = t[i + k]
    OBVIOUS
  <1>5. t = SubSeq(t, 1, k) \o SubSeq(t, k + 1, Len(t))
    <2>1. 1 \in 1 .. Len(t) + 1 /\ k \in 1 - 1 .. Len(t) /\ Len(t) \in k .. Len(t)
      OBVIOUS
    <2>2. SubSeq(t, 1, k) \o SubSeq(t, k + 1, Len(t)) = SubSeq(t, 1, Len(t))
      BY <2>1, ConcatAdjacentSubSeq
    <2> QED
      BY <2>2, SubSeqFull
  <1> QED
    BY <1>1, <1>2, <1>3, <1>4, <1>5

LEMMA ReverseProperties ==
    ASSUME NEW S, NEW t \in Seq(S)
    PROVE  /\ Reverse(t) \in Seq(S) /\ Len(Reverse(t)) = Len(t)
           /\ \A i \in 1 .. Len(t) : Reverse(t)[i] = t[Len(t) - i + 1]
  <1>1. \A i \in 1 .. Len(t) : Len(t) - i + 1 \in 1 .. Len(t)
    OBVIOUS
  <1>2. \A i \in 1 .. Len(t) : t[Len(t) - i + 1] \in S
    BY <1>1
  <1>3. [i \in 1 .. Len(t) |-> t[Len(t) - i + 1]] \in Seq(S)
    BY <1>2
  <1> QED
    BY <1>3 DEF Reverse

LEMMA ReverseCut ==
    ASSUME NEW S, NEW u \in Seq(S), NEW k \in 0 .. Len(u)
    PROVE  Reverse(SubSeq(Reverse(u), k + 1, Len(u))) = SubSeq(u, 1, Len(u) - k)
  <1>1. PICK r \in Seq(S) : r = Reverse(u) /\ Len(r) = Len(u)
    BY ReverseProperties
  <1>2. \A i \in 1 .. Len(u) : r[i] = u[Len(u) - i + 1]
    BY <1>1, ReverseProperties
  <1>3. k \in 0 .. Len(r)
    BY <1>1
  <1>4. PICK v \in Seq(S) : v = SubSeq(r, k + 1, Len(u)) /\ Len(v) = Len(u) - k
    <2>1. SubSeq(r, k + 1, Len(r)) \in Seq(S) /\ Len(SubSeq(r, k + 1, Len(r))) = Len(r) - k
      BY <1>3, CutAt
    <2> QED
      BY <1>1, <2>1, Zenon
  <1>5. \A i \in 1 .. Len(u) - k : v[i] = r[i + k]
    BY <1>1, <1>3, <1>4, CutAt
  <1>6. PICK w \in Seq(S) : w = Reverse(v) /\ Len(w) = Len(v)
    BY ReverseProperties
  <1>7. \A i \in 1 .. Len(v) : w[i] = v[Len(v) - i + 1]
    BY <1>6, ReverseProperties
  <1>8. Len(u) \in Nat /\ Len(u) - k \in 0 .. Len(u)
    OBVIOUS
  <1>9. PICK s \in Seq(S) : s = SubSeq(u, 1, Len(u) - k) /\ Len(s) = Len(u) - k
    BY <1>8, CutAt
  <1>10. \A i \in 1 .. Len(u) - k : s[i] = u[i]
    BY <1>8, <1>9, CutAt
  <1>11. ASSUME NEW i \in 1 .. Len(w) PROVE w[i] = s[i]
    <2>1. i \in 1 .. Len(u) - k /\ i \in 1 .. Len(v)
      BY <1>4, <1>6
    <2>2. PICK j \in 1 .. Len(u) - k : j = Len(v) - i + 1
      <3>1. Len(v) - i + 1 \in 1 .. Len(u) - k
        BY <1>4, <1>8, <2>1
      <3> QED
        BY <3>1, Zenon
    <2>3. PICK m \in 1 .. Len(u) : m = j + k
      <3>1. j + k \in 1 .. Len(u)
        BY <1>8, <2>2
      <3> QED
        BY <3>1, Zenon
    <2>4. Len(u) - m + 1 = i
      BY <1>4, <1>8, <2>1, <2>2, <2>3
    <2>5. w[i] = v[j] /\ v[j] = r[m]
      BY <1>5, <1>7, <2>1, <2>2, <2>3
    <2>6. r[m] = u[i]
      BY <1>2, <2>4
    <2> QED
      BY <1>10, <2>1, <2>5, <2>6
  <1>12. w = s
    BY <1>4, <1>6, <1>9, <1>11, SeqEqual, ZenonT(40)
  <1> QED
    BY <1>1, <1>4, <1>6, <1>9, <1>12

LEMMA Pair ==
    ASSUME NEW S, NEW x \in S, NEW y \in S
    PROVE  /\ <<x>> \o <<y>> = <<x, y>>
           /\ <<>> \o <<x>> = <<x>> /\ <<x>> \o <<>> = <<x>>
           /\ <<x>> \in Seq(S) /\ <<x, y>> \in Seq(S)
  <1>1. <<x>> \in Seq(S) /\ <<y>> \in Seq(S) /\ Len(<<x>>) = 1 /\ Len(<<y>>) = 1
    OBVIOUS
  <1>2. <<x, y>> \in Seq(S) /\ Len(<<x, y>>) = 2
    OBVIOUS
  <1>3. /\ <<x>> \o <<y>> \in Seq(S) /\ Len(<<x>> \o <<y>>) = 2
        /\ (<<x>> \o <<y>>)[1] = x /\ (<<x>> \o <<y>>)[2] = y
    BY <1>1
  <1>4. \A i \in 1 .. 2 : (<<x>> \o <<y>>)[i] = <<x, y>>[i]
    BY <1>3
  <1>5. <<x>> \o <<y>> = <<x, y>>
    BY <1>2, <1>3, <1>4, SeqEqual
  <1> QED
    BY <1>1, <1>2, <1>5, ConcatEmptySeq

LEMMA SuffixIs ==
    ASSUME NEW A, NEW B, NEW s \in Seq(A), NEW u \in Seq(B), IsSuffix(s, u)
    PROVE  /\ Len(s) <= Len(u)
           /\ \A k \in 1 .. Len(s) : s[k] = u[Len(u) - Len(s) + k]
  <1>1. PICK r \in Seq(A) : r = Reverse(s) /\ Len(r) = Len(s)
    BY ReverseProperties
  <1>2. PICK v \in Seq(B) : v = Reverse(u) /\ Len(v) = Len(u)
    BY ReverseProperties
  <1>3. Len(r) <= Len(v) /\ SubSeq(r, 1, Len(r)) = SubSeq(v, 1, Len(r))
    BY <1>1, <1>2 DEF IsSuffix, IsPrefix
  <1>4. \A k \in 1 .. Len(r) : r[k] = v[k]
    <2>1. ASSUME NEW k \in 1 .. Len(r) PROVE r[k] = v[k]
      <3>1. SubSeq(r, 1, Len(r))[k] = r[k] /\ SubSeq(v, 1, Len(r))[k] = v[k]
        BY <1>3
      <3> QED
        BY <1>3, <3>1
    <2> QED
      BY <2>1
  <1>5. ASSUME NEW k \in 1 .. Len(s) PROVE s[k] = u[Len(u) - Len(s) + k]
    <2>1. /\ Len(s) - k + 1 \in 1 .. Len(s) /\ Len(s) - k + 1 \in 1 .. Len(u)
          /\ Len(s) - (Len(s) - k + 1) + 1 = k
          /\ Len(u) - (Len(s) - k + 1) + 1 = Len(u) - Len(s) + k
      BY <1>1, <1>2, <1>3
    <2>2. r[Len(s) - k + 1] = s[k]
      <3>1. r[Len(s) - k + 1] = s[Len(s) - (Len(s) - k + 1) + 1]
        BY <1>1, <2>1, ReverseProperties
      <3> QED
        BY <2>1, <3>1
    <2>3. v[Len(s) - k + 1] = u[Len(u) - Len(s) + k]
      <3>1. v[Len(s) - k + 1] = u[Len(u) - (Len(s) - k + 1) + 1]
        BY <1>2, <2>1, ReverseProperties
      <3> QED
        BY <2>1, <3>1
    <2>4. r[Len(s) - k + 1] = v[Len(s) - k + 1]
      BY <1>1, <1>4, <2>1
    <2> QED
      BY <2>2, <2>3, <2>4
  <1> QED
    BY <1>1, <1>2, <1>3, <1>5

\* A sequence is all but its last element, then that.
LEMMA FrontAndLast ==
    ASSUME NEW S, NEW s \in Seq(S), s # <<>>
    PROVE  \E f \in Seq(S), l \in S : f = Front(s) /\ l = Last(s) /\ s = f \o <<l>>
  <1>1. Len(s) \in Nat /\ Len(s) - 1 \in 0 .. Len(s) /\ Len(s) \in 1 .. Len(s)
    BY EmptySeq, LenProperties
  <1> DEFINE f == SubSeq(s, 1, Len(s) - 1)
             l == s[Len(s)]
  <1>2. f \in Seq(S) /\ Len(f) = Len(s) - 1 /\ \A i \in 1 .. Len(s) - 1 : f[i] = s[i]
    BY <1>1, CutAt, ZenonT(40)
  <1>3. l \in S /\ f = Front(s) /\ l = Last(s)
    BY <1>1 DEF Front, Last
  <1> HIDE DEF f
  <1>4. f \o <<l>> \in Seq(S) /\ Len(f \o <<l>>) = Len(s)
    BY <1>1, <1>2, <1>3
  <1>5. \A i \in 1 .. Len(s) : (f \o <<l>>)[i] = s[i]
    BY <1>1, <1>2, <1>3
  <1>6. f \o <<l>> = s
    BY <1>4, <1>5, SeqEqual
  <1> QED
    BY <1>2, <1>3, <1>6

LEMMA OneElement ==
    ASSUME NEW S, NEW x \in S
    PROVE  \E s \in Seq(S) : s = <<x>> /\ Len(s) = 1 /\ s[1] = x
  <1>1. <<x>> \in Seq(S) /\ Len(<<x>>) = 1 /\ <<x>>[1] = x
    OBVIOUS
  <1> QED
    BY <1>1

LEMMA NoneYet == ASSUME NEW S PROVE \E s \in Seq(S) : s = <<>>
  <1>1. <<>> \in Seq(S)
    OBVIOUS
  <1> QED
    BY <1>1

\* u is s and then t.
IsJoint(u, s, t) ==
    /\ u = s \o t /\ Len(u) = Len(s) + Len(t)
    /\ \A i \in 1 .. Len(s) : u[i] = s[i]
    /\ \A i \in 1 .. Len(t) : u[Len(s) + i] = t[i]

LEMMA Joint ==
    ASSUME NEW S, NEW s \in Seq(S), NEW t \in Seq(S)
    PROVE  \E u \in Seq(S) : IsJoint(u, s, t)
  <1>1. /\ s \o t \in Seq(S) /\ Len(s \o t) = Len(s) + Len(t)
        /\ \A i \in 1 .. Len(s) : (s \o t)[i] = s[i]
        /\ \A i \in 1 .. Len(t) : (s \o t)[Len(s) + i] = t[i]
    OBVIOUS
  <1> QED
    BY <1>1 DEF IsJoint

LEMMA HeadAndTail ==
    ASSUME NEW S, NEW s \in Seq(S), s # <<>>
    PROVE  \E h \in S, t \in Seq(S) : h = Head(s) /\ t = Tail(s) /\ s = <<h>> \o t
  <1>1. PICK t \in Seq(S) :
          /\ t = Tail(s) /\ Head(s) \in S /\ Len(t) = Len(s) - 1
          /\ \A i \in 1 .. Len(t) : t[i] = s[i + 1]
    BY HeadTailProperties
  <1>2. PICK one \in Seq(S) : one = <<Head(s)>> /\ Len(one) = 1 /\ one[1] = Head(s)
    BY <1>1, OneElement
  <1>3. PICK u \in Seq(S) : IsJoint(u, one, t)
    BY Joint
  <1>4. Len(s) \in Nat /\ Len(s) # 0 /\ Head(s) = s[1]
    BY EmptySeq
  <1>5. Len(u) = Len(s)
    BY <1>1, <1>2, <1>3, <1>4 DEF IsJoint
  <1>6. ASSUME NEW i \in 1 .. Len(s) PROVE u[i] = s[i]
    <2>1. CASE i = 1
      <3>1. 1 \in 1 .. Len(one)
        BY <1>2
      <3> QED
        BY <1>2, <1>3, <1>4, <2>1, <3>1 DEF IsJoint
    <2>2. CASE i # 1
      <3>1. PICK j \in 1 .. Len(t) : i = 1 + j /\ i = j + 1
        <4>1. i - 1 \in 1 .. Len(t) /\ i = 1 + (i - 1)
          BY <1>1, <1>4, <2>2
        <4> QED
          BY <4>1
      <3>2. u[1 + j] = t[j]
        BY <1>2, <1>3 DEF IsJoint
      <3> QED
        BY <1>1, <3>1, <3>2
    <2> QED
      BY <2>1, <2>2
  <1>7. u = s
    BY <1>5, <1>6, SeqEqual
  <1> QED
    BY <1>1, <1>2, <1>3, <1>7 DEF IsJoint

\* p and q are what is in front of the k-th element and behind it.
AreAround(p, q, t, k, S) ==
    /\ Len(p) = k - 1
    /\ \A i \in 1 .. k - 1 : p[i] = t[i]
    /\ \A x \in S : [t EXCEPT ![k] = x] = p \o (<<x>> \o q)

LEMMA Around ==
    ASSUME NEW S, NEW T \in SUBSET S, NEW t \in Seq(T), NEW k \in 1 .. Len(t)
    PROVE  \E p \in Seq(T), q \in Seq(T) : AreAround(p, q, t, k, S)
  <1>1. k \in 0 .. Len(t) /\ Len(t) \in Nat
    OBVIOUS
  <1>2. PICK j \in 0 .. Len(t) : j = k - 1
    OBVIOUS
  <1>3. PICK p \in Seq(T) : Len(p) = k - 1 /\ \A i \in 1 .. k - 1 : p[i] = t[i]
    <2>1. /\ SubSeq(t, 1, j) \in Seq(T) /\ Len(SubSeq(t, 1, j)) = j
          /\ \A i \in 1 .. j : SubSeq(t, 1, j)[i] = t[i]
      BY CutAt
    <2> QED
      BY <1>2, <2>1
  <1>4. PICK q \in Seq(T) : Len(q) = Len(t) - k /\ \A i \in 1 .. Len(t) - k : q[i] = t[i + k]
    <2>1. /\ SubSeq(t, k + 1, Len(t)) \in Seq(T) /\ Len(SubSeq(t, k + 1, Len(t))) = Len(t) - k
          /\ \A i \in 1 .. Len(t) - k : SubSeq(t, k + 1, Len(t))[i] = t[i + k]
      BY <1>1, CutAt
    <2> QED
      BY <2>1
  <1>5. ASSUME NEW x \in S
        PROVE  [t EXCEPT ![k] = x] = p \o (<<x>> \o q)
    <2>1. PICK one \in Seq(S) : one = <<x>> /\ Len(one) = 1 /\ one[1] = x
      BY OneElement
    <2> p \in Seq(S) /\ q \in Seq(S) /\ t \in Seq(S)
      BY SeqMonotonic
    <2>2. PICK r \in Seq(S) : IsJoint(r, one, q)
      BY Joint
    <2>3. PICK l \in Seq(S) : IsJoint(l, p, r)
      BY Joint
    <2>4. /\ r = one \o q /\ Len(r) = 1 + Len(q) /\ r[1] = x
          /\ \A i \in 1 .. Len(q) : r[1 + i] = q[i]
      BY <2>1, <2>2 DEF IsJoint
    <2>5. /\ l = p \o r /\ Len(l) = Len(p) + Len(r)
          /\ \A i \in 1 .. Len(p) : l[i] = p[i]
          /\ \A i \in 1 .. Len(r) : l[Len(p) + i] = r[i]
      BY <2>3 DEF IsJoint
    <2>6. PICK s \in Seq(S) : /\ s = [t EXCEPT ![k] = x] /\ Len(s) = Len(t) /\ s[k] = x
                              /\ \A i \in 1 .. Len(t) : i # k => s[i] = t[i]
      <3>1. [t EXCEPT ![k] = x] \in Seq(S) /\ Len([t EXCEPT ![k] = x]) = Len(t)
        BY ExceptSeq
      <3>2. [t EXCEPT ![k] = x][k] = x
        BY DOMAIN t = 1 .. Len(t)
      <3>3. \A i \in 1 .. Len(t) : i # k => [t EXCEPT ![k] = x][i] = t[i]
        BY DOMAIN t = 1 .. Len(t)
      <3> QED
        BY <3>1, <3>2, <3>3
    <2>7. Len(q) \in Nat /\ k \in Nat /\ Len(l) = Len(s)
      <3>1. /\ Len(q) = Len(t) - k /\ Len(p) = k - 1 /\ Len(r) = 1 + Len(q)
            /\ Len(l) = Len(p) + Len(r) /\ Len(s) = Len(t)
        BY <1>3, <1>4, <2>4, <2>5, <2>6
      <3>2. Len(t) \in Nat /\ k \in Nat /\ Len(q) \in Nat
        BY <1>1
      <3> QED
        BY ONLY <3>1, <3>2
    <2>8. ASSUME NEW i \in 1 .. Len(s)
          PROVE  l[i] = s[i]
      <3>1. CASE i < k
        <4>1. i \in 1 .. k - 1 /\ i \in 1 .. Len(p)
          BY <1>3, <2>7, <3>1
        <4> QED
          BY <1>3, <2>5, <2>6, <3>1, <4>1
      <3>2. CASE i = k
        <4>1. 1 \in 1 .. Len(r) /\ Len(p) + 1 = i
          BY <1>3, <2>1, <2>4, <2>7, <3>2
        <4> QED
          BY <2>1, <2>4, <2>5, <2>6, <3>2, <4>1
      <3>3. CASE i > k
        <4>1. PICK d \in 1 .. Len(q) : i = k + d
          <5>1. i - k \in 1 .. Len(q) /\ i = k + (i - k)
            BY <1>1, <1>4, <2>6, <2>7, <3>3
          <5> QED
            BY <5>1
        <4>2. 1 + d \in 1 .. Len(r) /\ i = Len(p) + (1 + d) /\ d + k = i
          BY <1>3, <2>1, <2>4, <2>7, <4>1
        <4>3. l[i] = q[d]
          BY <2>1, <2>4, <2>5, <4>1, <4>2
        <4>4. q[d] = t[i]
          BY <1>4, <4>1, <4>2
        <4> QED
          BY <2>6, <3>3, <4>3, <4>4
      <3> QED
        BY <2>7, <3>1, <3>2, <3>3
    <2>9. l = s
      BY <2>7, <2>8, SeqEqual
    <2> QED
      BY <2>1, <2>4, <2>5, <2>6, <2>9
  <1> QED
    BY <1>3, <1>5 DEF AreAround
-----------------------------------------------------------------------------
(* Induction over a sequence                                               *)

\* u is s and then x.
IsLonger(u, s, x) ==
    /\ u = s \o <<x>> /\ Len(u) = Len(s) + 1 /\ u[Len(s) + 1] = x
    /\ \A i \in 1 .. Len(s) : u[i] = s[i]

LEMMA Longer ==
    ASSUME NEW S, NEW s \in Seq(S), NEW x \in S
    PROVE  \E u \in Seq(S) : u = s \o <<x>> /\ IsLonger(u, s, x)
  <1>1. PICK one \in Seq(S) : one = <<x>> /\ Len(one) = 1 /\ one[1] = x
    BY OneElement
  <1>2. PICK u \in Seq(S) : IsJoint(u, s, one)
    BY Joint
  <1>3. IsLonger(u, s, x)
    BY <1>1, <1>2 DEF IsJoint, IsLonger
  <1> QED
    BY <1>3 DEF IsLonger

\* A set that has the empty sequence and every longer one of what it has.
LEMMA SequenceInduction ==
    ASSUME NEW S, NEW G, <<>> \in G,
           \A s \in Seq(S), x \in S, u \in Seq(S) : s \in G /\ IsLonger(u, s, x) => u \in G,
           NEW t \in Seq(S)
    PROVE  t \in G
  <1> DEFINE part(k) == SubSeq(t, 1, k)
             H == {k \in 0 .. Len(t) : part(k) \in G}
  <1>1. 0 \in H
    <2>1. part(0) = <<>> /\ 0 \in 0 .. Len(t)
      OBVIOUS
    <2> HIDE DEF part
    <2> QED
      BY <2>1
  <1>2. ASSUME NEW k \in 0 .. Len(t), k < Len(t), k \in H PROVE k + 1 \in H
    <2>1. k + 1 \in 0 .. Len(t) /\ t[k + 1] \in S
      BY <1>2
    <2>2. part(k + 1) = part(k) \o <<t[k + 1]>>
      <3>1. part(k + 1) = Append(part(k), t[k + 1])
        BY <1>2
      <3>2. part(k) \in Seq(S)
        OBVIOUS
      <3> HIDE DEF part
      <3> QED
        BY <2>1, <3>1, <3>2, SMTT(30)
    <2>3. part(k) \in Seq(S)
      OBVIOUS
    <2> HIDE DEF part
    <2>4. PICK x \in S, p \in Seq(S) : x = t[k + 1] /\ p = part(k)
      BY <2>1, <2>3
    <2>5. PICK u \in Seq(S) : u = p \o <<x>> /\ IsLonger(u, p, x)
      BY Longer
    <2>6. u \in G
      BY <1>2, <2>4, <2>5
    <2> QED
      BY <2>1, <2>2, <2>4, <2>5, <2>6
  <1>3. part(Len(t)) = t
    OBVIOUS
  <1> HIDE DEF H
  <1>4. Len(t) \in H
    BY <1>1, <1>2, Induction
  <1> QED
    BY <1>3, <1>4 DEF H

\* e for each element, and d for each element before it.
LEMMA FlatMapLonger ==
    ASSUME NEW A, NEW B, NEW e \in Each(A, Seq(B)), NEW s \in Seq(A), NEW x \in A,
           NEW u \in Seq(A), IsLonger(u, s, x)
    PROVE  /\ e[x] \in Seq(B) /\ FlatMap(e, s) \in Seq(B)
           /\ FlatMap(e, u) = FlatMap(e, s) \o e[x]
  <1>1. PICK one \in Seq(A) : one = <<x>>
    BY OneElement
  <1>2. FlatMap(e, s \o one) = FlatMap(e, s) \o FlatMap(e, one)
    BY FlatMapConcat
  <1>3. FlatMap(e, <<x>>) = e[x]
    BY FlatMapOne
  <1>4. u = s \o one
    BY <1>1 DEF IsLonger
  <1>5. e[x] \in Seq(B)
    BY DEF Each
  <1>6. FlatMap(e, s) \in Seq(B)
    BY FlatMapType
  <1> QED
    BY <1>1, <1>2, <1>3, <1>4, <1>5, <1>6, Zenon

LEMMA FlatMapNone ==
    ASSUME NEW A, NEW B, NEW e \in Each(A, Seq(B)), \A x \in A : e[x] = <<>>, NEW t \in Seq(A)
    PROVE  FlatMap(e, t) = <<>>
  <1> DEFINE G == {s \in Seq(A) : FlatMap(e, s) = <<>>}
  <1>1. <<>> \in G
    BY FlatMapEmpty
  <1>2. ASSUME NEW s \in Seq(A), NEW x \in A, NEW u \in Seq(A), s \in G, IsLonger(u, s, x)
        PROVE  u \in G
    <2>1. FlatMap(e, u) = FlatMap(e, s) \o e[x]
      BY <1>2, FlatMapLonger
    <2>2. FlatMap(e, s) = <<>> /\ e[x] = <<>> /\ <<>> \o <<>> = <<>>
      BY <1>2, ConcatEmptySeq, EmptySeq
    <2>3. FlatMap(e, u) = <<>>
      BY <2>1, <2>2, Zenon
    <2> QED
      BY <2>1, <2>3
  <1> HIDE DEF G
  <1>3. t \in G
    BY <1>1, <1>2, SequenceInduction
  <1> QED
    BY <1>3 DEF G

\* One pass instead of two.
LEMMA FlatMapTwice ==
    ASSUME NEW A, NEW B, NEW C, NEW d \in Each(A, Seq(B)), NEW e \in Each(B, Seq(C)),
           NEW c \in Each(A, Seq(C)), \A x \in A : FlatMap(e, d[x]) = c[x], NEW t \in Seq(A)
    PROVE  FlatMap(e, FlatMap(d, t)) = FlatMap(c, t)
  <1> DEFINE G == {s \in Seq(A) : FlatMap(e, FlatMap(d, s)) = FlatMap(c, s)}
  <1>1. <<>> \in G
    <2>1. FlatMap(d, <<>>) = <<>> /\ FlatMap(e, <<>>) = <<>> /\ FlatMap(c, <<>>) = <<>>
      BY FlatMapEmpty
    <2> QED
      BY <2>1
  <1>2. ASSUME NEW s \in Seq(A), NEW x \in A, NEW u \in Seq(A), s \in G, IsLonger(u, s, x)
        PROVE  u \in G
    <2>1. /\ d[x] \in Seq(B) /\ FlatMap(d, s) \in Seq(B)
          /\ FlatMap(d, u) = FlatMap(d, s) \o d[x]
      BY <1>2, FlatMapLonger
    <2>2. FlatMap(c, u) = FlatMap(c, s) \o c[x]
      BY <1>2, FlatMapLonger
    <2>3. FlatMap(e, FlatMap(d, s) \o d[x]) = FlatMap(e, FlatMap(d, s)) \o FlatMap(e, d[x])
      <3>1. PICK y \in Seq(B), z \in Seq(B) : y = FlatMap(d, s) /\ z = d[x]
        BY <2>1
      <3>2. FlatMap(e, y \o z) = FlatMap(e, y) \o FlatMap(e, z)
        BY FlatMapConcat, SMTT(60)
      <3> QED
        BY <3>1, <3>2
    <2>4. FlatMap(e, FlatMap(d, s)) = FlatMap(c, s) /\ FlatMap(e, d[x]) = c[x]
      BY <1>2
    <2>5. FlatMap(e, FlatMap(d, u)) = FlatMap(c, u)
      BY <2>1, <2>2, <2>3, <2>4, Zenon
    <2> QED
      BY <2>1, <2>5
  <1> HIDE DEF G
  <1>3. t \in G
    BY <1>1, <1>2, SequenceInduction
  <1> QED
    BY <1>3 DEF G

LEMMA NotBothEmpty ==
    ASSUME NEW S, NEW s \in Seq(S), NEW t \in Seq(S), s # <<>> \/ t # <<>>
    PROVE  s \o t # <<>>
  <1>1. Len(s) \in Nat /\ Len(t) \in Nat /\ Len(s \o t) = Len(s) + Len(t)
    OBVIOUS
  <1>2. Len(s) # 0 \/ Len(t) # 0
    BY EmptySeq
  <1>3. Len(s \o t) # 0
    BY <1>1, <1>2
  <1>4. Len(<<>>) = 0
    OBVIOUS
  <1> QED
    BY <1>3, <1>4

\* An element that gives something.
LEMMA FlatMapSome ==
    ASSUME NEW A, NEW B, NEW e \in Each(A, Seq(B)), NEW t \in Seq(A),
           NEW k \in 1 .. Len(t), e[t[k]] # <<>>
    PROVE  FlatMap(e, t) # <<>>
  <1> DEFINE G == {s \in Seq(A) : FlatMap(e, s) = <<>> => \A i \in 1 .. Len(s) : e[s[i]] = <<>>}
  <1>1. <<>> \in G
    OBVIOUS
  <1>2. ASSUME NEW s \in Seq(A), NEW x \in A, NEW u \in Seq(A), s \in G, IsLonger(u, s, x)
        PROVE  u \in G
    <2>1. /\ e[x] \in Seq(B) /\ FlatMap(e, s) \in Seq(B)
          /\ FlatMap(e, u) = FlatMap(e, s) \o e[x]
      BY <1>2, FlatMapLonger
    <2>2. ASSUME FlatMap(e, u) = <<>>, NEW i \in 1 .. Len(u)
          PROVE  e[u[i]] = <<>>
      <3>1. FlatMap(e, s) = <<>> /\ e[x] = <<>>
        <4>1. FlatMap(e, s) \o e[x] = <<>>
          BY <2>1, <2>2
        <4> QED
          BY <2>1, <4>1, NotBothEmpty
      <3>2. u[i] = x \/ (i \in 1 .. Len(s) /\ u[i] = s[i])
        BY <1>2 DEF IsLonger
      <3> QED
        BY <1>2, <3>1, <3>2
    <2> QED
      BY <2>1, <2>2
  <1> HIDE DEF G
  <1>3. t \in G
    BY <1>1, <1>2, SequenceInduction
  <1> QED
    BY <1>3 DEF G

\* Whatever comes out comes out of some element.
LEMMA FlatMapFrom ==
    ASSUME NEW A, NEW B, NEW e \in Each(A, Seq(B)), NEW t \in Seq(A),
           NEW R, \A i \in 1 .. Len(t) : e[t[i]] \in Seq(R)
    PROVE  FlatMap(e, t) \in Seq(R)
  <1>1. Map(e, t) \in Seq(Seq(R))
    <2>1. /\ Map(e, t) \in Seq(Seq(B)) /\ Len(Map(e, t)) = Len(t)
          /\ \A i \in 1 .. Len(t) : Map(e, t)[i] = e[t[i]]
      BY MapType
    <2>2. \A i \in 1 .. Len(Map(e, t)) : Map(e, t)[i] \in Seq(R)
      BY <2>1
    <2> DEFINE m == Map(e, t)
    <2>3. m \in Seq(Seq(B)) /\ \A i \in 1 .. Len(m) : m[i] \in Seq(R)
      BY <2>1, <2>2
    <2> HIDE DEF m
    <2>4. m \in Seq(Seq(R))
      BY <2>3, SMTT(60)
    <2> QED
      BY <2>4 DEF m
  <1> QED
    BY <1>1, FlattenType DEF FlatMap

\* A prefix says what the longer sequence says first.
LEMMA PrefixIs ==
    ASSUME NEW S, NEW s \in Seq(S), NEW t \in Seq(S)
    PROVE  IsPrefix(s, t) <=> Len(s) <= Len(t) /\ \A i \in 1 .. Len(s) : s[i] = t[i]
  <1>1. Len(s) \in Nat /\ Len(t) \in Nat
    OBVIOUS
  <1>2. SubSeq(s, 1, Len(s)) = s
    OBVIOUS
  <1>3. ASSUME Len(s) <= Len(t)
        PROVE  SubSeq(s, 1, Len(s)) = SubSeq(t, 1, Len(s)) <=> \A i \in 1 .. Len(s) : s[i] = t[i]
    <2> DEFINE u == SubSeq(t, 1, Len(s))
    <2>1. u \in Seq(S) /\ Len(u) = Len(s) /\ \A i \in 1 .. Len(s) : u[i] = t[i]
      BY <1>1, <1>3
    <2> HIDE DEF u
    <2>2. (\A i \in 1 .. Len(s) : s[i] = u[i]) => s = u
      BY <2>1
    <2> QED
      BY <1>2, <2>1, <2>2 DEF u
  <1> QED
    BY <1>3 DEF IsPrefix
=============================================================================
