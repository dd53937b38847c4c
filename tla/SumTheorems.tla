---------------------------- MODULE SumTheorems ----------------------------
(***************************************************************************)
(* Facts about sums: a sum over a finite set is a natural number, bounds   *)
(* each of its terms, and changes by as much as the one term that changes; *)
(* sums grow with their terms, add up, and can be taken group by group.    *)
(***************************************************************************)
EXTENDS Sums, FiniteSetTheorems, FunctionTheorems, TLAPS

\* The units of the terms other than a.
UnitsBut(f, S, a) == UNION {UnitsOf(f, x) : x \in S \ {a}}

\* A term has as many units as its value.
LEMMA UnitsOfCardinality ==
  ASSUME NEW S, NEW f \in [S -> Nat], NEW x \in S
  PROVE  IsFiniteSet(UnitsOf(f, x)) /\ Cardinality(UnitsOf(f, x)) = f[x]
<1>1. IsFiniteSet({x}) /\ Cardinality({x}) = 1
  BY FS_Singleton
<1>2. IsFiniteSet(1 .. f[x]) /\ Cardinality(1 .. f[x]) = f[x]
  <2>1. f[x] \in Nat
    OBVIOUS
  <2> QED BY <2>1, FS_Interval
<1>3. /\ IsFiniteSet({x} \X (1 .. f[x]))
      /\ Cardinality({x} \X (1 .. f[x])) = Cardinality({x}) * Cardinality(1 .. f[x])
  BY <1>1, <1>2, FS_Product
<1>4. f[x] \in Nat /\ 1 * f[x] = f[x]
  OBVIOUS
<1> QED BY <1>1, <1>2, <1>3, <1>4 DEF UnitsOf

\* A finite set of terms has finitely many units.
LEMMA UnitsFinite ==
  ASSUME NEW S, IsFiniteSet(S), NEW f \in [S -> Nat], NEW T \in SUBSET S
  PROVE  IsFiniteSet(UNION {UnitsOf(f, x) : x \in T})
<1> DEFINE U == {UnitsOf(f, x) : x \in T}
           u == [x \in T |-> UnitsOf(f, x)]
<1>1. IsFiniteSet(T)
  BY FS_Subset
<1>2. u \in Surjection(T, U)
  BY DEF Surjection
<1>3. IsFiniteSet(U)
  BY <1>1, <1>2, FS_Surjection
<1>4. \A V \in U : IsFiniteSet(V)
  BY UnitsOfCardinality
<1> QED BY <1>3, <1>4, FS_UNION

\* A sum is one of its terms and the units of the others.
LEMMA SumSplit ==
  ASSUME NEW S, IsFiniteSet(S), NEW f \in [S -> Nat], NEW a \in S
  PROVE  /\ Cardinality(UnitsBut(f, S, a)) \in Nat
         /\ SumOver(f) = f[a] + Cardinality(UnitsBut(f, S, a))
<1> DEFINE A == UnitsOf(f, a)
           B == UnitsBut(f, S, a)
<1>1. IsFiniteSet(A) /\ Cardinality(A) = f[a]
  BY UnitsOfCardinality
<1>2. IsFiniteSet(B)
  BY UnitsFinite DEF UnitsBut
<1>3. Units(f) = A \cup B
  BY DEF Units, UnitsBut
<1>4. A \cap B = {}
  BY DEF UnitsOf, UnitsBut
<1>5. Cardinality(A \cup B) = Cardinality(A) + Cardinality(B) - Cardinality(A \cap B)
  BY <1>1, <1>2, FS_Union
<1>6. Cardinality(A \cap B) = 0
  BY <1>4, FS_EmptySet
<1>7. Cardinality(B) \in Nat
  BY <1>2, FS_CardinalityType
<1>8. f[a] \in Nat
  OBVIOUS
<1> HIDE DEF A, B
<1>9. SumOver(f) = f[a] + Cardinality(B)
  BY <1>1, <1>3, <1>5, <1>6, <1>7, <1>8 DEF SumOver
<1> QED BY <1>7, <1>9 DEF B

\* A sum is a natural number.
THEOREM SumNat ==
  ASSUME NEW S, IsFiniteSet(S), NEW f \in [S -> Nat]
  PROVE  SumOver(f) \in Nat
<1>1. Units(f) = UNION {UnitsOf(f, x) : x \in S}
  BY DEF Units
<1>2. IsFiniteSet(Units(f))
  BY <1>1, UnitsFinite
<1> QED BY <1>2, FS_CardinalityType DEF SumOver

\* No term is larger than the sum.
THEOREM SumBoundsTerm ==
  ASSUME NEW S, IsFiniteSet(S), NEW f \in [S -> Nat], NEW a \in S
  PROVE  f[a] <= SumOver(f)
<1>1. f[a] \in Nat
  OBVIOUS
<1> QED BY <1>1, SumSplit

\* The sum of zeros is zero.
THEOREM SumOfZeros ==
  ASSUME NEW S, NEW f \in [S -> Nat], \A x \in S : f[x] = 0
  PROVE  SumOver(f) = 0
<1>1. \A x \in S : UnitsOf(f, x) = {}
  BY DEF UnitsOf
<1>2. Units(f) = {}
  BY <1>1 DEF Units
<1> QED BY <1>2, FS_EmptySet DEF SumOver

\* Two sums whose terms differ in one place differ by that difference.
THEOREM SumOneChange ==
  ASSUME NEW S, IsFiniteSet(S), NEW f \in [S -> Nat], NEW g \in [S -> Nat],
         NEW a \in S, \A x \in S \ {a} : g[x] = f[x]
  PROVE  SumOver(g) = SumOver(f) - f[a] + g[a]
<1>1. UnitsBut(g, S, a) = UnitsBut(f, S, a)
  <2>1. \A x \in S \ {a} : UnitsOf(g, x) = UnitsOf(f, x)
    BY DEF UnitsOf
  <2> QED BY <2>1 DEF UnitsBut
<1>2. f[a] \in Nat /\ g[a] \in Nat
  OBVIOUS
<1>3. SumOver(f) = f[a] + Cardinality(UnitsBut(f, S, a))
  BY SumSplit
<1>4. SumOver(g) = g[a] + Cardinality(UnitsBut(f, S, a))
  BY <1>1, SumSplit
<1>5. Cardinality(UnitsBut(f, S, a)) \in Nat
  BY SumSplit
<1> QED BY <1>2, <1>3, <1>4, <1>5

\* What one term loses and another gains leaves the sum as it is.
THEOREM SumTransfer ==
  ASSUME NEW S, IsFiniteSet(S), NEW f \in [S -> Nat], NEW g \in [S -> Nat],
         NEW a \in S, NEW b \in S, a # b,
         \A x \in S \ {a, b} : g[x] = f[x],
         g[a] + g[b] = f[a] + f[b]
  PROVE  SumOver(g) = SumOver(f)
<1> DEFINE h == [x \in S |-> IF x = a THEN g[a] ELSE f[x]]
<1>1. h \in [S -> Nat]
  OBVIOUS
<1>2. SumOver(h) = SumOver(f) - f[a] + h[a]
  BY <1>1, SumOneChange
<1>3. SumOver(g) = SumOver(h) - h[b] + g[b]
  BY <1>1, SumOneChange
<1>4. h[a] = g[a] /\ h[b] = f[b]
  OBVIOUS
<1>5. SumOver(f) \in Nat /\ f[a] \in Nat /\ f[b] \in Nat /\ g[a] \in Nat /\ g[b] \in Nat
  BY SumNat
<1> QED BY <1>2, <1>3, <1>4, <1>5

\* Zeros elsewhere add nothing to a sum.
THEOREM SumExtended ==
  ASSUME NEW S, NEW T, S \subseteq T, NEW f \in [S -> Nat], NEW g \in [T -> Nat],
         \A x \in S : g[x] = f[x], \A x \in T \ S : g[x] = 0
  PROVE  SumOver(g) = SumOver(f)
<1>1. /\ \A x \in S : UnitsOf(g, x) = UnitsOf(f, x)
      /\ \A x \in T \ S : UnitsOf(g, x) = {}
  BY DEF UnitsOf
<1>2. DOMAIN f = S /\ DOMAIN g = T
  OBVIOUS
<1>3. Units(g) = Units(f)
  BY <1>1, <1>2 DEF Units
<1> QED BY <1>3 DEF SumOver

\* What UnitsFinite says of all the terms.
LEMMA UnitsAre ==
  ASSUME NEW S, IsFiniteSet(S), NEW f \in [S -> Nat]
  PROVE  /\ IsFiniteSet(Units(f))
         /\ Units(f) = {u \in S \X Nat : u[2] \in 1 .. f[u[1]]}
<1>1. Units(f) = UNION {UnitsOf(f, x) : x \in S}
  BY DEF Units
<1>2. IsFiniteSet(Units(f))
  BY <1>1, UnitsFinite
<1>3. \A x \in S : UnitsOf(f, x) = {u \in S \X Nat : u[1] = x /\ u[2] \in 1 .. f[x]}
  BY DEF UnitsOf
<1> QED BY <1>1, <1>2, <1>3

\* Larger terms make a larger sum.
THEOREM SumMonotone ==
  ASSUME NEW S, IsFiniteSet(S), NEW f \in [S -> Nat], NEW g \in [S -> Nat],
         \A x \in S : f[x] <= g[x]
  PROVE  SumOver(f) <= SumOver(g)
<1>1. \A x \in S : f[x] \in Nat /\ g[x] \in Nat /\ 1 .. f[x] \subseteq 1 .. g[x]
  OBVIOUS
<1>2. Units(f) \subseteq Units(g)
  BY <1>1, UnitsAre
<1> QED BY <1>2, UnitsAre, FS_Subset DEF SumOver

\* The sum of two functions is the sum of their sums.
THEOREM SumPlus ==
  ASSUME NEW S, IsFiniteSet(S), NEW f \in [S -> Nat], NEW g \in [S -> Nat],
         NEW h \in [S -> Nat], \A x \in S : h[x] = f[x] + g[x]
  PROVE  SumOver(h) = SumOver(f) + SumOver(g)
<1> DEFINE A == Units(f)
           B == Units(g)
           C == {u \in Units(h) : u[2] > f[u[1]]}
           F == [u \in B |-> <<u[1], f[u[1]] + u[2]>>]
<1>1. /\ A = {u \in S \X Nat : u[2] \in 1 .. f[u[1]]}
      /\ B = {u \in S \X Nat : u[2] \in 1 .. g[u[1]]}
      /\ Units(h) = {u \in S \X Nat : u[2] \in 1 .. h[u[1]]}
      /\ IsFiniteSet(A) /\ IsFiniteSet(B) /\ IsFiniteSet(Units(h))
  BY UnitsAre
<1>2. \A x \in S : f[x] \in Nat /\ g[x] \in Nat /\ h[x] = f[x] + g[x]
  OBVIOUS
<1>3. Units(h) = A \cup C /\ A \cap C = {}
  BY <1>1, <1>2
<1>4. F \in Bijection(B, C)
  <2>1. F \in [B -> C]
    BY <1>1, <1>2
  <2>2. \A u, v \in B : F[u] = F[v] => u = v
    BY <1>1, <1>2
  <2>3. ASSUME NEW w \in C PROVE \E u \in B : F[u] = w
    <3> DEFINE u == <<w[1], w[2] - f[w[1]]>>
    <3>1. w[1] \in S /\ w[2] \in Nat /\ w[2] > f[w[1]] /\ w[2] <= f[w[1]] + g[w[1]] /\ w = <<w[1], w[2]>>
      BY <1>1, <1>2
    <3>2. u \in B
      BY <1>1, <1>2, <3>1
    <3>3. F[u] = w
      BY <1>2, <3>1, <3>2
    <3> QED BY <3>2, <3>3
  <2> QED BY <2>1, <2>2, <2>3, Fun_IsBij
<1> HIDE DEF A, B, C, F
<1>5. IsFiniteSet(C) /\ Cardinality(C) = Cardinality(B)
  BY <1>1, <1>4, FS_Bijection, Fun_ExistsBij
<1>6. Cardinality(A \cup C) = Cardinality(A) + Cardinality(C) - Cardinality(A \cap C)
  BY <1>1, <1>5, FS_Union
<1>7. Cardinality(A \cap C) = 0
  BY <1>3, FS_EmptySet
<1>8. Cardinality(A) \in Nat /\ Cardinality(B) \in Nat
  BY <1>1, FS_CardinalityType
<1>9. Cardinality(Units(h)) = Cardinality(A) + Cardinality(B)
  BY <1>3, <1>5, <1>6, <1>7, <1>8
<1> QED BY <1>9 DEF SumOver, A, B

\* Renaming the terms leaves the sum as it is, and so do zeros under other names.
THEOREM SumRenamed ==
  ASSUME NEW S, IsFiniteSet(S), NEW f \in [S -> Nat],
         NEW T, IsFiniteSet(T), NEW g \in [T -> Nat],
         NEW r \in Injection(S, T), \A x \in S : g[r[x]] = f[x],
         \A y \in T : (\A x \in S : y # r[x]) => g[y] = 0
  PROVE  SumOver(g) = SumOver(f)
<1> DEFINE A == Units(f)
           B == Units(g)
           F == [u \in A |-> <<r[u[1]], u[2]>>]
<1>1. /\ A = {u \in S \X Nat : u[2] \in 1 .. f[u[1]]}
      /\ B = {u \in T \X Nat : u[2] \in 1 .. g[u[1]]}
      /\ IsFiniteSet(A) /\ IsFiniteSet(B)
  BY UnitsAre
<1>2. /\ \A x \in S : r[x] \in T
      /\ \A x, y \in S : r[x] = r[y] => x = y
  BY DEF Injection, IsInjective
<1>3. F \in [A -> B]
  BY <1>1, <1>2
<1>4. \A u, v \in A : F[u] = F[v] => u = v
  BY <1>1, <1>2
<1>5. ASSUME NEW w \in B PROVE \E u \in A : F[u] = w
  <2>1. w[1] \in T /\ w[2] \in Nat /\ w[2] \in 1 .. g[w[1]] /\ w = <<w[1], w[2]>>
    BY <1>1
  <2>2. g[w[1]] # 0
    BY <2>1
  <2>3. PICK x \in S : w[1] = r[x]
    BY <2>1, <2>2
  <2>4. <<x, w[2]>> \in A
    BY <1>1, <2>1, <2>3
  <2>5. F[<<x, w[2]>>] = w
    BY <2>1, <2>3, <2>4
  <2> QED BY <2>4, <2>5
<1> HIDE DEF A, B, F
<1>6. F \in Bijection(A, B)
  BY <1>3, <1>4, <1>5, Fun_IsBij
<1>7. Cardinality(B) = Cardinality(A)
  BY <1>1, <1>6, FS_Bijection, Fun_ExistsBij
<1> QED BY <1>7 DEF SumOver, A, B

\* The part of a sum whose terms key gives to a.
Group(K, f, key, a) == [k \in K |-> IF key[k] = a THEN f[k] ELSE 0]

\* A sum can be taken group by group.
THEOREM SumGrouped ==
  ASSUME NEW K, IsFiniteSet(K), NEW f \in [K -> Nat], NEW A, IsFiniteSet(A), NEW key,
         \A k \in K : f[k] # 0 => key[k] \in A,
         NEW h, h = [a \in A |-> SumOver(Group(K, f, key, a))]
  PROVE  h \in [A -> Nat] /\ SumOver(h) = SumOver(f)
<1> DEFINE U(a) == Units(Group(K, f, key, a))
           e == [a \in A |-> CHOOSE b : b \in Bijection(1 .. h[a], U(a))]
           F == [u \in Units(h) |-> e[u[1]][u[2]]]
<1>1. ASSUME NEW a \in A
      PROVE  /\ h[a] \in Nat
             /\ U(a) = {u \in Units(f) : key[u[1]] = a}
             /\ e[a] \in Bijection(1 .. h[a], U(a))
  <2> DEFINE g == Group(K, f, key, a)
  <2>1. g \in [K -> Nat] /\ \A k \in K : g[k] = IF key[k] = a THEN f[k] ELSE 0
    BY DEF Group
  <2>2. h[a] = Cardinality(Units(g)) /\ U(a) = Units(g)
    BY DEF SumOver
  <2> HIDE DEF g
  <2>3. /\ IsFiniteSet(Units(g))
        /\ Units(g) = {u \in K \X Nat : u[2] \in 1 .. g[u[1]]}
        /\ Units(f) = {u \in K \X Nat : u[2] \in 1 .. f[u[1]]}
    BY <2>1, UnitsAre
  <2>4. Units(g) = {u \in Units(f) : key[u[1]] = a}
    BY <2>1, <2>3
  <2>5. h[a] \in Nat /\ ExistsBijection(1 .. h[a], Units(g))
    BY <2>2, <2>3, FS_CardinalityType
  <2>6. \E b : b \in Bijection(1 .. h[a], U(a))
    BY <2>2, <2>5 DEF ExistsBijection
  <2> HIDE DEF U
  <2>7. e[a] \in Bijection(1 .. h[a], U(a))
    BY <2>6
  <2> QED BY <2>2, <2>4, <2>5, <2>7
<1>2. h \in [A -> Nat]
  BY <1>1
<1>3. /\ Units(h) = {u \in A \X Nat : u[2] \in 1 .. h[u[1]]}
      /\ Units(f) = {u \in K \X Nat : u[2] \in 1 .. f[u[1]]}
      /\ IsFiniteSet(Units(h))
  BY <1>2, UnitsAre
<1> HIDE DEF e, U
<1>4. ASSUME NEW u \in Units(h)
      PROVE  /\ F[u] \in Units(f) /\ key[F[u][1]] = u[1]
             /\ u[1] \in A /\ u[2] \in 1 .. h[u[1]] /\ u = <<u[1], u[2]>>
             /\ F[u] = e[u[1]][u[2]]
  <2>1. u[1] \in A /\ u[2] \in 1 .. h[u[1]] /\ u = <<u[1], u[2]>>
    BY <1>3
  <2>2. e[u[1]][u[2]] \in U(u[1])
    BY <1>1, <2>1 DEF Bijection, Injection
  <2> QED BY <1>1, <2>1, <2>2
<1>5. \A u, v \in Units(h) : F[u] = F[v] => u = v
  <2> SUFFICES ASSUME NEW u \in Units(h), NEW v \in Units(h), F[u] = F[v]
               PROVE  u = v
    OBVIOUS
  <2>1. u[1] = v[1]
    BY <1>4
  <2>2. e[u[1]] \in Injection(1 .. h[u[1]], U(u[1]))
    BY <1>1, <1>4 DEF Bijection
  <2>3. /\ u[2] \in 1 .. h[u[1]] /\ v[2] \in 1 .. h[u[1]]
        /\ e[u[1]][u[2]] = e[u[1]][v[2]]
    BY <1>4, <2>1
  <2>4. u[2] = v[2]
    <3> DEFINE b == e[u[1]]
               I == 1 .. h[u[1]]
               V == U(u[1])
    <3>1. b \in Injection(I, V) /\ u[2] \in I /\ v[2] \in I /\ b[u[2]] = b[v[2]]
      BY <2>2, <2>3
    <3> HIDE DEF b, I, V
    <3> QED BY <3>1 DEF Injection, IsInjective
  <2> QED BY <1>4, <2>1, <2>4
<1>6. ASSUME NEW w \in Units(f) PROVE \E u \in Units(h) : F[u] = w
  <2> DEFINE a == key[w[1]]
  <2>1. w[1] \in K /\ f[w[1]] # 0
    BY <1>3
  <2>2. a \in A /\ w \in U(a)
    BY <1>1, <2>1
  <2> HIDE DEF a
  <2>3. e[a] \in Surjection(1 .. h[a], U(a))
    BY <1>1, <2>2 DEF Bijection
  <2>4. PICK i \in 1 .. h[a] : e[a][i] = w
    BY <2>2, <2>3 DEF Surjection
  <2>5. <<a, i>> \in Units(h)
    BY <1>1, <1>3, <2>2
  <2> QED BY <2>4, <2>5
<1> HIDE DEF F
<1>7. F \in [Units(h) -> Units(f)]
  BY <1>4 DEF F
<1>8. F \in Bijection(Units(h), Units(f))
  BY <1>5, <1>6, <1>7, Fun_IsBij
<1>9. Cardinality(Units(f)) = Cardinality(Units(h))
  BY <1>3, <1>8, FS_Bijection, Fun_ExistsBij
<1> QED BY <1>2, <1>9 DEF SumOver
=============================================================================
