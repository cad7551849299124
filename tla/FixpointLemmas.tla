---------------------------- MODULE FixpointLemmas ----------------------------
(***************************************************************************)
(* Induction, and functions defined by iterating a step: the recursive     *)
(* functions by which the modules model the code's worklists and searches  *)
(* exist, and they settle when they can only grow inside a finite set.     *)
(* Properties are given as sets and steps as functions, so that the lemmas *)
(* can be applied without instantiating an operator.                       *)
(***************************************************************************)
EXTENDS Naturals, FiniteSetTheorems, WellFoundedInduction, TLAPS

(* A nonempty family of finite sets has a member with no smaller one in it. *)
LEMMA SmallestMember ==
  ASSUME NEW F, F # {}, \A X \in F : IsFiniteSet(X)
  PROVE  \E X \in F : \A Y \in F : Y \subseteq X => Y = X
<1> DEFINE U == UNION F
<1>1. F \subseteq FiniteSubsetsOf(U)
  BY DEF FiniteSubsetsOf
<1>2. IsWellFoundedOn(StrictSubsetOrdering(U), FiniteSubsetsOf(U))
  BY FS_StrictSubsetOrderingWellFounded
<1>3. PICK X \in F : \A Y \in F : ~(<<Y, X>> \in StrictSubsetOrdering(U))
  <2> HIDE DEF U
  <2> QED BY <1>1, <1>2, WFMin
<1>4. ASSUME NEW Y \in F, Y \subseteq X, Y # X
      PROVE  FALSE
  <2>1. Y \in SUBSET U /\ X \in SUBSET U
    OBVIOUS
  <2>2. <<Y, X>> \in StrictSubsetOrdering(U)
    BY <1>4, <2>1 DEF StrictSubsetOrdering
  <2> QED BY <1>3, <2>2
<1> QED BY <1>4

(* Induction on the natural numbers, the property being a set of them. *)
LEMMA NatSetInduction ==
  ASSUME NEW T, 0 \in T, \A n \in Nat : n \in T => n + 1 \in T
  PROVE  \A n \in Nat : n \in T
<1> SUFFICES ASSUME NEW k \in Nat, k \notin T PROVE FALSE
  OBVIOUS
<1> DEFINE F == {0 .. n-1 : n \in {m \in Nat : m \notin T}}
<1>1. F # {} /\ \A X \in F : IsFiniteSet(X)
  BY FS_Interval
<1>2. PICK X \in F : \A Y \in F : Y \subseteq X => Y = X
  <2> HIDE DEF F
  <2> QED BY <1>1, SmallestMember
<1>3. PICK m \in Nat : m \notin T /\ X = 0 .. m-1
  OBVIOUS
<1>4. m # 0 /\ m-1 \in Nat /\ m = (m-1) + 1
  BY <1>3
<1>5. m-1 \notin T
  BY <1>3, <1>4
<1>6. 0 .. (m-1)-1 \in F
  BY <1>4, <1>5
<1>7. 0 .. (m-1)-1 \subseteq X /\ m-1 \in X /\ m-1 \notin 0 .. (m-1)-1
  BY <1>3, <1>4
<1> QED BY <1>2, <1>6, <1>7

-----------------------------------------------------------------------------
(* Iterating a step from a base gives a function on the natural numbers. *)
IsIteration(f, base, step) ==
  f[0] = base /\ \A n \in Nat : f[n+1] = step[f[n]]

IsApproximation(g, n, S, base, step) ==
  /\ g \in [0 .. n -> S]
  /\ g[0] = base
  /\ \A k \in Nat : k < n => g[k+1] = step[g[k]]

LEMMA ApproximationsAgree ==
  ASSUME NEW S, NEW base, NEW step, NEW n \in Nat, NEW m \in Nat, NEW g, NEW h,
         IsApproximation(g, n, S, base, step), IsApproximation(h, m, S, base, step)
  PROVE  \A k \in Nat : k <= n /\ k <= m => g[k] = h[k]
<1> DEFINE T == {k \in Nat : k <= n /\ k <= m => g[k] = h[k]}
<1>1. 0 \in T
  BY DEF IsApproximation
<1>2. ASSUME NEW k \in Nat, k \in T PROVE k+1 \in T
  BY <1>2 DEF IsApproximation
<1>3. \A k \in Nat : k \in T
  <2> HIDE DEF T
  <2> QED BY <1>1, <1>2, NatSetInduction
<1> QED BY <1>3

LEMMA ApproximationsExist ==
  ASSUME NEW S, NEW base \in S, NEW step \in [S -> S]
  PROVE  \A n \in Nat : \E g : IsApproximation(g, n, S, base, step)
<1> DEFINE T == {n \in Nat : \E g : IsApproximation(g, n, S, base, step)}
<1>1. 0 \in T
  <2> DEFINE g == [i \in 0 .. 0 |-> base]
  <2>1. IsApproximation(g, 0, S, base, step)
    BY DEF IsApproximation
  <2> QED BY <2>1
<1>2. ASSUME NEW n \in Nat, n \in T PROVE n+1 \in T
  <2>1. PICK g : IsApproximation(g, n, S, base, step)
    BY <1>2
  <2> DEFINE h == [i \in 0 .. n+1 |-> IF i = n+1 THEN step[g[n]] ELSE g[i]]
  <2>2. \A i \in 0 .. n : g[i] \in S /\ h[i] = g[i]
    BY <2>1 DEF IsApproximation
  <2>3. h \in [0 .. n+1 -> S] /\ h[n+1] = step[h[n]]
    BY <2>2
  <2>4. h[0] = base
    BY <2>1, <2>2 DEF IsApproximation
  <2>5. ASSUME NEW k \in Nat, k < n+1 PROVE h[k+1] = step[h[k]]
    <3>1. CASE k = n
      BY <3>1, <2>3
    <3>2. CASE k # n
      <4>1. k < n /\ k \in 0 .. n /\ k+1 \in 0 .. n
        BY <2>5, <3>2
      <4> HIDE DEF h
      <4> QED BY <4>1, <2>1, <2>2 DEF IsApproximation
    <3> QED BY <3>1, <3>2
  <2>6. IsApproximation(h, n+1, S, base, step)
    <3> HIDE DEF h
    <3> QED BY <2>3, <2>4, <2>5 DEF IsApproximation
  <2> QED BY <2>6
<1>3. \A n \in Nat : n \in T
  <2> HIDE DEF T
  <2> QED BY <1>1, <1>2, NatSetInduction
<1> QED BY <1>3

LEMMA IterationExists ==
  ASSUME NEW S, NEW base \in S, NEW step \in [S -> S]
  PROVE  \E f \in [Nat -> S] : IsIteration(f, base, step)
<1> DEFINE A(n) == CHOOSE g : IsApproximation(g, n, S, base, step)
           f == [n \in Nat |-> A(n)[n]]
<1>1. \A n \in Nat : IsApproximation(A(n), n, S, base, step)
  BY ApproximationsExist
<1> HIDE DEF A
<1>2. f \in [Nat -> S]
  BY <1>1 DEF IsApproximation
<1>3. f[0] = base
  BY <1>1 DEF IsApproximation
<1>4. ASSUME NEW n \in Nat PROVE f[n+1] = step[f[n]]
  <2>1. A(n+1)[n] = A(n)[n]
    BY <1>1, ApproximationsAgree
  <2>2. A(n+1)[n+1] = step[A(n+1)[n]]
    BY <1>1 DEF IsApproximation
  <2> QED BY <2>1, <2>2
<1>5. IsIteration(f, base, step)
  <2> HIDE DEF f
  <2> QED BY <1>3, <1>4 DEF IsIteration
<1> QED BY <1>2, <1>5

(* An increasing sequence of subsets of a finite set settles within as many *)
(* steps as the set has members.                                            *)
LEMMA ChainSettles ==
  ASSUME NEW U, IsFiniteSet(U), NEW f,
         \A n \in Nat : f[n] \subseteq U /\ f[n] \subseteq f[n+1]
  PROVE  \E n \in 0 .. Cardinality(U) : f[n] = f[n+1]
<1>1. Cardinality(U) \in Nat
  BY FS_CardinalityType
<1>2. \A n \in Nat : IsFiniteSet(f[n]) /\ Cardinality(f[n]) \in Nat /\ Cardinality(f[n]) <= Cardinality(U)
  BY FS_Subset, FS_CardinalityType
<1> SUFFICES ASSUME \A n \in 0 .. Cardinality(U) : f[n] # f[n+1] PROVE FALSE
  OBVIOUS
<1> DEFINE T == {n \in Nat : n <= Cardinality(U) + 1 => Cardinality(f[n]) >= n}
<1>3. 0 \in T
  BY <1>2
<1>4. ASSUME NEW n \in Nat, n \in T PROVE n+1 \in T
  <2> SUFFICES ASSUME n+1 <= Cardinality(U) + 1 PROVE Cardinality(f[n+1]) >= n+1
    OBVIOUS
  <2>1. n \in 0 .. Cardinality(U) /\ Cardinality(f[n]) >= n
    BY <1>1, <1>4
  <2>2. f[n] # f[n+1] /\ f[n] \subseteq f[n+1]
    BY <2>1
  <2>3. Cardinality(f[n]) <= Cardinality(f[n+1]) /\ Cardinality(f[n]) # Cardinality(f[n+1])
    BY <2>2, <1>2, FS_Subset
  <2> QED BY <2>1, <2>3, <1>2
<1>5. \A n \in Nat : n \in T
  <2> HIDE DEF T
  <2> QED BY <1>3, <1>4, NatSetInduction
<1>6. Cardinality(f[Cardinality(U) + 1]) >= Cardinality(U) + 1
  BY <1>1, <1>5
<1> QED BY <1>1, <1>2, <1>6

(* The image of a finite set is finite. *)
LEMMA ImageFinite ==
  ASSUME NEW S, IsFiniteSet(S), NEW f
  PROVE  IsFiniteSet({f[x] : x \in S})
<1> DEFINE T == {f[x] : x \in S}
           g == [x \in S |-> f[x]]
<1>1. g \in Surjection(S, T)
  BY DEF Surjection
<1> QED BY <1>1, FS_Surjection

-----------------------------------------------------------------------------
(* A step of which no element has more than finitely many before it settles *)
(* has a function that gives where each element settles.                    *)
Settling(f, D, step) == f = [x \in D |-> IF step[x] = x THEN x ELSE f[step[x]]]

LEMMA SettlingExists ==
  ASSUME NEW D, NEW step \in [D -> D], NEW m \in [D -> Nat],
         \A x \in D : step[x] # x => m[step[x]] < m[x]
  PROVE  \E f : Settling(f, D, step)
<1> DEFINE S == [D -> D]
           id == [x \in D |-> x]
           further == [F \in S |-> [x \in D |-> F[step[x]]]]
<1>1. id \in S /\ further \in [S -> S]
  OBVIOUS
<1>2. PICK F \in [Nat -> S] : IsIteration(F, id, further)
  <2> HIDE DEF S, id, further
  <2> QED  BY <1>1, IterationExists
<1>3. /\ \A x \in D : F[0][x] = x
      /\ \A n \in Nat : \A x \in D : F[n+1][x] = F[n][step[x]]
  <2>1. F[0] = id /\ \A n \in Nat : F[n+1] = further[F[n]] /\ F[n] \in S
    BY <1>2 DEF IsIteration
  <2>2. \A n \in Nat : further[F[n]] = [x \in D |-> F[n][step[x]]]
    BY <2>1
  <2>3. \A n \in Nat : \A x \in D : F[n+1][x] = F[n][step[x]]
    <3> SUFFICES ASSUME NEW n \in Nat PROVE \A x \in D : F[n+1][x] = F[n][step[x]]
      OBVIOUS
    <3>1. F[n+1] = [x \in D |-> F[n][step[x]]]
      <4> HIDE DEF further, S
      <4> QED  BY <2>1, <2>2
    <3> QED  BY <3>1
  <2> QED  BY <2>1, <2>3
<1> HIDE DEF S, id, further
<1>4. \A n \in Nat : \A x \in D : step[x] = x => F[n][x] = x
  <2> DEFINE T == {n \in Nat : \A x \in D : step[x] = x => F[n][x] = x}
  <2>1. 0 \in T
    BY <1>3
  <2>2. \A n \in Nat : n \in T => n + 1 \in T
    BY <1>3
  <2> HIDE DEF T
  <2>3. \A n \in Nat : n \in T
    BY <2>1, <2>2, NatSetInduction
  <2> QED  BY <2>3 DEF T
<1>5. \A n \in Nat : \A x \in D : m[x] <= n => F[n+1][x] = F[n][x]
  <2> DEFINE T == {n \in Nat : \A x \in D : m[x] <= n => F[n+1][x] = F[n][x]}
  <2>1. 0 \in T
    <3> SUFFICES ASSUME NEW x \in D, m[x] <= 0 PROVE F[0+1][x] = F[0][x]
      OBVIOUS
    <3>1. m[x] = 0
      OBVIOUS
    <3>2. step[x] = x
      <4>1. step[x] \in D /\ m[step[x]] \in Nat
        OBVIOUS
      <4> QED  BY <3>1, <4>1
    <3> QED  BY <1>4, <3>2
  <2>2. ASSUME NEW n \in Nat, n \in T PROVE n + 1 \in T
    <3> SUFFICES ASSUME NEW x \in D, m[x] <= n + 1 PROVE F[(n+1)+1][x] = F[n+1][x]
      OBVIOUS
    <3>1. F[(n+1)+1][x] = F[n+1][step[x]] /\ F[n+1][x] = F[n][step[x]] /\ step[x] \in D
      BY <1>3
    <3>2. CASE step[x] = x
      BY <1>4, <3>2
    <3>3. CASE step[x] # x
      <4>1. m[step[x]] <= n
        BY <3>1, <3>3
      <4> QED  BY <2>2, <3>1, <4>1
    <3> QED  BY <3>2, <3>3
  <2> HIDE DEF T
  <2>3. \A n \in Nat : n \in T
    BY <2>1, <2>2, NatSetInduction
  <2> QED  BY <2>3 DEF T
<1>6. ASSUME NEW x \in D PROVE \A k \in Nat : F[m[x]+k][x] = F[m[x]][x]
  <2> DEFINE T == {k \in Nat : F[m[x]+k][x] = F[m[x]][x]}
  <2>1. 0 \in T
    OBVIOUS
  <2>2. ASSUME NEW k \in Nat, k \in T PROVE k + 1 \in T
    <3>1. m[x] \in Nat /\ m[x] + k \in Nat /\ m[x] <= m[x] + k /\ m[x] + (k + 1) = (m[x] + k) + 1
      OBVIOUS
    <3>2. F[(m[x] + k) + 1][x] = F[m[x] + k][x]
      BY <1>5, <3>1
    <3> QED  BY <2>2, <3>1, <3>2
  <2> HIDE DEF T
  <2>3. \A n \in Nat : n \in T
    BY <2>1, <2>2, NatSetInduction
  <2> QED  BY <2>3 DEF T
<1> DEFINE f == [x \in D |-> F[m[x]][x]]
<1>7. ASSUME NEW x \in D PROVE f[x] = IF step[x] = x THEN x ELSE f[step[x]]
  <2>1. CASE step[x] = x
    BY <1>4, <2>1
  <2>2. CASE step[x] # x
    <3> DEFINE y == step[x]
               k == (m[x] - 1) - m[y]
    <3>1. y \in D /\ m[y] \in Nat /\ m[x] \in Nat /\ m[y] < m[x]
      BY <2>2
    <3>2. k \in Nat /\ m[y] + k = m[x] - 1 /\ m[x] - 1 \in Nat /\ (m[x] - 1) + 1 = m[x]
      BY <3>1
    <3>3. F[m[x]][x] = F[m[x] - 1][y]
      BY <1>3, <3>2
    <3>4. F[m[y] + k][y] = F[m[y]][y]
      <4> HIDE DEF k, y
      <4> QED  BY <1>6, <3>1, <3>2
    <3> QED  BY <2>2, <3>1, <3>2, <3>3, <3>4
  <2> QED  BY <2>1, <2>2
<1>8. f = [x \in D |-> IF step[x] = x THEN x ELSE f[step[x]]]
  <2> HIDE DEF f
  <2>1. f = [x \in D |-> f[x]]
    BY DEF f
  <2> QED  BY <1>7, <2>1
<1> HIDE DEF f
<1> QED  BY <1>8 DEF Settling

LEMMA SettlingSettles ==
  ASSUME NEW D, NEW step \in [D -> D], NEW m \in [D -> Nat],
         \A x \in D : step[x] # x => m[step[x]] < m[x],
         NEW f, Settling(f, D, step), NEW x \in D
  PROVE  /\ f[x] \in D
         /\ step[f[x]] = f[x]
         /\ \A I \in SUBSET D : x \in I /\ (\A y \in I : step[y] \in I) => f[x] \in I
<1> DEFINE Good(y) == /\ f[y] \in D
                      /\ step[f[y]] = f[y]
                      /\ \A I \in SUBSET D : y \in I /\ (\A z \in I : step[z] \in I) => f[y] \in I
           T == {n \in Nat : \A y \in D : m[y] <= n => Good(y)}
<1>1. \A y \in D : f[y] = IF step[y] = y THEN y ELSE f[step[y]]
  BY DEF Settling
<1>2. \A y \in D : step[y] = y => Good(y)
  BY <1>1
<1>3. \A y \in D : step[y] # y /\ Good(step[y]) => Good(y)
  BY <1>1
<1> HIDE DEF Good
<1>4. 0 \in T
  <2> SUFFICES ASSUME NEW y \in D, m[y] <= 0 PROVE Good(y)
    OBVIOUS
  <2>1. m[y] = 0 /\ step[y] \in D /\ m[step[y]] \in Nat
    OBVIOUS
  <2>2. step[y] = y
    BY <2>1
  <2> QED  BY <1>2, <2>2
<1>5. ASSUME NEW n \in Nat, n \in T PROVE n + 1 \in T
  <2> SUFFICES ASSUME NEW y \in D, m[y] <= n + 1 PROVE Good(y)
    OBVIOUS
  <2>1. CASE step[y] = y
    BY <1>2, <2>1
  <2>2. CASE step[y] # y
    <3>1. step[y] \in D /\ m[step[y]] <= n
      <4>1. step[y] \in D /\ m[step[y]] \in Nat /\ m[y] \in Nat /\ m[step[y]] < m[y]
        BY <2>2
      <4> QED  BY <4>1
    <3> QED  BY <1>3, <1>5, <2>2, <3>1
  <2> QED  BY <2>1, <2>2
<1>6. \A n \in Nat : n \in T
  <2> HIDE DEF T
  <2> QED  BY <1>4, <1>5, NatSetInduction
<1>7. Good(x)
  <2>1. m[x] \in Nat
    OBVIOUS
  <2> QED  BY <1>6, <2>1
<1> QED  BY <1>7 DEF Good

(* F takes its value at x from values where m is less. *)
IsRecursion(F, D, V, m) ==
  /\ V # {} /\ m \in [D -> Nat] /\ F \in [[D -> V] -> [D -> V]]
  /\ \A h1, h2 \in [D -> V], x \in D :
       (\A y \in D : m[y] < m[x] => h1[y] = h2[y]) => F[h1][x] = F[h2][x]

LEMMA RecursionExists ==
  ASSUME NEW F, NEW D, NEW V, NEW m, IsRecursion(F, D, V, m)
  PROVE  \E f \in [D -> V] : F[f] = f
<1>r. PICK v0 \in V : TRUE
  BY DEF IsRecursion
<1>t. m \in [D -> Nat] /\ F \in [[D -> V] -> [D -> V]]
  BY DEF IsRecursion
<1>n. \A n, k \in Nat : k < n + 1 => k = n \/ k < n
  OBVIOUS
<1> USE <1>t
<1> DEFINE S == [D -> V]
           base == [x \in D |-> v0]
<1>1. PICK it \in [Nat -> S] : IsIteration(it, base, F)
  <2>1. base \in S
    OBVIOUS
  <2> HIDE DEF base, S
  <2> QED  BY <2>1, IterationExists DEF S
<1>0. \A h1, h2 \in [D -> V], x \in D :
        (\A y \in D : m[y] < m[x] => h1[y] = h2[y]) => F[h1][x] = F[h2][x]
  BY DEF IsRecursion
<1>2. \A n \in Nat : it[n] \in S /\ it[n+1] = F[it[n]]
  BY <1>1 DEF IsIteration
<1> DEFINE P1(n) == \A x \in D : m[x] < n => it[n][x] = it[n+1][x]
           T1 == {n \in Nat : P1(n)}
           P2(n) == \A x \in D : m[x] < n => it[n][x] = it[m[x]+1][x]
           T2 == {n \in Nat : P2(n)}
<1>3. \A n \in Nat : n \in T1
  <2>1. 0 \in T1
    OBVIOUS
  <2>2. \A n \in Nat : n \in T1 => n + 1 \in T1
    <3> SUFFICES \A n \in Nat : P1(n) => P1(n + 1)
      <4>1. \A n \in Nat : n + 1 \in Nat
        OBVIOUS
      <4> HIDE DEF P1
      <4> QED  BY <4>1
    <3> SUFFICES ASSUME NEW n \in Nat, P1(n) PROVE P1(n + 1)
      OBVIOUS
    <3> SUFFICES ASSUME NEW x \in D, m[x] < n + 1
                 PROVE  it[n+1][x] = it[n+1+1][x]
      OBVIOUS
    <3>1. \A y \in D : m[y] < m[x] => it[n][y] = it[n+1][y]
      <4> SUFFICES ASSUME NEW y \in D, m[y] < m[x] PROVE it[n][y] = it[n+1][y]
        OBVIOUS
      <4>1. m[x] \in Nat /\ m[y] \in Nat
        OBVIOUS
      <4>2. m[y] < n
        BY <4>1
      <4> QED  BY <4>2
    <3>2. it[n] \in [D -> V] /\ it[n+1] \in [D -> V]
      BY <1>2
    <3>3. F[it[n]][x] = F[it[n+1]][x]
      BY <1>0, <3>1, <3>2
    <3>4. n + 1 \in Nat
      OBVIOUS
    <3>5. it[n+1] = F[it[n]] /\ it[n+1+1] = F[it[n+1]]
      BY <1>2, <3>4
    <3> HIDE DEF T1, T2
    <3> QED  BY <3>3, <3>5
  <2> HIDE DEF T1
  <2> QED  BY <2>1, <2>2, NatSetInduction
<1>4. \A n \in Nat : n \in T2
  <2>1. 0 \in T2
    OBVIOUS
  <2>2. \A n \in Nat : n \in T2 => n + 1 \in T2
    <3> SUFFICES \A n \in Nat : P2(n) => P2(n + 1)
      <4>1. \A n \in Nat : n + 1 \in Nat
        OBVIOUS
      <4> HIDE DEF P2
      <4> QED  BY <4>1
    <3> SUFFICES ASSUME NEW n \in Nat, P2(n), NEW x \in D, m[x] < n + 1
                 PROVE  it[n+1][x] = it[m[x]+1][x]
      OBVIOUS
    <3>0. m[x] \in Nat
      BY <1>t
    <3>1. CASE m[x] = n
      BY <3>1
    <3>2. CASE m[x] < n
      <4>1. it[n][x] = it[m[x]+1][x]
        BY <3>2
      <4>2. it[n][x] = it[n+1][x]
        <5> HIDE DEF T1, P2, T2
        <5>1. n \in T1
          BY <1>3
        <5> QED  BY <3>2, <5>1 DEF T1
      <4> QED  BY <4>1, <4>2
    <3>3. m[x] = n \/ m[x] < n
      BY <1>n, <3>0
    <3> HIDE DEF P2, T1, T2
    <3> QED  BY <3>1, <3>2, <3>3
  <2> HIDE DEF T2
  <2> QED  BY <2>1, <2>2, NatSetInduction
<1> DEFINE f == [x \in D |-> it[m[x]+1][x]]
<1>5. f \in [D -> V]
  BY <1>2
<1>6. \A x \in D : F[f][x] = f[x]
  <2> SUFFICES ASSUME NEW x \in D PROVE F[f][x] = f[x]
    OBVIOUS
  <2>1. \A y \in D : m[y] < m[x] => f[y] = it[m[x]][y]
    BY <1>4
  <2>2. it[m[x]] \in [D -> V]
    BY <1>2
  <2>3. F[f][x] = F[it[m[x]]][x]
    <3> HIDE DEF f
    <3> QED  BY <1>0, <1>5, <2>1, <2>2
  <2> QED  BY <2>3, <1>2
<1>7. F[f] \in [D -> V]
  BY <1>5
<1>8. F[f] = f
  <2> HIDE DEF f
  <2> QED  BY <1>5, <1>6, <1>7
<1> QED  BY <1>5, <1>8
=============================================================================
