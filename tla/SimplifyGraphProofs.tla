------------------------ MODULE SimplifyGraphProofs ------------------------
(***************************************************************************)
(* Proofs about SimplifyGraph, for every set of variables, labels and      *)
(* constraints: what holds of the automaton through cutting, pruning and   *)
(* the breaking of its loops, with the indices that are freed and reused.  *)
(***************************************************************************)
EXTENDS SimplifyGraph, SubtypeDeduction, FixpointLemmas, SequenceTheorems

-----------------------------------------------------------------------------
(* Sorted enumerates a finite set, whatever the order. *)

Enumerates(s, S) ==
  /\ s \in Seq(S) /\ ToSet(s) = S
  /\ \A i, j \in 1..Len(s) : s[i] = s[j] => i = j

\* A sequence of members of S, none of them twice.
IsArrangement(s, S) ==
  s \in Seq(S) /\ \A i, j \in 1..Len(s) : s[i] = s[j] => i = j

LEMMA IntervalSize ==
  ASSUME NEW n \in Nat
  PROVE  IsFiniteSet(1..n) /\ Cardinality(1..n) = n
<1>1. 1 \in Int /\ n \in Int /\ (IF 1 > n THEN 0 ELSE n-1+1) = n
  OBVIOUS
<1> QED BY <1>1, FS_Interval

\* t is s with x inserted at k, a sequence over D.
IsInsertion(t, s, k, x, D) ==
  /\ t \in Seq(D) /\ Len(t) = Len(s) + 1
  /\ \A i \in 1..Len(s)+1 : t[i] = IF i < k THEN s[i] ELSE IF i = k THEN x ELSE s[i-1]

LEMMA InsertAtElements ==
  ASSUME NEW D, NEW s \in Seq(D), NEW x \in D, NEW k \in 1..Len(s)+1
  PROVE  IsInsertion(InsertAt(s, k, x), s, k, x, D)
<1> DEFINE u == SubSeq(s, 1, k-1)
           v == SubSeq(s, k, Len(s))
           w == u \o <<x>>
<1>1. /\ Len(s) \in Nat /\ k \in Int /\ k-1 \in Int /\ Len(s) \in Int /\ 1 \in Int
      /\ \A i \in 1..Len(s) : s[i] \in D
  OBVIOUS
<1>2. u \in Seq(D) /\ Len(u) = k-1 /\ \A i \in 1..k-1 : u[i] = s[i]
  <2>1. \A i \in 1..k-1 : s[i] \in D /\ 1+i-1 = i
    BY <1>1
  <2>2. /\ u \in Seq(D) /\ Len(u) = IF 1 <= k-1 THEN (k-1)-1+1 ELSE 0
        /\ \A i \in 1..(k-1)-1+1 : u[i] = s[1+i-1]
    BY <1>1, <2>1, SubSeqProperties
  <2>3. (IF 1 <= k-1 THEN (k-1)-1+1 ELSE 0) = k-1 /\ (k-1)-1+1 = k-1
    BY <1>1
  <2> HIDE DEF u
  <2> QED BY <2>1, <2>2, <2>3
<1>3. v \in Seq(D) /\ Len(v) = Len(s)-k+1 /\ \A i \in 1..Len(s)-k+1 : v[i] = s[k+i-1]
  <2>1. \A i \in k..Len(s) : s[i] \in D
    BY <1>1
  <2>2. /\ v \in Seq(D) /\ Len(v) = IF k <= Len(s) THEN Len(s)-k+1 ELSE 0
        /\ \A i \in 1..Len(s)-k+1 : v[i] = s[k+i-1]
    BY <1>1, <2>1, SubSeqProperties
  <2>3. (IF k <= Len(s) THEN Len(s)-k+1 ELSE 0) = Len(s)-k+1
    BY <1>1
  <2> HIDE DEF v
  <2> QED BY <2>2, <2>3
<1>4. InsertAt(s, k, x) = w \o v
  BY DEF InsertAt
<1> HIDE DEF u, v
<1>5. w \in Seq(D) /\ Len(w) = k /\ \A i \in 1..k : w[i] = IF i < k THEN s[i] ELSE x
  <2>1. <<x>> \in Seq(D) /\ Len(<<x>>) = 1 /\ <<x>>[1] = x
    OBVIOUS
  <2>2. /\ w \in Seq(D) /\ Len(w) = (k-1) + 1
        /\ \A i \in 1..(k-1)+1 : w[i] = IF i <= k-1 THEN u[i] ELSE <<x>>[i-(k-1)]
    BY <1>2, <2>1, ConcatProperties
  <2>3. (k-1)+1 = k /\ \A i \in 1..k : (i <= k-1 => i \in 1..k-1) /\ (i > k-1 => i = k /\ i-(k-1) = 1)
    BY <1>1
  <2> HIDE DEF w
  <2> QED BY <1>1, <1>2, <2>1, <2>2, <2>3
<1> HIDE DEF w
<1> DEFINE t == w \o v
<1>6. /\ t \in Seq(D) /\ Len(t) = k + (Len(s)-k+1)
      /\ \A i \in 1..k + (Len(s)-k+1) : t[i] = IF i <= k THEN w[i] ELSE v[i-k]
  BY <1>3, <1>5, ConcatProperties
<1> HIDE DEF t
<1>7. k + (Len(s)-k+1) = Len(s)+1
  BY <1>1
<1>8. ASSUME NEW i \in 1..Len(s)+1
      PROVE  t[i] = IF i < k THEN s[i] ELSE IF i = k THEN x ELSE s[i-1]
  <2>1. CASE i <= k
    BY <1>1, <1>5, <1>6, <1>7, <2>1
  <2>2. CASE i > k
    <3>1. i-k \in 1..Len(s)-k+1 /\ k + (i-k) - 1 = i-1
      BY <1>1, <2>2
    <3>2. t[i] = v[i-k] /\ v[i-k] = s[k + (i-k) - 1]
      BY <1>1, <1>3, <1>6, <1>7, <2>2, <3>1
    <3> QED BY <3>1, <3>2, <2>2
  <2> QED BY <1>1, <2>1, <2>2
<1> QED BY <1>4, <1>6, <1>7, <1>8 DEF t, IsInsertion

LEMMA InsertedElements ==
  ASSUME NEW S, NEW before, NEW D, NEW s \in Seq(D),
         NEW x \in D, x = CHOOSE y \in S \ ToSet(s) : TRUE
  PROVE  \E k \in 1..Len(s)+1 : IsInsertion(Inserted(s, S, before), s, k, x, D)
<1> DEFINE I == {i \in DOMAIN s : <<s[i], x>> \in before}
           k == 1 + Cardinality(I)
<1>1. IsFiniteSet(1..Len(s)) /\ Cardinality(1..Len(s)) = Len(s) /\ I \subseteq 1..Len(s)
  BY IntervalSize
<1>2. Inserted(s, S, before) = InsertAt(s, k, x)
  BY DEF Inserted
<1>3. k \in 1..Len(s)+1
  <2> HIDE DEF I
  <2>1. IsFiniteSet(I) /\ Cardinality(I) <= Len(s)
    BY <1>1, FS_Subset
  <2>2. Cardinality(I) \in Nat
    BY <2>1, FS_CardinalityType
  <2> QED BY <2>1, <2>2
<1> HIDE DEF k, I
<1>4. IsInsertion(InsertAt(s, k, x), s, k, x, D)
  BY <1>3, InsertAtElements
<1> QED BY <1>2, <1>3, <1>4

LEMMA InsertionsAre ==
  ASSUME NEW S, NEW before
  PROVE  /\ Insertions(S, before)[0] = <<>>
         /\ \A n \in Nat : Insertions(S, before)[n+1] = Inserted(Insertions(S, before)[n], S, before)
<1> DEFINE D == S \cup {CHOOSE y \in {} : TRUE}
           A == <<>>
           Q == Seq(D)
           step == [s \in Q |-> Inserted(s, S, before)]
           Eq(f) == f = [n \in Nat |-> IF n = 0 THEN A ELSE Inserted(f[n-1], S, before)]
<1>1. \A s \in Q : Inserted(s, S, before) \in Q
  <2> SUFFICES ASSUME NEW s \in Q PROVE Inserted(s, S, before) \in Q
    OBVIOUS
  <2>1. PICK x \in D : x = CHOOSE y \in S \ ToSet(s) : TRUE
    <3>1. CASE S \ ToSet(s) = {}
      BY <3>1
    <3>2. CASE S \ ToSet(s) # {}
      BY <3>2
    <3> QED BY <3>1, <3>2
  <2> HIDE DEF D
  <2> QED BY <2>1, InsertedElements DEF IsInsertion
<1>2. A \in Q /\ step \in [Q -> Q]
  <2>1. A \in Q
    OBVIOUS
  <2> HIDE DEF Q
  <2> QED BY <1>1, <2>1
<1>3. PICK g \in [Nat -> Q] : IsIteration(g, A, step)
  <2> HIDE DEF Q, A, step
  <2> QED BY <1>2, IterationExists
<1>4. \E f : Eq(f)
  <2>1. \A n \in Nat : n # 0 => n-1 \in Nat /\ (n-1)+1 = n
    OBVIOUS
  <2>2. \A n \in Nat : g[n] = IF n = 0 THEN A ELSE Inserted(g[n-1], S, before)
    <3> HIDE DEF A, Q
    <3> QED BY <1>3, <2>1 DEF IsIteration
  <2> HIDE DEF A, Q
  <2>3. g = [n \in Nat |-> g[n]]
    BY <1>3
  <2> QED BY <2>2, <2>3
<1> DEFINE h == Insertions(S, before)
<1>5. h = CHOOSE f : Eq(f)
  BY DEF Insertions
<1>6. Eq(h)
  <2> HIDE DEF Eq, h
  <2> QED BY <1>4, <1>5
<1>7. h[0] = A /\ \A n \in Nat : h[n+1] = Inserted(h[n], S, before)
  <2> HIDE DEF h, A
  <2>1. \A n \in Nat : h[n] = IF n = 0 THEN A ELSE Inserted(h[n-1], S, before)
    BY <1>6
  <2>2. \A n \in Nat : n+1 \in Nat /\ n+1 # 0 /\ (n+1)-1 = n
    OBVIOUS
  <2> QED BY <2>1, <2>2
<1> QED BY <1>7

\* An arrangement has as many elements as its length.
LEMMA ArrangementSize ==
  ASSUME NEW S, NEW s, IsArrangement(s, S)
  PROVE  IsFiniteSet(ToSet(s)) /\ Cardinality(ToSet(s)) = Len(s) /\ ToSet(s) \subseteq S
<1>1. s \in Seq(S) /\ Len(s) \in Nat /\ DOMAIN s = 1..Len(s) /\ \A i \in 1..Len(s) : s[i] \in S
  BY DEF IsArrangement
<1> DEFINE f == [i \in 1..Len(s) |-> s[i]]
<1>2. f \in Bijection(1..Len(s), ToSet(s))
  BY <1>1 DEF Bijection, Injection, Surjection, IsInjective, ToSet, IsArrangement
<1>3. IsFiniteSet(1..Len(s)) /\ Cardinality(1..Len(s)) = Len(s)
  BY <1>1, IntervalSize
<1> HIDE DEF f
<1>4. IsFiniteSet(ToSet(s)) /\ Cardinality(ToSet(s)) = Len(s)
  BY <1>2, <1>3, FS_Bijection DEF ExistsBijection
<1> QED BY <1>1, <1>4 DEF ToSet

LEMMA SortedEnumerates ==
  ASSUME NEW S, IsFiniteSet(S), NEW before
  PROVE  Enumerates(Sorted(S, before), S)
<1> DEFINE h == Insertions(S, before)
           N == Cardinality(S)
<1>1. h[0] = <<>> /\ \A n \in Nat : h[n+1] = Inserted(h[n], S, before)
  BY InsertionsAre
<1>2. N \in Nat
  BY FS_CardinalityType
<1> HIDE DEF h
<1> DEFINE T == {n \in Nat : n <= N => IsArrangement(h[n], S) /\ Len(h[n]) = n}
<1>3. 0 \in T
  <2>1. <<>> \in Seq(S) /\ Len(<<>>) = 0
    OBVIOUS
  <2>2. IsArrangement(<<>>, S)
    BY <2>1 DEF IsArrangement
  <2> QED BY <1>1, <2>1, <2>2
<1>4. ASSUME NEW n \in Nat, n \in T PROVE n+1 \in T
  <2> SUFFICES ASSUME n+1 <= N PROVE IsArrangement(h[n+1], S) /\ Len(h[n+1]) = n+1
    OBVIOUS
  <2> DEFINE s == h[n]
  <2>1. IsArrangement(s, S) /\ Len(s) = n
    BY <1>2, <1>4
  <2> HIDE DEF s
  <2>2. ToSet(s) # S /\ ToSet(s) \subseteq S
    BY <2>1, <1>2, ArrangementSize
  <2>3. PICK x : x = CHOOSE y \in S \ ToSet(s) : TRUE
    OBVIOUS
  <2>4. x \in S \ ToSet(s)
    BY <2>2, <2>3
  <2>5. s \in Seq(S)
    BY <2>1 DEF IsArrangement
  <2>6. PICK t : t = Inserted(s, S, before)
    OBVIOUS
  <2>7. /\ t \in Seq(S) /\ Len(t) = n+1
        /\ \E k \in 1..n+1 : \A i \in 1..n+1 :
             t[i] = IF i < k THEN s[i] ELSE IF i = k THEN x ELSE s[i-1]
    <3>1. x \in S
      BY <2>4
    <3>2. \E k \in 1..Len(s)+1 : IsInsertion(Inserted(s, S, before), s, k, x, S)
      BY <2>3, <2>5, <3>1, InsertedElements
    <3> QED BY <2>1, <2>6, <3>2 DEF IsInsertion
  <2>8. PICK k \in 1..n+1 : \A i \in 1..n+1 :
             t[i] = IF i < k THEN s[i] ELSE IF i = k THEN x ELSE s[i-1]
    BY <2>7
  <2>9. \A i \in 1..n : s[i] # x
    BY <2>1, <2>4, <2>5 DEF ToSet
  <2>10. \A i, j \in 1..n : s[i] = s[j] => i = j
    BY <2>1 DEF IsArrangement
  <2>11. ASSUME NEW i \in 1..n+1, NEW j \in 1..n+1, t[i] = t[j]
         PROVE  i = j
    <3> DEFINE back(m) == IF m < k THEN m ELSE m-1
    <3>1. \A m \in 1..n+1 : m # k => back(m) \in 1..n /\ t[m] = s[back(m)]
      BY <2>8
    <3>2. t[k] = x
      BY <2>8
    <3>3. CASE i = k \/ j = k
      BY <3>1, <3>2, <3>3, <2>9, <2>11
    <3>4. CASE i # k /\ j # k
      <4>1. back(i) = back(j)
        BY <3>1, <3>4, <2>10, <2>11
      <4> QED BY <4>1, <3>4
    <3> QED BY <3>3, <3>4
  <2>12. IsArrangement(t, S)
    BY <2>7, <2>11 DEF IsArrangement
  <2> QED BY <1>1, <2>6, <2>7, <2>12 DEF s
<1>5. \A n \in Nat : n \in T
  <2> HIDE DEF T
  <2> QED BY <1>3, <1>4, NatSetInduction
<1>6. IsArrangement(h[N], S) /\ Len(h[N]) = N
  BY <1>2, <1>5
<1>7. ToSet(h[N]) = S
  BY <1>2, <1>6, ArrangementSize, FS_Subset
<1> QED BY <1>6, <1>7 DEF Sorted, h, Enumerates, IsArrangement

-----------------------------------------------------------------------------
(* Graphs, and what is reached in them. *)

IsEdge(e) == e = Edge(e.src, e.kind, e.sym, e.dst)

\* Edges between finitely many indices.
IsGraph(g) ==
  /\ IsFiniteSet(Live(g)) /\ Live(g) \subseteq Nat \ {NoIndex}
  /\ \A e \in g.edges : IsEdge(e) /\ e.src \in Live(g) /\ e.dst \in Live(g)

LEMMA ForwardStepsAre ==
  ASSUME NEW g, NEW U, NEW i \in U, \A e \in g.edges : e.dst \in U
  PROVE  /\ ForwardSteps(g, i)[0] = {i}
         /\ \A n \in Nat : /\ ForwardSteps(g, i)[n] \subseteq U
                           /\ ForwardSteps(g, i)[n+1] = Successors(g.edges, ForwardSteps(g, i)[n])
<1> DEFINE S == SUBSET U
           A == {i}
           step == [X \in S |-> Successors(g.edges, X)]
           Eq(f) == f = [n \in Nat |-> IF n = 0 THEN A ELSE Successors(g.edges, f[n-1])]
<1>1. A \in S /\ step \in [S -> S] /\ \A X \in S : Successors(g.edges, X) \in S
  BY DEF Successors
<1>2. PICK f \in [Nat -> S] : IsIteration(f, A, step)
  <2> HIDE DEF S, A, step
  <2> QED BY <1>1, IterationExists
<1>3. \E h : Eq(h)
  <2>1. \A n \in Nat : n # 0 => n-1 \in Nat /\ (n-1)+1 = n
    OBVIOUS
  <2>2. \A n \in Nat : f[n] = IF n = 0 THEN A ELSE Successors(g.edges, f[n-1])
    <3> HIDE DEF A, S
    <3> QED BY <1>2, <2>1 DEF IsIteration
  <2> HIDE DEF A, S
  <2>3. f = [n \in Nat |-> f[n]]
    BY <1>2
  <2> QED BY <2>2, <2>3
<1> DEFINE h == ForwardSteps(g, i)
<1>4. h = CHOOSE f_1 : Eq(f_1)
  BY DEF ForwardSteps
<1>5. Eq(h)
  <2> HIDE DEF Eq, h
  <2> QED BY <1>3, <1>4
<1>6. h[0] = A /\ \A n \in Nat : h[n+1] = Successors(g.edges, h[n])
  <2> HIDE DEF h, A
  <2>1. \A n \in Nat : h[n] = IF n = 0 THEN A ELSE Successors(g.edges, h[n-1])
    BY <1>5
  <2>2. \A n \in Nat : n+1 \in Nat /\ n+1 # 0 /\ (n+1)-1 = n
    OBVIOUS
  <2> QED BY <2>1, <2>2
<1>7. \A n \in Nat : h[n] \in S
  <2> DEFINE T == {n \in Nat : h[n] \in S}
  <2>1. 0 \in T
    BY <1>1, <1>6
  <2>2. \A n \in Nat : n \in T => n+1 \in T
    <3> HIDE DEF h, S
    <3> QED BY <1>1, <1>6
  <2>3. \A n \in Nat : n \in T
    <3> HIDE DEF T
    <3> QED BY <2>1, <2>2, NatSetInduction
  <2> QED BY <2>3
<1> QED BY <1>6, <1>7

\* Forward is the least set with i that no edge leaves.
LEMMA ForwardIsLeast ==
  ASSUME NEW g, IsFiniteSet(Live(g)), NEW i \in Live(g), \A e \in g.edges : e.dst \in Live(g)
  PROVE  /\ i \in Forward(g, i) /\ Forward(g, i) \subseteq Live(g)
         /\ \A e \in g.edges : e.src \in Forward(g, i) => e.dst \in Forward(g, i)
         /\ \A Q : i \in Q /\ (\A e \in g.edges : e.src \in Q => e.dst \in Q)
                     => Forward(g, i) \subseteq Q
<1> DEFINE h == ForwardSteps(g, i)
<1>1. /\ h[0] = {i}
      /\ \A n \in Nat : h[n] \subseteq Live(g) /\ h[n+1] = Successors(g.edges, h[n])
  BY ForwardStepsAre
<1>2. Cardinality(Live(g)) \in Nat
  BY FS_CardinalityType
<1>3. \A X : X \subseteq Successors(g.edges, X)
  BY DEF Successors
<1>4. \E n \in 0..Cardinality(Live(g)) : h[n] = h[n+1]
  <2> HIDE DEF h
  <2> QED BY <1>1, <1>3, ChainSettles
<1> DEFINE k == CHOOSE n \in 0..Cardinality(Live(g)) : h[n] = h[n+1]
<1>5. k \in Nat /\ h[k] = h[k+1] /\ Forward(g, i) = h[k]
  <2>1. k \in 0..Cardinality(Live(g)) /\ h[k] = h[k+1]
    <3> HIDE DEF h
    <3> QED BY <1>4
  <2>2. Forward(g, i) = h[k]
    BY DEF Forward
  <2> QED BY <1>2, <2>1, <2>2
<1> HIDE DEF k, h
<1>6. \A n \in Nat : i \in h[n]
  <2> DEFINE T == {n \in Nat : i \in h[n]}
  <2>1. 0 \in T /\ \A n \in Nat : n \in T => n+1 \in T
    BY <1>1, <1>3
  <2>2. \A n \in Nat : n \in T
    <3> HIDE DEF T
    <3> QED BY <2>1, NatSetInduction
  <2> QED BY <2>2
<1>7. ASSUME NEW Q, i \in Q, \A e \in g.edges : e.src \in Q => e.dst \in Q
      PROVE  Forward(g, i) \subseteq Q
  <2> DEFINE T == {n \in Nat : h[n] \subseteq Q}
  <2>1. \A X : X \subseteq Q => Successors(g.edges, X) \subseteq Q
    BY <1>7 DEF Successors
  <2>2. 0 \in T /\ \A n \in Nat : n \in T => n+1 \in T
    BY <1>1, <1>7, <2>1
  <2>3. \A n \in Nat : n \in T
    <3> HIDE DEF T
    <3> QED BY <2>2, NatSetInduction
  <2> QED BY <1>5, <2>3
<1>8. \A e \in g.edges : e.src \in Forward(g, i) => e.dst \in Forward(g, i)
  BY <1>1, <1>5 DEF Successors
<1> QED BY <1>1, <1>5, <1>6, <1>7, <1>8

LEMMA ReversedEdges ==
  ASSUME NEW g, IsGraph(g)
  PROVE  /\ Live(Reversed(g)) = Live(g)
         /\ \A e \in Reversed(g).edges : \E f \in g.edges : e.src = f.dst /\ e.dst = f.src
         /\ \A f \in g.edges : \E e \in Reversed(g).edges : e.src = f.dst /\ e.dst = f.src
<1> DEFINE R == {[e EXCEPT !.src = e.dst, !.dst = e.src] : e \in g.edges}
           r == Reversed(g)
<1>1. r.weight = g.weight /\ r.edges = R
  <2> HIDE DEF R
  <2>1. Reversed(g) = Graph(g.weight, g.mp, g.copies, R, g.free)
    BY DEF Reversed, R
  <2> QED BY <2>1 DEF Graph
<1>2. \A e \in g.edges : /\ [e EXCEPT !.src = e.dst, !.dst = e.src].src = e.dst
                         /\ [e EXCEPT !.src = e.dst, !.dst = e.src].dst = e.src
  BY DEF IsGraph, IsEdge, Edge
<1> HIDE DEF r
<1>3. \A e \in R : \E f \in g.edges : e.src = f.dst /\ e.dst = f.src
  BY <1>2
<1>4. \A f \in g.edges : \E e \in R : e.src = f.dst /\ e.dst = f.src
  BY <1>2
<1> HIDE DEF R
<1> QED BY <1>1, <1>3, <1>4 DEF Live, r

\* Backward is the least set with i that no edge enters.
LEMMA BackwardIsLeast ==
  ASSUME NEW g, IsGraph(g), NEW i \in Live(g)
  PROVE  /\ i \in Backward(g, i) /\ Backward(g, i) \subseteq Live(g)
         /\ \A e \in g.edges : e.dst \in Backward(g, i) => e.src \in Backward(g, i)
         /\ \A Q : i \in Q /\ (\A e \in g.edges : e.dst \in Q => e.src \in Q)
                     => Backward(g, i) \subseteq Q
<1> DEFINE r == Reversed(g)
<1>1. /\ Live(r) = Live(g)
      /\ \A e \in r.edges : \E f \in g.edges : e.src = f.dst /\ e.dst = f.src
      /\ \A f \in g.edges : \E e \in r.edges : e.src = f.dst /\ e.dst = f.src
  BY ReversedEdges
<1>2. Backward(g, i) = Forward(r, i)
  BY DEF Backward
<1> HIDE DEF r
<1>3. IsFiniteSet(Live(r)) /\ i \in Live(r) /\ \A e \in r.edges : e.dst \in Live(r)
  BY <1>1 DEF IsGraph
<1>4. /\ i \in Forward(r, i) /\ Forward(r, i) \subseteq Live(r)
      /\ \A e \in r.edges : e.src \in Forward(r, i) => e.dst \in Forward(r, i)
      /\ \A Q : i \in Q /\ (\A e \in r.edges : e.src \in Q => e.dst \in Q)
                  => Forward(r, i) \subseteq Q
  BY <1>3, ForwardIsLeast
<1>5. \A e \in g.edges : e.dst \in Forward(r, i) => e.src \in Forward(r, i)
  BY <1>1, <1>4
<1>6. ASSUME NEW Q, i \in Q, \A e \in g.edges : e.dst \in Q => e.src \in Q
      PROVE  Forward(r, i) \subseteq Q
  BY <1>1, <1>4, <1>6
<1> QED BY <1>1, <1>2, <1>4, <1>5, <1>6

\* What is reached has an edge on the way to it, or is the start.
LEMMA ReachedHasEdges ==
  ASSUME NEW g, IsGraph(g), NEW i \in Live(g)
  PROVE  /\ \A j \in Forward(g, i) : j = i \/ \E e \in g.edges : e.dst = j /\ e.src \in Forward(g, i)
         /\ \A j \in Backward(g, i) : j = i \/ \E e \in g.edges : e.src = j /\ e.dst \in Backward(g, i)
<1>1. /\ i \in Forward(g, i)
      /\ \A e \in g.edges : e.src \in Forward(g, i) => e.dst \in Forward(g, i)
      /\ \A Q : i \in Q /\ (\A e \in g.edges : e.src \in Q => e.dst \in Q) => Forward(g, i) \subseteq Q
  BY ForwardIsLeast DEF IsGraph
<1>2. /\ i \in Backward(g, i)
      /\ \A e \in g.edges : e.dst \in Backward(g, i) => e.src \in Backward(g, i)
      /\ \A Q : i \in Q /\ (\A e \in g.edges : e.dst \in Q => e.src \in Q) => Backward(g, i) \subseteq Q
  BY BackwardIsLeast
<1> DEFINE Q == {j \in Forward(g, i) : j = i \/ \E e \in g.edges : e.dst = j /\ e.src \in Forward(g, i)}
           P == {j \in Backward(g, i) : j = i \/ \E e \in g.edges : e.src = j /\ e.dst \in Backward(g, i)}
<1>3. i \in Q /\ \A e \in g.edges : e.src \in Q => e.dst \in Q
  BY <1>1
<1>4. i \in P /\ \A e \in g.edges : e.dst \in P => e.src \in P
  BY <1>2
<1>5. Forward(g, i) \subseteq Q /\ Backward(g, i) \subseteq P
  <2> HIDE DEF Q, P
  <2> QED BY <1>1, <1>2, <1>3, <1>4
<1> QED BY <1>5

\* j is reached from i just when i is among what leads to j.
LEMMA ForwardBackward ==
  ASSUME NEW g, IsGraph(g), NEW i \in Live(g), NEW j \in Live(g)
  PROVE  j \in Forward(g, i) <=> i \in Backward(g, j)
<1>1. ASSUME NEW k \in Live(g)
      PROVE  /\ k \in Forward(g, k) /\ Forward(g, k) \subseteq Live(g)
             /\ \A e \in g.edges : e.src \in Forward(g, k) => e.dst \in Forward(g, k)
             /\ \A Q : k \in Q /\ (\A e \in g.edges : e.src \in Q => e.dst \in Q) => Forward(g, k) \subseteq Q
  BY ForwardIsLeast DEF IsGraph
<1>2. ASSUME NEW k \in Live(g)
      PROVE  /\ k \in Backward(g, k) /\ Backward(g, k) \subseteq Live(g)
             /\ \A e \in g.edges : e.dst \in Backward(g, k) => e.src \in Backward(g, k)
             /\ \A Q : k \in Q /\ (\A e \in g.edges : e.dst \in Q => e.src \in Q) => Backward(g, k) \subseteq Q
  BY BackwardIsLeast
<1>3. ASSUME j \in Forward(g, i), i \notin Backward(g, j) PROVE FALSE
  <2> DEFINE Q == Live(g) \ Backward(g, j)
  <2>1. i \in Q /\ \A e \in g.edges : e.src \in Q => e.dst \in Q
    BY <1>2, <1>3 DEF IsGraph
  <2>2. i \in Q => Forward(g, i) \subseteq Q
    <3> HIDE DEF Q
    <3> QED BY <1>1, <2>1
  <2> QED BY <1>2, <1>3, <2>1, <2>2
<1>4. ASSUME j \notin Forward(g, i), i \in Backward(g, j) PROVE FALSE
  <2> DEFINE Q == Live(g) \ Forward(g, i)
  <2>1. j \in Q /\ \A e \in g.edges : e.dst \in Q => e.src \in Q
    BY <1>1, <1>4 DEF IsGraph
  <2>2. j \in Q => Backward(g, j) \subseteq Q
    <3> HIDE DEF Q
    <3> QED BY <1>2, <2>1
  <2> QED BY <1>1, <1>4, <2>1, <2>2
<1> QED BY <1>3, <1>4

\* What is reached from what is reached is reached.
LEMMA ForwardTransitive ==
  ASSUME NEW g, IsGraph(g), NEW i \in Live(g), NEW j \in Forward(g, i)
  PROVE  j \in Live(g) /\ Forward(g, j) \subseteq Forward(g, i)
<1>1. /\ Forward(g, i) \subseteq Live(g)
      /\ \A e \in g.edges : e.src \in Forward(g, i) => e.dst \in Forward(g, i)
  BY ForwardIsLeast DEF IsGraph
<1>2. j \in Live(g) /\ \A Q : j \in Q /\ (\A e \in g.edges : e.src \in Q => e.dst \in Q)
                                => Forward(g, j) \subseteq Q
  BY <1>1, ForwardIsLeast DEF IsGraph
<1> QED BY <1>1, <1>2

-----------------------------------------------------------------------------
(* The edges of the automaton: between states of type variables, but for the *)
(* pops that leave Start and the pushes that enter End.                       *)

TvStates == {s \in States : IsTv(s)}

IsAutomatonEdge(e) ==
  /\ IsEdge(e) /\ e.kind \in {"push", "pop", "success"}
  /\ e.kind = "push" => e.src \in TvStates /\ e.dst \in TvStates \cup {End}
  /\ e.kind = "pop" => e.src \in TvStates \cup {Start} /\ e.dst \in TvStates
  /\ e.kind = "success" => e.src \in TvStates /\ e.dst \in TvStates
  /\ e.src = e.dst => e.kind = "success"

LEMMA StartAndEnd ==
  /\ Start \in States /\ End \in States /\ ~IsTv(Start) /\ ~IsTv(End) /\ Start # End
  /\ Start.path \in Paths /\ End.path \in Paths /\ Not(Start) = End /\ Not(End) = Start
<1>1. <<>> \in Paths
  BY DEF Paths
<1> QED BY <1>1 DEF Start, End, State, States, Dirs, Variances, Co, Contra, IsTv, Not, NotDir, Flip

LEMMA DirectEdgesAre ==
  ASSUME NEW cons \in SUBSET SubtypeConstraints, NEW e \in DirectEdges(cons)
  PROVE  IsAutomatonEdge(e)
<1> DEFINE lo(d, v) == State(d.base, VHatDir(d.base, "L"), v, d.path)
           hi(d, v) == State(d.base, VHatDir(d.base, "R"), v, d.path)
<1>1. \A d \in DerivedTypeVars, v \in Variances : lo(d, v) \in TvStates /\ hi(d, v) \in TvStates
  BY VarsAssumption DEF TvStates, State, States, VHatDir, Dirs, DerivedTypeVars, IsTv
<1>2. PICK c \in cons : e \in {Success(lo(c.lhs, Co), hi(c.rhs, Co)), Success(lo(c.rhs, Contra), hi(c.lhs, Contra))}
  BY DEF DirectEdges, SubTypeEdge
<1>3. c.lhs \in DerivedTypeVars /\ c.rhs \in DerivedTypeVars /\ Co \in Variances /\ Contra \in Variances
  BY DEF SubtypeConstraints, Variances
<1> HIDE DEF lo, hi
<1> QED BY <1>1, <1>2, <1>3 DEF IsAutomatonEdge, IsEdge, Success, Edge

LEMMA PrefixStates ==
  ASSUME NEW s \in TvStates, NEW k \in 0..Len(s.path)
  PROVE  PrefixState(s, k) \in TvStates /\ Len(PrefixState(s, k).path) = k
<1>1. s.path \in Seq(FieldLabels) /\ Len(s.path) \in Nat
  BY DEF TvStates, States, Paths
<1>2. SubSeq(s.path, 1, k) \in Seq(FieldLabels) /\ Len(SubSeq(s.path, 1, k)) = k
  BY <1>1
<1> QED BY <1>2 DEF TvStates, PrefixState, State, States, Operate, Variances, Co, Contra, Paths, IsTv

LEMMA PushPopEdgesAre ==
  ASSUME NEW s \in TvStates, NEW e \in PushPopEdges(s)
  PROVE  IsAutomatonEdge(e) /\ e.src \in TvStates /\ e.dst \in TvStates
<1>1. s.path \in Seq(FieldLabels) /\ Len(s.path) \in Nat
  BY DEF TvStates, States, Paths
<1>2. PICK k \in 1..Len(s.path) :
        e \in {Push(PrefixState(s, k), LabelSymbol(s.path[k]), PrefixState(s, k-1)),
               Pop(PrefixState(s, k-1), LabelSymbol(s.path[k]), PrefixState(s, k))}
  BY DEF PushPopEdges
<1>3. k \in 0..Len(s.path) /\ k-1 \in 0..Len(s.path) /\ k # k-1
  BY <1>1
<1>4. /\ PrefixState(s, k) \in TvStates /\ PrefixState(s, k-1) \in TvStates
      /\ PrefixState(s, k) # PrefixState(s, k-1)
  BY <1>3, PrefixStates
<1> QED BY <1>2, <1>4 DEF IsAutomatonEdge, IsEdge, Push, Pop, Edge

LEMMA StartStopEdgesAre ==
  ASSUME NEW s \in TvStates, NEW e \in StartStopEdges(s)
  PROVE  IsAutomatonEdge(e)
<1>1. BareState(s) \in TvStates
  BY DEF TvStates, BareState, State, States, Paths, IsTv
<1>2. e = Pop(Start, VarSymbol(s), BareState(s)) \/ e = Push(BareState(s), VarSymbol(s), End)
  <2>1. CASE s.dir = "L"
    BY <2>1 DEF StartStopEdges
  <2>2. CASE s.dir = "R"
    BY <2>2 DEF StartStopEdges
  <2>3. CASE s.dir \notin {"L", "R"}
    BY <2>3 DEF StartStopEdges
  <2> QED BY <2>1, <2>2, <2>3
<1>3. BareState(s) # Start /\ BareState(s) # End
  BY <1>1, StartAndEnd DEF TvStates
<1> QED BY <1>1, <1>2, <1>3 DEF IsAutomatonEdge, IsEdge, Push, Pop, Edge

LEMMA RuleEdgesAre ==
  ASSUME NEW cons \in SUBSET SubtypeConstraints, NEW e \in RuleEdges(cons)
  PROVE  IsAutomatonEdge(e) /\ e.src \in TvStates /\ e.dst \in TvStates
<1>1. ASSUME NEW f \in DirectEdges(cons)
      PROVE  IsAutomatonEdge(f) /\ f.src \in TvStates /\ f.dst \in TvStates
  <2>1. IsAutomatonEdge(f)
    BY DirectEdgesAre
  <2>2. f.kind = "success"
    BY DEF DirectEdges, SubTypeEdge, Success, Edge
  <2> QED BY <2>1, <2>2 DEF IsAutomatonEdge
<1>2. CASE e \in DirectEdges(cons)
  BY <1>1, <1>2
<1>3. ASSUME NEW s \in EndsOf(DirectEdges(cons)), e \in PushPopEdges(s)
      PROVE  IsAutomatonEdge(e) /\ e.src \in TvStates /\ e.dst \in TvStates
  <2>1. s \in TvStates
    BY <1>1 DEF EndsOf, Ends
  <2> QED BY <1>3, <2>1, PushPopEdgesAre
<1> QED BY <1>2, <1>3 DEF RuleEdges

LEMMA FsaEdgesAre ==
  ASSUME NEW cons \in SUBSET SubtypeConstraints, NEW e \in FsaEdges(cons)
  PROVE  IsAutomatonEdge(e)
<1>1. ASSUME NEW s \in EndsOf(RuleEdges(cons)), e \in StartStopEdges(s)
      PROVE  IsAutomatonEdge(e)
  <2>1. s \in TvStates
    BY RuleEdgesAre DEF EndsOf, Ends
  <2> QED BY <1>1, <2>1, StartStopEdgesAre
<1> QED BY <1>1, RuleEdgesAre DEF FsaEdges

LEMMA EndsFinite ==
  ASSUME NEW E, IsFiniteSet(E)
  PROVE  IsFiniteSet(EndsOf(E))
<1> DEFINE src == [e \in E |-> e.src]
           dst == [e \in E |-> e.dst]
<1>1. EndsOf(E) = {src[e] : e \in E} \cup {dst[e] : e \in E}
  BY DEF EndsOf, Ends
<1> HIDE DEF src, dst
<1>2. IsFiniteSet({src[e] : e \in E})
  BY ImageFinite
<1>3. IsFiniteSet({dst[e] : e \in E})
  BY ImageFinite
<1> QED BY <1>1, <1>2, <1>3, FS_Union

\* A finite union of finite sets.
LEMMA UnionFinite ==
  ASSUME NEW S, IsFiniteSet(S), NEW f, \A s \in S : IsFiniteSet(f[s])
  PROVE  IsFiniteSet(UNION {f[s] : s \in S})
<1> DEFINE T == {f[s] : s \in S}
<1>1. \A X \in T : IsFiniteSet(X)
  OBVIOUS
<1>2. IsFiniteSet(T)
  BY ImageFinite
<1>3. IsFiniteSet(UNION T)
  <2> HIDE DEF T
  <2> QED BY <1>1, <1>2, FS_UNION
<1> QED BY <1>3

LEMMA FsaEdgesFinite ==
  ASSUME NEW cons \in SUBSET SubtypeConstraints, IsFiniteSet(cons)
  PROVE  IsFiniteSet(FsaEdges(cons)) /\ IsFiniteSet(FsaNodes(cons))
<1>1. IsFiniteSet(DirectEdges(cons))
  <2> DEFINE co == [c \in cons |-> SubTypeEdge(c.lhs, c.rhs, Co)]
             contra == [c \in cons |-> SubTypeEdge(c.rhs, c.lhs, Contra)]
  <2>1. DirectEdges(cons) = {co[c] : c \in cons} \cup {contra[c] : c \in cons}
    BY DEF DirectEdges
  <2> HIDE DEF co, contra
  <2>2. IsFiniteSet({co[c] : c \in cons})
    BY ImageFinite
  <2>3. IsFiniteSet({contra[c] : c \in cons})
    BY ImageFinite
  <2> QED BY <2>1, <2>2, <2>3, FS_Union
<1>2. ASSUME NEW s \in EndsOf(DirectEdges(cons))
      PROVE  IsFiniteSet(PushPopEdges(s))
  <2> DEFINE down == [k \in 1..Len(s.path) |-> Push(PrefixState(s, k), LabelSymbol(s.path[k]), PrefixState(s, k-1))]
             up == [k \in 1..Len(s.path) |-> Pop(PrefixState(s, k-1), LabelSymbol(s.path[k]), PrefixState(s, k))]
             K == 1..Len(s.path)
  <2>1. PushPopEdges(s) = {down[k] : k \in K} \cup {up[k] : k \in K}
    BY DEF PushPopEdges
  <2>2. s \in TvStates
    <3>1. PICK e \in DirectEdges(cons) : s \in {e.src, e.dst}
      BY DEF EndsOf, Ends
    <3> QED BY <3>1, RuleEdgesAre DEF RuleEdges
  <2>3. IsFiniteSet(K)
    BY <2>2, IntervalSize DEF TvStates, States, Paths
  <2> HIDE DEF down, up, K
  <2>4. IsFiniteSet({down[k] : k \in K})
    BY <2>3, ImageFinite
  <2>5. IsFiniteSet({up[k] : k \in K})
    BY <2>3, ImageFinite
  <2> QED BY <2>1, <2>4, <2>5, FS_Union
<1>3. IsFiniteSet(RuleEdges(cons))
  <2> DEFINE S == EndsOf(DirectEdges(cons))
             f == [s \in S |-> PushPopEdges(s)]
             U == UNION {f[s] : s \in S}
  <2>1. RuleEdges(cons) = DirectEdges(cons) \cup U
    BY DEF RuleEdges
  <2>2. IsFiniteSet(S) /\ \A s \in S : IsFiniteSet(f[s])
    BY <1>1, <1>2, EndsFinite
  <2> HIDE DEF S, f
  <2>3. IsFiniteSet(U)
    BY <2>2, UnionFinite
  <2> HIDE DEF U
  <2> QED BY <1>1, <2>1, <2>3, FS_Union
<1>4. IsFiniteSet(FsaEdges(cons))
  <2> DEFINE S == EndsOf(RuleEdges(cons))
             f == [s \in S |-> StartStopEdges(s)]
             U == UNION {f[s] : s \in S}
  <2>1. FsaEdges(cons) = RuleEdges(cons) \cup U
    BY DEF FsaEdges
  <2>2. IsFiniteSet(S)
    BY <1>3, EndsFinite
  <2>3. \A s : \E x : StartStopEdges(s) = {x} \/ StartStopEdges(s) = {}
    <3> TAKE s
    <3>1. CASE s.dir = "L"
      BY <3>1 DEF StartStopEdges
    <3>2. CASE s.dir = "R"
      BY <3>2 DEF StartStopEdges
    <3>3. CASE s.dir \notin {"L", "R"}
      BY <3>3 DEF StartStopEdges
    <3> QED BY <3>1, <3>2, <3>3
  <2>4. \A s \in S : IsFiniteSet(f[s])
    BY <2>3, FS_Singleton, FS_EmptySet
  <2> HIDE DEF S, f
  <2>5. IsFiniteSet(U)
    BY <2>2, <2>4, UnionFinite
  <2> HIDE DEF U
  <2> QED BY <1>3, <2>1, <2>5, FS_Union
<1>5. IsFiniteSet(EndsOf(FsaEdges(cons)) \cup {Start, End})
  <2> DEFINE S == EndsOf(FsaEdges(cons))
  <2>1. IsFiniteSet(S)
    BY <1>4, EndsFinite
  <2> HIDE DEF S
  <2>2. IsFiniteSet(S \cup {Start})
    BY <2>1, FS_AddElement
  <2>3. IsFiniteSet((S \cup {Start}) \cup {End})
    BY <2>2, FS_AddElement
  <2>4. (S \cup {Start}) \cup {End} = S \cup {Start, End}
    OBVIOUS
  <2> QED BY <2>3, <2>4 DEF S
<1> QED BY <1>4, <1>5 DEF FsaNodes

-----------------------------------------------------------------------------
(* Saturation adds success edges between states of type variables: only the *)
(* sources of pushes define, and only the targets of pops are linked to.     *)

TvNodesOf(cons) == {s \in FsaNodes(cons) : s \in TvStates}
Symbols(cons) == {e.sym : e \in FsaEdges(cons)} \cup {LabelSymbol(Load), LabelSymbol(Store)}
Places(cons) == FsaNodes(cons) \cup {Not(s) : s \in FsaNodes(cons)}
MostPushes(cons) == Places(cons) \X Symbols(cons) \X TvNodesOf(cons)
Shortcuts(cons) == {Success(x[1], x[2]) : x \in TvNodesOf(cons) \X TvNodesOf(cons)}

LEMMA NodesOfEdges ==
  ASSUME NEW cons \in SUBSET SubtypeConstraints, NEW e \in FsaEdges(cons) \cup Shortcuts(cons)
  PROVE  /\ IsAutomatonEdge(e) \/ e \in Shortcuts(cons)
         /\ e.src \in FsaNodes(cons) /\ e.dst \in FsaNodes(cons)
         /\ e.kind = "push" => e.src \in TvNodesOf(cons)
         /\ e.kind = "pop" => e.dst \in TvNodesOf(cons)
         /\ e.kind # "success" => e \in FsaEdges(cons)
         /\ e \in FsaEdges(cons) => e.sym \in Symbols(cons)
<1>1. CASE e \in FsaEdges(cons)
  BY <1>1, FsaEdgesAre DEF IsAutomatonEdge, FsaNodes, EndsOf, Ends, TvNodesOf, Symbols
<1>2. CASE e \in Shortcuts(cons)
  <2>1. PICK s \in TvNodesOf(cons), t \in TvNodesOf(cons) : e = Success(s, t)
    BY <1>2 DEF Shortcuts
  <2>2. e.src = s /\ e.dst = t /\ e.kind = "success"
    BY <2>1 DEF Success, Edge
  <2>3. e \in FsaEdges(cons) => e.sym \in Symbols(cons)
    BY DEF Symbols
  <2> QED BY <1>2, <2>2, <2>3 DEF TvNodesOf
<1> QED BY <1>1, <1>2

\* What a round is given and what it makes of it.
IsRound(cons, x) ==
  /\ x = <<x[1], x[2]>>
  /\ x[1] \subseteq MostPushes(cons)
  /\ FsaEdges(cons) \subseteq x[2] /\ x[2] \subseteq FsaEdges(cons) \cup Shortcuts(cons)

LEMMA RoundTyped ==
  ASSUME NEW cons \in SUBSET SubtypeConstraints, NEW x, IsRound(cons, x)
  PROVE  LET y == SaturationRound(cons, x)
         IN  IsRound(cons, y) /\ x[1] \subseteq y[1] /\ x[2] \subseteq y[2]
<1> DEFINE carried == UNION {Carried(x[1], e) : e \in SuccessEdges(x[2])}
           mirrored == UNION {Mirrored(x[1], s) : s \in ContraStates(FsaNodes(cons))}
           linked == Linked(x[1], x[2])
           y == SaturationRound(cons, x)
<1>1. y = <<x[1] \cup carried \cup mirrored, x[2] \cup linked>>
  BY DEF SaturationRound
<1>2. \A p \in x[1] : p = <<p[1], p[2], p[3]>> /\ p[2] \in Symbols(cons) /\ p[3] \in TvNodesOf(cons)
  BY DEF IsRound, MostPushes
<1>3. carried \subseteq MostPushes(cons)
  <2> SUFFICES ASSUME NEW e \in SuccessEdges(x[2]), NEW r \in Carried(x[1], e) PROVE r \in MostPushes(cons)
    OBVIOUS
  <2>1. e \in x[2] /\ e.dst \in Places(cons)
    BY NodesOfEdges DEF IsRound, SuccessEdges, Places
  <2>2. PICK p \in x[1] : r = <<e.dst, p[2], p[3]>>
    BY DEF Carried
  <2> QED BY <1>2, <2>1, <2>2 DEF MostPushes
<1>4. mirrored \subseteq MostPushes(cons)
  <2> SUFFICES ASSUME NEW s \in ContraStates(FsaNodes(cons)), NEW r \in Mirrored(x[1], s)
               PROVE  r \in MostPushes(cons)
    OBVIOUS
  <2>1. PICK p \in x[1], m \in {LabelSymbol(Load), LabelSymbol(Store)} : r = <<Not(s), m, p[3]>>
    BY DEF Mirrored
  <2>2. Not(s) \in Places(cons) /\ m \in Symbols(cons)
    BY DEF ContraStates, Places, Symbols
  <2> QED BY <1>2, <2>1, <2>2 DEF MostPushes
<1>5. linked \subseteq Shortcuts(cons)
  <2> SUFFICES ASSUME NEW f \in linked PROVE f \in Shortcuts(cons)
    OBVIOUS
  <2>1. PICK e \in x[2], p \in x[1] : e.kind = "pop" /\ f = Success(p[3], e.dst)
    BY DEF Linked, LinkedPop
  <2>2. e.dst \in TvNodesOf(cons) /\ p[3] \in TvNodesOf(cons)
    BY <1>2, <2>1, NodesOfEdges DEF IsRound
  <2>3. <<p[3], e.dst>> \in TvNodesOf(cons) \X TvNodesOf(cons)
    BY <2>2
  <2> QED BY <2>1, <2>3 DEF Shortcuts
<1> HIDE DEF carried, mirrored, linked
<1>6. y[1] = x[1] \cup carried \cup mirrored /\ y[2] = x[2] \cup linked /\ y = <<y[1], y[2]>>
  BY <1>1
<1> HIDE DEF y
<1>7. IsRound(cons, y) /\ x[1] \subseteq y[1] /\ x[2] \subseteq y[2]
  BY <1>3, <1>4, <1>5, <1>6 DEF IsRound
<1> QED BY <1>7 DEF y

LEMMA FirstRound ==
  ASSUME NEW cons \in SUBSET SubtypeConstraints
  PROVE  IsRound(cons, <<BasePushes(FsaEdges(cons)), FsaEdges(cons)>>)
<1>1. ASSUME NEW r \in BasePushes(FsaEdges(cons)) PROVE r \in MostPushes(cons)
  <2>1. PICK e \in FsaEdges(cons) : e.kind = "push" /\ r = <<e.dst, e.sym, e.src>>
    BY <1>1 DEF BasePushes
  <2>2. e.dst \in Places(cons) /\ e.sym \in Symbols(cons) /\ e.src \in TvNodesOf(cons)
    BY <2>1, NodesOfEdges DEF Places
  <2> QED BY <2>1, <2>2 DEF MostPushes
<1> QED BY <1>1 DEF IsRound

LEMMA RoundsAre ==
  ASSUME NEW cons \in SUBSET SubtypeConstraints
  PROVE  LET h == SaturationRounds(cons)
         IN  /\ h[0] = <<BasePushes(FsaEdges(cons)), FsaEdges(cons)>>
             /\ \A n \in Nat : IsRound(cons, h[n]) /\ h[n+1] = SaturationRound(cons, h[n])
<1> DEFINE A == <<BasePushes(FsaEdges(cons)), FsaEdges(cons)>>
           D == (SUBSET MostPushes(cons)) \X (SUBSET (FsaEdges(cons) \cup Shortcuts(cons)))
           S == {x \in D : IsRound(cons, x)}
           step == [x \in S |-> SaturationRound(cons, x)]
           Eq(f) == f = [n \in Nat |-> IF n = 0 THEN A ELSE SaturationRound(cons, f[n-1])]
<1>1. \A x : IsRound(cons, x) => x \in D
  BY DEF IsRound
<1>2. A \in S /\ step \in [S -> S] /\ \A x \in S : SaturationRound(cons, x) \in S
  <2>1. A \in S
    BY <1>1, FirstRound
  <2>2. \A x \in S : SaturationRound(cons, x) \in S
    <3> HIDE DEF D
    <3> QED BY <1>1, RoundTyped
  <2> HIDE DEF S, A
  <2> QED BY <2>1, <2>2
<1>3. PICK f \in [Nat -> S] : IsIteration(f, A, step)
  <2> HIDE DEF S, A, step
  <2> QED BY <1>2, IterationExists
<1>4. \E h : Eq(h)
  <2>1. \A n \in Nat : n # 0 => n-1 \in Nat /\ (n-1)+1 = n
    OBVIOUS
  <2>2. \A n \in Nat : f[n] = IF n = 0 THEN A ELSE SaturationRound(cons, f[n-1])
    <3> HIDE DEF A, S
    <3> QED BY <1>3, <2>1 DEF IsIteration
  <2> HIDE DEF A, S
  <2>3. f = [n \in Nat |-> f[n]]
    BY <1>3
  <2> QED BY <2>2, <2>3
<1> DEFINE h == SaturationRounds(cons)
<1>5. h = CHOOSE f_1 : Eq(f_1)
  BY DEF SaturationRounds
<1>6. Eq(h)
  <2> HIDE DEF Eq, h
  <2> QED BY <1>4, <1>5
<1>7. h[0] = A /\ \A n \in Nat : h[n+1] = SaturationRound(cons, h[n])
  <2> HIDE DEF h, A
  <2>1. \A n \in Nat : h[n] = IF n = 0 THEN A ELSE SaturationRound(cons, h[n-1])
    BY <1>6
  <2>2. \A n \in Nat : n+1 \in Nat /\ n+1 # 0 /\ (n+1)-1 = n
    OBVIOUS
  <2> QED BY <2>1, <2>2
<1>8. \A n \in Nat : h[n] \in S
  <2> DEFINE T == {n \in Nat : h[n] \in S}
  <2>1. 0 \in T
    BY <1>2, <1>7
  <2>2. \A n \in Nat : n \in T => n+1 \in T
    <3> HIDE DEF h, S
    <3> QED BY <1>2, <1>7
  <2>3. \A n \in Nat : n \in T
    <3> HIDE DEF T
    <3> QED BY <2>1, <2>2, NatSetInduction
  <2> QED BY <2>3
<1> HIDE DEF h, D
<1>9. h[0] = A /\ \A n \in Nat : IsRound(cons, h[n]) /\ h[n+1] = SaturationRound(cons, h[n])
  BY <1>7, <1>8
<1> QED BY <1>9 DEF h

(* The loop comes to its end within the rounds that SaturationEdges looks at. *)
LEMMA SaturationSettles ==
  ASSUME NEW cons \in SUBSET SubtypeConstraints, IsFiniteSet(cons)
  PROVE  \E n \in 0..MostRounds(cons) : SaturationRounds(cons)[n] = SaturationRounds(cons)[n+1]
<1> DEFINE h == SaturationRounds(cons)
           N == FsaNodes(cons)
           T == TvNodesOf(cons)
           U == Places(cons) \X Symbols(cons) \X N
           V == N \X N
           W == MostPushes(cons) \cup (T \X T)
           c[n \in Nat] == h[n][1] \cup {x \in T \X T : Success(x[1], x[2]) \in h[n][2]}
<1>1. \A n \in Nat : IsRound(cons, h[n]) /\ h[n+1] = SaturationRound(cons, h[n])
  BY RoundsAre
<1>2. \A n \in Nat : h[n][1] \subseteq h[n+1][1] /\ h[n][2] \subseteq h[n+1][2]
  <2> HIDE DEF h
  <2> QED BY <1>1, RoundTyped
<1>3. T \subseteq N /\ MostPushes(cons) \subseteq U /\ T \X T \subseteq V
  BY DEF TvNodesOf, MostPushes
<1>4. IsFiniteSet(U) /\ IsFiniteSet(V) /\ MostRounds(cons) = Cardinality(U) + Cardinality(V)
  <2>1. IsFiniteSet(FsaEdges(cons)) /\ IsFiniteSet(N)
    BY FsaEdgesFinite
  <2>2. IsFiniteSet(Places(cons))
    <3> DEFINE f == [s \in N |-> Not(s)]
    <3>1. IsFiniteSet({f[s] : s \in N})
      <4> HIDE DEF f, N
      <4> QED BY <2>1, ImageFinite
    <3>2. Places(cons) = N \cup {f[s] : s \in N}
      BY DEF Places
    <3> HIDE DEF f, N
    <3> QED BY <2>1, <3>1, <3>2, FS_Union
  <2>3. IsFiniteSet(Symbols(cons))
    <3> DEFINE f == [e \in FsaEdges(cons) |-> e.sym]
               Y == {f[e] : e \in FsaEdges(cons)}
    <3>1. IsFiniteSet(Y)
      <4> HIDE DEF f
      <4> QED BY <2>1, ImageFinite
    <3>2. Symbols(cons) = (Y \cup {LabelSymbol(Load)}) \cup {LabelSymbol(Store)}
      BY DEF Symbols
    <3> HIDE DEF Y
    <3>3. IsFiniteSet(Y \cup {LabelSymbol(Load)})
      BY <3>1, FS_AddElement
    <3> QED BY <3>2, <3>3, FS_AddElement
  <2>4. IsFiniteSet(V)
    <3> HIDE DEF N
    <3> QED BY <2>1, FS_Product
  <2>5. IsFiniteSet(U)
    <3> DEFINE X == (Places(cons) \X Symbols(cons)) \X N
               f == [x \in X |-> <<x[1][1], x[1][2], x[2]>>]
    <3>1. IsFiniteSet(Places(cons) \X Symbols(cons))
      BY <2>2, <2>3, FS_Product
    <3>2. IsFiniteSet(X)
      <4> HIDE DEF N
      <4> QED BY <2>1, <3>1, FS_Product
    <3>3. U = {f[x] : x \in X}
      <4>1. ASSUME NEW u \in U PROVE u \in {f[x] : x \in X}
        <5>1. <<<<u[1], u[2]>>, u[3]>> \in X
          OBVIOUS
        <5> QED BY <5>1
      <4>2. \A x \in X : f[x] \in U
        OBVIOUS
      <4> QED BY <4>1, <4>2
    <3>4. IsFiniteSet({f[x] : x \in X})
      <4> HIDE DEF f, X
      <4> QED BY <3>2, ImageFinite
    <3> QED BY <3>3, <3>4
  <2> QED BY <2>4, <2>5 DEF MostRounds, Places, Symbols
<1>5. U \cap V = {} /\ MostPushes(cons) \cap (T \X T) = {}
  BY DEF MostPushes
<1>6. IsFiniteSet(W) /\ Cardinality(W) <= MostRounds(cons) /\ Cardinality(W) \in Nat /\ MostRounds(cons) \in Nat
  <2>1. W \subseteq U \cup V
    BY <1>3
  <2>2. Cardinality(U) \in Nat /\ Cardinality(V) \in Nat /\ Cardinality(U \cap V) = 0
    BY <1>4, <1>5, FS_CardinalityType, FS_EmptySet
  <2> HIDE DEF U, V, W
  <2>3. IsFiniteSet(U \cup V) /\ Cardinality(U \cup V) = Cardinality(U) + Cardinality(V)
    <3>1. IsFiniteSet(U) /\ IsFiniteSet(V)
      BY <1>4
    <3>2. /\ IsFiniteSet(U \cup V)
          /\ Cardinality(U \cup V) = Cardinality(U) + Cardinality(V) - Cardinality(U \cap V)
      BY <3>1, FS_Union
    <3> QED BY <2>2, <3>2
  <2>4. IsFiniteSet(W) /\ Cardinality(W) <= Cardinality(U \cup V)
    BY <2>1, <2>3, FS_Subset
  <2> QED BY <1>4, <2>2, <2>3, <2>4, FS_CardinalityType
<1>7. \A n \in Nat : c[n] \subseteq W /\ c[n] \subseteq c[n+1]
  <2> HIDE DEF h
  <2> QED BY <1>1, <1>2 DEF IsRound
<1>8. PICK n \in 0..Cardinality(W) : c[n] = c[n+1]
  <2> HIDE DEF c, W
  <2> QED BY <1>6, <1>7, ChainSettles
<1>9. n \in 0..MostRounds(cons) /\ n \in Nat /\ n+1 \in Nat
  <2> HIDE DEF W
  <2> QED BY <1>6, <1>8
<1>10. h[n][1] = h[n+1][1]
  <2> SUFFICES ASSUME NEW p \in h[n+1][1] PROVE p \in h[n][1]
    BY <1>2, <1>9
  <2> HIDE DEF h
  <2>1. p \in MostPushes(cons)
    BY <1>1, <1>9 DEF IsRound
  <2>2. p \in c[n]
    BY <1>8, <1>9
  <2>3. p \in h[n][1] \/ p \in T \X T
    BY <1>9, <2>2
  <2> QED BY <1>5, <2>1, <2>3
<1>11. h[n][2] = h[n+1][2]
  <2> SUFFICES ASSUME NEW e \in h[n+1][2] PROVE e \in h[n][2]
    BY <1>2, <1>9
  <2> HIDE DEF h
  <2>1. CASE e \in FsaEdges(cons)
    BY <1>1, <1>9, <2>1 DEF IsRound
  <2>2. CASE e \notin FsaEdges(cons)
    <3>1. PICK x \in T \X T : e = Success(x[1], x[2])
      BY <1>1, <1>9, <2>2 DEF IsRound, Shortcuts
    <3>2. x \in c[n+1]
      BY <1>9, <3>1
    <3>3. x \in c[n]
      BY <1>8, <3>2
    <3>4. x \notin h[n][1]
      BY <1>1, <1>5, <1>9 DEF IsRound
    <3> QED BY <1>9, <3>1, <3>3, <3>4
  <2> QED BY <2>1, <2>2
<1> HIDE DEF h
<1>12. h[n] = h[n+1]
  BY <1>1, <1>9, <1>10, <1>11 DEF IsRound
<1> QED BY <1>9, <1>12 DEF h

LEMMA SaturationEdgesAre ==
  ASSUME NEW cons \in SUBSET SubtypeConstraints, IsFiniteSet(cons),
         NEW e \in FsaEdges(cons) \cup SaturationEdges(cons)
  PROVE  IsAutomatonEdge(e) /\ e.src \in FsaNodes(cons) /\ e.dst \in FsaNodes(cons)
<1>1. CASE e \in FsaEdges(cons)
  BY <1>1, FsaEdgesAre DEF FsaNodes, EndsOf, Ends
<1>2. CASE e \notin FsaEdges(cons)
  <2> DEFINE h == SaturationRounds(cons)
             last == CHOOSE n \in 0..MostRounds(cons) : h[n] = h[n+1]
  <2>1. last \in 0..MostRounds(cons)
    BY SaturationSettles
  <2>2. e \in h[last][2] /\ e.src # e.dst
    BY <1>2 DEF SaturationEdges
  <2>3. e \in Shortcuts(cons)
    <3>1. last \in Nat
      <4> HIDE DEF last
      <4> QED BY <2>1
    <3> HIDE DEF last
    <3>2. IsRound(cons, h[last])
      BY <3>1, RoundsAre
    <3> QED BY <1>2, <2>2, <3>2 DEF IsRound
  <2>4. PICK s \in TvNodesOf(cons), t \in TvNodesOf(cons) : e = Success(s, t)
    BY <2>3 DEF Shortcuts
  <2> QED BY <2>2, <2>4 DEF Success, Edge, IsAutomatonEdge, IsEdge, TvNodesOf
<1> QED BY <1>1, <1>2

-----------------------------------------------------------------------------
(* What holds of the graph from the cut on. *)

\* Indices come from the free list or are the next number.
FreeListKept(g) ==
  /\ IsArrangement(g.free, Nat) /\ ToSet(g.free) \cap Live(g) = {}
  /\ \E n \in Nat : Live(g) \cup ToSet(g.free) = 1..n

\* However old their entries are, the maps give the start and the end to no state
\* but Start and End.
MapsApart(g) ==
  /\ Start \in DOMAIN g.mp /\ End \in DOMAIN g.copies
  /\ StartIdx(g) \in Live(g) /\ g.weight[StartIdx(g)] = Start
  /\ EndIdx(g) \in Live(g) /\ g.weight[EndIdx(g)] = End
  /\ \A s \in DOMAIN g.mp : g.mp[s] # EndIdx(g) /\ (g.mp[s] = StartIdx(g) => s = Start)
  /\ \A s \in DOMAIN g.copies : g.copies[s] # StartIdx(g) /\ (g.copies[s] = EndIdx(g) => s = End)

StatesKept(g) ==
  \A i \in Live(g) : g.weight[i].path \in Paths /\ (IsTv(g.weight[i]) \/ g.weight[i] \in {Start, End})

EdgesKept(g) ==
  \A e \in g.edges : /\ g.weight[e.src] # End /\ g.weight[e.dst] # Start
                     /\ g.weight[e.dst] = End => e.dst = EndIdx(g)
                     /\ e.src = e.dst => e.kind = "success"

\* C is the copy: every push leads into it, and no pop is in it and no edge out of it.
IsCopySide(g, C) ==
  /\ C \subseteq Live(g) /\ StartIdx(g) \notin C /\ EndIdx(g) \in C
  /\ \A e \in g.edges : /\ e.kind = "push" => e.dst \in C
                        /\ e.src \in C => e.dst \in C /\ e.kind # "pop"

IsCutGraph(g) ==
  /\ IsGraph(g) /\ FreeListKept(g) /\ MapsApart(g) /\ StatesKept(g) /\ EdgesKept(g)
  /\ \E C : IsCopySide(g, C)

\* A node on no cycle, now or later.
IsQuiet(g, r) ==
  /\ r \notin {StartIdx(g), EndIdx(g)}
  /\ \/ \A e \in g.edges : e.dst = r => e.src = StartIdx(g)
     \/ \A e \in g.edges : e.src = r => e.dst = EndIdx(g)

\* The maps know every node that may be on a cycle.
NodesNamed(g) ==
  \A i \in Live(g) : IsTv(g.weight[i]) =>
    \/ IsQuiet(g, i)
    \/ /\ g.weight[i].tv \in Vars
       /\ \/ g.weight[i] \in DOMAIN g.mp /\ g.mp[g.weight[i]] = i
          \/ g.weight[i] \in DOMAIN g.copies /\ g.copies[g.weight[i]] = i

LEMMA PositionOf ==
  ASSUME NEW S, NEW s, Enumerates(s, S), NEW x \in S
  PROVE  Position(s, x) \in 1..Len(s) /\ s[Position(s, x)] = x
<1>1. \E i \in 1..Len(s) : s[i] = x
  BY DEF Enumerates, ToSet
<1> QED BY <1>1 DEF Position

LEMMA NodeOrderEnumerates ==
  ASSUME NEW cons \in SUBSET SubtypeConstraints, IsFiniteSet(cons)
  PROVE  Enumerates(NodeOrder(cons), FsaNodes(cons))
BY FsaEdgesFinite, SortedEnumerates DEF NodeOrder, ByFirstUse

\* The states with a copy.
Copied(cons) == EndsOf({e \in FsaEdges(cons) \cup SaturationEdges(cons) : e.kind # "pop"}) \cup {End}

LEMMA CopyOrderEnumerates ==
  ASSUME NEW cons \in SUBSET SubtypeConstraints, IsFiniteSet(cons)
  PROVE  Enumerates(CopyOrder(cons), Copied(cons)) /\ Copied(cons) \subseteq FsaNodes(cons)
<1>1. Copied(cons) \subseteq FsaNodes(cons)
  BY SaturationEdgesAre DEF Copied, EndsOf, Ends, FsaNodes
<1>2. IsFiniteSet(Copied(cons))
  BY <1>1, FsaEdgesFinite, FS_Subset
<1> QED BY <1>1, <1>2, SortedEnumerates DEF CopyOrder, ByFirstUse, Copied

\* The graph after the cut, with the indices of the states and of their copies.
At(cons) == [s \in FsaNodes(cons) |-> Position(NodeOrder(cons), s)]
CopyAt(cons) == [s \in Copied(cons) |-> Len(NodeOrder(cons)) + Position(CopyOrder(cons), s)]

SaturatedEdge(cons, e) == Edge(At(cons)[e.src], e.kind, e.sym, At(cons)[e.dst])
EnteringEdge(cons, e) == Edge(At(cons)[e.src], e.kind, e.sym, CopyAt(cons)[e.dst])
CopiedEdge(cons, e) == Edge(CopyAt(cons)[e.src], e.kind, e.sym, CopyAt(cons)[e.dst])

IsCutOf(h, g, order, size, copies) ==
  /\ h.mp = g.mp /\ h.free = g.free /\ h.copies = copies
  /\ h.weight = [i \in 1..(size + Len(order)) |-> IF i <= size THEN g.weight[i] ELSE order[i - size]]
  /\ \A e \in h.edges : \E f \in g.edges :
       \/ f.kind # "push" /\ e = f
       \/ f.kind = "push" /\ e = [f EXCEPT !.dst = copies[g.weight[f.dst]]]
       \/ f.kind # "pop" /\ e = [f EXCEPT !.src = copies[g.weight[f.src]], !.dst = copies[g.weight[f.dst]]]

LEMMA CutFields ==
  ASSUME NEW cons, NEW g
  PROVE  IsCutOf(Cut(g, cons), g, CopyOrder(cons), Cardinality(Live(g)),
                 [s \in ToSet(CopyOrder(cons)) |-> Cardinality(Live(g)) + Position(CopyOrder(cons), s)])
<1> DEFINE order == CopyOrder(cons)
           size == Cardinality(Live(g))
           copies == [s \in ToSet(order) |-> size + Position(order, s)]
           W == [i \in 1..(size + Len(order)) |-> IF i <= size THEN g.weight[i] ELSE order[i - size]]
           E1 == {e \in g.edges : e.kind # "push"}
           E2 == {[e EXCEPT !.dst = copies[g.weight[@]]] : e \in {f \in g.edges : f.kind = "push"}}
           E3 == {[e EXCEPT !.src = copies[g.weight[@]], !.dst = copies[g.weight[@]]] :
                            e \in {f \in g.edges : f.kind # "pop"}}
           E == E1 \cup E2 \cup E3
           h == Cut(g, cons)
<1>1. h = Graph(W, g.mp, copies, E, g.free)
  BY DEF Cut, CutAlong
<1>2. ASSUME NEW e \in E
      PROVE  \E f \in g.edges :
               \/ f.kind # "push" /\ e = f
               \/ f.kind = "push" /\ e = [f EXCEPT !.dst = copies[g.weight[f.dst]]]
               \/ f.kind # "pop" /\ e = [f EXCEPT !.src = copies[g.weight[f.src]], !.dst = copies[g.weight[f.dst]]]
  <2>1. CASE e \in E1
    BY <2>1
  <2>2. CASE e \in E2
    <3>1. PICK f \in g.edges : f.kind = "push" /\ e = [f EXCEPT !.dst = copies[g.weight[f.dst]]]
      BY <2>2
    <3> QED BY <3>1
  <2>3. CASE e \in E3
    <3>1. PICK f \in g.edges :
            f.kind # "pop" /\ e = [f EXCEPT !.src = copies[g.weight[f.src]], !.dst = copies[g.weight[f.dst]]]
      BY <2>3
    <3> QED BY <3>1
  <2> QED BY <2>1, <2>2, <2>3
<1>3. h.mp = g.mp /\ h.free = g.free /\ h.copies = copies /\ h.weight = W /\ h.edges = E
  <2> HIDE DEF W, copies, E, h
  <2> QED BY <1>1 DEF Graph
<1> HIDE DEF h, E, copies
<1>4. IsCutOf(h, g, order, size, copies)
  BY <1>2, <1>3 DEF IsCutOf
<1> QED BY <1>4 DEF h, copies

LEMMA CutAre ==
  ASSUME NEW cons \in SUBSET SubtypeConstraints, IsFiniteSet(cons),
         NEW g, g = Cut(Saturated(cons), cons)
  PROVE  LET n == Len(NodeOrder(cons))
             m == Len(CopyOrder(cons))
             A == FsaEdges(cons) \cup SaturationEdges(cons)
         IN  /\ n \in Nat /\ m \in Nat
             /\ g.mp = At(cons) /\ g.copies = CopyAt(cons) /\ g.free = <<>>
             /\ Live(g) = 1..n+m
             /\ \A s \in FsaNodes(cons) : At(cons)[s] \in 1..n /\ g.weight[At(cons)[s]] = s
             /\ \A s \in Copied(cons) : CopyAt(cons)[s] \in n+1..n+m /\ g.weight[CopyAt(cons)[s]] = s
             /\ \A i \in 1..n+m : g.weight[i] \in FsaNodes(cons)
             /\ \A i \in 1..n : At(cons)[g.weight[i]] = i
             /\ \A i \in n+1..n+m : g.weight[i] \in Copied(cons) /\ CopyAt(cons)[g.weight[i]] = i
             /\ \A e \in g.edges : \E f \in A :
                  \/ f.kind # "push" /\ e = SaturatedEdge(cons, f)
                  \/ f.kind = "push" /\ e = EnteringEdge(cons, f)
                  \/ f.kind # "pop" /\ e = CopiedEdge(cons, f)
<1> DEFINE o == NodeOrder(cons)
           p == CopyOrder(cons)
           n == Len(o)
           m == Len(p)
           N == FsaNodes(cons)
           K == Copied(cons)
           A == FsaEdges(cons) \cup SaturationEdges(cons)
           w == [i \in 1..n |-> o[i]]
           E == {SaturatedEdge(cons, e) : e \in A}
           s0 == Saturated(cons)
<1>1. /\ Enumerates(o, N) /\ Enumerates(p, K) /\ K \subseteq N
      /\ n \in Nat /\ m \in Nat /\ ToSet(o) = N /\ ToSet(p) = K
  BY NodeOrderEnumerates, CopyOrderEnumerates DEF Enumerates
<1>2. s0.weight = w /\ s0.mp = At(cons) /\ s0.edges = E /\ s0.free = <<>>
  <2>1. \A e \in A : Edge(Position(o, e.src), e.kind, e.sym, Position(o, e.dst)) = SaturatedEdge(cons, e)
    BY SaturationEdgesAre DEF SaturatedEdge, At
  <2>2. {Edge(Position(o, e.src), e.kind, e.sym, Position(o, e.dst)) : e \in A} = E
    BY <2>1
  <2>3. [s \in ToSet(o) |-> Position(o, s)] = At(cons)
    BY <1>1 DEF At
  <2>4. Saturated(cons) = Graph(w, At(cons), <<>>, E, <<>>)
    BY <2>2, <2>3 DEF Saturated, Numbered
  <2> HIDE DEF w, E
  <2> QED BY <2>4 DEF Graph
<1>3. Live(s0) = 1..n /\ Cardinality(Live(s0)) = n
  <2>1. Live(s0) = 1..n
    BY <1>2 DEF Live
  <2>2. Cardinality(1..n) = n
    <3> HIDE DEF n
    <3> QED BY <1>1, IntervalSize
  <2> QED BY <2>1, <2>2
<1> DEFINE w2 == [i \in 1..(n + m) |-> IF i <= n THEN w[i] ELSE p[i - n]]
<1>4. [s \in ToSet(p) |-> n + Position(p, s)] = CopyAt(cons)
  BY <1>1 DEF CopyAt
<1>5. /\ g.mp = At(cons) /\ g.copies = CopyAt(cons) /\ g.free = <<>> /\ g.weight = w2
      /\ \A e \in g.edges : \E f \in E :
           \/ f.kind # "push" /\ e = f
           \/ f.kind = "push" /\ e = [f EXCEPT !.dst = CopyAt(cons)[w[f.dst]]]
           \/ f.kind # "pop" /\ e = [f EXCEPT !.src = CopyAt(cons)[w[f.src]], !.dst = CopyAt(cons)[w[f.dst]]]
  <2>1. IsCutOf(g, s0, p, n, CopyAt(cons))
    <3> HIDE DEF n, p
    <3> QED BY <1>3, <1>4, CutFields DEF p
  <2> HIDE DEF s0, p, n, w, E
  <2>2. g.mp = At(cons) /\ g.copies = CopyAt(cons) /\ g.free = <<>>
    BY <1>2, <2>1 DEF IsCutOf
  <2>3. g.weight = w2
    BY <1>2, <2>1 DEF IsCutOf
  <2> HIDE DEF w2
  <2>4. ASSUME NEW e \in g.edges
        PROVE  \E f \in E :
                 \/ f.kind # "push" /\ e = f
                 \/ f.kind = "push" /\ e = [f EXCEPT !.dst = CopyAt(cons)[w[f.dst]]]
                 \/ f.kind # "pop" /\ e = [f EXCEPT !.src = CopyAt(cons)[w[f.src]], !.dst = CopyAt(cons)[w[f.dst]]]
    <3>1. PICK f \in s0.edges :
            \/ f.kind # "push" /\ e = f
            \/ f.kind = "push" /\ e = [f EXCEPT !.dst = CopyAt(cons)[s0.weight[f.dst]]]
            \/ f.kind # "pop" /\ e = [f EXCEPT !.src = CopyAt(cons)[s0.weight[f.src]],
                                            !.dst = CopyAt(cons)[s0.weight[f.dst]]]
      BY <2>1 DEF IsCutOf
    <3>2. s0.weight[f.src] = w[f.src] /\ s0.weight[f.dst] = w[f.dst] /\ f \in E
      BY <1>2
    <3> QED BY <3>1, <3>2
  <2> QED BY <2>2, <2>3, <2>4
<1>6. \A s \in N : At(cons)[s] \in 1..n /\ w[At(cons)[s]] = s /\ w2[At(cons)[s]] = s
  <2> TAKE s \in N
  <2>1. Position(o, s) \in 1..n /\ o[Position(o, s)] = s /\ At(cons)[s] = Position(o, s)
    BY <1>1, PositionOf DEF At
  <2> HIDE DEF n, o, N, m, p
  <2> QED BY <1>1, <2>1
<1>7. \A s \in K : CopyAt(cons)[s] \in n+1..n+m /\ w2[CopyAt(cons)[s]] = s
  <2> TAKE s \in K
  <2>1. Position(p, s) \in 1..m /\ p[Position(p, s)] = s /\ CopyAt(cons)[s] = n + Position(p, s)
    BY <1>1, PositionOf DEF CopyAt
  <2> HIDE DEF n, o, K, m, p, w
  <2> QED BY <1>1, <2>1
<1>8. \A i \in 1..n+m : w2[i] \in N
  <2>1. \A i \in 1..n : o[i] \in N
    BY <1>1 DEF Enumerates
  <2>2. \A i \in 1..m : p[i] \in N
    BY <1>1 DEF Enumerates
  <2> HIDE DEF n, o, N, m, p
  <2> QED BY <1>1, <2>1, <2>2
<1>10. \A i \in 1..n : At(cons)[w2[i]] = i
  <2> TAKE i \in 1..n
  <2>1. o[i] \in N
    BY <1>1 DEF Enumerates
  <2>2. Position(o, o[i]) \in 1..n /\ o[Position(o, o[i])] = o[i] /\ At(cons)[o[i]] = Position(o, o[i])
    BY <1>1, <2>1, PositionOf DEF At
  <2>3. Position(o, o[i]) = i
    BY <1>1, <2>2 DEF Enumerates
  <2>4. w2[i] = o[i]
    <3> HIDE DEF n, o, m, p
    <3> QED BY <1>1
  <2> QED BY <2>2, <2>3, <2>4
<1>11. \A i \in n+1..n+m : w2[i] \in K /\ CopyAt(cons)[w2[i]] = i
  <2> TAKE i \in n+1..n+m
  <2> DEFINE j == i - n
  <2>1. j \in 1..m /\ i = n + j
    <3> HIDE DEF n, m
    <3> QED BY <1>1
  <2>2. p[j] \in K
    BY <1>1, <2>1 DEF Enumerates
  <2>3. Position(p, p[j]) \in 1..m /\ p[Position(p, p[j])] = p[j] /\ CopyAt(cons)[p[j]] = n + Position(p, p[j])
    BY <1>1, <2>2, PositionOf DEF CopyAt
  <2>4. Position(p, p[j]) = j
    BY <1>1, <2>1, <2>3 DEF Enumerates
  <2>5. w2[i] = p[j]
    <3> HIDE DEF n, o, m, p, w
    <3> QED BY <1>1, <2>1
  <2> QED BY <2>1, <2>2, <2>3, <2>4, <2>5
<1>9. ASSUME NEW e \in g.edges
      PROVE  \E f \in A : \/ f.kind # "push" /\ e = SaturatedEdge(cons, f)
                          \/ f.kind = "push" /\ e = EnteringEdge(cons, f)
                          \/ f.kind # "pop" /\ e = CopiedEdge(cons, f)
  <2>1. ASSUME NEW f \in A
        PROVE  /\ SaturatedEdge(cons, f).kind = f.kind
               /\ w[SaturatedEdge(cons, f).src] = f.src /\ w[SaturatedEdge(cons, f).dst] = f.dst
    BY <1>6, SaturationEdgesAre DEF SaturatedEdge, Edge
  <2> HIDE DEF w, w2
  <2>2. PICK f \in A :
           \/ f.kind # "push" /\ e = SaturatedEdge(cons, f)
           \/ f.kind = "push" /\ e = [SaturatedEdge(cons, f) EXCEPT !.dst = CopyAt(cons)[f.dst]]
           \/ f.kind # "pop" /\ e = [SaturatedEdge(cons, f) EXCEPT !.src = CopyAt(cons)[f.src],
                                                                  !.dst = CopyAt(cons)[f.dst]]
    <3>1. PICK x \in E :
            \/ x.kind # "push" /\ e = x
            \/ x.kind = "push" /\ e = [x EXCEPT !.dst = CopyAt(cons)[w[x.dst]]]
            \/ x.kind # "pop" /\ e = [x EXCEPT !.src = CopyAt(cons)[w[x.src]], !.dst = CopyAt(cons)[w[x.dst]]]
      BY <1>5
    <3>2. PICK f \in A : x = SaturatedEdge(cons, f)
      OBVIOUS
    <3> HIDE DEF E, A
    <3> QED BY <2>1, <3>1, <3>2
  <2>3. ASSUME f.kind = "push", e = [SaturatedEdge(cons, f) EXCEPT !.dst = CopyAt(cons)[f.dst]]
        PROVE  e = EnteringEdge(cons, f)
    BY <2>3 DEF SaturatedEdge, EnteringEdge, Edge
  <2>4. ASSUME f.kind # "pop",
               e = [SaturatedEdge(cons, f) EXCEPT !.src = CopyAt(cons)[f.src], !.dst = CopyAt(cons)[f.dst]]
        PROVE  e = CopiedEdge(cons, f)
    BY <2>4 DEF SaturatedEdge, CopiedEdge, Edge
  <2> QED BY <2>2, <2>3, <2>4
<1> HIDE DEF w, w2, E, A, o, p
<1> QED BY <1>1, <1>5, <1>6, <1>7, <1>8, <1>9, <1>10, <1>11 DEF Live, w2, A, o, p

LEMMA CutIsCut ==
  ASSUME NEW cons \in SUBSET SubtypeConstraints, IsFiniteSet(cons)
  PROVE  IsCutGraph(Cut(Saturated(cons), cons))
<1> DEFINE n == Len(NodeOrder(cons))
           m == Len(CopyOrder(cons))
           A == FsaEdges(cons) \cup SaturationEdges(cons)
           N == FsaNodes(cons)
           K == Copied(cons)
           C == n+1..n+m
<1> PICK g : g = Cut(Saturated(cons), cons)
  OBVIOUS
<1>1. /\ n \in Nat /\ m \in Nat
      /\ g.mp = At(cons) /\ g.copies = CopyAt(cons) /\ g.free = <<>>
      /\ Live(g) = 1..n+m
      /\ \A s \in N : At(cons)[s] \in 1..n /\ g.weight[At(cons)[s]] = s
      /\ \A s \in K : CopyAt(cons)[s] \in n+1..n+m /\ g.weight[CopyAt(cons)[s]] = s
      /\ \A i \in 1..n+m : g.weight[i] \in N
      /\ \A e \in g.edges : \E f \in A :
           \/ f.kind # "push" /\ e = SaturatedEdge(cons, f)
           \/ f.kind = "push" /\ e = EnteringEdge(cons, f)
           \/ f.kind # "pop" /\ e = CopiedEdge(cons, f)
  BY CutAre
<1>2. \A f \in A : IsAutomatonEdge(f) /\ f.src \in N /\ f.dst \in N
  BY SaturationEdgesAre
<1>3. \A f \in A : f.kind # "pop" => f.src \in K /\ f.dst \in K
  BY DEF Copied, EndsOf, Ends
<1>4. Start \in N /\ End \in K /\ End \in N
  BY DEF FsaNodes, Copied
<1>5. DOMAIN g.mp = N /\ DOMAIN g.copies = K
  BY <1>1 DEF At, CopyAt
<1> HIDE DEF A, N, K, n, m
<1>6. 1..n \subseteq Live(g) /\ C \subseteq Live(g) /\ 1..n \cap C = {} /\ n+m \in Nat
  BY <1>1
<1>7. \A f \in A : /\ At(cons)[f.src] \in 1..n /\ g.weight[At(cons)[f.src]] = f.src
                   /\ At(cons)[f.dst] \in 1..n /\ g.weight[At(cons)[f.dst]] = f.dst
                   /\ f.kind # "pop" => /\ CopyAt(cons)[f.src] \in C /\ g.weight[CopyAt(cons)[f.src]] = f.src
                                        /\ CopyAt(cons)[f.dst] \in C /\ g.weight[CopyAt(cons)[f.dst]] = f.dst
  BY <1>1, <1>2, <1>3
<1>8. StartIdx(g) \in 1..n /\ EndIdx(g) \in C /\ g.weight[StartIdx(g)] = Start /\ g.weight[EndIdx(g)] = End
  BY <1>1, <1>4 DEF StartIdx, EndIdx
<1> HIDE DEF C
<1>9. ASSUME NEW e \in g.edges
      PROVE  \E f \in A : /\ IsEdge(e) /\ e.kind = f.kind
                          /\ g.weight[e.src] = f.src /\ g.weight[e.dst] = f.dst
                          /\ \/ f.kind # "push" /\ e.src \in 1..n /\ e.dst \in 1..n
                             \/ f.kind = "push" /\ e.src \in 1..n /\ e.dst = CopyAt(cons)[f.dst] /\ e.dst \in C
                             \/ f.kind # "pop" /\ e.src \in C /\ e.dst = CopyAt(cons)[f.dst] /\ e.dst \in C
  BY <1>1, <1>7 DEF IsEdge, Edge, SaturatedEdge, EnteringEdge, CopiedEdge
<1>10. IsGraph(g)
  <2>1. IsFiniteSet(Live(g)) /\ Live(g) \subseteq Nat \ {NoIndex}
    BY <1>1, <1>6, IntervalSize DEF NoIndex
  <2>2. \A e \in g.edges : IsEdge(e) /\ e.src \in Live(g) /\ e.dst \in Live(g)
    BY <1>6, <1>9
  <2> QED BY <2>1, <2>2 DEF IsGraph
<1>11. FreeListKept(g)
  <2>1. ToSet(g.free) = {} /\ IsArrangement(g.free, Nat)
    BY <1>1 DEF ToSet, IsArrangement
  <2> QED BY <1>1, <1>6, <2>1 DEF FreeListKept
<1>12. MapsApart(g)
  <2>1. \A s \in N : g.mp[s] \in 1..n /\ g.weight[g.mp[s]] = s
    BY <1>1
  <2>2. \A s \in K : g.copies[s] \in C /\ g.weight[g.copies[s]] = s
    BY <1>1 DEF C
  <2>3. \A s \in N : g.mp[s] # EndIdx(g) /\ (g.mp[s] = StartIdx(g) => s = Start)
    BY <1>6, <1>8, <2>1
  <2>4. \A s \in K : g.copies[s] # StartIdx(g) /\ (g.copies[s] = EndIdx(g) => s = End)
    BY <1>6, <1>8, <2>2
  <2> QED BY <1>4, <1>5, <1>6, <1>8, <2>3, <2>4 DEF MapsApart
<1>13. StatesKept(g)
  <2>1. \A s \in N : s \in TvStates \cup {Start, End}
    <3>1. \A f \in A : f.src \in TvStates \cup {Start, End} /\ f.dst \in TvStates \cup {Start, End}
      BY <1>2 DEF IsAutomatonEdge
    <3> QED BY <3>1 DEF N, A, FsaNodes, EndsOf, Ends
  <2>2. \A s \in N : s.path \in Paths /\ (IsTv(s) \/ s \in {Start, End})
    BY <2>1, StartAndEnd DEF TvStates, States
  <2> QED BY <1>1, <2>2 DEF StatesKept
<1>14. EdgesKept(g)
  <2> SUFFICES ASSUME NEW e \in g.edges
               PROVE  /\ g.weight[e.src] # End /\ g.weight[e.dst] # Start
                      /\ g.weight[e.dst] = End => e.dst = EndIdx(g)
                      /\ e.src = e.dst => e.kind = "success"
    BY DEF EdgesKept
  <2> PICK f \in A : /\ IsEdge(e) /\ e.kind = f.kind
                     /\ g.weight[e.src] = f.src /\ g.weight[e.dst] = f.dst
                     /\ \/ f.kind # "push" /\ e.src \in 1..n /\ e.dst \in 1..n
                        \/ f.kind = "push" /\ e.src \in 1..n /\ e.dst = CopyAt(cons)[f.dst] /\ e.dst \in C
                        \/ f.kind # "pop" /\ e.src \in C /\ e.dst = CopyAt(cons)[f.dst] /\ e.dst \in C
    BY <1>9
  <2>1. IsAutomatonEdge(f)
    BY <1>2
  <2>2. f.src # End /\ f.dst # Start
    BY <2>1, StartAndEnd DEF IsAutomatonEdge, TvStates
  <2>3. f.dst = End => f.kind = "push"
    BY <2>1, StartAndEnd DEF IsAutomatonEdge, TvStates
  <2>4. f.dst = End => e.dst = EndIdx(g)
    BY <1>1, <2>3 DEF EndIdx
  <2>5. e.src = e.dst => e.kind = "success"
    BY <2>1 DEF IsAutomatonEdge
  <2> QED BY <2>2, <2>4, <2>5
<1>15. IsCopySide(g, C)
  <2>1. ASSUME NEW e \in g.edges
        PROVE  (e.kind = "push" => e.dst \in C) /\ (e.src \in C => e.dst \in C /\ e.kind # "pop")
    BY <1>6, <1>9
  <2> QED BY <1>6, <1>8, <2>1 DEF IsCopySide
<1> QED BY <1>10, <1>11, <1>12, <1>13, <1>14, <1>15 DEF IsCutGraph

LEMMA CutNamesNodes ==
  ASSUME NEW cons \in SUBSET SubtypeConstraints, IsFiniteSet(cons)
  PROVE  NodesNamed(Cut(Saturated(cons), cons))
<1> DEFINE n == Len(NodeOrder(cons))
           m == Len(CopyOrder(cons))
<1> PICK g : g = Cut(Saturated(cons), cons)
  OBVIOUS
<1>1. /\ n \in Nat /\ m \in Nat /\ g.mp = At(cons) /\ g.copies = CopyAt(cons) /\ Live(g) = 1..n+m
      /\ \A i \in 1..n+m : g.weight[i] \in FsaNodes(cons)
      /\ \A i \in 1..n : At(cons)[g.weight[i]] = i
      /\ \A i \in n+1..n+m : g.weight[i] \in Copied(cons) /\ CopyAt(cons)[g.weight[i]] = i
  BY CutAre
<1>2. \A s \in FsaNodes(cons) : IsTv(s) => s.tv \in Vars
  <2>1. \A f \in FsaEdges(cons) : f.src \in TvStates \cup {Start, End} /\ f.dst \in TvStates \cup {Start, End}
    BY FsaEdgesAre DEF IsAutomatonEdge
  <2>2. \A s \in FsaNodes(cons) : s \in TvStates \cup {Start, End}
    BY <2>1 DEF FsaNodes, EndsOf, Ends
  <2> QED BY <2>2, StartAndEnd DEF TvStates, States, IsTv
<1> HIDE DEF n, m
<1>3. DOMAIN g.mp = FsaNodes(cons) /\ DOMAIN g.copies = Copied(cons)
  BY <1>1 DEF At, CopyAt
<1>4. ASSUME NEW i \in Live(g), IsTv(g.weight[i])
      PROVE  /\ g.weight[i].tv \in Vars
             /\ \/ g.weight[i] \in DOMAIN g.mp /\ g.mp[g.weight[i]] = i
                \/ g.weight[i] \in DOMAIN g.copies /\ g.copies[g.weight[i]] = i
  <2>1. i \in 1..n \/ i \in n+1..n+m
    BY <1>1
  <2> QED BY <1>1, <1>2, <1>3, <1>4, <2>1
<1> QED BY <1>4 DEF NodesNamed

-----------------------------------------------------------------------------
(* Pruning. *)

\* From the first prune on, a node that is no type variable is the start or the end.
OnlyTypeVars(g) == \A i \in Live(g) : IsTv(g.weight[i]) \/ i \in {StartIdx(g), EndIdx(g)}

\* The start reaches whatever has an edge to more than the end.
IsReached(g) == \A e \in g.edges : e.dst = EndIdx(g) \/ e.src \in Forward(g, StartIdx(g))

IsLoopGraph(g) == IsCutGraph(g) /\ OnlyTypeVars(g) /\ IsReached(g)

LEMMA CopySidePops ==
  ASSUME NEW g, IsGraph(g), NEW C, IsCopySide(g, C), NEW e \in g.edges, e.kind = "push",
         NEW i \in Forward(g, e.dst), NEW f \in g.edges, f.src = i
  PROVE  f.kind # "pop"
<1>1. e.dst \in C /\ \A x \in g.edges : x.src \in C => x.dst \in C
  BY DEF IsCopySide
<1>2. Forward(g, e.dst) \subseteq C
  BY <1>1, ForwardIsLeast DEF IsGraph
<1> QED BY <1>2 DEF IsCopySide

LEMMA ConcatArrangement ==
  ASSUME NEW S, NEW s, IsArrangement(s, S), NEW t, IsArrangement(t, S), ToSet(s) \cap ToSet(t) = {}
  PROVE  IsArrangement(s \o t, S) /\ ToSet(s \o t) = ToSet(s) \cup ToSet(t)
<1> DEFINE u == s \o t
<1>1. s \in Seq(S) /\ t \in Seq(S) /\ Len(s) \in Nat /\ Len(t) \in Nat
  BY DEF IsArrangement
<1>2. /\ u \in Seq(S) /\ Len(u) = Len(s) + Len(t)
      /\ \A i \in 1..Len(s)+Len(t) : u[i] = IF i <= Len(s) THEN s[i] ELSE t[i - Len(s)]
  BY <1>1, ConcatProperties
<1>3. \A i \in 1..Len(s)+Len(t) : i <= Len(s) \/ i - Len(s) \in 1..Len(t)
  BY <1>1
<1>4. /\ \A i \in 1..Len(s) : s[i] \in ToSet(s)
      /\ \A i \in 1..Len(t) : t[i] \in ToSet(t)
      /\ DOMAIN s = 1..Len(s) /\ DOMAIN t = 1..Len(t) /\ DOMAIN u = 1..Len(u)
  BY <1>1, <1>2 DEF ToSet
<1> HIDE DEF u
<1>5. \A i, j \in 1..Len(u) : u[i] = u[j] => i = j
  <2> SUFFICES ASSUME NEW i \in 1..Len(u), NEW j \in 1..Len(u), u[i] = u[j] PROVE i = j
    OBVIOUS
  <2>1. CASE i <= Len(s) /\ j <= Len(s)
    BY <1>1, <1>2, <2>1 DEF IsArrangement
  <2>2. CASE i > Len(s) /\ j > Len(s)
    <3>1. u[i] = t[i - Len(s)] /\ u[j] = t[j - Len(s)]
      BY <1>1, <1>2, <2>2
    <3>2. i - Len(s) \in 1..Len(t) /\ j - Len(s) \in 1..Len(t)
      BY <1>1, <1>2, <2>2
    <3>3. i - Len(s) = j - Len(s)
      BY <3>1, <3>2 DEF IsArrangement
    <3> QED BY <1>1, <1>2, <3>3
  <2>3. CASE i <= Len(s) /\ j > Len(s)
    <3>1. u[i] \in ToSet(s)
      BY <1>1, <1>2, <1>4, <2>3
    <3>2. j - Len(s) \in 1..Len(t) /\ u[j] = t[j - Len(s)]
      BY <1>1, <1>2, <2>3
    <3> QED BY <1>4, <3>1, <3>2
  <2>4. CASE i > Len(s) /\ j <= Len(s)
    <3>1. u[j] \in ToSet(s)
      BY <1>1, <1>2, <1>4, <2>4
    <3>2. i - Len(s) \in 1..Len(t) /\ u[i] = t[i - Len(s)]
      BY <1>1, <1>2, <2>4
    <3> QED BY <1>4, <3>1, <3>2
  <2> QED BY <1>1, <1>2, <2>1, <2>2, <2>3, <2>4
<1>6. ToSet(u) \subseteq ToSet(s) \cup ToSet(t)
  <2> SUFFICES ASSUME NEW i \in 1..Len(u) PROVE u[i] \in ToSet(s) \cup ToSet(t)
    BY <1>4 DEF ToSet
  <2>1. CASE i <= Len(s)
    BY <1>1, <1>2, <1>4, <2>1
  <2>2. CASE i > Len(s)
    <3>1. i - Len(s) \in 1..Len(t) /\ u[i] = t[i - Len(s)]
      BY <1>1, <1>2, <2>2
    <3> QED BY <1>4, <3>1
  <2> QED BY <1>1, <1>2, <2>1, <2>2
<1>7. ToSet(s) \subseteq ToSet(u)
  <2> SUFFICES ASSUME NEW i \in 1..Len(s) PROVE s[i] \in ToSet(u)
    BY <1>4 DEF ToSet
  <2>1. i \in 1..Len(u) /\ u[i] = s[i]
    BY <1>1, <1>2
  <2> QED BY <1>4, <2>1 DEF ToSet
<1>8. ToSet(t) \subseteq ToSet(u)
  <2> SUFFICES ASSUME NEW i \in 1..Len(t) PROVE t[i] \in ToSet(u)
    BY <1>4 DEF ToSet
  <2>1. i + Len(s) \in 1..Len(u) /\ ~(i + Len(s) <= Len(s)) /\ (i + Len(s)) - Len(s) = i
    BY <1>1, <1>2
  <2>2. u[i + Len(s)] = t[i]
    BY <1>2, <2>1
  <2> QED BY <1>4, <2>1, <2>2 DEF ToSet
<1> QED BY <1>2, <1>5, <1>6, <1>7, <1>8 DEF IsArrangement, u

IsPrunedOf(h, g, keep) ==
  /\ h.mp = g.mp /\ h.copies = g.copies
  /\ Live(h) = keep /\ keep \subseteq Live(g)
  /\ \A i \in keep : h.weight[i] = g.weight[i]
  /\ h.edges = {e \in g.edges : e.src \in keep /\ e.dst \in keep}
  /\ h.free = g.free \o Ascending(Live(g) \ keep)
  /\ StartIdx(h) = StartIdx(g) /\ EndIdx(h) = EndIdx(g)

LEMMA PrunedAre ==
  ASSUME NEW g, IsCutGraph(g)
  PROVE  IsPrunedOf(Pruned(g), g, Kept(g))
<1> DEFINE h == Pruned(g)
           keep == Kept(g)
           w == [i \in keep |-> g.weight[i]]
           E == {e \in g.edges : e.src \in keep /\ e.dst \in keep}
           f == g.free \o Ascending(Live(g) \ keep)
<1>1. h = Graph(w, g.mp, g.copies, E, f)
  BY DEF Pruned
<1>2. keep \subseteq Live(g)
  BY ForwardIsLeast, BackwardIsLeast DEF IsCutGraph, MapsApart, IsGraph, Kept
<1>3. h.weight = w /\ h.mp = g.mp /\ h.copies = g.copies /\ h.edges = E /\ h.free = f
  <2> HIDE DEF w, E, f
  <2> QED BY <1>1 DEF Graph
<1> HIDE DEF h, keep
<1>4. IsPrunedOf(h, g, keep)
  BY <1>2, <1>3 DEF Live, StartIdx, EndIdx, IsPrunedOf
<1> QED BY <1>4 DEF h, keep

LEMMA PrunedIsLoopGraph ==
  ASSUME NEW g, IsCutGraph(g), NEW h, h = Pruned(g)
  PROVE  IsLoopGraph(h)
<1> DEFINE F == Forward(g, StartIdx(g))
           B == Backward(g, EndIdx(g))
           keep == Kept(g)
<1>0. keep = (F \cap B) \cup {StartIdx(g), EndIdx(g)}
  BY DEF Kept
<1>1. /\ h.mp = g.mp /\ h.copies = g.copies
      /\ Live(h) = keep /\ keep \subseteq Live(g)
      /\ \A i \in keep : h.weight[i] = g.weight[i]
      /\ h.edges = {e \in g.edges : e.src \in keep /\ e.dst \in keep}
      /\ h.free = g.free \o Ascending(Live(g) \ keep)
      /\ StartIdx(h) = StartIdx(g) /\ EndIdx(h) = EndIdx(g)
  <2> HIDE DEF keep
  <2> QED BY PrunedAre DEF IsPrunedOf, keep
<1>2. IsGraph(g) /\ FreeListKept(g) /\ MapsApart(g) /\ StatesKept(g) /\ EdgesKept(g)
  BY DEF IsCutGraph
<1>3. /\ StartIdx(g) \in F /\ F \subseteq Live(g) /\ \A e \in g.edges : e.src \in F => e.dst \in F
      /\ \A Q : StartIdx(g) \in Q /\ (\A e \in g.edges : e.src \in Q => e.dst \in Q) => F \subseteq Q
  BY <1>2, ForwardIsLeast DEF MapsApart, IsGraph
<1>4. EndIdx(g) \in B /\ B \subseteq Live(g) /\ \A e \in g.edges : e.dst \in B => e.src \in B
  BY <1>2, BackwardIsLeast DEF MapsApart, IsGraph
<1>5. \A i \in F : i = StartIdx(g) \/ \E e \in g.edges : e.dst = i
  BY <1>2, ReachedHasEdges DEF MapsApart
<1> HIDE DEF F, B, keep
<1>6. IsGraph(h)
  <2>1. IsFiniteSet(keep)
    BY <1>1, <1>2, FS_Subset DEF IsGraph
  <2> QED BY <1>1, <1>2, <2>1 DEF IsGraph
<1>7. FreeListKept(h)
  <2> DEFINE D == Live(g) \ keep
  <2>1. IsFiniteSet(D) /\ D \subseteq Nat
    BY <1>2, FS_Subset DEF IsGraph
  <2>2. Enumerates(Ascending(D), D)
    <3> HIDE DEF D
    <3> QED BY <2>1, SortedEnumerates DEF Ascending
  <2>3. IsArrangement(Ascending(D), Nat) /\ ToSet(Ascending(D)) = D
    <3> HIDE DEF D
    <3>1. ASSUME NEW s \in Seq(D) PROVE s \in Seq(Nat)
      <4>1. Len(s) \in Nat /\ s \in [1..Len(s) -> D]
        OBVIOUS
      <4>2. s \in [1..Len(s) -> Nat]
        BY <2>1, <4>1
      <4> QED BY <4>1, <4>2
    <3> QED BY <2>1, <2>2, <3>1 DEF Enumerates, IsArrangement
  <2>4. IsArrangement(g.free, Nat) /\ ToSet(g.free) \cap D = {} /\ ToSet(g.free) \cap Live(g) = {}
    BY <1>2 DEF FreeListKept
  <2>5. IsArrangement(h.free, Nat) /\ ToSet(h.free) = ToSet(g.free) \cup D
    <3> HIDE DEF D
    <3>1. h.free = g.free \o Ascending(D)
      BY <1>1 DEF D
    <3> QED BY <2>3, <2>4, <3>1, ConcatArrangement
  <2>6. Live(h) \cup ToSet(h.free) = Live(g) \cup ToSet(g.free) /\ Live(h) \cap ToSet(h.free) = {}
    <3> QED BY <1>1, <2>4, <2>5
  <2> HIDE DEF D
  <2> QED BY <1>2, <2>5, <2>6 DEF FreeListKept
<1>8. MapsApart(h)
  <2>1. StartIdx(g) \in keep /\ EndIdx(g) \in keep
    BY <1>0
  <2> QED BY <1>1, <1>2, <2>1 DEF MapsApart
<1>9. StatesKept(h)
  <2> QED BY <1>1, <1>2 DEF StatesKept
<1>10. EdgesKept(h)
  <2> QED BY <1>1, <1>2 DEF EdgesKept
<1>11. \E C : IsCopySide(h, C)
  <2>1. PICK C : IsCopySide(g, C)
    BY DEF IsCutGraph
  <2>2. EndIdx(g) \in keep
    BY <1>0
  <2>3. IsCopySide(h, C \cap keep)
    BY <1>1, <2>1, <2>2 DEF IsCopySide
  <2> QED BY <2>3
<1>12. OnlyTypeVars(h)
  <2> SUFFICES ASSUME NEW i \in keep, i # StartIdx(g), i # EndIdx(g) PROVE IsTv(g.weight[i])
    BY <1>1 DEF OnlyTypeVars
  <2>1. PICK e \in g.edges : e.dst = i
    BY <1>0, <1>5
  <2>2. g.weight[i] # Start /\ g.weight[i] # End
    BY <1>2, <2>1 DEF EdgesKept
  <2> QED BY <1>1, <1>2, <2>2 DEF StatesKept
<1>13. IsReached(h)
  <2> DEFINE H == Forward(h, StartIdx(h))
             Q == {i \in F : i \in B => i \in H}
  <2>1. StartIdx(h) \in H /\ \A e \in h.edges : e.src \in H => e.dst \in H
    <3>1. StartIdx(h) \in Live(h)
      BY <1>8 DEF MapsApart
    <3> QED BY <1>6, <3>1, ForwardIsLeast DEF IsGraph
  <2>2. StartIdx(g) \in Q
    BY <1>1, <1>3, <2>1
  <2>3. ASSUME NEW e \in g.edges, e.src \in Q PROVE e.dst \in Q
    <3>1. e.dst \in F
      BY <1>3, <2>3
    <3>2. ASSUME e.dst \in B PROVE e.dst \in H
      <4>1. e.src \in B
        BY <1>4, <3>2
      <4>2. e.src \in H /\ e \in h.edges
        BY <1>0, <1>1, <2>3, <3>1, <3>2, <4>1
      <4> QED BY <2>1, <4>2
    <3> QED BY <3>1, <3>2
  <2>4. F \subseteq Q
    <3> HIDE DEF Q
    <3> QED BY <1>3, <2>2, <2>3
  <2> SUFFICES ASSUME NEW e \in h.edges PROVE e.src \in H
    BY DEF IsReached
  <2>5. e \in g.edges /\ e.src \in keep
    BY <1>1
  <2>6. e.src # EndIdx(g)
    BY <1>2, <2>5 DEF EdgesKept, MapsApart
  <2> QED BY <1>0, <1>1, <2>1, <2>4, <2>5, <2>6
<1> QED BY <1>6, <1>7, <1>8, <1>9, <1>10, <1>11, <1>12, <1>13 DEF IsLoopGraph, IsCutGraph

LEMMA PrunedNamesNodes ==
  ASSUME NEW g, IsCutGraph(g), NodesNamed(g)
  PROVE  NodesNamed(Pruned(g))
<1> DEFINE h == Pruned(g)
<1>1. IsPrunedOf(h, g, Kept(g))
  BY PrunedAre
<1> HIDE DEF h
<1>2. /\ Live(h) \subseteq Live(g) /\ h.edges \subseteq g.edges /\ h.mp = g.mp /\ h.copies = g.copies
      /\ \A i \in Live(h) : h.weight[i] = g.weight[i]
      /\ StartIdx(h) = StartIdx(g) /\ EndIdx(h) = EndIdx(g)
  BY <1>1 DEF IsPrunedOf
<1>3. \A i : IsQuiet(g, i) => IsQuiet(h, i)
  BY <1>2 DEF IsQuiet
<1>4. NodesNamed(h)
  BY <1>2, <1>3 DEF NodesNamed
<1> QED BY <1>4 DEF h

-----------------------------------------------------------------------------
(* Replacing a node. *)

\* h is g with the fresh node n of weight s.
IsExtension(h, g, n, s) ==
  /\ n \in Nat \ {NoIndex} /\ n \notin Live(g)
  /\ Live(h) = Live(g) \cup {n} /\ h.weight[n] = s
  /\ \A j \in Live(g) : h.weight[j] = g.weight[j]
  /\ h.mp = g.mp /\ h.copies = g.copies /\ h.edges = g.edges
  /\ FreeListKept(h)

\* The list of indices without the last of them.
LEMMA FrontArrangement ==
  ASSUME NEW S, NEW s, IsArrangement(s, S), s # <<>>
  PROVE  /\ Last(s) \in ToSet(s)
         /\ IsArrangement(Front(s), S) /\ ToSet(Front(s)) = ToSet(s) \ {Last(s)}
<1> DEFINE n == Len(s)
           t == SubSeq(s, 1, n-1)
<1>1. s \in Seq(S) /\ n \in Nat /\ n # 0 /\ DOMAIN s = 1..n /\ \A i \in 1..n : s[i] \in S
  BY EmptySeq DEF IsArrangement
<1>2. t \in Seq(S) /\ Len(t) = n-1 /\ \A i \in 1..n-1 : t[i] = s[i]
  <2> HIDE DEF n
  <2>1. \A i \in 1..n-1 : i \in 1..n /\ s[i] \in S /\ 1+i-1 = i
    BY <1>1
  <2>2. /\ t \in Seq(S) /\ Len(t) = IF 1 <= n-1 THEN (n-1)-1+1 ELSE 0
        /\ \A i \in 1..(n-1)-1+1 : t[i] = s[1+i-1]
    BY <1>1, <2>1, SubSeqProperties
  <2> QED BY <1>1, <2>1, <2>2
<1>3. Front(s) = t /\ Last(s) = s[n]
  BY DEF Front, Last
<1>4. DOMAIN t = 1..n-1
  BY <1>2
<1> HIDE DEF t
<1>5. \A i, j \in 1..n : s[i] = s[j] => i = j
  BY DEF IsArrangement
<1> HIDE DEF n
<1>6. IsArrangement(t, S)
  <2>1. \A i \in 1..n-1 : i \in 1..n
    BY <1>1
  <2> QED BY <1>2, <1>5, <2>1 DEF IsArrangement
<1>7. s[n] \in ToSet(s) /\ ToSet(s) = {s[i] : i \in 1..n} /\ ToSet(t) = {t[i] : i \in 1..n-1}
  BY <1>1, <1>4 DEF ToSet
<1>8. ToSet(t) = ToSet(s) \ {s[n]}
  <2>1. ASSUME NEW x \in ToSet(t) PROVE x \in ToSet(s) /\ x # s[n]
    <3>1. PICK i \in 1..n-1 : x = s[i]
      BY <1>2, <1>7
    <3>2. i \in 1..n /\ n \in 1..n /\ i # n
      BY <1>1
    <3> QED BY <1>5, <1>7, <3>1, <3>2
  <2>2. ASSUME NEW x \in ToSet(s), x # s[n] PROVE x \in ToSet(t)
    <3>1. PICK i \in 1..n : x = s[i]
      BY <1>7
    <3>2. i # n /\ i \in 1..n-1
      BY <1>1, <2>2, <3>1
    <3> QED BY <1>2, <1>7, <3>1, <3>2
  <2> QED BY <2>1, <2>2
<1> QED BY <1>3, <1>6, <1>7, <1>8

LEMMA AddNodeExtends ==
  ASSUME NEW g, FreeListKept(g), NEW s
  PROVE  IsExtension(AddNode(g, s), g, NextIndex(g), s)
<1> DEFINE n == NextIndex(g)
           h == AddNode(g, s)
           w == With(g.weight, n, s)
           f == IF g.free = <<>> THEN <<>> ELSE Front(g.free)
<1>1. h = Graph(w, g.mp, g.copies, g.edges, f)
  BY DEF AddNode
<1>2. h.weight = w /\ h.mp = g.mp /\ h.copies = g.copies /\ h.edges = g.edges /\ h.free = f
  <2> HIDE DEF w, f
  <2> QED BY <1>1 DEF Graph
<1>3. DOMAIN w = Live(g) \cup {n} /\ w[n] = s /\ \A j \in Live(g) : j # n => w[j] = g.weight[j]
  <2> HIDE DEF n
  <2> QED BY DEF Live, With
<1> PICK m \in Nat : Live(g) \cup ToSet(g.free) = 1..m
  BY DEF FreeListKept
<1>4. IsArrangement(g.free, Nat) /\ ToSet(g.free) \cap Live(g) = {}
  BY DEF FreeListKept
<1>5. /\ n \in Nat \ {NoIndex} /\ n \notin Live(g)
      /\ IsArrangement(f, Nat) /\ ToSet(f) \cap (Live(g) \cup {n}) = {}
      /\ \E k \in Nat : (Live(g) \cup {n}) \cup ToSet(f) = 1..k
  <2>1. CASE g.free = <<>>
    <3>1. ToSet(g.free) = {} /\ f = <<>>
      BY <2>1 DEF ToSet
    <3>2. Live(g) = 1..m
      BY <3>1
    <3>3. Cardinality(1..m) = m
      BY IntervalSize
    <3>4. n = m + 1
      BY <2>1, <3>2, <3>3 DEF NextIndex
    <3> HIDE DEF f
    <3>5. (1..m) \cup {m+1} = 1..m+1 /\ m+1 \in Nat
      OBVIOUS
    <3>6. n \in Nat \ {NoIndex} /\ n \notin Live(g)
      BY <3>2, <3>4 DEF NoIndex
    <3>7. (Live(g) \cup {n}) \cup ToSet(f) = 1..m+1
      BY <2>1, <3>1, <3>2, <3>4, <3>5
    <3> QED BY <1>4, <2>1, <3>1, <3>5, <3>6, <3>7
  <2>2. CASE g.free # <<>>
    <3>1. /\ n \in ToSet(g.free)
          /\ IsArrangement(f, Nat) /\ ToSet(f) = ToSet(g.free) \ {n}
      BY <1>4, <2>2, FrontArrangement DEF NextIndex
    <3> HIDE DEF n, f
    <3>2. n \in 1..m /\ n \notin Live(g)
      BY <1>4, <3>1
    <3>3. (Live(g) \cup {n}) \cup ToSet(f) = 1..m
      BY <3>1
    <3> QED BY <1>4, <3>1, <3>2, <3>3 DEF NoIndex
  <2> QED BY <2>1, <2>2
<1> HIDE DEF w, f, h, n
<1>6. Live(h) = Live(g) \cup {n}
  BY <1>2, <1>3 DEF Live
<1>7. FreeListKept(h)
  BY <1>2, <1>5, <1>6 DEF FreeListKept
<1>8. IsExtension(h, g, n, s)
  BY <1>2, <1>3, <1>5, <1>6, <1>7 DEF IsExtension
<1> QED BY <1>8 DEF h, n

\* h is g with i replaced by two fresh nodes.
IsReplacement(h, g, i, entry, exit) ==
  /\ {entry, exit} \subseteq Nat \ {NoIndex} /\ {entry, exit} \cap Live(g) = {} /\ entry # exit
  /\ Live(h) = Live(g) \cup {entry, exit} /\ FreeListKept(h)
  /\ \A j \in Live(g) : h.weight[j] = g.weight[j]
  /\ \A j \in {entry, exit} : IsTv(h.weight[j]) /\ h.weight[j].path = <<>>
  /\ \E s : /\ IsTv(s) /\ s.tv \notin Vars /\ DOMAIN h.mp = DOMAIN g.mp \cup {s} /\ h.mp[s] = entry
            /\ \A t \in DOMAIN g.mp : t # s => h.mp[t] = g.mp[t]
  /\ \E s : /\ IsTv(s) /\ s.tv \notin Vars /\ DOMAIN h.copies = DOMAIN g.copies \cup {s} /\ h.copies[s] = exit
            /\ \A t \in DOMAIN g.copies : t # s => h.copies[t] = g.copies[t]
  /\ \A e \in h.edges :
       \/ \E f \in g.edges : e = Rerouted(f, i, entry, exit)
       \/ e = Edge(StartIdx(g), "pop", e.sym, entry)
       \/ e = Edge(exit, "push", e.sym, EndIdx(g))
  /\ \A f \in g.edges : Rerouted(f, i, entry, exit) \in h.edges
  /\ \E e \in h.edges : e.src = StartIdx(g) /\ e.dst = entry

LEMMA ReplaceReplaces ==
  ASSUME NEW g, IsGraph(g), FreeListKept(g), NEW i \in Live(g), NEW tv, tv \notin Vars \cup {NoVar}
  PROVE  \E entry, exit : IsReplacement(Replace(g, i, tv), g, i, entry, exit)
<1> DEFINE v == g.weight[i].variance
           s == State(tv, "L", v, <<>>)
           t == State(tv, "R", v, <<>>)
           g1 == AddNode(g, s)
           g2 == AddNode(g1, t)
           entry == NextIndex(g)
           exit == NextIndex(g1)
           E == {Rerouted(e, i, entry, exit) : e \in g2.edges}
           pop == Pop(StartIdx(g), VarSymbol(s), entry)
           push == Push(exit, VarSymbol(t), EndIdx(g))
           h == Replace(g, i, tv)
           mp == With(g2.mp, s, entry)
           copies == With(g2.copies, t, exit)
           E2 == E \cup {pop, push}
<1>1. h = Graph(g2.weight, mp, copies, E2, g2.free)
  BY DEF Replace
<1>2. h.weight = g2.weight /\ h.mp = mp /\ h.copies = copies /\ h.edges = E2 /\ h.free = g2.free
  <2> HIDE DEF mp, copies, E2, g2
  <2> QED BY <1>1 DEF Graph
<1>3. IsExtension(g1, g, entry, s) /\ IsExtension(g2, g1, exit, t)
  <2>1. IsExtension(g1, g, entry, s)
    BY AddNodeExtends
  <2>2. FreeListKept(g1)
    <3> HIDE DEF g1
    <3> QED BY <2>1 DEF IsExtension
  <2> HIDE DEF g1
  <2> QED BY <2>1, <2>2, AddNodeExtends
<1>4. IsTv(s) /\ IsTv(t) /\ s.tv \notin Vars /\ t.tv \notin Vars /\ s.path = <<>> /\ t.path = <<>>
  BY DEF State, IsTv
<1> HIDE DEF h, g1, g2, entry, exit, s, t
<1>5. /\ {entry, exit} \subseteq Nat \ {NoIndex} /\ {entry, exit} \cap Live(g) = {} /\ entry # exit
      /\ Live(g2) = Live(g) \cup {entry, exit}
      /\ \A j \in Live(g) : g2.weight[j] = g.weight[j]
      /\ g2.weight[entry] = s /\ g2.weight[exit] = t
      /\ g2.mp = g.mp /\ g2.copies = g.copies /\ g2.edges = g.edges /\ FreeListKept(g2)
  BY <1>3 DEF IsExtension
<1>6. Live(h) = Live(g2) /\ FreeListKept(h)
  BY <1>2, <1>5 DEF Live, FreeListKept
<1>7. /\ DOMAIN mp = DOMAIN g.mp \cup {s} /\ mp[s] = entry
      /\ \A x \in DOMAIN g.mp : x # s => mp[x] = g.mp[x]
  BY <1>5 DEF With
<1>8. /\ DOMAIN copies = DOMAIN g.copies \cup {t} /\ copies[t] = exit
      /\ \A x \in DOMAIN g.copies : x # t => copies[x] = g.copies[x]
  BY <1>5 DEF With
<1>10. \A e \in E : \E f \in g.edges : e = Rerouted(f, i, entry, exit)
  BY <1>5
<1>11. \A f \in g.edges : Rerouted(f, i, entry, exit) \in E
  BY <1>5
<1>12. /\ pop = Edge(StartIdx(g), "pop", pop.sym, entry) /\ pop.src = StartIdx(g) /\ pop.dst = entry
       /\ push = Edge(exit, "push", push.sym, EndIdx(g))
  BY DEF Pop, Push, Edge
<1> HIDE DEF E, pop, push, mp, copies
<1>13. /\ \A e \in h.edges :
            \/ \E f \in g.edges : e = Rerouted(f, i, entry, exit)
            \/ e = Edge(StartIdx(g), "pop", e.sym, entry)
            \/ e = Edge(exit, "push", e.sym, EndIdx(g))
       /\ \A f \in g.edges : Rerouted(f, i, entry, exit) \in h.edges
       /\ \E e \in h.edges : e.src = StartIdx(g) /\ e.dst = entry
  BY <1>2, <1>10, <1>11, <1>12
<1>14. /\ \E x : /\ IsTv(x) /\ x.tv \notin Vars /\ DOMAIN h.mp = DOMAIN g.mp \cup {x} /\ h.mp[x] = entry
                 /\ \A y \in DOMAIN g.mp : y # x => h.mp[y] = g.mp[y]
       /\ \E x : /\ IsTv(x) /\ x.tv \notin Vars /\ DOMAIN h.copies = DOMAIN g.copies \cup {x} /\ h.copies[x] = exit
                 /\ \A y \in DOMAIN g.copies : y # x => h.copies[y] = g.copies[y]
  BY <1>2, <1>4, <1>7, <1>8
<1>15. IsReplacement(h, g, i, entry, exit)
  BY <1>2, <1>4, <1>5, <1>6, <1>13, <1>14 DEF IsReplacement
<1> QED BY <1>15 DEF h

-----------------------------------------------------------------------------
(* What a replacement keeps. *)

\* The edges of a replacement, from those they come from.
LEMMA ReplacedEdges ==
  ASSUME NEW g, IsLoopGraph(g), NEW h, NEW i \in Live(g) \ {StartIdx(g), EndIdx(g)}, NEW entry, NEW exit,
         IsReplacement(h, g, i, entry, exit), NEW e \in h.edges
  PROVE  \/ \E f \in g.edges : /\ e.kind = f.kind /\ IsEdge(e)
                               /\ f.src \in Live(g) /\ f.dst \in Live(g)
                               /\ f.src = i => e.src = entry
                               /\ f.src # i => e.src = f.src
                               /\ f.dst = i => e.dst = exit
                               /\ f.dst # i => e.dst = f.dst
         \/ IsEdge(e) /\ e.kind = "pop" /\ e.src = StartIdx(g) /\ e.dst = entry
         \/ IsEdge(e) /\ e.kind = "push" /\ e.src = exit /\ e.dst = EndIdx(g)
<1>1. \/ \E f \in g.edges : e = Rerouted(f, i, entry, exit)
      \/ e = Edge(StartIdx(g), "pop", e.sym, entry)
      \/ e = Edge(exit, "push", e.sym, EndIdx(g))
  BY DEF IsReplacement
<1>2. CASE \E f \in g.edges : e = Rerouted(f, i, entry, exit)
  <2>1. PICK f \in g.edges : e = Rerouted(f, i, entry, exit)
    BY <1>2
  <2>2. f.src \in Live(g) /\ f.dst \in Live(g)
    BY DEF IsLoopGraph, IsCutGraph, IsGraph
  <2>3. /\ e.kind = f.kind /\ IsEdge(e)
        /\ f.src = i => e.src = entry
        /\ f.src # i => e.src = f.src
        /\ f.dst = i => e.dst = exit
        /\ f.dst # i => e.dst = f.dst
    BY <2>1 DEF Rerouted, Edge, IsEdge
  <2> QED BY <2>2, <2>3
<1>3. CASE e = Edge(StartIdx(g), "pop", e.sym, entry)
  BY <1>3 DEF Edge, IsEdge
<1>4. CASE e = Edge(exit, "push", e.sym, EndIdx(g))
  BY <1>4 DEF Edge, IsEdge
<1> QED BY <1>1, <1>2, <1>3, <1>4

\* Every edge of the graph has one in its replacement.
LEMMA ReroutedEdges ==
  ASSUME NEW g, NEW h, NEW i, NEW entry, NEW exit, IsReplacement(h, g, i, entry, exit), NEW f \in g.edges
  PROVE  \E e \in h.edges : /\ f.src = i => e.src = entry
                            /\ f.src # i => e.src = f.src
                            /\ f.dst = i => e.dst = exit
                            /\ f.dst # i => e.dst = f.dst
<1>1. Rerouted(f, i, entry, exit) \in h.edges
  BY DEF IsReplacement
<1> QED BY <1>1 DEF Rerouted, Edge

LEMMA ReplacedLoopGraph ==
  ASSUME NEW g, IsLoopGraph(g), NEW h, NEW i \in Live(g) \ {StartIdx(g), EndIdx(g)}, NEW entry, NEW exit,
         IsReplacement(h, g, i, entry, exit)
  PROVE  IsLoopGraph(h) /\ StartIdx(h) = StartIdx(g) /\ EndIdx(h) = EndIdx(g)
<1>1. /\ IsGraph(g) /\ FreeListKept(g) /\ MapsApart(g) /\ StatesKept(g) /\ EdgesKept(g)
      /\ OnlyTypeVars(g) /\ IsReached(g)
  BY DEF IsLoopGraph, IsCutGraph
<1>2. /\ {entry, exit} \subseteq Nat \ {NoIndex} /\ {entry, exit} \cap Live(g) = {} /\ entry # exit
      /\ Live(h) = Live(g) \cup {entry, exit} /\ FreeListKept(h)
      /\ \A j \in Live(g) : h.weight[j] = g.weight[j]
      /\ \A j \in {entry, exit} : IsTv(h.weight[j]) /\ h.weight[j].path = <<>>
  BY DEF IsReplacement
<1>3. PICK s : /\ IsTv(s) /\ DOMAIN h.mp = DOMAIN g.mp \cup {s} /\ h.mp[s] = entry
               /\ \A t \in DOMAIN g.mp : t # s => h.mp[t] = g.mp[t]
  BY DEF IsReplacement
<1>4. PICK t : /\ IsTv(t) /\ DOMAIN h.copies = DOMAIN g.copies \cup {t} /\ h.copies[t] = exit
               /\ \A x \in DOMAIN g.copies : x # t => h.copies[x] = g.copies[x]
  BY DEF IsReplacement
<1>5. /\ Start \in DOMAIN g.mp /\ End \in DOMAIN g.copies
      /\ StartIdx(g) \in Live(g) /\ g.weight[StartIdx(g)] = Start
      /\ EndIdx(g) \in Live(g) /\ g.weight[EndIdx(g)] = End
      /\ StartIdx(g) # EndIdx(g)
      /\ \A x \in DOMAIN g.mp : g.mp[x] # EndIdx(g) /\ (g.mp[x] = StartIdx(g) => x = Start)
      /\ \A x \in DOMAIN g.copies : g.copies[x] # StartIdx(g) /\ (g.copies[x] = EndIdx(g) => x = End)
  BY <1>1, StartAndEnd DEF MapsApart
<1>6. StartIdx(h) = StartIdx(g) /\ EndIdx(h) = EndIdx(g)
  <2>1. h.mp[Start] = g.mp[Start] /\ h.copies[End] = g.copies[End]
    BY <1>3, <1>4, <1>5, StartAndEnd
  <2> QED BY <2>1 DEF StartIdx, EndIdx
<1>7. entry # StartIdx(g) /\ entry # EndIdx(g) /\ exit # StartIdx(g) /\ exit # EndIdx(g)
  BY <1>2, <1>5
<1>8. MapsApart(h)
  BY <1>2, <1>3, <1>4, <1>5, <1>6, <1>7 DEF MapsApart
<1>9. IsGraph(h)
  <2>1. IsFiniteSet(Live(h)) /\ Live(h) \subseteq Nat \ {NoIndex}
    <3>1. Live(h) = (Live(g) \cup {entry}) \cup {exit}
      BY <1>2
    <3>2. IsFiniteSet(Live(g) \cup {entry})
      BY <1>1, FS_AddElement DEF IsGraph
    <3>3. IsFiniteSet((Live(g) \cup {entry}) \cup {exit})
      BY <3>2, FS_AddElement
    <3> QED BY <1>1, <1>2, <3>1, <3>3 DEF IsGraph
  <2>2. \A e \in h.edges : IsEdge(e) /\ e.src \in Live(h) /\ e.dst \in Live(h)
    BY <1>2, <1>5, ReplacedEdges
  <2> QED BY <2>1, <2>2 DEF IsGraph
<1>10. StatesKept(h)
  <2>1. <<>> \in Paths
    BY DEF Paths
  <2> QED BY <1>1, <1>2, <2>1 DEF StatesKept
<1>11. EdgesKept(h)
  <2> SUFFICES ASSUME NEW e \in h.edges
               PROVE  /\ h.weight[e.src] # End /\ h.weight[e.dst] # Start
                      /\ h.weight[e.dst] = End => e.dst = EndIdx(g)
                      /\ e.src = e.dst => e.kind = "success"
    BY <1>6 DEF EdgesKept
  <2>1. \A j \in {entry, exit} : h.weight[j] # Start /\ h.weight[j] # End
    BY <1>2, StartAndEnd
  <2>2. ASSUME NEW f \in g.edges, e.kind = f.kind, f.src \in Live(g), f.dst \in Live(g),
               f.src = i => e.src = entry, f.src # i => e.src = f.src,
               f.dst = i => e.dst = exit, f.dst # i => e.dst = f.dst
        PROVE  /\ h.weight[e.src] # End /\ h.weight[e.dst] # Start
               /\ h.weight[e.dst] = End => e.dst = EndIdx(g)
               /\ e.src = e.dst => e.kind = "success"
    <3>1. /\ g.weight[f.src] # End /\ g.weight[f.dst] # Start
          /\ g.weight[f.dst] = End => f.dst = EndIdx(g)
          /\ f.src = f.dst => f.kind = "success"
      BY <1>1 DEF EdgesKept
    <3> QED BY <1>2, <2>1, <2>2, <3>1
  <2>3. h.weight[StartIdx(g)] = Start /\ h.weight[EndIdx(g)] = End
    BY <1>2, <1>5
  <2> QED BY <1>7, <2>1, <2>2, <2>3, ReplacedEdges, StartAndEnd
<1>12. \E D : IsCopySide(h, D)
  <2>1. PICK C : IsCopySide(g, C)
    BY DEF IsLoopGraph, IsCutGraph
  <2>2. /\ C \subseteq Live(g) /\ StartIdx(g) \notin C /\ EndIdx(g) \in C
        /\ \A e \in g.edges : /\ e.kind = "push" => e.dst \in C
                              /\ e.src \in C => e.dst \in C /\ e.kind # "pop"
    BY <2>1 DEF IsCopySide
  <2> DEFINE D == C \cup {exit} \cup (IF i \in C THEN {entry} ELSE {})
  <2>3. ASSUME NEW e \in h.edges
        PROVE  /\ e.kind = "push" => e.dst \in D
               /\ e.src \in D => e.dst \in D /\ e.kind # "pop"
    <3>1. /\ exit \in D /\ EndIdx(g) \in D /\ StartIdx(g) \notin D /\ (entry \in D <=> i \in C)
          /\ \A j \in Live(g) : j \in D <=> j \in C
      BY <1>2, <1>7, <2>2
    <3>2. ASSUME NEW f \in g.edges, e.kind = f.kind, f.src \in Live(g), f.dst \in Live(g),
                 f.src = i => e.src = entry, f.src # i => e.src = f.src,
                 f.dst = i => e.dst = exit, f.dst # i => e.dst = f.dst
          PROVE  /\ e.kind = "push" => e.dst \in D
                 /\ e.src \in D => e.dst \in D /\ e.kind # "pop"
      <4> HIDE DEF D
      <4>1. /\ f.kind = "push" => f.dst \in C
            /\ f.src \in C => f.dst \in C /\ f.kind # "pop"
        BY <2>2
      <4> QED BY <3>1, <3>2, <4>1
    <3> HIDE DEF D
    <3> QED BY <3>1, <3>2, ReplacedEdges
  <2>4. D \subseteq Live(h) /\ StartIdx(h) \notin D /\ EndIdx(h) \in D
    BY <1>2, <1>6, <1>7, <2>2
  <2>5. IsCopySide(h, D)
    BY <2>3, <2>4 DEF IsCopySide
  <2> QED BY <2>5
<1>13. OnlyTypeVars(h)
  BY <1>1, <1>2, <1>6 DEF OnlyTypeVars
<1>14. IsReached(h)
  <2> DEFINE F == Forward(g, StartIdx(g))
             H == Forward(h, StartIdx(g))
             Q == {j \in F : j = i \/ j \in H}
  <2>1. StartIdx(g) \in H /\ \A e \in h.edges : e.src \in H => e.dst \in H
    <3>1. StartIdx(g) \in Live(h)
      BY <1>2, <1>5
    <3> QED BY <1>9, <3>1, ForwardIsLeast DEF IsGraph
  <2>2. /\ StartIdx(g) \in F /\ \A e \in g.edges : e.src \in F => e.dst \in F
        /\ \A P : StartIdx(g) \in P /\ (\A e \in g.edges : e.src \in P => e.dst \in P) => F \subseteq P
    BY <1>1, <1>5, ForwardIsLeast DEF IsGraph
  <2>3. entry \in H
    <3>1. \E e \in h.edges : e.src = StartIdx(g) /\ e.dst = entry
      BY DEF IsReplacement
    <3> QED BY <2>1, <3>1
  <2> HIDE DEF F, H
  <2>4. ASSUME NEW f \in g.edges, f.src \in Q PROVE f.dst \in Q
    BY <2>1, <2>2, <2>3, <2>4, ReroutedEdges
  <2>5. F \subseteq Q
    <3> HIDE DEF Q
    <3>1. StartIdx(g) \in Q
      BY <2>1, <2>2 DEF Q
    <3> QED BY <2>2, <2>4, <3>1
  <2> SUFFICES ASSUME NEW e \in h.edges, e.dst # EndIdx(g) PROVE e.src \in H
    BY <1>6 DEF IsReached, H
  <2>6. ASSUME NEW f \in g.edges, f.src # i, f.dst # EndIdx(g) PROVE f.src \in H
    BY <1>1, <2>5, <2>6 DEF IsReached, F
  <2> QED BY <2>1, <2>3, <2>6, ReplacedEdges
<1> QED BY <1>2, <1>6, <1>8, <1>9, <1>10, <1>11, <1>12, <1>13, <1>14 DEF IsLoopGraph, IsCutGraph

-----------------------------------------------------------------------------
(* Cycles. *)

\* Everything that i reaches and that reaches i.
LEMMA ComponentIs ==
  ASSUME NEW g, IsGraph(g), NEW c \in Components(g)
  PROVE  /\ c # {} /\ c \subseteq Live(g)
         /\ \A j \in c : /\ \E e \in g.edges : e.dst = j /\ e.src \in c
                         /\ \E e \in g.edges : e.src = j /\ e.dst \in c
<1>1. PICK i \in Live(g) : c = Forward(g, i) \cap Backward(g, i) /\ Cardinality(c) # 1
  BY DEF Components
<1>2. ASSUME NEW k \in Live(g)
      PROVE  /\ k \in Forward(g, k) /\ Forward(g, k) \subseteq Live(g)
             /\ k \in Backward(g, k) /\ Backward(g, k) \subseteq Live(g)
             /\ \A e \in g.edges : e.src \in Forward(g, k) => e.dst \in Forward(g, k)
             /\ \A e \in g.edges : e.dst \in Backward(g, k) => e.src \in Backward(g, k)
  BY ForwardIsLeast, BackwardIsLeast DEF IsGraph
<1>3. i \in c /\ c \subseteq Live(g)
  BY <1>1, <1>2
<1>4. PICK k \in c : k # i
  <2>1. c # {i}
    BY <1>1, FS_Singleton
  <2> QED BY <1>3, <2>1
<1>5. ASSUME NEW j \in c
      PROVE  /\ \E e \in g.edges : e.dst = j /\ e.src \in c
             /\ \E e \in g.edges : e.src = j /\ e.dst \in c
  <2>1. PICK m \in c : m # j
    BY <1>3, <1>4
  <2>2. j \in Live(g) /\ m \in Live(g) /\ j \in Forward(g, i) /\ j \in Backward(g, i)
        /\ m \in Forward(g, i) /\ m \in Backward(g, i)
    BY <1>1, <1>3
  <2>3. i \in Forward(g, m) /\ i \in Forward(g, j)
    BY <1>1, <2>2, ForwardBackward
  <2>4. j \in Forward(g, m) /\ Forward(g, m) \subseteq Forward(g, i)
    BY <1>1, <2>2, <2>3, ForwardTransitive
  <2>5. m \in Forward(g, j)
    BY <1>1, <2>2, <2>3, ForwardTransitive
  <2>6. j \in Backward(g, m)
    BY <2>2, <2>5, ForwardBackward
  <2>7. PICK e \in g.edges : e.dst = j /\ e.src \in Forward(g, m)
    BY <2>1, <2>2, <2>4, ReachedHasEdges
  <2>8. e.src \in c
    BY <1>1, <1>2, <2>2, <2>4, <2>7
  <2>9. PICK f \in g.edges : f.src = j /\ f.dst \in Backward(g, m)
    BY <2>1, <2>2, <2>6, ReachedHasEdges
  <2>10. f.dst \in Live(g)
    BY DEF IsGraph
  <2>11. m \in Forward(g, f.dst)
    BY <2>2, <2>9, <2>10, ForwardBackward
  <2>12. i \in Forward(g, f.dst)
    BY <2>3, <2>10, <2>11, ForwardTransitive
  <2>13. f.dst \in Backward(g, i)
    BY <1>1, <2>10, <2>12, ForwardBackward
  <2>14. f.dst \in Forward(g, i)
    BY <1>1, <1>2, <2>2, <2>9
  <2> QED BY <1>1, <2>7, <2>8, <2>9, <2>13, <2>14
<1> QED BY <1>3, <1>5

\* Two nodes or more, from whose every part an edge leads on to the rest.
IsKnot(g, c) ==
  /\ c \subseteq Live(g) /\ \E i, j \in c : i # j
  /\ \A P \in SUBSET c : P # {} /\ P # c => \E e \in g.edges : e.src \in P /\ e.dst \in c \ P

LEMMA ComponentsAreKnots ==
  ASSUME NEW g, IsGraph(g), NEW c \in Components(g)
  PROVE  IsKnot(g, c)
<1>1. PICK i \in Live(g) : c = Forward(g, i) \cap Backward(g, i) /\ Cardinality(c) # 1
  BY DEF Components
<1>2. /\ i \in Forward(g, i) /\ i \in Backward(g, i)
      /\ \A e \in g.edges : e.src \in Forward(g, i) => e.dst \in Forward(g, i)
      /\ \A e \in g.edges : e.dst \in Backward(g, i) => e.src \in Backward(g, i)
  BY ForwardIsLeast, BackwardIsLeast DEF IsGraph
<1>3. c # {i} /\ i \in c /\ c \subseteq Live(g)
  BY <1>1, <1>2, FS_Singleton, ComponentIs
<1>4. ASSUME NEW P \in SUBSET c, P # {}, \A e \in g.edges : e.src \in P /\ e.dst \in c => e.dst \in P
      PROVE  P = c
  <2>1. PICK j \in P : TRUE
    BY <1>4
  <2>2. j \in Live(g) /\ j \in Forward(g, i) /\ j \in Backward(g, i)
    BY <1>1, <1>3
  <2>3. i \in Forward(g, j)
    BY <1>1, <2>2, ForwardBackward
  <2>4. Forward(g, i) \subseteq Forward(g, j) /\ Forward(g, j) \subseteq Forward(g, i)
    BY <1>1, <2>2, <2>3, ForwardTransitive
  <2> DEFINE Q == {x \in Forward(g, j) : x \in c => x \in P}
  <2>5. /\ j \in Forward(g, j)
        /\ \A e \in g.edges : e.src \in Forward(g, j) => e.dst \in Forward(g, j)
        /\ \A R : j \in R /\ (\A e \in g.edges : e.src \in R => e.dst \in R) => Forward(g, j) \subseteq R
    BY <2>2, ForwardIsLeast DEF IsGraph
  <2>6. j \in Q
    BY <2>5
  <2>7. ASSUME NEW e \in g.edges, e.src \in Q PROVE e.dst \in Q
    <3>1. e.dst \in Forward(g, j)
      BY <2>5, <2>7
    <3>2. ASSUME e.dst \in c PROVE e.dst \in P
      <4>1. e.src \in c
        BY <1>1, <1>2, <2>4, <2>7, <3>2
      <4> QED BY <1>4, <2>7, <3>2, <4>1
    <3> QED BY <3>1, <3>2
  <2>8. Forward(g, j) \subseteq Q
    <3> HIDE DEF Q
    <3> QED BY <2>5, <2>6, <2>7
  <2> QED BY <1>1, <2>4, <2>8
<1>5. \E k, l \in c : k # l
  BY <1>3
<1> QED BY <1>3, <1>4, <1>5 DEF IsKnot

LEMMA KnotsLoop ==
  ASSUME NEW g, IsGraph(g), NEW c, IsKnot(g, c)
  PROVE  c \subseteq Looping(g)
<1>1. c \subseteq Live(g) /\ \E i, j \in c : i # j
  BY DEF IsKnot
<1>2. ASSUME NEW j \in c PROVE c \subseteq Forward(g, j)
  <2> DEFINE P == c \cap Forward(g, j)
  <2>1. j \in Forward(g, j) /\ \A e \in g.edges : e.src \in Forward(g, j) => e.dst \in Forward(g, j)
    BY <1>1, ForwardIsLeast DEF IsGraph
  <2>2. P \in SUBSET c /\ P # {}
    BY <2>1
  <2>3. ~ \E e \in g.edges : e.src \in P /\ e.dst \in c \ P
    BY <2>1
  <2>4. P = c
    <3> HIDE DEF P
    <3> QED BY <2>2, <2>3 DEF IsKnot
  <2> QED BY <2>4
<1> SUFFICES ASSUME NEW j \in c PROVE j \in Looping(g)
  OBVIOUS
<1> DEFINE d == Forward(g, j) \cap Backward(g, j)
<1>3. c \subseteq d
  <2> SUFFICES ASSUME NEW k \in c PROVE k \in Forward(g, j) /\ k \in Backward(g, j)
    OBVIOUS
  <2>1. k \in Forward(g, j) /\ j \in Forward(g, k) /\ k \in Live(g) /\ j \in Live(g)
    BY <1>1, <1>2
  <2> QED BY <2>1, ForwardBackward
<1>4. IsFiniteSet(d)
  <2>1. Forward(g, j) \subseteq Live(g) /\ IsFiniteSet(Live(g))
    BY <1>1, ForwardIsLeast DEF IsGraph
  <2>2. d \subseteq Live(g)
    BY <2>1
  <2> HIDE DEF d
  <2> QED BY <2>1, <2>2, FS_Subset
<1>5. Cardinality(d) # 1
  <2> HIDE DEF d
  <2> SUFFICES ASSUME Cardinality(d) = 1 PROVE FALSE
    OBVIOUS
  <2>1. \E x : d = {x}
    BY <1>4, FS_Singleton
  <2> QED BY <1>1, <1>3, <2>1
<1>6. d \in Components(g)
  BY <1>1, <1>5 DEF Components
<1> HIDE DEF d
<1> QED BY <1>3, <1>6 DEF Looping

\* What the pass needs of a component it has not visited.
IsBreakable(g, c) ==
  /\ c \subseteq Live(g) \ {StartIdx(g), EndIdx(g)} /\ IsKnot(g, c)
  /\ \E e \in g.edges : e.dst \in c /\ e.src \notin c

LEMMA ComponentsAreBreakable ==
  ASSUME NEW g, IsLoopGraph(g), NEW c \in Components(g)
  PROVE  IsBreakable(g, c)
<1>1. IsGraph(g) /\ MapsApart(g) /\ EdgesKept(g) /\ IsReached(g)
  BY DEF IsLoopGraph, IsCutGraph
<1>2. /\ c # {} /\ c \subseteq Live(g)
      /\ \A j \in c : /\ \E e \in g.edges : e.dst = j /\ e.src \in c
                      /\ \E e \in g.edges : e.src = j /\ e.dst \in c
  BY <1>1, ComponentIs
<1>3. StartIdx(g) \notin c /\ EndIdx(g) \notin c
  BY <1>1, <1>2 DEF MapsApart, EdgesKept
<1> DEFINE F == Forward(g, StartIdx(g))
<1>4. /\ StartIdx(g) \in F /\ \A e \in g.edges : e.src \in F => e.dst \in F
      /\ \A Q : StartIdx(g) \in Q /\ (\A e \in g.edges : e.src \in Q => e.dst \in Q) => F \subseteq Q
  BY <1>1, ForwardIsLeast DEF IsGraph, MapsApart
<1>5. c \cap F # {}
  <2>1. PICK e \in g.edges : e.dst \in c /\ e.src \in c
    BY <1>2
  <2> QED BY <1>1, <1>3, <2>1 DEF IsReached
<1> HIDE DEF F
<1>6. \E e \in g.edges : e.dst \in c /\ e.src \notin c
  <2> SUFFICES ASSUME \A e \in g.edges : e.dst \in c => e.src \in c PROVE FALSE
    OBVIOUS
  <2> DEFINE Q == F \ c
  <2>1. StartIdx(g) \in Q /\ \A e \in g.edges : e.src \in Q => e.dst \in Q
    BY <1>3, <1>4
  <2> HIDE DEF Q
  <2>2. F \subseteq Q
    BY <1>4, <2>1
  <2> QED BY <1>5, <2>2 DEF Q
<1> QED BY <1>1, <1>2, <1>3, <1>6, ComponentsAreKnots DEF IsBreakable

LEMMA QuietOnNoCycle ==
  ASSUME NEW g, IsLoopGraph(g), NEW c \in Components(g), NEW r, IsQuiet(g, r)
  PROVE  r \notin c
<1>1. StartIdx(g) \notin c /\ EndIdx(g) \notin c
  BY ComponentsAreBreakable DEF IsBreakable
<1>2. \A j \in c : /\ \E e \in g.edges : e.dst = j /\ e.src \in c
                   /\ \E e \in g.edges : e.src = j /\ e.dst \in c
  BY ComponentIs DEF IsLoopGraph, IsCutGraph
<1> QED BY <1>1, <1>2 DEF IsQuiet

\* Pruning makes no cycle.
LEMMA PrunedWithoutCycles ==
  ASSUME NEW g, IsGraph(g), NEW h, IsGraph(h), Live(h) \subseteq Live(g), h.edges \subseteq g.edges,
         Components(g) = {}
  PROVE  Components(h) = {}
<1> SUFFICES ASSUME NEW i \in Live(h), Cardinality(Forward(h, i) \cap Backward(h, i)) # 1 PROVE FALSE
  BY DEF Components
<1> DEFINE c == Forward(h, i) \cap Backward(h, i)
           d == Forward(g, i) \cap Backward(g, i)
<1>1. /\ i \in Forward(h, i) /\ i \in Backward(h, i)
      /\ \A Q : i \in Q /\ (\A e \in h.edges : e.src \in Q => e.dst \in Q) => Forward(h, i) \subseteq Q
      /\ \A Q : i \in Q /\ (\A e \in h.edges : e.dst \in Q => e.src \in Q) => Backward(h, i) \subseteq Q
  BY ForwardIsLeast, BackwardIsLeast DEF IsGraph
<1>2. /\ i \in Forward(g, i) /\ i \in Backward(g, i)
      /\ \A e \in g.edges : e.src \in Forward(g, i) => e.dst \in Forward(g, i)
      /\ \A e \in g.edges : e.dst \in Backward(g, i) => e.src \in Backward(g, i)
  BY ForwardIsLeast, BackwardIsLeast DEF IsGraph
<1>3. Forward(h, i) \subseteq Forward(g, i) /\ Backward(h, i) \subseteq Backward(g, i)
  BY <1>1, <1>2
<1>4. c # {i} /\ i \in c
  BY <1>1, FS_Singleton
<1>5. PICK k \in c : k # i
  BY <1>4
<1>6. i \in d /\ k \in d
  BY <1>2, <1>3, <1>5
<1> HIDE DEF d
<1>7. Cardinality(d) # 1
  <2> SUFFICES ASSUME Cardinality(d) = 1 PROVE FALSE
    OBVIOUS
  <2>1. IsFiniteSet(d)
    <3>1. Forward(g, i) \subseteq Live(g) /\ IsFiniteSet(Live(g))
      BY ForwardIsLeast DEF IsGraph
    <3>2. d \subseteq Live(g)
      BY <3>1 DEF d
    <3> QED BY <3>1, <3>2, FS_Subset
  <2>2. \E x : d = {x}
    BY <2>1, FS_Singleton
  <2> QED BY <1>5, <1>6, <2>2
<1> QED BY <1>7 DEF Components, d

-----------------------------------------------------------------------------
(* Breaking a component. *)

\* From g to h the nodes I are taken out of their cycles, and what holds of the
\* components without them goes on to hold.
BreaksAt(g, h, I) ==
  /\ IsLoopGraph(h) /\ StartIdx(h) = StartIdx(g) /\ EndIdx(h) = EndIdx(g)
  /\ \A c : c \cap I = {} /\ IsBreakable(g, c) => IsBreakable(h, c)
  /\ \A r : IsQuiet(g, r) \/ r \in I => IsQuiet(h, r)
  /\ Looping(h) \subseteq Looping(g) /\ (NodesNamed(g) => NodesNamed(h))

LEMMA ReplacementBreaks ==
  ASSUME NEW g, IsLoopGraph(g), NEW h, NEW i \in Live(g) \ {StartIdx(g), EndIdx(g)}, NEW entry, NEW exit,
         IsReplacement(h, g, i, entry, exit)
  PROVE  BreaksAt(g, h, {i})
<1>1. IsLoopGraph(h) /\ StartIdx(h) = StartIdx(g) /\ EndIdx(h) = EndIdx(g)
  BY ReplacedLoopGraph
<1>2. /\ {entry, exit} \cap Live(g) = {} /\ entry # exit
      /\ Live(h) = Live(g) \cup {entry, exit}
  BY DEF IsReplacement
<1>3. StartIdx(g) \in Live(g) /\ EndIdx(g) \in Live(g) /\ StartIdx(g) # EndIdx(g)
  BY StartAndEnd DEF IsLoopGraph, IsCutGraph, MapsApart
<1>4. ASSUME NEW c, i \notin c, IsBreakable(g, c) PROVE IsBreakable(h, c)
  <2>1. c \subseteq Live(g) \ {StartIdx(g), EndIdx(g)}
    BY <1>4 DEF IsBreakable
  <2>2. PICK f \in g.edges : f.dst \in c /\ f.src \notin c
    BY <1>4 DEF IsBreakable
  <2>3. PICK e \in h.edges : /\ f.src = i => e.src = entry
                             /\ f.src # i => e.src = f.src
                             /\ f.dst = i => e.dst = exit
                             /\ f.dst # i => e.dst = f.dst
    BY ReroutedEdges
  <2>4. e.dst \in c /\ e.src \notin c
    BY <1>2, <1>4, <2>1, <2>2, <2>3
  <2>5. IsKnot(h, c)
    <3>1. IsKnot(g, c)
      BY <1>4 DEF IsBreakable
    <3>2. ASSUME NEW P \in SUBSET c, P # {}, P # c
          PROVE  \E x \in h.edges : x.src \in P /\ x.dst \in c \ P
      <4>1. PICK y \in g.edges : y.src \in P /\ y.dst \in c \ P
        BY <3>1, <3>2 DEF IsKnot
      <4>2. y.src # i /\ y.dst # i
        BY <1>4, <4>1
      <4> QED BY <4>1, <4>2, ReroutedEdges
    <3> QED BY <1>2, <2>1, <3>1, <3>2 DEF IsKnot
  <2> QED BY <1>1, <1>2, <2>1, <2>4, <2>5 DEF IsBreakable
<1>5. \A e \in h.edges : e.src # i /\ e.dst # i
  BY <1>2, <1>3, ReplacedEdges
<1>6. \A e \in h.edges : /\ e.dst = entry => e.src = StartIdx(g)
                         /\ e.src = exit => e.dst = EndIdx(g)
  BY <1>2, <1>3, ReplacedEdges
<1>7. IsQuiet(h, i) /\ IsQuiet(h, entry) /\ IsQuiet(h, exit)
  BY <1>1, <1>2, <1>3, <1>5, <1>6 DEF IsQuiet
<1>8. ASSUME NEW r, IsQuiet(g, r), r \notin {i, entry, exit} PROVE IsQuiet(h, r)
  <2>1. r \notin {StartIdx(g), EndIdx(g)}
    BY <1>8 DEF IsQuiet
  <2>2. CASE \A e \in g.edges : e.dst = r => e.src = StartIdx(g)
    <3>1. \A e \in h.edges : e.dst = r => e.src = StartIdx(g)
      BY <1>8, <2>1, <2>2, ReplacedEdges
    <3> QED BY <1>1, <2>1, <3>1 DEF IsQuiet
  <2>3. CASE \A e \in g.edges : e.src = r => e.dst = EndIdx(g)
    <3>1. \A e \in h.edges : e.src = r => e.dst = EndIdx(g)
      BY <1>8, <2>1, <2>3, ReplacedEdges
    <3> QED BY <1>1, <2>1, <3>1 DEF IsQuiet
  <2> QED BY <1>8, <2>2, <2>3 DEF IsQuiet
<1>9. \A r : IsQuiet(g, r) \/ r \in {i} => IsQuiet(h, r)
  BY <1>7, <1>8
<1>10. \A c : c \cap {i} = {} /\ IsBreakable(g, c) => IsBreakable(h, c)
  BY <1>4
<1>11. Looping(h) \subseteq Looping(g)
  <2> SUFFICES ASSUME NEW c \in Components(h) PROVE c \subseteq Looping(g)
    BY DEF Looping
  <2>1. IsKnot(h, c) /\ c \subseteq Live(h) /\ i \notin c /\ entry \notin c /\ exit \notin c
    BY <1>1, <1>7, QuietOnNoCycle, ComponentsAreKnots DEF IsLoopGraph, IsCutGraph, IsKnot
  <2>2. ASSUME NEW P \in SUBSET c, P # {}, P # c
        PROVE  \E x \in g.edges : x.src \in P /\ x.dst \in c \ P
    <3>1. PICK e \in h.edges : e.src \in P /\ e.dst \in c \ P
      BY <2>1, <2>2 DEF IsKnot
    <3> QED BY <2>1, <3>1, ReplacedEdges
  <2>3. IsKnot(g, c)
    BY <1>2, <2>1, <2>2 DEF IsKnot
  <2> QED BY <2>3, KnotsLoop DEF IsLoopGraph, IsCutGraph
<1>12. ASSUME NodesNamed(g) PROVE NodesNamed(h)
  <2>1. \A j \in Live(g) : h.weight[j] = g.weight[j]
    BY DEF IsReplacement
  <2>2. PICK s : /\ s.tv \notin Vars /\ DOMAIN h.mp = DOMAIN g.mp \cup {s}
                 /\ \A t \in DOMAIN g.mp : t # s => h.mp[t] = g.mp[t]
    BY DEF IsReplacement
  <2>3. PICK t : /\ t.tv \notin Vars /\ DOMAIN h.copies = DOMAIN g.copies \cup {t}
                 /\ \A x \in DOMAIN g.copies : x # t => h.copies[x] = g.copies[x]
    BY DEF IsReplacement
  <2> SUFFICES ASSUME NEW j \in Live(h), IsTv(h.weight[j]), ~IsQuiet(h, j)
               PROVE  /\ h.weight[j].tv \in Vars
                      /\ \/ h.weight[j] \in DOMAIN h.mp /\ h.mp[h.weight[j]] = j
                         \/ h.weight[j] \in DOMAIN h.copies /\ h.copies[h.weight[j]] = j
    BY DEF NodesNamed
  <2>4. j \in Live(g) /\ ~IsQuiet(g, j) /\ h.weight[j] = g.weight[j]
    BY <1>2, <1>7, <1>9, <2>1
  <2>5. /\ g.weight[j].tv \in Vars
        /\ \/ g.weight[j] \in DOMAIN g.mp /\ g.mp[g.weight[j]] = j
           \/ g.weight[j] \in DOMAIN g.copies /\ g.copies[g.weight[j]] = j
    BY <1>12, <2>4 DEF NodesNamed
  <2> QED BY <2>2, <2>3, <2>4, <2>5
<1> QED BY <1>1, <1>9, <1>10, <1>11, <1>12 DEF BreaksAt

LEMMA BreaksTransitive ==
  ASSUME NEW g, NEW h, NEW k, NEW I, NEW J, BreaksAt(g, h, I), BreaksAt(h, k, J)
  PROVE  BreaksAt(g, k, I \cup J)
<1>1. ASSUME NEW c, c \cap (I \cup J) = {}, IsBreakable(g, c) PROVE IsBreakable(k, c)
  <2>1. c \cap I = {} /\ c \cap J = {}
    BY <1>1
  <2> QED BY <1>1, <2>1 DEF BreaksAt
<1>2. ASSUME NEW r, IsQuiet(g, r) \/ r \in I \cup J PROVE IsQuiet(k, r)
  BY <1>2 DEF BreaksAt
<1>3. /\ IsLoopGraph(k) /\ StartIdx(k) = StartIdx(g) /\ EndIdx(k) = EndIdx(g)
      /\ Looping(k) \subseteq Looping(g) /\ (NodesNamed(g) => NodesNamed(k))
  BY DEF BreaksAt
<1> QED BY <1>1, <1>2, <1>3 DEF BreaksAt

LEMMA ReplaceIfExistsBreaks ==
  ASSUME NEW acc, IsLoopGraph(acc.g), NEW i, i \notin {StartIdx(acc.g), EndIdx(acc.g)}, NEW n \in Nat
  PROVE  BreaksAt(acc.g, ReplaceIfExists(acc, i, n).g, {i})
<1>1. CASE i \in Live(acc.g)
  <2> DEFINE h == Replace(acc.g, i, BreakerName(n))
  <2>1. BreakerName(n) \notin Vars \cup {NoVar}
    BY SimplifyAssumption DEF BreakerName
  <2>2. IsGraph(acc.g) /\ FreeListKept(acc.g)
    BY DEF IsLoopGraph, IsCutGraph
  <2>3. PICK entry, exit : IsReplacement(h, acc.g, i, entry, exit)
    BY <1>1, <2>1, <2>2, ReplaceReplaces
  <2>4. ReplaceIfExists(acc, i, n).g = h
    BY <1>1 DEF ReplaceIfExists
  <2> HIDE DEF h
  <2> QED BY <1>1, <2>3, <2>4, ReplacementBreaks
<1>2. CASE i \notin Live(acc.g)
  <2>1. ReplaceIfExists(acc, i, n).g = acc.g
    BY <1>2 DEF ReplaceIfExists
  <2>2. IsQuiet(acc.g, i)
    BY <1>2 DEF IsLoopGraph, IsCutGraph, IsGraph, IsQuiet
  <2> QED BY <2>1, <2>2 DEF BreaksAt
<1> QED BY <1>1, <1>2

LEMMA ReplaceEquivsBreaks ==
  ASSUME NEW g, IsLoopGraph(g), NEW idxs, NEW n \in Nat,
         \A k \in 1..4 : idxs[k] \notin {StartIdx(g), EndIdx(g)}
  PROVE  BreaksAt(g, ReplaceEquivs(g, idxs, n).g, {idxs[1], idxs[2], idxs[3], idxs[4]})
<1> DEFINE a0 == [g |-> g, replaced |-> {}]
           a1 == ReplaceIfExists(a0, idxs[1], n)
           a2 == ReplaceIfExists(a1, idxs[2], n)
           a3 == ReplaceIfExists(a2, idxs[3], n)
           a4 == ReplaceIfExists(a3, idxs[4], n)
<1>0. ReplaceEquivs(g, idxs, n) = a4 /\ a0.g = g
  BY DEF ReplaceEquivs
<1>1. BreaksAt(g, a1.g, {idxs[1]})
  <2> HIDE DEF a0
  <2>1. IsLoopGraph(a0.g) /\ idxs[1] \notin {StartIdx(a0.g), EndIdx(a0.g)}
    BY <1>0
  <2>2. BreaksAt(a0.g, a1.g, {idxs[1]})
    BY <2>1, ReplaceIfExistsBreaks
  <2> QED BY <1>0, <2>2
<1> HIDE DEF a0, a1
<1>2. BreaksAt(g, a2.g, {idxs[1]} \cup {idxs[2]})
  <2>1. IsLoopGraph(a1.g) /\ idxs[2] \notin {StartIdx(a1.g), EndIdx(a1.g)}
    BY <1>1 DEF BreaksAt
  <2>2. BreaksAt(a1.g, a2.g, {idxs[2]})
    BY <2>1, ReplaceIfExistsBreaks
  <2> HIDE DEF a2
  <2> QED BY <1>1, <2>2, BreaksTransitive
<1> HIDE DEF a2
<1>3. BreaksAt(g, a3.g, {idxs[1]} \cup {idxs[2]} \cup {idxs[3]})
  <2>1. IsLoopGraph(a2.g) /\ idxs[3] \notin {StartIdx(a2.g), EndIdx(a2.g)}
    BY <1>2 DEF BreaksAt
  <2>2. BreaksAt(a2.g, a3.g, {idxs[3]})
    BY <2>1, ReplaceIfExistsBreaks
  <2> HIDE DEF a3
  <2> QED BY <1>2, <2>2, BreaksTransitive
<1> HIDE DEF a3
<1>4. BreaksAt(g, a4.g, {idxs[1]} \cup {idxs[2]} \cup {idxs[3]} \cup {idxs[4]})
  <2>1. IsLoopGraph(a3.g) /\ idxs[4] \notin {StartIdx(a3.g), EndIdx(a3.g)}
    BY <1>3 DEF BreaksAt
  <2>2. BreaksAt(a3.g, a4.g, {idxs[4]})
    BY <2>1, ReplaceIfExistsBreaks
  <2> HIDE DEF a4
  <2> QED BY <1>3, <2>2, BreaksTransitive
<1> HIDE DEF a4
<1>5. {idxs[1]} \cup {idxs[2]} \cup {idxs[3]} \cup {idxs[4]} = {idxs[1], idxs[2], idxs[3], idxs[4]}
  OBVIOUS
<1> QED BY <1>0, <1>4, <1>5

-----------------------------------------------------------------------------
(* The entry that stands for a component. *)

\* A nonempty set of numbers has a least member.
LEMMA LeastNumber ==
  ASSUME NEW S, S \subseteq Nat, S # {}
  PROVE  Min(S) \in S /\ \A y \in S : Min(S) <= y
<1> DEFINE T == {n \in Nat : \A m \in S : n <= m}
<1>1. PICK n \in Nat : n \in T /\ n+1 \notin T
  <2> SUFFICES ASSUME \A n \in Nat : n \in T => n+1 \in T PROVE FALSE
    OBVIOUS
  <2>1. 0 \in T
    OBVIOUS
  <2> HIDE DEF T
  <2>2. \A n \in Nat : n \in T
    BY <2>1, NatSetInduction
  <2>3. PICK m \in S : TRUE
    OBVIOUS
  <2>4. m+1 \in Nat
    OBVIOUS
  <2>5. m+1 \in T
    BY <2>2, <2>4
  <2> QED BY <2>5 DEF T
<1>2. PICK m \in S : ~(n+1 <= m)
  BY <1>1
<1>3. n <= m /\ m = n
  BY <1>1, <1>2
<1>4. \E x \in S : \A y \in S : x <= y
  BY <1>1, <1>3
<1> QED BY <1>4 DEF Min

\* A proper prefix is shorter.
LEMMA PrefixIsShorter ==
  ASSUME NEW d, NEW e, d.path \in Paths, e.path \in Paths,
         d = [base |-> d.base, path |-> d.path], e = [base |-> e.base, path |-> e.path],
         IsPrefixOf(d, e)
  PROVE  Len(d.path) < Len(e.path)
<1> DEFINE s == d.path
           t == e.path
<1>1. s \in Seq(FieldLabels) /\ t \in Seq(FieldLabels) /\ Len(s) \in Nat /\ Len(t) \in Nat
  BY DEF Paths
<1>2. d # e /\ d.base = e.base /\ Len(s) <= Len(t) /\ SubSeq(s, 1, Len(s)) = SubSeq(t, 1, Len(s))
  BY DEF IsPrefixOf, IsPrefix
<1>3. s # t
  BY <1>2
<1> SUFFICES ASSUME Len(s) = Len(t) PROVE FALSE
  BY <1>1, <1>2
<1>4. ASSUME NEW u \in Seq(FieldLabels) PROVE SubSeq(u, 1, Len(u)) = u
  BY <1>4
<1>5. SubSeq(s, 1, Len(s)) = s /\ SubSeq(t, 1, Len(t)) = t
  BY <1>1, <1>4
<1> QED BY <1>2, <1>3, <1>5

LEMMA EntriesHaveRepr ==
  ASSUME NEW g, IsLoopGraph(g), NEW c, IsBreakable(g, c)
  PROVE  LET I == Entries(g, c)
             roots == {RootTypeVar(g.weight[i]) : i \in I}
         IN  /\ \A i \in I : i \in c /\ IsTv(g.weight[i])
             /\ \E d \in roots : \A r \in roots : ~IsPrefixOf(r, d)
             /\ EntryRepr(g, I) \in I
<1> DEFINE I == Entries(g, c)
           root(i) == RootTypeVar(g.weight[i])
           roots == {root(i) : i \in I}
           len(i) == Len(g.weight[i].path)
           lens == {len(i) : i \in I}
<1>1. /\ IsGraph(g) /\ StatesKept(g) /\ OnlyTypeVars(g)
      /\ c \subseteq Live(g) \ {StartIdx(g), EndIdx(g)}
      /\ \E e \in g.edges : e.dst \in c /\ e.src \notin c
  BY DEF IsLoopGraph, IsCutGraph, IsBreakable
<1>2. I \subseteq c /\ I # {}
  BY <1>1 DEF Entries
<1>3. \A i \in I : i \in c /\ IsTv(g.weight[i])
  BY <1>1, <1>2 DEF OnlyTypeVars
<1>4. \A i \in I : i \in Nat /\ g.weight[i].path \in Paths /\ len(i) \in Nat
  BY <1>1, <1>2 DEF IsGraph, StatesKept, Paths
<1>5. \A i \in I : /\ root(i).path = g.weight[i].path
                   /\ root(i) = [base |-> root(i).base, path |-> root(i).path]
  BY DEF RootTypeVar
<1> HIDE DEF I, root
<1>6. PICK m \in I : \A i \in I : len(m) <= len(i)
  <2>1. lens \subseteq Nat /\ lens # {}
    BY <1>2, <1>4
  <2>2. Min(lens) \in lens /\ \A y \in lens : Min(lens) <= y
    <3> HIDE DEF lens
    <3> QED BY <2>1, LeastNumber
  <2> QED BY <2>2
<1>7. \A i \in I : ~IsPrefixOf(root(i), root(m))
  <2> SUFFICES ASSUME NEW i \in I, IsPrefixOf(root(i), root(m)) PROVE FALSE
    OBVIOUS
  <2>1. Len(root(i).path) < Len(root(m).path)
    BY <1>4, <1>5, PrefixIsShorter
  <2> QED BY <1>4, <1>5, <1>6, <2>1
<1>8. \A d \in roots : ~IsPrefixOf(d, root(m))
  BY <1>7
<1> DEFINE J == {i \in I : \A d \in roots : ~IsPrefixOf(d, root(i))}
<1>9. m \in J /\ J \subseteq Nat
  BY <1>4, <1>8
<1>10. Min(J) \in J
  <2> HIDE DEF J
  <2> QED BY <1>9, LeastNumber
<1>11. EntryRepr(g, I) = Min(J)
  BY DEF EntryRepr, root
<1>12. EntryRepr(g, I) \in I
  BY <1>10, <1>11
<1>13. \E d \in roots : \A r \in roots : ~IsPrefixOf(r, d)
  BY <1>8
<1> QED BY <1>3, <1>12, <1>13 DEF I, root

-----------------------------------------------------------------------------
(* The inductive invariant. *)

\* The graph, at each stage of simplify_graph.
StageInv ==
  /\ pc \in {"saturated", "cut", "pass", "simplified"}
  /\ pc = "saturated" => graph = Saturated(given) /\ given \in ConstraintSets
  /\ pc = "cut" => IsCutGraph(graph)
  /\ pc = "pass" => IsLoopGraph(graph)
  /\ pc = "simplified" => IsCutGraph(graph) /\ Components(graph) = {}
  /\ pc \in {"cut", "pass"} => NodesNamed(graph)

\* The components still to be visited, and what is left of those broken.
PassInv ==
  /\ pc \in {"saturated", "cut"} => removed = {} /\ changed = FALSE
  /\ pc = "pass" =>
       /\ \A c \in pending : c \cap removed = {} => IsBreakable(graph, c)
       /\ \A r \in removed : IsQuiet(graph, r)
       /\ changed \/ \A c \in Components(graph) : c \in pending \/ c \cap removed # {}

BreakersInv == \E S : breakers \in Seq(S)

IInv == StageInv /\ PassInv /\ BreakersInv

\* The nodes replaced for a component are not the start or the end.
LEMMA EquivNodesApart ==
  ASSUME NEW g, IsLoopGraph(g), NEW s, IsTv(s), NEW k \in 1..4
  PROVE  EquivNodeIdxs(g, s)[k] \notin {StartIdx(g), EndIdx(g)}
<1>1. IsTv(Not(s)) /\ s # Start /\ s # End /\ Not(s) # Start /\ Not(s) # End
  BY StartAndEnd DEF Not, State, IsTv
<1>2. MapsApart(g) /\ NoIndex \notin Live(g)
  BY DEF IsLoopGraph, IsCutGraph, IsGraph
<1>3. /\ NoIndex \notin {StartIdx(g), EndIdx(g)}
      /\ \A t : IsTv(t) => /\ IndexIn(g.mp, t) \notin {StartIdx(g), EndIdx(g)}
                           /\ IndexIn(g.copies, t) \notin {StartIdx(g), EndIdx(g)}
  BY <1>2, StartAndEnd DEF MapsApart, IndexIn
<1>4. EquivNodeIdxs(g, s) = <<IndexIn(g.mp, Not(s)), IndexIn(g.mp, s),
                              IndexIn(g.copies, Not(s)), IndexIn(g.copies, s)>>
  BY DEF EquivNodeIdxs
<1>5. k = 1 \/ k = 2 \/ k = 3 \/ k = 4
  OBVIOUS
<1> QED BY <1>1, <1>3, <1>4, <1>5

LEMMA BrokenBreaks ==
  ASSUME NEW g, IsLoopGraph(g), NEW c, IsBreakable(g, c), NEW n \in Nat
  PROVE  \E I : /\ BreaksAt(g, Broken(g, c, n).g, I)
                /\ Broken(g, c, n).idxs = I \ {NoIndex}
                /\ NodesNamed(g) => EntryRepr(g, Entries(g, c)) \in I
<1> DEFINE s == g.weight[EntryRepr(g, Entries(g, c))]
           x == EquivNodeIdxs(g, s)
           a == ReplaceEquivs(g, x, n)
           I == {x[1], x[2], x[3], x[4]}
<1>1. IsTv(s)
  BY EntriesHaveRepr
<1>2. Broken(g, c, n).g = a.g /\ Broken(g, c, n).idxs = ToSet(x) \ {NoIndex}
  BY DEF Broken
<1>3. ToSet(x) = I
  <2>1. ASSUME NEW p, NEW q, NEW r, NEW t PROVE ToSet(<<p, q, r, t>>) = {p, q, r, t}
    BY DEF ToSet
  <2> QED BY <2>1 DEF EquivNodeIdxs
<1>6. ASSUME NodesNamed(g) PROVE EntryRepr(g, Entries(g, c)) \in I
  <2> DEFINE r == EntryRepr(g, Entries(g, c))
  <2>1. r \in c /\ IsTv(g.weight[r])
    BY EntriesHaveRepr
  <2>2. r \in Live(g) /\ r \in Looping(g)
    BY <2>1, KnotsLoop DEF IsBreakable, IsLoopGraph, IsCutGraph
  <2>3. ~IsQuiet(g, r)
    BY <2>2, QuietOnNoCycle DEF Looping
  <2>4. \/ s \in DOMAIN g.mp /\ g.mp[s] = r
        \/ s \in DOMAIN g.copies /\ g.copies[s] = r
    BY <1>6, <2>1, <2>2, <2>3 DEF NodesNamed
  <2>5. x[2] = IndexIn(g.mp, s) /\ x[4] = IndexIn(g.copies, s)
    BY DEF EquivNodeIdxs
  <2>6. x[2] = r \/ x[4] = r
    <3> HIDE DEF r, s, x
    <3> QED BY <2>4, <2>5 DEF IndexIn
  <2> HIDE DEF x, r
  <2>7. r \in I
    BY <2>6
  <2> QED BY <2>7 DEF r
<1> HIDE DEF s
<1>4. \A k \in 1..4 : x[k] \notin {StartIdx(g), EndIdx(g)}
  BY <1>1, EquivNodesApart
<1> HIDE DEF x
<1>5. BreaksAt(g, a.g, I)
  BY <1>4, ReplaceEquivsBreaks
<1> QED BY <1>2, <1>3, <1>5, <1>6

LEMMA InvInit == Init => IInv
<1>1. <<>> \in Seq({})
  OBVIOUS
<1> QED BY <1>1 DEF Init, IInv, StageInv, PassInv, BreakersInv

LEMMA BreakersGrow ==
  ASSUME BreakersInv, NEW x, breakers' = Append(breakers, x)
  PROVE  BreakersInv'
<1>1. PICK S : breakers \in Seq(S)
  BY DEF BreakersInv
<1>2. breakers \in Seq(S \cup {x})
  BY <1>1
<1>3. Append(breakers, x) \in Seq(S \cup {x})
  BY <1>2
<1> QED BY <1>3 DEF BreakersInv

LEMMA InvStep == IInv /\ [Next]_vars => IInv'
<1> SUFFICES ASSUME IInv, [Next]_vars PROVE IInv'
  OBVIOUS
<1>1. StageInv /\ PassInv /\ BreakersInv
  BY DEF IInv
<1>2. CASE IntersectWithPopPush
  <2>1. /\ pc = "saturated" /\ pc' = "cut" /\ graph' = Cut(Saturated(given), given)
        /\ given \in ConstraintSets /\ removed' = {} /\ changed' = FALSE /\ breakers' = breakers
    BY <1>1, <1>2 DEF IntersectWithPopPush, StageInv, PassInv
  <2>2. IsCutGraph(graph') /\ NodesNamed(graph')
    BY <2>1, CutIsCut, CutNamesNodes, SimplifyAssumption
  <2> QED BY <1>1, <2>1, <2>2 DEF IInv, StageInv, PassInv, BreakersInv
<1>3. CASE RemoveUnreachable
  <2>1. /\ pc = "cut" /\ pc' = "pass" /\ graph' = Pruned(graph) /\ pending' = Components(graph')
        /\ IsCutGraph(graph) /\ NodesNamed(graph) /\ removed' = {} /\ changed' = FALSE /\ breakers' = breakers
    BY <1>1, <1>3 DEF RemoveUnreachable, StageInv, PassInv
  <2>2. IsLoopGraph(graph') /\ NodesNamed(graph')
    BY <2>1, PrunedIsLoopGraph, PrunedNamesNodes
  <2>3. \A c \in pending' : IsBreakable(graph', c)
    BY <2>1, <2>2, ComponentsAreBreakable
  <2> QED BY <1>1, <2>1, <2>2, <2>3 DEF IInv, StageInv, PassInv, BreakersInv
<1>4. ASSUME NEW scc \in pending, VisitRemoved(scc) PROVE IInv'
  <2>1. /\ pc = "pass" /\ pc' = "pass" /\ graph' = graph /\ removed' = removed /\ changed' = changed
        /\ breakers' = breakers /\ pending' = pending \ {scc} /\ scc \cap removed # {}
    BY <1>4 DEF VisitRemoved
  <2> QED BY <1>1, <2>1 DEF IInv, StageInv, PassInv, BreakersInv
<1>5. ASSUME NEW scc \in pending, BreakLoop(scc) PROVE IInv'
  <2> DEFINE n == Len(breakers) + 1
             b == Broken(graph, scc, n)
  <2>1. /\ pc = "pass" /\ pc' = "pass" /\ graph' = b.g /\ removed' = removed \cup b.idxs
        /\ changed' = TRUE /\ pending' = pending \ {scc} /\ scc \cap removed = {}
        /\ breakers' = Append(breakers, RootTypeVar(b.repr))
    BY <1>5 DEF BreakLoop
  <2>2. n \in Nat
    BY <1>1 DEF BreakersInv
  <2>3. IsLoopGraph(graph) /\ IsBreakable(graph, scc)
    BY <1>1, <2>1 DEF StageInv, PassInv
  <2> HIDE DEF n
  <2>4. PICK I : BreaksAt(graph, b.g, I) /\ b.idxs = I \ {NoIndex}
    BY <2>2, <2>3, BrokenBreaks
  <2> HIDE DEF b
  <2>5. IsLoopGraph(graph') /\ NodesNamed(graph')
    BY <1>1, <2>1, <2>4 DEF BreaksAt, StageInv
  <2>6. ASSUME NEW c \in pending', c \cap removed' = {} PROVE IsBreakable(graph', c)
    <3>1. IsBreakable(graph, c)
      BY <1>1, <2>1, <2>6 DEF PassInv
    <3>2. NoIndex \notin c
      BY <2>3, <3>1 DEF IsBreakable, IsLoopGraph, IsCutGraph, IsGraph
    <3>3. c \cap I = {}
      BY <2>1, <2>4, <2>6, <3>2
    <3> QED BY <2>1, <2>4, <3>1, <3>3 DEF BreaksAt
  <2>7. \A r \in removed' : IsQuiet(graph', r)
    BY <1>1, <2>1, <2>4 DEF BreaksAt, PassInv
  <2>8. BreakersInv'
    BY <1>1, <2>1, BreakersGrow
  <2> QED BY <2>1, <2>5, <2>6, <2>7, <2>8 DEF IInv, StageInv, PassInv
<1>6. CASE NextPass
  <2>1. /\ pc = "pass" /\ pc' = "pass" /\ graph' = graph /\ removed' = removed /\ changed' = FALSE
        /\ breakers' = breakers /\ pending' = Components(graph)
    BY <1>6 DEF NextPass
  <2>2. IsLoopGraph(graph)
    BY <1>1, <2>1 DEF StageInv
  <2>3. \A c \in pending' : IsBreakable(graph', c)
    BY <2>1, <2>2, ComponentsAreBreakable
  <2> QED BY <1>1, <2>1, <2>2, <2>3 DEF IInv, StageInv, PassInv, BreakersInv
<1>7. CASE LoopsBroken
  <2>1. /\ pc = "pass" /\ pc' = "simplified" /\ pending = {} /\ ~changed
        /\ graph' = Pruned(graph) /\ breakers' = breakers
    BY <1>7 DEF LoopsBroken
  <2>2. IsLoopGraph(graph)
    BY <1>1, <2>1 DEF StageInv
  <2>3. Components(graph) = {}
    <3> SUFFICES ASSUME NEW c \in Components(graph) PROVE FALSE
      OBVIOUS
    <3>1. PICK r \in removed : r \in c
      BY <1>1, <2>1 DEF PassInv
    <3>2. IsQuiet(graph, r)
      BY <1>1, <2>1 DEF PassInv
    <3> QED BY <2>2, <3>1, <3>2, QuietOnNoCycle
  <2>4. IsCutGraph(graph) /\ IsGraph(graph)
    BY <2>2 DEF IsLoopGraph, IsCutGraph
  <2>5. IsLoopGraph(graph')
    BY <2>1, <2>4, PrunedIsLoopGraph
  <2>6. IsGraph(graph') /\ IsCutGraph(graph')
    BY <2>5 DEF IsLoopGraph, IsCutGraph
  <2>7. Live(graph') \subseteq Live(graph) /\ graph'.edges \subseteq graph.edges
    BY <2>1, <2>4, PrunedAre DEF IsPrunedOf
  <2>8. Components(graph') = {}
    BY <2>3, <2>4, <2>6, <2>7, PrunedWithoutCycles
  <2> QED BY <1>1, <2>1, <2>6, <2>8 DEF IInv, StageInv, PassInv, BreakersInv
<1>8. CASE UNCHANGED vars
  BY <1>1, <1>8 DEF vars, IInv, StageInv, PassInv, BreakersInv
<1> QED BY <1>2, <1>3, <1>4, <1>5, <1>6, <1>7, <1>8 DEF Next

LEMMA InvHolds == Spec => []IInv
BY InvInit, InvStep, PTL DEF Spec

-----------------------------------------------------------------------------
(* The properties. *)

(* No pop follows a push from the cut on: the copy of the automaton that     *)
(* the pushes lead into stays a copy through pruning, the reuse of freed      *)
(* indices and the rerouting of replaced nodes.                               *)
THEOREM PopsPrecedePushesHolds == Spec => []PopsPrecedePushes
<1>1. IInv => PopsPrecedePushes
  <2> SUFFICES ASSUME IInv, pc # "saturated",
                      NEW e \in graph.edges, e.kind = "push",
                      NEW i \in Forward(graph, e.dst), NEW f \in graph.edges, f.src = i
               PROVE  f.kind # "pop"
    BY DEF PopsPrecedePushes
  <2>1. IsCutGraph(graph)
    BY DEF IInv, StageInv, IsLoopGraph
  <2>2. PICK C : IsCopySide(graph, C)
    BY <2>1 DEF IsCutGraph
  <2> QED BY <2>1, <2>2, CopySidePops DEF IsCutGraph
<1> QED BY <1>1, InvHolds, PTL

(* generate_recursive_type_variables meets none of its panics: no entry is   *)
(* the start or the end, some entry has no prefix among the others, and the   *)
(* maps, never pruned, give a replaced state neither the start nor the end.   *)
THEOREM EveryLoopHasAnEntryHolds == Spec => []EveryLoopHasAnEntry
<1>1. IInv => EveryLoopHasAnEntry
  <2> SUFFICES ASSUME IInv, pc = "pass", NEW c \in pending, c \cap removed = {}
               PROVE  LET roots == {RootTypeVar(graph.weight[i]) : i \in Entries(graph, c)}
                      IN  /\ \A i \in Entries(graph, c) : IsTv(graph.weight[i])
                          /\ \E d \in roots : \A r \in roots : ~IsPrefixOf(r, d)
                          /\ \A i \in ToSet(EquivNodeIdxs(graph, graph.weight[EntryRepr(graph, Entries(graph, c))])) :
                               i \in Live(graph) => IsTv(graph.weight[i])
    BY DEF EveryLoopHasAnEntry
  <2>1. IsLoopGraph(graph) /\ IsBreakable(graph, c)
    BY DEF IInv, StageInv, PassInv
  <2> DEFINE s == graph.weight[EntryRepr(graph, Entries(graph, c))]
  <2>2. IsTv(s)
    BY <2>1, EntriesHaveRepr
  <2>3. ASSUME NEW i \in ToSet(EquivNodeIdxs(graph, s)), i \in Live(graph) PROVE IsTv(graph.weight[i])
    <3> HIDE DEF s
    <3>1. PICK k \in 1..4 : i = EquivNodeIdxs(graph, s)[k]
      BY DEF EquivNodeIdxs, ToSet
    <3>2. i \notin {StartIdx(graph), EndIdx(graph)}
      BY <2>1, <2>2, <3>1, EquivNodesApart
    <3> QED BY <2>1, <2>3, <3>2 DEF IsLoopGraph, OnlyTypeVars
  <2> QED BY <2>1, <2>3, EntriesHaveRepr
<1> QED BY <1>1, InvHolds, PTL

(* When the passes end, no cycle is left: a component is broken, or one of    *)
(* its nodes was replaced before, and a replaced node is on no cycle again.   *)
THEOREM AcyclicHolds == Spec => []Acyclic
<1>1. IInv => Acyclic
  BY DEF IInv, StageInv, Acyclic, IsCutGraph, EdgesKept
<1> QED BY <1>1, InvHolds, PTL

(* Every component broken leaves fewer nodes on cycles: no replacement makes *)
(* a cycle, and the representative, which the maps still know however many    *)
(* nodes were replaced or removed since they were filled, is on none after it. *)
THEOREM LoopsShrinkHolds == Spec => LoopsShrink
<1> DEFINE A == (pc = "pass" /\ breakers' # breakers) =>
                  Cardinality(Looping(graph')) < Cardinality(Looping(graph))
<1>1. IInv /\ [Next]_vars => [A]_vars
  <2> SUFFICES ASSUME IInv, Next, pc = "pass", breakers' # breakers
               PROVE  Cardinality(Looping(graph')) < Cardinality(Looping(graph))
    BY DEF vars
  <2>1. PICK c \in pending : BreakLoop(c)
    BY DEF Next, IntersectWithPopPush, RemoveUnreachable, VisitRemoved, NextPass, LoopsBroken
  <2> DEFINE n == Len(breakers) + 1
             b == Broken(graph, c, n)
             r == EntryRepr(graph, Entries(graph, c))
  <2>2. graph' = b.g /\ c \cap removed = {}
    BY <2>1 DEF BreakLoop
  <2>3. n \in Nat
    BY DEF IInv, BreakersInv
  <2>4. IsLoopGraph(graph) /\ NodesNamed(graph) /\ IsBreakable(graph, c)
    BY <2>2 DEF IInv, StageInv, PassInv
  <2> HIDE DEF n
  <2>5. PICK I : BreaksAt(graph, b.g, I) /\ r \in I
    BY <2>3, <2>4, BrokenBreaks
  <2>6. r \in c
    BY <2>4, EntriesHaveRepr
  <2> HIDE DEF b, r
  <2>7. r \in Looping(graph)
    BY <2>4, <2>6, KnotsLoop DEF IsBreakable, IsLoopGraph, IsCutGraph
  <2>8. /\ Looping(graph') \subseteq Looping(graph)
        /\ IsQuiet(graph', r) /\ IsLoopGraph(graph')
    BY <2>2, <2>5 DEF BreaksAt
  <2>9. r \notin Looping(graph')
    BY <2>8, QuietOnNoCycle DEF Looping
  <2>10. IsFiniteSet(Looping(graph))
    <3>1. IsGraph(graph)
      BY <2>4 DEF IsLoopGraph, IsCutGraph
    <3>2. Looping(graph) \subseteq Live(graph)
      BY <3>1, ComponentIs DEF Looping
    <3> QED BY <3>1, <3>2, FS_Subset DEF IsGraph
  <2>11. /\ IsFiniteSet(Looping(graph'))
         /\ Cardinality(Looping(graph')) <= Cardinality(Looping(graph))
         /\ Cardinality(Looping(graph)) = Cardinality(Looping(graph')) => Looping(graph) = Looping(graph')
    BY <2>8, <2>10, FS_Subset
  <2>12. Cardinality(Looping(graph')) \in Nat /\ Cardinality(Looping(graph)) \in Nat
    BY <2>10, <2>11, FS_CardinalityType
  <2> QED BY <2>7, <2>9, <2>11, <2>12
<1> QED BY <1>1, InvHolds, PTL DEF Spec, LoopsShrink

-----------------------------------------------------------------------------
(* Variance. *)

LEMMA OperateMonoid ==
  /\ \A v, w \in Variances : Operate(v, w) \in Variances /\ Operate(v, w) = Operate(w, v)
  /\ \A u, v, w \in Variances : Operate(Operate(u, v), w) = Operate(u, Operate(v, w))
  /\ \A v \in Variances : Operate(v, Co) = v /\ Operate(v, v) = Co
  /\ \A u, v, w \in Variances : Operate(u, w) = v <=> Operate(v, w) = u
BY DEF Operate, Variances, Co, Contra

LEMMA VariancesAre ==
  /\ \A l : LabelVariance(l) \in Variances
  /\ \A path, k : SuffixVariance(path, k) \in Variances
  /\ LabelVariance(Load) = Co /\ LabelVariance(Store) = Contra /\ Co \in Variances /\ Contra \in Variances
BY LabelsAssumption DEF LabelVariance, SuffixVariance, Variances, Load, Store, FieldLabels, Co, Contra

LEMMA SuffixVarianceStep ==
  ASSUME NEW path \in Paths, NEW k \in 1..Len(path)
  PROVE  SuffixVariance(path, k-1) = Operate(SuffixVariance(path, k), LabelVariance(path[k]))
<1> DEFINE Above(j) == {i \in j+1..Len(path) : LabelVariance(path[i]) = Contra}
<1>1. Len(path) \in Nat /\ k \in Nat /\ k-1 \in Nat /\ (k-1)+1 = k
  BY DEF Paths
<1>2. IsFiniteSet(Above(k)) /\ Cardinality(Above(k)) \in Nat /\ k \notin Above(k)
  <2>1. IsFiniteSet(k+1..Len(path))
    BY <1>1, FS_Interval
  <2> QED BY <2>1, <1>1, FS_Subset, FS_CardinalityType
<1>3. CASE LabelVariance(path[k]) = Contra
  <2>1. Above(k-1) = Above(k) \cup {k}
    BY <1>1, <1>3
  <2>2. Cardinality(Above(k-1)) = Cardinality(Above(k)) + 1
    BY <2>1, <1>2, FS_AddElement
  <2> HIDE DEF Above
  <2>3. \A n \in Nat : (n % 2 = 0) <=> ~((n+1) % 2 = 0)
    OBVIOUS
  <2>4. (Cardinality(Above(k)) % 2 = 0) <=> ~(Cardinality(Above(k-1)) % 2 = 0)
    BY <1>2, <2>2, <2>3
  <2> QED BY <2>4, <1>3 DEF SuffixVariance, Operate, Co, Contra, Above
<1>4. CASE LabelVariance(path[k]) # Contra
  <2>1. Above(k-1) = Above(k)
    BY <1>1, <1>4
  <2> QED BY <2>1, <1>4 DEF SuffixVariance, Operate, LabelVariance, Co, Contra
<1> QED BY <1>3, <1>4

\* A label in front of a path.
LEMMA PathVarianceStep ==
  ASSUME NEW l \in FieldLabels, NEW u \in Paths
  PROVE  /\ <<l>> \o u \in Paths /\ PathVariance(<<>>) = Co
         /\ PathVariance(<<l>> \o u) = Operate(LabelVariance(l), PathVariance(u))
<1> DEFINE p == <<l>> \o u
           n == Len(u)
           A == {i \in 1..n : LabelVariance(u[i]) = Contra}
           B == {i \in 2..n+1 : LabelVariance(p[i]) = Contra}
           shift == [i \in A |-> i+1]
<1>1. u \in Seq(FieldLabels) /\ n \in Nat
  BY DEF Paths
<1>2. p \in Paths /\ Len(p) = n+1 /\ p[1] = l /\ \A i \in 1..n : p[i+1] = u[i]
  BY <1>1 DEF Paths
<1> HIDE DEF n, p
<1>3. IsFiniteSet(A)
  BY <1>1, IntervalSize, FS_Subset
<1>4. ExistsBijection(A, B)
  <2>1. \A i \in 1..n : i+1 \in 2..n+1
    BY <1>1
  <2>2. \A j \in 2..n+1 : j-1 \in 1..n /\ (j-1)+1 = j
    BY <1>1
  <2>3. shift \in [A -> B]
    BY <1>2, <2>1
  <2>4. \A i, j \in A : shift[i] = shift[j] => i = j
    BY <1>1
  <2>5. \A j \in B : j-1 \in A /\ shift[j-1] = j
    BY <1>2, <2>2
  <2>6. shift \in Bijection(A, B)
    <3> HIDE DEF A, B, shift
    <3> QED BY <2>3, <2>4, <2>5 DEF Bijection, Injection, Surjection, IsInjective
  <2> QED BY <2>6 DEF ExistsBijection
<1>5. Cardinality(A) = Cardinality(B)
  <2> HIDE DEF A, B
  <2> QED BY <1>3, <1>4, FS_Bijection
<1>6. SuffixVariance(p, 1) = SuffixVariance(u, 0)
  <2>1. 1+1 = 2 /\ 0+1 = 1
    OBVIOUS
  <2> QED BY <1>2, <1>5, <2>1 DEF SuffixVariance, n
<1>7. SuffixVariance(p, 0) = Operate(SuffixVariance(p, 1), LabelVariance(p[1]))
  <2>1. 1 \in 1..Len(p) /\ 1-1 = 0
    BY <1>1, <1>2
  <2> QED BY <1>2, <2>1, SuffixVarianceStep
<1>8. PathVariance(<<>>) = Co
  <2>1. {i \in 0+1..Len(<<>>) : LabelVariance(<<>>[i]) = Contra} = {}
    OBVIOUS
  <2>2. Cardinality({}) = 0 /\ 0 % 2 = 0
    BY FS_EmptySet
  <2> QED BY <2>1, <2>2 DEF PathVariance, SuffixVariance
<1>9. PathVariance(p) = Operate(LabelVariance(l), PathVariance(u))
  BY <1>2, <1>6, <1>7, VariancesAre, OperateMonoid DEF PathVariance
<1> QED BY <1>2, <1>8, <1>9 DEF p

-----------------------------------------------------------------------------
(* Soundness.  A theory of the constraints is a set of judgements that the  *)
(* rules of SubtypeDeduction, used on all derived type variables, do not     *)
(* leave; what follows from the constraints is what all their theories hold. *)

IsTheory(T, cons) ==
  /\ T \subseteq DerivedTypeVars \X DerivedTypeVars
  /\ \A c \in cons : <<c.lhs, c.rhs>> \in T
  /\ \A d \in DerivedTypeVars : <<d, d>> \in T /\ <<Extend(d, Store), Extend(d, Load)>> \in T
  /\ \A j, k \in T : j[2] = k[1] => <<j[1], k[2]>> \in T
  /\ \A j \in T, l \in FieldLabels : ByField(j, l) \in T

Follows(cons, d, e) == \A T : IsTheory(T, cons) => <<d, e>> \in T

\* The judgement that the second is above the first, seen with variance v.
Upto(v, d, e) == IF v = Co THEN <<d, e>> ELSE <<e, d>>

Along(d, u) == [base |-> d.base, path |-> d.path \o u]

LEMMA DtvAlong ==
  ASSUME NEW d \in DerivedTypeVars
  PROVE  /\ Along(d, <<>>) = d
         /\ \A l \in FieldLabels : Extend(d, l) \in DerivedTypeVars
         /\ \A u \in Paths : Along(d, u) \in DerivedTypeVars
         /\ \A l \in FieldLabels, u \in Paths : Along(Extend(d, l), u) = Along(d, <<l>> \o u)
         /\ \A l \in FieldLabels, u \in Paths : Along(d, Append(u, l)) = Extend(Along(d, u), l)
<1>1. /\ d = [base |-> d.base, path |-> d.path]
      /\ d.base \in Vars /\ d.path \in Seq(FieldLabels) /\ Paths = Seq(FieldLabels)
  BY DEF DerivedTypeVars, Paths
<1>2. d.path \o <<>> = d.path
  BY <1>1
<1>3. \A l \in FieldLabels : Append(d.path, l) \in Paths
  BY <1>1
<1>4. \A u \in Paths : d.path \o u \in Paths
  BY <1>1
<1>5. \A l \in FieldLabels, u \in Paths : Append(d.path, l) \o u = d.path \o (<<l>> \o u)
  BY <1>1
<1>6. \A l \in FieldLabels, u \in Paths : d.path \o Append(u, l) = Append(d.path \o u, l)
  BY <1>1
<1> QED BY <1>1, <1>2, <1>3, <1>4, <1>5, <1>6 DEF Along, Extend, DerivedTypeVars

LEMMA UptoRules ==
  ASSUME NEW T, NEW cons, IsTheory(T, cons), NEW v \in Variances
  PROVE  /\ \A d \in DerivedTypeVars : Upto(v, d, d) \in T
         /\ \A d, e : Upto(v, d, e) \in T => d \in DerivedTypeVars /\ e \in DerivedTypeVars
         /\ \A d, e, f : Upto(v, d, e) \in T /\ Upto(v, e, f) \in T => Upto(v, d, f) \in T
         /\ \A d, e : \A l \in FieldLabels :
              Upto(v, d, e) \in T => Upto(Operate(v, LabelVariance(l)), Extend(d, l), Extend(e, l)) \in T
<1>1. \A d, e : <<d, e>> \in T => d \in DerivedTypeVars /\ e \in DerivedTypeVars
  BY DEF IsTheory
<1>2. \A d, e, f : <<d, e>> \in T /\ <<e, f>> \in T => <<d, f>> \in T
  BY DEF IsTheory
<1>3. ASSUME NEW d, NEW e, NEW l \in FieldLabels, <<d, e>> \in T
      PROVE  IF LabelVariance(l) = Co THEN <<Extend(d, l), Extend(e, l)>> \in T
                                      ELSE <<Extend(e, l), Extend(d, l)>> \in T
  <2>1. ByField(<<d, e>>, l) \in T
    BY <1>3 DEF IsTheory
  <2> QED BY <2>1 DEF ByField
<1>4. ASSUME NEW d, NEW e, NEW l \in FieldLabels, Upto(v, d, e) \in T
      PROVE  Upto(Operate(v, LabelVariance(l)), Extend(d, l), Extend(e, l)) \in T
  <2>1. LabelVariance(l) \in Variances
    BY VariancesAre
  <2>2. CASE v = Co
    BY <1>3, <1>4, <2>1, <2>2 DEF Upto, Operate, Variances, Co, Contra
  <2>3. CASE v # Co
    BY <1>3, <1>4, <2>1, <2>3 DEF Upto, Operate, Variances, Co, Contra
  <2> QED BY <2>2, <2>3
<1>5. \A d \in DerivedTypeVars : Upto(v, d, d) \in T
  BY DEF IsTheory, Upto
<1> QED BY <1>1, <1>2, <1>4, <1>5 DEF Upto

\* The field rule along a path.
LEMMA UptoPath ==
  ASSUME NEW T, NEW cons, IsTheory(T, cons), NEW v \in Variances, NEW u \in Paths,
         NEW d, NEW e, Upto(v, d, e) \in T
  PROVE  Upto(Operate(v, PathVariance(u)), Along(d, u), Along(e, u)) \in T
<1> DEFINE P(n) == \A p \in Paths : Len(p) = n =>
                     \A w \in Variances : \A x, y :
                       Upto(w, x, y) \in T => Upto(Operate(w, PathVariance(p)), Along(x, p), Along(y, p)) \in T
           N == {n \in Nat : P(n)}
<1>1. 0 \in N
  <2> SUFFICES ASSUME NEW w \in Variances, NEW x, NEW y, Upto(w, x, y) \in T
               PROVE  Upto(Operate(w, PathVariance(<<>>)), Along(x, <<>>), Along(y, <<>>)) \in T
    BY DEF Paths
  <2>1. x \in DerivedTypeVars /\ y \in DerivedTypeVars
    BY UptoRules
  <2>2. Along(x, <<>>) = x /\ Along(y, <<>>) = y
    BY <2>1, DtvAlong
  <2>3. Load \in FieldLabels /\ <<>> \in Paths
    BY DEF FieldLabels, Paths
  <2>4. Operate(w, PathVariance(<<>>)) = w
    BY <2>3, PathVarianceStep, OperateMonoid
  <2> QED BY <2>2, <2>4
<1>2. ASSUME NEW n \in Nat, n \in N PROVE n+1 \in N
  <2> SUFFICES ASSUME NEW p \in Paths, Len(p) = n+1, NEW w \in Variances, NEW x, NEW y, Upto(w, x, y) \in T
               PROVE  Upto(Operate(w, PathVariance(p)), Along(x, p), Along(y, p)) \in T
    OBVIOUS
  <2> DEFINE l == p[1]
             q == Tail(p)
  <2>1. p \in Seq(FieldLabels) /\ p # <<>>
    BY DEF Paths
  <2>2. l \in FieldLabels /\ q \in Paths /\ Len(q) = n /\ p = <<l>> \o q
    BY <2>1 DEF Paths
  <2> HIDE DEF l, q
  <2>3. LabelVariance(l) \in Variances /\ PathVariance(q) \in Variances
    BY VariancesAre DEF PathVariance
  <2>4. /\ Operate(w, LabelVariance(l)) \in Variances
        /\ Upto(Operate(w, LabelVariance(l)), Extend(x, l), Extend(y, l)) \in T
    BY <2>2, <2>3, UptoRules, OperateMonoid
  <2>5. Upto(Operate(Operate(w, LabelVariance(l)), PathVariance(q)), Along(Extend(x, l), q), Along(Extend(y, l), q)) \in T
    BY <1>2, <2>2, <2>4
  <2>6. Operate(Operate(w, LabelVariance(l)), PathVariance(q)) = Operate(w, PathVariance(p))
    BY <2>2, <2>3, PathVarianceStep, OperateMonoid
  <2>7. x \in DerivedTypeVars /\ y \in DerivedTypeVars
    BY UptoRules
  <2>8. Along(Extend(x, l), q) = Along(x, p) /\ Along(Extend(y, l), q) = Along(y, p)
    BY <2>2, <2>7, DtvAlong
  <2> QED BY <2>5, <2>6, <2>8
<1>3. \A n \in Nat : n \in N
  <2> HIDE DEF N
  <2> QED BY <1>1, <1>2, NatSetInduction
<1>4. Len(u) \in Nat
  BY DEF Paths
<1> QED BY <1>3, <1>4

-----------------------------------------------------------------------------
(* What an edge claims of the derived type variables its ends stand for, the *)
(* loop breakers standing for roots: a success edge is a judgement, a label  *)
(* edge adds the label, and the start and the end name variables.            *)

Named(x, roots) == x \in Vars \/ \E n \in DOMAIN roots : x = BreakerName(n)
Stands(s, roots) == Named(s.tv, roots) /\ s.path \in Paths /\ s.variance \in Variances
Meant(s, roots) == Unbroken(DtvOf(s), roots)

Judges(T, roots, s, t) ==
  /\ Stands(s, roots) /\ Stands(t, roots) /\ s.variance = t.variance
  /\ Upto(s.variance, Meant(s, roots), Meant(t, roots)) \in T

Adds(roots, s, l, t) ==
  /\ Stands(s, roots) /\ Stands(t, roots) /\ Operate(t.variance, LabelVariance(l)) = s.variance
  /\ Meant(t, roots) = Extend(Meant(s, roots), l)

Names(roots, sym, s) ==
  /\ Stands(s, roots) /\ Named(sym[2], roots) /\ sym[4] = s.variance
  /\ Unbroken([base |-> sym[2], path |-> <<>>], roots) = Meant(s, roots)

Holds(T, roots, s, kind, sym, t) ==
  /\ kind \in {"push", "pop", "success"}
  /\ kind = "success" => Judges(T, roots, s, t)
  /\ kind = "pop" => \/ s = Start /\ Names(roots, sym, t)
                     \/ \E l \in FieldLabels : sym = LabelSymbol(l) /\ Adds(roots, s, l, t)
  /\ kind = "push" => \/ t = End /\ Names(roots, sym, s)
                      \/ \E l \in FieldLabels : sym = LabelSymbol(l) /\ Adds(roots, t, l, s)

EdgeHolds(T, e) == Holds(T, <<>>, e.src, e.kind, e.sym, e.dst)

LEMMA StandsTyped ==
  ASSUME NEW roots \in Seq(DerivedTypeVars), NEW s, Stands(s, roots)
  PROVE  /\ Meant(s, roots) \in DerivedTypeVars /\ IsTv(s) /\ s # Start /\ s # End
         /\ \A d : Named(d.base, roots) /\ d.path \in Paths => Unbroken(d, roots) \in DerivedTypeVars \/ d.base \in Vars
<1>1. ASSUME NEW d, Named(d.base, roots), d.base \notin Vars, d.path \in Paths
      PROVE  Unbroken(d, roots) \in DerivedTypeVars
  <2>1. PICK n \in DOMAIN roots : d.base = BreakerName(n)
    BY <1>1 DEF Named
  <2>2. roots[n] \in DerivedTypeVars /\ d.base[2] = n
    BY <2>1 DEF BreakerName
  <2>3. Unbroken(d, roots) = Along(roots[n], d.path)
    BY <1>1, <2>2 DEF Unbroken, Along
  <2> QED BY <1>1, <2>2, <2>3, DtvAlong
<1>2. Meant(s, roots) \in DerivedTypeVars
  <2>1. DtvOf(s).base = s.tv /\ DtvOf(s).path = s.path
    BY DEF DtvOf
  <2>2. CASE s.tv \in Vars
    BY <2>2 DEF Stands, Meant, Unbroken, DtvOf, DerivedTypeVars
  <2>3. CASE s.tv \notin Vars
    BY <1>1, <2>1, <2>3 DEF Stands, Meant
  <2> QED BY <2>2, <2>3
<1>3. s.tv # NoVar
  <2>1. \A n \in DOMAIN roots : BreakerName(n) # NoVar
    BY SimplifyAssumption DEF BreakerName
  <2> QED BY <2>1, VarsAssumption DEF Stands, Named
<1>4. IsTv(s) /\ s # Start /\ s # End
  BY <1>3, StartAndEnd DEF IsTv
<1> QED BY <1>1, <1>2, <1>4

LEMMA TvStands ==
  ASSUME NEW s \in TvStates
  PROVE  Stands(s, <<>>) /\ Meant(s, <<>>) = DtvOf(s) /\ DtvOf(s) \in DerivedTypeVars
BY DEF TvStates, States, IsTv, Stands, Named, Meant, Unbroken, DtvOf, DerivedTypeVars

LEMMA PrefixAdds ==
  ASSUME NEW s \in TvStates, NEW k \in 1..Len(s.path)
  PROVE  s.path[k] \in FieldLabels /\ Adds(<<>>, PrefixState(s, k-1), s.path[k], PrefixState(s, k))
<1>1. s.path \in Seq(FieldLabels) /\ s.path \in Paths /\ s.variance \in Variances /\ Len(s.path) \in Nat
  BY DEF TvStates, States, Paths
<1>2. k \in 0..Len(s.path) /\ k-1 \in 0..Len(s.path) /\ s.path[k] \in FieldLabels
  BY <1>1
<1>3. PrefixState(s, k) \in TvStates /\ PrefixState(s, k-1) \in TvStates
  BY <1>2, PrefixStates
<1>4. SuffixVariance(s.path, k-1) = Operate(SuffixVariance(s.path, k), LabelVariance(s.path[k]))
  BY <1>1, SuffixVarianceStep
<1>5. Operate(PrefixState(s, k).variance, LabelVariance(s.path[k])) = PrefixState(s, k-1).variance
  BY <1>1, <1>4, VariancesAre, OperateMonoid DEF PrefixState, State
<1>6. SubSeq(s.path, 1, k) = Append(SubSeq(s.path, 1, k-1), s.path[k])
  BY <1>1
<1>7. DtvOf(PrefixState(s, k)) = Extend(DtvOf(PrefixState(s, k-1)), s.path[k])
  BY <1>6 DEF DtvOf, PrefixState, State, Extend
<1> QED BY <1>2, <1>3, <1>5, <1>7, TvStands DEF Adds

LEMMA FsaEdgesHold ==
  ASSUME NEW cons \in SUBSET SubtypeConstraints, NEW T, IsTheory(T, cons), NEW e \in FsaEdges(cons)
  PROVE  EdgeHolds(T, e)
<1>1. CASE e \in DirectEdges(cons)
  <2>1. PICK c \in cons : e = SubTypeEdge(c.lhs, c.rhs, Co) \/ e = SubTypeEdge(c.rhs, c.lhs, Contra)
    BY <1>1 DEF DirectEdges
  <2>2. c.lhs \in DerivedTypeVars /\ c.rhs \in DerivedTypeVars /\ <<c.lhs, c.rhs>> \in T
    BY DEF SubtypeConstraints, IsTheory
  <2>3. e.src \in TvStates /\ e.dst \in TvStates /\ e.kind = "success"
    <3>1. e.kind = "success"
      BY <2>1 DEF SubTypeEdge, Success, Edge
    <3> QED BY <1>1, <3>1, DirectEdgesAre DEF IsAutomatonEdge
  <2>4. \/ /\ e.src.variance = Co /\ e.dst.variance = Co
           /\ DtvOf(e.src) = c.lhs /\ DtvOf(e.dst) = c.rhs
        \/ /\ e.src.variance = Contra /\ e.dst.variance = Contra
           /\ DtvOf(e.src) = c.rhs /\ DtvOf(e.dst) = c.lhs
    BY <2>1, <2>2 DEF SubTypeEdge, Success, Edge, State, DtvOf, DerivedTypeVars
  <2>5. Upto(e.src.variance, DtvOf(e.src), DtvOf(e.dst)) \in T /\ e.src.variance = e.dst.variance
    BY <2>2, <2>4 DEF Upto, Co, Contra
  <2> QED BY <2>3, <2>5, TvStands DEF EdgeHolds, Holds, Judges
<1>2. ASSUME NEW s \in EndsOf(DirectEdges(cons)), e \in PushPopEdges(s)
      PROVE  EdgeHolds(T, e)
  <2>1. s \in TvStates
    BY RuleEdgesAre DEF EndsOf, Ends, RuleEdges
  <2>2. PICK k \in 1..Len(s.path) :
          \/ e = Push(PrefixState(s, k), LabelSymbol(s.path[k]), PrefixState(s, k-1))
          \/ e = Pop(PrefixState(s, k-1), LabelSymbol(s.path[k]), PrefixState(s, k))
    BY <1>2 DEF PushPopEdges
  <2>3. s.path[k] \in FieldLabels /\ Adds(<<>>, PrefixState(s, k-1), s.path[k], PrefixState(s, k))
    BY <2>1, PrefixAdds
  <2> QED BY <2>2, <2>3 DEF EdgeHolds, Holds, Push, Pop, Edge
<1>3. ASSUME NEW s \in EndsOf(RuleEdges(cons)), e \in StartStopEdges(s)
      PROVE  EdgeHolds(T, e)
  <2>1. s \in TvStates
    BY RuleEdgesAre DEF EndsOf, Ends
  <2>2. BareState(s) \in TvStates
    BY <2>1 DEF TvStates, BareState, State, States, Paths, IsTv
  <2>3. e = Pop(Start, VarSymbol(s), BareState(s)) \/ e = Push(BareState(s), VarSymbol(s), End)
    <3>1. CASE s.dir = "L"
      BY <1>3, <3>1 DEF StartStopEdges
    <3>2. CASE s.dir = "R"
      BY <1>3, <3>2 DEF StartStopEdges
    <3>3. CASE s.dir \notin {"L", "R"}
      BY <1>3, <3>3 DEF StartStopEdges
    <3> QED BY <3>1, <3>2, <3>3
  <2>4. Names(<<>>, VarSymbol(s), BareState(s))
    <3>1. /\ VarSymbol(s)[2] = s.tv /\ VarSymbol(s)[4] = s.variance
          /\ BareState(s).variance = s.variance /\ s.tv \in Vars
          /\ DtvOf(BareState(s)) = [base |-> s.tv, path |-> <<>>]
      BY <2>1 DEF VarSymbol, BareState, State, DtvOf, TvStates, States, IsTv
    <3> QED BY <2>2, <3>1, TvStands DEF Names, Named, Unbroken
  <2> QED BY <2>3, <2>4 DEF EdgeHolds, Holds, Push, Pop, Edge
<1> QED BY <1>1, <1>2, <1>3 DEF FsaEdges, RuleEdges

\* What was pushed, popped where the push has got to.
EntryHolds(T, p) ==
  /\ Stands(p[3], <<>>)
  /\ \/ p[1] = End
     \/ \E l \in FieldLabels :
          /\ p[2] = LabelSymbol(l) /\ Stands(p[1], <<>>)
          /\ Operate(p[3].variance, LabelVariance(l)) = p[1].variance
          /\ Upto(p[3].variance, Meant(p[3], <<>>), Extend(Meant(p[1], <<>>), l)) \in T

LEMMA BasePushesHold ==
  ASSUME NEW cons \in SUBSET SubtypeConstraints, NEW T, IsTheory(T, cons), NEW p \in BasePushes(FsaEdges(cons))
  PROVE  EntryHolds(T, p)
<1>1. PICK e \in FsaEdges(cons) : e.kind = "push" /\ p = <<e.dst, e.sym, e.src>>
  BY DEF BasePushes
<1>2. Holds(T, <<>>, e.src, "push", e.sym, e.dst)
  BY <1>1, FsaEdgesHold DEF EdgeHolds
<1>3. <<>> \in Seq(DerivedTypeVars)
  OBVIOUS
<1>4. CASE e.dst = End /\ Names(<<>>, e.sym, e.src)
  BY <1>1, <1>4 DEF EntryHolds, Names
<1>5. ASSUME NEW l \in FieldLabels, e.sym = LabelSymbol(l), Adds(<<>>, e.dst, l, e.src)
      PROVE  EntryHolds(T, p)
  <2>1. /\ Stands(e.dst, <<>>) /\ Stands(e.src, <<>>) /\ e.src.variance \in Variances
        /\ Operate(e.src.variance, LabelVariance(l)) = e.dst.variance
        /\ Meant(e.src, <<>>) = Extend(Meant(e.dst, <<>>), l)
    BY <1>5 DEF Adds, Stands
  <2>2. Meant(e.src, <<>>) \in DerivedTypeVars
    BY <1>3, <2>1, StandsTyped
  <2>3. Upto(e.src.variance, Meant(e.src, <<>>), Extend(Meant(e.dst, <<>>), l)) \in T
    BY <2>1, <2>2, UptoRules
  <2> QED BY <1>1, <1>5, <2>1, <2>3 DEF EntryHolds
<1> QED BY <1>2, <1>4, <1>5 DEF Holds

LEMMA CarriedHold ==
  ASSUME NEW cons, NEW T, IsTheory(T, cons), NEW e, e.kind = "success", EdgeHolds(T, e),
         NEW p, EntryHolds(T, p), p[1] = e.src
  PROVE  EntryHolds(T, <<e.dst, p[2], p[3]>>)
<1>1. <<>> \in Seq(DerivedTypeVars)
  OBVIOUS
<1>2. Judges(T, <<>>, e.src, e.dst)
  BY DEF EdgeHolds, Holds
<1>3. /\ Stands(e.src, <<>>) /\ Stands(e.dst, <<>>) /\ e.src.variance = e.dst.variance
      /\ e.src.variance \in Variances /\ e.src # End /\ Stands(p[3], <<>>) /\ p[3].variance \in Variances
      /\ Upto(e.src.variance, Meant(e.src, <<>>), Meant(e.dst, <<>>)) \in T
  BY <1>1, <1>2, StandsTyped DEF Judges, Stands, EntryHolds
<1>4. PICK l \in FieldLabels : /\ p[2] = LabelSymbol(l)
                               /\ Operate(p[3].variance, LabelVariance(l)) = p[1].variance
                               /\ Upto(p[3].variance, Meant(p[3], <<>>), Extend(Meant(p[1], <<>>), l)) \in T
  BY <1>3 DEF EntryHolds
<1>5. Operate(e.src.variance, LabelVariance(l)) = p[3].variance
  BY <1>3, <1>4, VariancesAre, OperateMonoid
<1>6. Upto(p[3].variance, Extend(Meant(e.src, <<>>), l), Extend(Meant(e.dst, <<>>), l)) \in T
  BY <1>3, <1>5, UptoRules
<1>7. Upto(p[3].variance, Meant(p[3], <<>>), Extend(Meant(e.dst, <<>>), l)) \in T
  BY <1>3, <1>4, <1>6, UptoRules
<1> QED BY <1>3, <1>4, <1>7 DEF EntryHolds

LEMMA LinkedHold ==
  ASSUME NEW cons, NEW T, IsTheory(T, cons), NEW e, e.kind = "pop", EdgeHolds(T, e),
         NEW p, EntryHolds(T, p), p[1] = e.src, p[2] = e.sym
  PROVE  EdgeHolds(T, Success(p[3], e.dst))
<1>1. <<>> \in Seq(DerivedTypeVars)
  OBVIOUS
<1>2. \/ e.src = Start
      \/ \E l \in FieldLabels : e.sym = LabelSymbol(l) /\ Adds(<<>>, e.src, l, e.dst)
  BY DEF EdgeHolds, Holds
<1>3. e.src # Start
  BY <1>1, StandsTyped, StartAndEnd DEF EntryHolds
<1>4. PICK l \in FieldLabels : e.sym = LabelSymbol(l) /\ Adds(<<>>, e.src, l, e.dst)
  BY <1>2, <1>3
<1>5. e.src # End
  BY <1>1, <1>4, StandsTyped DEF Adds
<1>6. /\ Operate(p[3].variance, LabelVariance(l)) = e.src.variance
      /\ Upto(p[3].variance, Meant(p[3], <<>>), Extend(Meant(e.src, <<>>), l)) \in T
  BY <1>4, <1>5 DEF EntryHolds, LabelSymbol
<1>7. /\ Stands(p[3], <<>>) /\ Stands(e.dst, <<>>) /\ p[3].variance \in Variances /\ e.dst.variance \in Variances
      /\ Operate(e.dst.variance, LabelVariance(l)) = e.src.variance
      /\ Meant(e.dst, <<>>) = Extend(Meant(e.src, <<>>), l)
  BY <1>4 DEF Adds, EntryHolds, Stands
<1>8. p[3].variance = e.dst.variance
  BY <1>6, <1>7, VariancesAre, OperateMonoid
<1> QED BY <1>6, <1>7, <1>8 DEF EdgeHolds, Holds, Judges, Success, Edge

LEMMA MirroredHold ==
  ASSUME NEW cons, NEW T, IsTheory(T, cons), NEW s, IsTv(s), s.variance = Contra,
         NEW P, \A q \in P : EntryHolds(T, q), NEW p \in Mirrored(P, s)
  PROVE  EntryHolds(T, p)
<1>0. <<>> \in Seq(DerivedTypeVars) /\ s # End
  BY StartAndEnd
<1>1. PICK q \in P, l \in {Load, Store}, m \in {Load, Store} :
        /\ q[1] = s /\ q[2] = LabelSymbol(l) /\ l # m /\ p = <<Not(s), LabelSymbol(m), q[3]>>
  BY DEF Mirrored, Load, Store
<1>2. {Load, Store} \subseteq FieldLabels /\ l \in FieldLabels /\ m \in FieldLabels
  BY DEF FieldLabels
<1>3. /\ Operate(q[3].variance, LabelVariance(l)) = Contra /\ Stands(s, <<>>)
      /\ Upto(q[3].variance, Meant(q[3], <<>>), Extend(Meant(s, <<>>), l)) \in T
      /\ Stands(q[3], <<>>) /\ q[3].variance \in Variances
  BY <1>0, <1>1 DEF EntryHolds, LabelSymbol, Stands
<1>4. /\ Stands(Not(s), <<>>) /\ Meant(Not(s), <<>>) = Meant(s, <<>>) /\ Not(s).variance = Co
      /\ Meant(s, <<>>) \in DerivedTypeVars
  BY <1>0, <1>3, StandsTyped DEF Not, State, Flip, Stands, Meant, DtvOf, Variances, Co, Contra
<1>5. <<Extend(Meant(s, <<>>), Store), Extend(Meant(s, <<>>), Load)>> \in T
  BY <1>4 DEF IsTheory
<1>6. /\ Operate(q[3].variance, LabelVariance(m)) = Co
      /\ Upto(q[3].variance, Extend(Meant(s, <<>>), l), Extend(Meant(s, <<>>), m)) \in T
  <2>1. CASE l = Store /\ m = Load
    BY <1>3, <1>5, <2>1, VariancesAre DEF Operate, Upto, Variances, Co, Contra
  <2>2. CASE l = Load /\ m = Store
    BY <1>3, <1>5, <2>2, VariancesAre DEF Operate, Upto, Variances, Co, Contra
  <2> QED BY <1>1, <2>1, <2>2
<1>7. Upto(q[3].variance, Meant(q[3], <<>>), Extend(Meant(s, <<>>), m)) \in T
  BY <1>3, <1>6, UptoRules
<1> QED BY <1>1, <1>2, <1>3, <1>4, <1>6, <1>7 DEF EntryHolds

LEMMA RoundsHold ==
  ASSUME NEW cons \in SUBSET SubtypeConstraints, NEW T, IsTheory(T, cons), NEW n \in Nat
  PROVE  /\ \A p \in SaturationRounds(cons)[n][1] : EntryHolds(T, p)
         /\ \A e \in SaturationRounds(cons)[n][2] : EdgeHolds(T, e)
<1> DEFINE h == SaturationRounds(cons)
           P(x) == (\A p \in x[1] : EntryHolds(T, p)) /\ (\A e \in x[2] : EdgeHolds(T, e))
           N == {k \in Nat : P(h[k])}
<1>1. 0 \in N
  <2>1. h[0] = <<BasePushes(FsaEdges(cons)), FsaEdges(cons)>>
    BY RoundsAre
  <2> QED BY <2>1, FsaEdgesHold, BasePushesHold
<1>2. ASSUME NEW k \in Nat, P(h[k]) PROVE P(h[k+1])
  <2> DEFINE x == h[k]
  <2>1. h[k+1] = SaturationRound(cons, x)
    BY RoundsAre
  <2> HIDE DEF h, x
  <2>2. /\ h[k+1][1] = x[1] \cup (UNION {Carried(x[1], e) : e \in SuccessEdges(x[2])})
                            \cup (UNION {Mirrored(x[1], s) : s \in ContraStates(FsaNodes(cons))})
        /\ h[k+1][2] = x[2] \cup Linked(x[1], x[2])
    BY <2>1 DEF SaturationRound
  <2>3. P(x)
    BY <1>2 DEF x
  <2>4. ASSUME NEW e \in SuccessEdges(x[2]), NEW p \in Carried(x[1], e) PROVE EntryHolds(T, p)
    <3>1. PICK q \in x[1] : q[1] = e.src /\ p = <<e.dst, q[2], q[3]>>
      BY DEF Carried
    <3>2. e.kind = "success" /\ EdgeHolds(T, e) /\ EntryHolds(T, q)
      BY <2>3 DEF SuccessEdges, IsSuccess
    <3> QED BY <3>1, <3>2, CarriedHold
  <2>5. ASSUME NEW s \in ContraStates(FsaNodes(cons)), NEW p \in Mirrored(x[1], s) PROVE EntryHolds(T, p)
    <3>1. IsTv(s) /\ s.variance = Contra /\ \A q \in x[1] : EntryHolds(T, q)
      BY <2>3 DEF ContraStates
    <3> QED BY <3>1, MirroredHold
  <2>6. ASSUME NEW f \in Linked(x[1], x[2]) PROVE EdgeHolds(T, f)
    <3>1. PICK e \in x[2], p \in x[1] : /\ e.kind = "pop" /\ p[1] = e.src /\ p[2] = e.sym
                                        /\ f = Success(p[3], e.dst)
      BY DEF Linked, LinkedPop
    <3>2. EdgeHolds(T, e) /\ EntryHolds(T, p)
      BY <2>3
    <3> QED BY <3>1, <3>2, LinkedHold
  <2> QED BY <2>2, <2>3, <2>4, <2>5, <2>6
<1>3. \A k \in Nat : k \in N
  <2> HIDE DEF h, P
  <2>1. \A k \in Nat : k \in N => k+1 \in N
    BY <1>2
  <2> HIDE DEF N
  <2> QED BY <1>1, <2>1, NatSetInduction
<1> QED BY <1>3

LEMMA SaturationHolds ==
  ASSUME NEW cons \in SUBSET SubtypeConstraints, IsFiniteSet(cons), NEW T, IsTheory(T, cons),
         NEW e \in FsaEdges(cons) \cup SaturationEdges(cons)
  PROVE  EdgeHolds(T, e)
<1>1. CASE e \in FsaEdges(cons)
  BY <1>1, FsaEdgesHold
<1>2. CASE e \in SaturationEdges(cons)
  <2> DEFINE h == SaturationRounds(cons)
             last == CHOOSE n \in 0..MostRounds(cons) : h[n] = h[n+1]
  <2>1. last \in 0..MostRounds(cons)
    BY SaturationSettles
  <2>2. e \in h[last][2]
    BY <1>2 DEF SaturationEdges
  <2>3. last \in Nat
    <3> HIDE DEF last
    <3> QED BY <2>1
  <2> HIDE DEF last
  <2> QED BY <2>2, <2>3, RoundsHold
<1> QED BY <1>1, <1>2

-----------------------------------------------------------------------------
(* The graph keeps what the edges claim: cutting and pruning copy and drop   *)
(* edges, and a node is replaced by two that stand for the same variable.    *)

SoundGraph(T, roots, g) ==
  /\ \A i \in Live(g) : g.weight[i].variance \in Variances
  /\ \A e \in g.edges : Holds(T, roots, g.weight[e.src], e.kind, e.sym, g.weight[e.dst])

LEMMA CutHolds ==
  ASSUME NEW cons \in SUBSET SubtypeConstraints, IsFiniteSet(cons), NEW T, IsTheory(T, cons)
  PROVE  SoundGraph(T, <<>>, Cut(Saturated(cons), cons))
<1> DEFINE A == FsaEdges(cons) \cup SaturationEdges(cons)
           n == Len(NodeOrder(cons))
           m == Len(CopyOrder(cons))
<1> PICK g : g = Cut(Saturated(cons), cons)
  OBVIOUS
<1>1. /\ \A i \in Live(g) : g.weight[i] \in FsaNodes(cons)
      /\ \A s \in FsaNodes(cons) : g.weight[At(cons)[s]] = s
      /\ \A s \in Copied(cons) : g.weight[CopyAt(cons)[s]] = s
      /\ \A e \in g.edges : \E f \in A :
           \/ f.kind # "push" /\ e = SaturatedEdge(cons, f)
           \/ f.kind = "push" /\ e = EnteringEdge(cons, f)
           \/ f.kind # "pop" /\ e = CopiedEdge(cons, f)
  BY CutAre
<1>6. \A s \in FsaNodes(cons) : s.variance \in Variances
  <2>1. \A f \in FsaEdges(cons) : f.src \in TvStates \cup {Start, End} /\ f.dst \in TvStates \cup {Start, End}
    BY FsaEdgesAre DEF IsAutomatonEdge
  <2>2. \A s \in FsaNodes(cons) : s \in TvStates \cup {Start, End}
    BY <2>1 DEF FsaNodes, EndsOf, Ends
  <2> QED BY <2>2, StartAndEnd DEF TvStates, States
<1> SUFFICES ASSUME NEW e \in g.edges
             PROVE  Holds(T, <<>>, g.weight[e.src], e.kind, e.sym, g.weight[e.dst])
  BY <1>1, <1>6 DEF SoundGraph
<1>2. PICK f \in A : \/ f.kind # "push" /\ e = SaturatedEdge(cons, f)
                     \/ f.kind = "push" /\ e = EnteringEdge(cons, f)
                     \/ f.kind # "pop" /\ e = CopiedEdge(cons, f)
  BY <1>1
<1>3. f.src \in FsaNodes(cons) /\ f.dst \in FsaNodes(cons) /\ EdgeHolds(T, f)
  BY SaturationEdgesAre, SaturationHolds
<1>4. f.kind # "pop" => f.src \in Copied(cons) /\ f.dst \in Copied(cons)
  BY DEF Copied, EndsOf, Ends
<1>5. e.kind = f.kind /\ e.sym = f.sym /\ g.weight[e.src] = f.src /\ g.weight[e.dst] = f.dst
  BY <1>1, <1>2, <1>3, <1>4 DEF SaturatedEdge, EnteringEdge, CopiedEdge, Edge
<1> QED BY <1>3, <1>5 DEF EdgeHolds

LEMMA PrunedHolds ==
  ASSUME NEW T, NEW roots, NEW g, IsCutGraph(g), SoundGraph(T, roots, g)
  PROVE  SoundGraph(T, roots, Pruned(g))
<1> DEFINE h == Pruned(g)
<1>1. /\ Live(h) \subseteq Live(g) /\ \A i \in Live(h) : h.weight[i] = g.weight[i]
      /\ h.edges = {e \in g.edges : e.src \in Live(h) /\ e.dst \in Live(h)}
  <2>1. IsPrunedOf(h, g, Kept(g))
    BY PrunedAre
  <2> HIDE DEF h
  <2> QED BY <2>1 DEF IsPrunedOf
<1> HIDE DEF h
<1>2. SoundGraph(T, roots, h)
  BY <1>1 DEF SoundGraph
<1> QED BY <1>2 DEF h

\* Further loop breakers change nothing for those there are.
LEMMA RootsGrow ==
  ASSUME NEW roots \in Seq(DerivedTypeVars), NEW d \in DerivedTypeVars, NEW T, NEW g, SoundGraph(T, roots, g)
  PROVE  SoundGraph(T, Append(roots, d), g)
<1> DEFINE more == Append(roots, d)
<1>1. DOMAIN roots \subseteq DOMAIN more /\ \A n \in DOMAIN roots : more[n] = roots[n]
  OBVIOUS
<1> HIDE DEF more
<1>2. \A x : Named(x, roots) => Named(x, more)
  BY <1>1 DEF Named
<1>3. ASSUME NEW x, Named(x.base, roots) PROVE Unbroken(x, more) = Unbroken(x, roots)
  <2>1. CASE x.base \in Vars
    BY <2>1 DEF Unbroken
  <2>2. ASSUME NEW n \in DOMAIN roots, x.base = BreakerName(n) PROVE Unbroken(x, more) = Unbroken(x, roots)
    <3>1. x.base[2] = n
      BY <2>2 DEF BreakerName
    <3> QED BY <1>1, <3>1 DEF Unbroken
  <2> QED BY <1>3, <2>1, <2>2 DEF Named
<1>4. ASSUME NEW s, Stands(s, roots) PROVE Stands(s, more) /\ Meant(s, more) = Meant(s, roots)
  <2>1. DtvOf(s).base = s.tv
    BY DEF DtvOf
  <2> QED BY <1>2, <1>3, <1>4, <2>1 DEF Stands, Meant
<1>5. ASSUME NEW s, NEW t, Judges(T, roots, s, t) PROVE Judges(T, more, s, t)
  BY <1>4, <1>5 DEF Judges
<1>6. ASSUME NEW s, NEW t, NEW l, Adds(roots, s, l, t) PROVE Adds(more, s, l, t)
  BY <1>4, <1>6 DEF Adds
<1>7. ASSUME NEW s, NEW sym, Names(roots, sym, s) PROVE Names(more, sym, s)
  <2>1. [base |-> sym[2], path |-> <<>>].base = sym[2]
    OBVIOUS
  <2> QED BY <1>2, <1>3, <1>4, <1>7, <2>1 DEF Names
<1>8. ASSUME NEW s, NEW t, NEW kind, NEW sym, Holds(T, roots, s, kind, sym, t) PROVE Holds(T, more, s, kind, sym, t)
  BY <1>5, <1>6, <1>7, <1>8 DEF Holds
<1> QED BY <1>8 DEF SoundGraph, more

\* States that stand for the same derived type variable.
Same(roots, s, t) ==
  \/ s = t
  \/ Stands(s, roots) /\ Stands(t, roots) /\ Meant(s, roots) = Meant(t, roots) /\ s.variance = t.variance

LEMMA SameHolds ==
  ASSUME NEW roots \in Seq(DerivedTypeVars), NEW T, NEW s, NEW t, NEW s2, NEW t2, NEW kind, NEW sym,
         Holds(T, roots, s, kind, sym, t), Same(roots, s, s2), Same(roots, t, t2)
  PROVE  Holds(T, roots, s2, kind, sym, t2)
<1>1. Judges(T, roots, s, t) => Judges(T, roots, s2, t2)
  BY DEF Judges, Same
<1>2. \A l : Adds(roots, s, l, t) => Adds(roots, s2, l, t2)
  BY DEF Adds, Same
<1>3. \A l : Adds(roots, t, l, s) => Adds(roots, t2, l, s2)
  BY DEF Adds, Same
<1>4. (Names(roots, sym, s) => Names(roots, sym, s2)) /\ (Names(roots, sym, t) => Names(roots, sym, t2))
  BY DEF Names, Same
<1>5. (s = Start => s2 = Start) /\ (t = End => t2 = End)
  BY StandsTyped DEF Same
<1> QED BY <1>1, <1>2, <1>3, <1>4, <1>5 DEF Holds

\* The nodes and edges of a replacement.
LEMMA ReplacementIs ==
  ASSUME NEW g, IsGraph(g), FreeListKept(g), NEW i \in Live(g), NEW tv
  PROVE  \E entry, exit :
           LET h == Replace(g, i, tv)
               s == State(tv, "L", g.weight[i].variance, <<>>)
               t == State(tv, "R", g.weight[i].variance, <<>>)
           IN  /\ Live(h) = Live(g) \cup {entry, exit} /\ h.weight[entry] = s /\ h.weight[exit] = t
               /\ \A j \in Live(g) : h.weight[j] = g.weight[j]
               /\ \A e \in h.edges : \/ \E f \in g.edges : e = Rerouted(f, i, entry, exit)
                                     \/ e = Pop(StartIdx(g), VarSymbol(s), entry)
                                     \/ e = Push(exit, VarSymbol(t), EndIdx(g))
<1> DEFINE v == g.weight[i].variance
           s == State(tv, "L", v, <<>>)
           t == State(tv, "R", v, <<>>)
           g1 == AddNode(g, s)
           g2 == AddNode(g1, t)
           entry == NextIndex(g)
           exit == NextIndex(g1)
           E == {Rerouted(e, i, entry, exit) : e \in g2.edges}
           pop == Pop(StartIdx(g), VarSymbol(s), entry)
           push == Push(exit, VarSymbol(t), EndIdx(g))
           h == Replace(g, i, tv)
           mp == With(g2.mp, s, entry)
           copies == With(g2.copies, t, exit)
           E2 == E \cup {pop, push}
<1>1. h = Graph(g2.weight, mp, copies, E2, g2.free)
  BY DEF Replace
<1>2. h.weight = g2.weight /\ h.edges = E2
  <2> HIDE DEF mp, copies, E2, g2
  <2> QED BY <1>1 DEF Graph
<1>3. IsExtension(g1, g, entry, s) /\ IsExtension(g2, g1, exit, t)
  <2>1. IsExtension(g1, g, entry, s)
    BY AddNodeExtends
  <2>2. FreeListKept(g1)
    <3> HIDE DEF g1
    <3> QED BY <2>1 DEF IsExtension
  <2> HIDE DEF g1
  <2> QED BY <2>1, <2>2, AddNodeExtends
<1> HIDE DEF h, g1, g2, entry, exit, s, t
<1>4. /\ g2.weight[entry] = s /\ g2.weight[exit] = t /\ g2.edges = g.edges
      /\ \A j \in Live(g) : g2.weight[j] = g.weight[j]
      /\ Live(g2) = Live(g) \cup {entry, exit}
  BY <1>3 DEF IsExtension
<1>6. Live(h) = Live(g2)
  BY <1>2 DEF Live
<1>5. \A e \in h.edges : \/ \E f \in g.edges : e = Rerouted(f, i, entry, exit)
                         \/ e = pop \/ e = push
  BY <1>2, <1>4
<1> QED BY <1>2, <1>4, <1>5, <1>6 DEF h, s, t

LEMMA ReplaceHolds ==
  ASSUME NEW roots \in Seq(DerivedTypeVars), NEW n \in DOMAIN roots, NEW T,
         NEW g, IsLoopGraph(g), SoundGraph(T, roots, g),
         NEW i \in Live(g), RootTypeVar(g.weight[i]) = roots[n]
  PROVE  SoundGraph(T, roots, Replace(g, i, BreakerName(n)))
<1> DEFINE tv == BreakerName(n)
           h == Replace(g, i, tv)
           r == g.weight[i]
           s == State(tv, "L", r.variance, <<>>)
           t == State(tv, "R", r.variance, <<>>)
<1>1. IsGraph(g) /\ FreeListKept(g) /\ MapsApart(g) /\ StatesKept(g)
  BY DEF IsLoopGraph, IsCutGraph
<1>2. PICK entry, exit :
        /\ Live(h) = Live(g) \cup {entry, exit} /\ h.weight[entry] = s /\ h.weight[exit] = t
        /\ \A j \in Live(g) : h.weight[j] = g.weight[j]
        /\ \A e \in h.edges : \/ \E f \in g.edges : e = Rerouted(f, i, entry, exit)
                              \/ e = Pop(StartIdx(g), VarSymbol(s), entry)
                              \/ e = Push(exit, VarSymbol(t), EndIdx(g))
  <2> HIDE DEF tv
  <2> QED BY <1>1, ReplacementIs
<1>3. roots[n] \in DerivedTypeVars /\ roots[n] = [base |-> r.tv, path |-> r.path]
  BY DEF RootTypeVar
<1>4. r.tv \in Vars /\ r.path \in Paths
  BY <1>3 DEF DerivedTypeVars
<1>5. tv \notin Vars /\ tv[2] = n /\ Named(tv, roots)
  <2>1. n \in Nat
    OBVIOUS
  <2> QED BY <2>1, SimplifyAssumption DEF BreakerName, Named
<1>6. Unbroken([base |-> tv, path |-> <<>>], roots) = roots[n]
  <2>1. Unbroken([base |-> tv, path |-> <<>>], roots) = Along(roots[n], <<>>)
    BY <1>5 DEF Unbroken, Along
  <2> QED BY <1>3, <2>1, DtvAlong
<1> HIDE DEF tv
<1>7. Meant(r, roots) = roots[n] /\ Meant(s, roots) = roots[n] /\ Meant(t, roots) = roots[n]
  BY <1>3, <1>4, <1>6 DEF Meant, DtvOf, Unbroken, State
<1>8. /\ s.tv = tv /\ t.tv = tv /\ s.path \in Paths /\ t.path \in Paths
      /\ s.variance = r.variance /\ t.variance = r.variance
  BY DEF State, Paths
<1>9. /\ VarSymbol(s)[2] = tv /\ VarSymbol(s)[4] = r.variance
      /\ VarSymbol(t)[2] = tv /\ VarSymbol(t)[4] = r.variance
  BY DEF VarSymbol, State
<1>10. g.weight[StartIdx(g)] = Start /\ g.weight[EndIdx(g)] = End /\ StartIdx(g) \in Live(g) /\ EndIdx(g) \in Live(g)
  BY <1>1 DEF MapsApart
<1>11. r.variance \in Variances
  BY DEF SoundGraph
<1> HIDE DEF h, s, t, r
<1>12. Stands(r, roots) /\ Stands(s, roots) /\ Stands(t, roots)
  BY <1>4, <1>5, <1>8, <1>11 DEF Stands, Named
<1>13. Same(roots, r, s) /\ Same(roots, r, t)
  BY <1>7, <1>8, <1>12 DEF Same
<1>14. Names(roots, VarSymbol(s), s) /\ Names(roots, VarSymbol(t), t)
  BY <1>5, <1>6, <1>7, <1>8, <1>9, <1>12 DEF Names
<1> SUFFICES ASSUME NEW e \in h.edges
             PROVE  Holds(T, roots, h.weight[e.src], e.kind, e.sym, h.weight[e.dst])
  <2>1. \A j \in Live(h) : h.weight[j].variance \in Variances
    BY <1>2, <1>8, <1>11 DEF SoundGraph
  <2> QED BY <2>1 DEF SoundGraph, h, tv
<1>15. ASSUME NEW f \in g.edges, e = Rerouted(f, i, entry, exit)
       PROVE  Holds(T, roots, h.weight[e.src], e.kind, e.sym, h.weight[e.dst])
  <2>1. /\ e.kind = f.kind /\ e.sym = f.sym
        /\ e.src = IF f.src = i THEN entry ELSE f.src
        /\ e.dst = IF f.dst = i THEN exit ELSE f.dst
    BY <1>15 DEF Rerouted, Edge
  <2>2. f.src \in Live(g) /\ f.dst \in Live(g)
    BY <1>1 DEF IsGraph
  <2>3. Same(roots, g.weight[f.src], h.weight[e.src]) /\ Same(roots, g.weight[f.dst], h.weight[e.dst])
    BY <1>2, <1>13, <2>1, <2>2 DEF Same, r
  <2> QED BY <2>1, <2>3, SameHolds DEF SoundGraph
<1>16. CASE e = Pop(StartIdx(g), VarSymbol(s), entry)
  BY <1>2, <1>10, <1>14, <1>16 DEF Holds, Pop, Edge
<1>17. CASE e = Push(exit, VarSymbol(t), EndIdx(g))
  BY <1>2, <1>10, <1>14, <1>17 DEF Holds, Push, Edge
<1> QED BY <1>2, <1>15, <1>16, <1>17

-----------------------------------------------------------------------------
(* The nodes of a component are replaced one after the other: when each is   *)
(* the one the breaker stands for, every edge goes on to hold.               *)

\* The states h that breaker n replaced are what it stands for.
AreRoots(roots, H) == \A h \in H : RootTypeVar(h[2]) = roots[h[1]]

LEMMA ReplaceIfExistsHolds ==
  ASSUME NEW roots \in Seq(DerivedTypeVars), NEW n \in DOMAIN roots, NEW T,
         NEW acc, IsLoopGraph(acc.g), NEW i, AreRoots(roots, ReplaceIfExists(acc, i, n).replaced),
         AreRoots(roots, acc.replaced) => SoundGraph(T, roots, acc.g)
  PROVE  /\ AreRoots(roots, acc.replaced)
         /\ SoundGraph(T, roots, ReplaceIfExists(acc, i, n).g)
<1>1. CASE i \in Live(acc.g)
  <2> DEFINE h == Replace(acc.g, i, BreakerName(n))
             H == acc.replaced \cup {<<n, acc.g.weight[i]>>}
  <2>1. ReplaceIfExists(acc, i, n) = [g |-> h, replaced |-> H]
    BY <1>1 DEF ReplaceIfExists
  <2>2. ReplaceIfExists(acc, i, n).g = h /\ ReplaceIfExists(acc, i, n).replaced = H
    <3> HIDE DEF h, H
    <3> QED BY <2>1
  <2>3. AreRoots(roots, acc.replaced) /\ RootTypeVar(acc.g.weight[i]) = roots[n]
    BY <2>2 DEF AreRoots
  <2>4. SoundGraph(T, roots, h)
    <3>1. IsLoopGraph(acc.g) /\ SoundGraph(T, roots, acc.g)
      BY <2>3
    <3> QED BY <1>1, <2>3, <3>1, ReplaceHolds
  <2> QED BY <2>2, <2>3, <2>4
<1>2. CASE i \notin Live(acc.g)
  <2>1. ReplaceIfExists(acc, i, n) = acc
    BY <1>2 DEF ReplaceIfExists
  <2> QED BY <2>1
<1> QED BY <1>1, <1>2

LEMMA ReplaceEquivsHolds ==
  ASSUME NEW roots \in Seq(DerivedTypeVars), NEW n \in DOMAIN roots, NEW T,
         NEW g, IsLoopGraph(g), SoundGraph(T, roots, g), NEW idxs,
         \A k \in 1..4 : idxs[k] \notin {StartIdx(g), EndIdx(g)},
         AreRoots(roots, ReplaceEquivs(g, idxs, n).replaced)
  PROVE  SoundGraph(T, roots, ReplaceEquivs(g, idxs, n).g)
<1> DEFINE a0 == [g |-> g, replaced |-> {}]
           a1 == ReplaceIfExists(a0, idxs[1], n)
           a2 == ReplaceIfExists(a1, idxs[2], n)
           a3 == ReplaceIfExists(a2, idxs[3], n)
           a4 == ReplaceIfExists(a3, idxs[4], n)
<1>0. ReplaceEquivs(g, idxs, n) = a4 /\ a0.g = g /\ n \in Nat
  BY DEF ReplaceEquivs
<1>1. IsLoopGraph(a1.g) /\ StartIdx(a1.g) = StartIdx(g) /\ EndIdx(a1.g) = EndIdx(g)
  <2> HIDE DEF a0
  <2>1. IsLoopGraph(a0.g) /\ idxs[1] \notin {StartIdx(a0.g), EndIdx(a0.g)}
    BY <1>0
  <2> QED BY <1>0, <2>1, ReplaceIfExistsBreaks DEF BreaksAt
<1>2. SoundGraph(T, roots, a0.g) /\ IsLoopGraph(a0.g)
  BY <1>0
<1> HIDE DEF a0
<1>3. AreRoots(roots, a1.replaced) => SoundGraph(T, roots, a1.g)
  BY <1>2, ReplaceIfExistsHolds
<1> HIDE DEF a1
<1>4. IsLoopGraph(a2.g) /\ StartIdx(a2.g) = StartIdx(g) /\ EndIdx(a2.g) = EndIdx(g)
  <2>1. IsLoopGraph(a1.g) /\ idxs[2] \notin {StartIdx(a1.g), EndIdx(a1.g)}
    BY <1>1
  <2>2. BreaksAt(a1.g, a2.g, {idxs[2]})
    BY <1>0, <2>1, ReplaceIfExistsBreaks
  <2> HIDE DEF a2
  <2> QED BY <1>1, <2>2 DEF BreaksAt
<1>5. AreRoots(roots, a2.replaced) => SoundGraph(T, roots, a2.g)
  BY <1>1, <1>3, ReplaceIfExistsHolds
<1> HIDE DEF a2
<1>6. IsLoopGraph(a3.g)
  <2>1. IsLoopGraph(a2.g) /\ idxs[3] \notin {StartIdx(a2.g), EndIdx(a2.g)}
    BY <1>4
  <2> QED BY <1>0, <2>1, ReplaceIfExistsBreaks DEF BreaksAt
<1>7. AreRoots(roots, a3.replaced) => SoundGraph(T, roots, a3.g)
  BY <1>4, <1>5, ReplaceIfExistsHolds
<1> HIDE DEF a3
<1>8. AreRoots(roots, a4.replaced) => SoundGraph(T, roots, a4.g)
  BY <1>6, <1>7, ReplaceIfExistsHolds
<1> HIDE DEF a4
<1> QED BY <1>0, <1>8

\* The component's representative is a variable of the constraints.
LEMMA ReprIsDtv ==
  ASSUME NEW g, IsLoopGraph(g), NodesNamed(g), NEW c, IsBreakable(g, c), NEW n
  PROVE  RootTypeVar(Broken(g, c, n).repr) \in DerivedTypeVars
<1> DEFINE r == EntryRepr(g, Entries(g, c))
           s == g.weight[r]
<1>1. r \in c /\ IsTv(g.weight[r])
  BY EntriesHaveRepr
<1>2. r \in Live(g) /\ r \in Looping(g)
  BY <1>1, KnotsLoop DEF IsBreakable, IsLoopGraph, IsCutGraph
<1>3. ~IsQuiet(g, r)
  BY <1>2, QuietOnNoCycle DEF Looping
<1>4. s.tv \in Vars /\ s.path \in Paths
  BY <1>1, <1>2, <1>3 DEF NodesNamed, IsLoopGraph, IsCutGraph, StatesKept
<1>5. Broken(g, c, n).repr = s
  BY DEF Broken
<1> HIDE DEF s
<1> QED BY <1>4, <1>5 DEF RootTypeVar, DerivedTypeVars

LEMMA BrokenHolds ==
  ASSUME NEW roots \in Seq(DerivedTypeVars), NEW n \in DOMAIN roots, NEW T,
         NEW g, IsLoopGraph(g), SoundGraph(T, roots, g), NEW c, IsBreakable(g, c),
         AreRoots(roots, Broken(g, c, n).replaced)
  PROVE  SoundGraph(T, roots, Broken(g, c, n).g)
<1> DEFINE s == g.weight[EntryRepr(g, Entries(g, c))]
           x == EquivNodeIdxs(g, s)
           a == ReplaceEquivs(g, x, n)
<1>1. IsTv(s)
  BY EntriesHaveRepr
<1>2. Broken(g, c, n).g = a.g /\ Broken(g, c, n).replaced = a.replaced
  BY DEF Broken
<1> HIDE DEF s
<1>3. \A k \in 1..4 : x[k] \notin {StartIdx(g), EndIdx(g)}
  BY <1>1, EquivNodesApart
<1> HIDE DEF x
<1> QED BY <1>2, <1>3, ReplaceEquivsHolds

\* The states a component's breaker replaces are noted under its number.
LEMMA ReplacedNumbers ==
  ASSUME NEW g, NEW c, NEW n, NEW h \in Broken(g, c, n).replaced
  PROVE  h[1] = n
<1> DEFINE Noted(acc) == \A x \in acc.replaced : x[1] = n
           idxs == EquivNodeIdxs(g, g.weight[EntryRepr(g, Entries(g, c))])
           a0 == [g |-> g, replaced |-> {}]
           a1 == ReplaceIfExists(a0, idxs[1], n)
           a2 == ReplaceIfExists(a1, idxs[2], n)
           a3 == ReplaceIfExists(a2, idxs[3], n)
           a4 == ReplaceIfExists(a3, idxs[4], n)
<1>1. ASSUME NEW acc, Noted(acc), NEW i PROVE Noted(ReplaceIfExists(acc, i, n))
  BY <1>1 DEF ReplaceIfExists
<1>2. Broken(g, c, n).replaced = a4.replaced
  BY DEF Broken, ReplaceEquivs
<1>3. Noted(a0)
  OBVIOUS
<1> HIDE DEF a0, idxs, Noted
<1>4. Noted(a1)
  BY <1>1, <1>3
<1> HIDE DEF a1
<1>5. Noted(a2)
  BY <1>1, <1>4
<1> HIDE DEF a2
<1>6. Noted(a3)
  BY <1>1, <1>5
<1> HIDE DEF a3
<1>7. Noted(a4)
  BY <1>1, <1>6
<1> HIDE DEF a4
<1> QED BY <1>2, <1>7 DEF Noted

-----------------------------------------------------------------------------
(* The invariant: while breakers only replace what they stand for, every     *)
(* theory of the constraints holds what the edges claim.                     *)

SoundInv ==
  /\ given \in ConstraintSets /\ breakers \in Seq(DerivedTypeVars)
  /\ pc \in {"saturated", "cut"} => breakers = <<>> /\ history = {}
  /\ \A h \in history : h[1] \in DOMAIN breakers
  /\ pc # "saturated" /\ ReplacesOnlyEquals =>
       \A T : IsTheory(T, given) => SoundGraph(T, breakers, graph)

LEMMA SoundInit == Init => SoundInv
<1>1. <<>> \in Seq(DerivedTypeVars)
  OBVIOUS
<1> QED BY <1>1 DEF Init, SoundInv

LEMMA SoundStep == IInv /\ SoundInv /\ [Next]_vars => SoundInv'
<1> SUFFICES ASSUME IInv, SoundInv, [Next]_vars PROVE SoundInv'
  OBVIOUS
<1>2. CASE IntersectWithPopPush
  <2>1. /\ pc' = "cut" /\ graph' = Cut(Saturated(given), given) /\ given' = given
        /\ given \in ConstraintSets /\ breakers' = <<>> /\ history' = {} /\ breakers' \in Seq(DerivedTypeVars)
    BY <1>2 DEF IntersectWithPopPush, StageInv, IInv, SoundInv
  <2>2. \A T : IsTheory(T, given) => SoundGraph(T, <<>>, graph')
    BY <2>1, CutHolds, SimplifyAssumption
  <2> QED BY <2>1, <2>2 DEF SoundInv
<1>3. CASE RemoveUnreachable
  <2>1. /\ pc = "cut" /\ pc' = "pass" /\ graph' = Pruned(graph) /\ given' = given
        /\ IsCutGraph(graph) /\ breakers' = breakers /\ history' = history
    BY <1>3 DEF RemoveUnreachable, StageInv, IInv
  <2>2. \A T : SoundGraph(T, breakers, graph) => SoundGraph(T, breakers, graph')
    BY <2>1, PrunedHolds
  <2> QED BY <2>1, <2>2 DEF SoundInv, ReplacesOnlyEquals
<1>4. ASSUME NEW scc \in pending, VisitRemoved(scc) PROVE SoundInv'
  BY <1>4 DEF VisitRemoved, SoundInv, ReplacesOnlyEquals
<1>5. ASSUME NEW scc \in pending, BreakLoop(scc) PROVE SoundInv'
  <2> DEFINE n == Len(breakers) + 1
             b == Broken(graph, scc, n)
             d == RootTypeVar(b.repr)
  <2>1. /\ pc = "pass" /\ pc' = "pass" /\ graph' = b.g /\ given' = given
        /\ scc \in pending /\ scc \cap removed = {}
        /\ breakers' = Append(breakers, d) /\ history' = history \cup b.replaced
    BY <1>5 DEF BreakLoop
  <2>2. IsLoopGraph(graph) /\ IsBreakable(graph, scc) /\ NodesNamed(graph)
    BY <2>1 DEF StageInv, PassInv, IInv
  <2>3. d \in DerivedTypeVars
    <3> HIDE DEF n
    <3> QED BY <2>2, ReprIsDtv
  <2>4. \A h \in b.replaced : h[1] = n
    <3> HIDE DEF n
    <3> QED BY ReplacedNumbers
  <2> HIDE DEF b, d
  <2>5. /\ breakers \in Seq(DerivedTypeVars) /\ breakers' \in Seq(DerivedTypeVars)
        /\ n \in DOMAIN breakers' /\ DOMAIN breakers \subseteq DOMAIN breakers'
        /\ \A k \in DOMAIN breakers : breakers'[k] = breakers[k]
    BY <2>1, <2>3 DEF SoundInv
  <2> HIDE DEF n
  <2>6. \A h \in history' : h[1] \in DOMAIN breakers'
    BY <2>1, <2>4, <2>5 DEF SoundInv
  <2>7. ASSUME ReplacesOnlyEquals', NEW T, IsTheory(T, given)
        PROVE  SoundGraph(T, breakers', graph')
    <3>1. ReplacesOnlyEquals /\ AreRoots(breakers', b.replaced)
      BY <2>1, <2>5, <2>7 DEF ReplacesOnlyEquals, AreRoots, SoundInv
    <3>2. SoundGraph(T, breakers, graph)
      BY <2>1, <2>7, <3>1 DEF SoundInv
    <3>3. SoundGraph(T, breakers', graph)
      BY <2>1, <2>3, <2>5, <3>2, RootsGrow
    <3> QED BY <2>1, <2>2, <2>5, <3>1, <3>3, BrokenHolds DEF b
  <2> QED BY <2>1, <2>5, <2>6, <2>7 DEF SoundInv
<1>6. CASE NextPass
  BY <1>6 DEF NextPass, SoundInv, ReplacesOnlyEquals
<1>7. CASE LoopsBroken
  <2>1. /\ pc = "pass" /\ pc' = "simplified" /\ graph' = Pruned(graph) /\ given' = given
        /\ IsCutGraph(graph) /\ breakers' = breakers /\ history' = history
    BY <1>7 DEF LoopsBroken, StageInv, IInv, IsLoopGraph
  <2>2. \A T : SoundGraph(T, breakers, graph) => SoundGraph(T, breakers, graph')
    BY <2>1, PrunedHolds
  <2> QED BY <2>1, <2>2 DEF SoundInv, ReplacesOnlyEquals
<1>8. CASE UNCHANGED vars
  BY <1>8 DEF vars, SoundInv, ReplacesOnlyEquals
<1> QED BY <1>2, <1>3, <1>4, <1>5, <1>6, <1>7, <1>8 DEF Next

-----------------------------------------------------------------------------
(* What a walk has shown: from the variable it began with and the labels     *)
(* popped, to the variable of its node with the labels still to be pushed.   *)

WalkSpace(g) == [from : {e.sym : e \in g.edges}, pops : Paths, pushes : Paths, at : Live(g)]

Shows(T, roots, w, s) ==
  Upto(Operate(s.variance, PathVariance(w.pushes)),
       Unbroken(Lhs(w), roots), Along(Meant(s, roots), w.pushes)) \in T

\* C is the copy that the pushes lead into.
WalkHolds(T, roots, g, C, w) ==
  /\ Stands(g.weight[w.at], roots) /\ Named(w.from[2], roots)
  /\ w.pushes # <<>> => w.at \in C
  /\ Shows(T, roots, w, g.weight[w.at])

LEMMA UnbrokenAlong ==
  ASSUME NEW roots \in Seq(DerivedTypeVars), NEW x, Named(x, roots)
  PROVE  LET root == Unbroken([base |-> x, path |-> <<>>], roots)
         IN  /\ root \in DerivedTypeVars
             /\ \A u \in Paths : Unbroken([base |-> x, path |-> u], roots) = Along(root, u)
<1> DEFINE root == Unbroken([base |-> x, path |-> <<>>], roots)
<1>1. <<>> \in Paths /\ \A u \in Paths : <<>> \o u = u
  BY DEF Paths
<1>2. CASE x \in Vars
  BY <1>1, <1>2 DEF Unbroken, Along, DerivedTypeVars, Paths
<1>3. ASSUME NEW n \in DOMAIN roots, x = BreakerName(n), x \notin Vars
      PROVE  root \in DerivedTypeVars /\ \A u \in Paths : Unbroken([base |-> x, path |-> u], roots) = Along(root, u)
  <2>1. roots[n] \in DerivedTypeVars /\ x[2] = n
    BY <1>3 DEF BreakerName
  <2>2. \A u : Unbroken([base |-> x, path |-> u], roots) = Along(roots[n], u)
    BY <1>3, <2>1 DEF Unbroken, Along
  <2>3. root = roots[n]
    BY <2>1, <2>2, DtvAlong
  <2> QED BY <2>1, <2>2, <2>3
<1> QED BY <1>2, <1>3 DEF Named

\* An edge out of the start names the variable of its target.
LEMMA BeginningsHold ==
  ASSUME NEW cons, NEW T, IsTheory(T, cons), NEW roots \in Seq(DerivedTypeVars),
         NEW g, IsCutGraph(g), SoundGraph(T, roots, g), NEW C, NEW w \in Beginnings(g)
  PROVE  w \in WalkSpace(g) /\ WalkHolds(T, roots, g, C, w)
<1>1. PICK e \in g.edges : e.src = StartIdx(g) /\ w = [from |-> e.sym, pops |-> <<>>, pushes |-> <<>>, at |-> e.dst]
  BY DEF Beginnings
<1> DEFINE s == g.weight[e.dst]
<1>2. g.weight[e.src] = Start /\ e.dst \in Live(g)
  BY <1>1 DEF IsCutGraph, MapsApart, IsGraph
<1>3. Holds(T, roots, Start, e.kind, e.sym, s)
  BY <1>2 DEF SoundGraph
<1> HIDE DEF s
<1>4. ~Stands(Start, roots)
  BY StandsTyped
<1>5. Names(roots, e.sym, s)
  BY <1>3, <1>4 DEF Holds, Judges, Adds, Names
<1>6. w \in WalkSpace(g)
  BY <1>1, <1>2 DEF WalkSpace, Paths
<1>7. /\ Stands(s, roots) /\ Named(e.sym[2], roots) /\ Meant(s, roots) \in DerivedTypeVars
      /\ Unbroken(Lhs(w), roots) = Meant(s, roots) /\ s.variance \in Variances
  BY <1>1, <1>5, StandsTyped DEF Names, Lhs, Stands
<1>8. Load \in FieldLabels /\ <<>> \in Paths
  BY DEF FieldLabels, Paths
<1>9. Operate(s.variance, PathVariance(<<>>)) = s.variance
  BY <1>7, <1>8, PathVarianceStep, OperateMonoid
<1>10. Shows(T, roots, w, s)
  BY <1>1, <1>7, <1>9, DtvAlong, UptoRules DEF Shows
<1> QED BY <1>1, <1>6, <1>7, <1>10 DEF WalkHolds, s

\* The node a walk comes to stands for a variable too.
LEMMA InnerEdge ==
  ASSUME NEW T, NEW roots \in Seq(DerivedTypeVars), NEW g, IsCutGraph(g), SoundGraph(T, roots, g),
         NEW e \in g.edges, Stands(g.weight[e.src], roots), e.dst # EndIdx(g)
  PROVE  /\ e.dst \in Live(g) /\ e.kind \in {"push", "pop", "success"}
         /\ e.kind = "success" => Judges(T, roots, g.weight[e.src], g.weight[e.dst])
         /\ e.kind = "pop" => \E l \in FieldLabels : e.sym = LabelSymbol(l) /\ Adds(roots, g.weight[e.src], l, g.weight[e.dst])
         /\ e.kind = "push" => \E l \in FieldLabels : e.sym = LabelSymbol(l) /\ Adds(roots, g.weight[e.dst], l, g.weight[e.src])
<1>1. e.dst \in Live(g) /\ g.weight[e.dst] # End
  BY DEF IsCutGraph, IsGraph, EdgesKept
<1>2. g.weight[e.src] # Start
  BY StandsTyped
<1> QED BY <1>1, <1>2 DEF SoundGraph, Holds

LEMMA ExtendedHolds ==
  ASSUME NEW cons, NEW T, IsTheory(T, cons), NEW roots \in Seq(DerivedTypeVars),
         NEW g, IsCutGraph(g), SoundGraph(T, roots, g), NEW C, IsCopySide(g, C),
         NEW w \in WalkSpace(g), WalkHolds(T, roots, g, C, w),
         NEW e \in g.edges, e.src = w.at, e.dst # EndIdx(g)
  PROVE  Extended(w, e) \in WalkSpace(g) /\ WalkHolds(T, roots, g, C, Extended(w, e))
<1> DEFINE s == g.weight[w.at]
           t == g.weight[e.dst]
           u == w.pushes
           d == Unbroken(Lhs(w), roots)
           v == Operate(s.variance, PathVariance(u))
<1>1. /\ w = [from |-> w.from, pops |-> w.pops, pushes |-> w.pushes, at |-> w.at]
      /\ w.from \in {f.sym : f \in g.edges} /\ w.pops \in Paths /\ u \in Paths /\ w.at \in Live(g)
  BY DEF WalkSpace
<1>2. /\ Stands(s, roots) /\ Named(w.from[2], roots) /\ Upto(v, d, Along(Meant(s, roots), u)) \in T
      /\ u # <<>> => w.at \in C
  BY DEF WalkHolds, Shows
<1>3. /\ e.dst \in Live(g) /\ e.kind \in {"push", "pop", "success"}
      /\ e.kind = "success" => Judges(T, roots, s, t)
      /\ e.kind = "pop" => \E l \in FieldLabels : e.sym = LabelSymbol(l) /\ Adds(roots, s, l, t)
      /\ e.kind = "push" => \E l \in FieldLabels : e.sym = LabelSymbol(l) /\ Adds(roots, t, l, s)
  <2>1. Stands(g.weight[e.src], roots)
    BY <1>2
  <2> QED BY <2>1, InnerEdge
<1>4. (e.kind = "push" => e.dst \in C) /\ (w.at \in C => e.dst \in C /\ e.kind # "pop")
  BY DEF IsCopySide
<1>5. /\ d \in DerivedTypeVars /\ Meant(s, roots) \in DerivedTypeVars
      /\ \A l \in FieldLabels : Unbroken([base |-> w.from[2], path |-> Append(w.pops, l)], roots) = Extend(d, l)
  <2>1. Meant(s, roots) \in DerivedTypeVars
    BY <1>2, StandsTyped
  <2> DEFINE root == Unbroken([base |-> w.from[2], path |-> <<>>], roots)
  <2>2. root \in DerivedTypeVars /\ \A q \in Paths : Unbroken([base |-> w.from[2], path |-> q], roots) = Along(root, q)
    BY <1>2, UnbrokenAlong
  <2> HIDE DEF root
  <2>3. d = Along(root, w.pops)
    BY <1>1, <2>2 DEF Lhs
  <2>4. \A l \in FieldLabels : Append(w.pops, l) \in Paths
    BY <1>1 DEF Paths
  <2>5. d \in DerivedTypeVars /\ \A l \in FieldLabels : Along(root, Append(w.pops, l)) = Extend(d, l)
    BY <1>1, <2>2, <2>3, DtvAlong
  <2>6. \A l \in FieldLabels : Unbroken([base |-> w.from[2], path |-> Append(w.pops, l)], roots) = Extend(d, l)
    BY <2>2, <2>4, <2>5
  <2> QED BY <2>1, <2>5, <2>6
<1>6. PathVariance(u) \in Variances /\ s.variance \in Variances /\ \A l : LabelVariance(l) \in Variances
  BY <1>2, VariancesAre DEF PathVariance, Stands
<1>7. v \in Variances
  BY <1>6, OperateMonoid
<1>8. \A x : IsCutGraph(x) => IsGraph(x)
  BY DEF IsCutGraph
<1> HIDE DEF s, t, u, d
<1>9. CASE e.kind = "success"
  <2> DEFINE x == [from |-> w.from, pops |-> w.pops, pushes |-> u, at |-> e.dst]
  <2>1. Extended(w, e) = x
    BY <1>1, <1>9 DEF Extended, u
  <2>2. Judges(T, roots, s, t)
    BY <1>3, <1>9
  <2>3. Upto(v, Along(Meant(s, roots), u), Along(Meant(t, roots), u)) \in T
    BY <1>1, <1>6, <2>2, UptoPath DEF Judges, u
  <2>4. Upto(v, d, Along(Meant(t, roots), u)) \in T
    BY <1>2, <1>7, <2>3, UptoRules
  <2>5. v = Operate(t.variance, PathVariance(u)) /\ Stands(t, roots)
    BY <2>2 DEF Judges
  <2>6. Unbroken(Lhs(x), roots) = d
    BY DEF Lhs, d
  <2>7. Shows(T, roots, x, t)
    <3> HIDE DEF v
    <3> QED BY <2>4, <2>5, <2>6 DEF Shows
  <2>8. x \in WalkSpace(g)
    BY <1>1, <1>3 DEF WalkSpace, u
  <2> QED BY <1>2, <1>4, <2>1, <2>5, <2>7, <2>8 DEF WalkHolds, t
<1>10. CASE e.kind = "pop"
  <2>1. PICK l \in FieldLabels : e.sym = LabelSymbol(l) /\ Adds(roots, s, l, t)
    BY <1>3, <1>10
  <2> DEFINE x == [from |-> w.from, pops |-> Append(w.pops, l), pushes |-> u, at |-> e.dst]
  <2>2. Extended(w, e) = x
    <3>1. e.sym[2] = l
      BY <2>1 DEF LabelSymbol
    <3>2. Extended(w, e) = [w EXCEPT !.at = e.dst, !.pops = Append(@, l)]
      BY <1>10, <3>1 DEF Extended
    <3> QED BY <1>1, <3>2 DEF u
  <2>3. u = <<>>
    BY <1>2, <1>4, <1>10
  <2>4. PathVariance(u) = Co
    <3>1. <<>> \in Paths
      BY DEF Paths
    <3> QED BY <2>1, <2>3, <3>1, PathVarianceStep
  <2>5. v = s.variance
    BY <1>6, <2>4, OperateMonoid
  <2>6. Upto(s.variance, d, Meant(s, roots)) \in T
    <3>1. Along(Meant(s, roots), u) = Meant(s, roots)
      BY <1>5, <2>3, DtvAlong
    <3> QED BY <1>2, <2>5, <3>1
  <2>7. Stands(t, roots) /\ Operate(t.variance, LabelVariance(l)) = s.variance /\ t.variance \in Variances
        /\ Meant(t, roots) = Extend(Meant(s, roots), l)
    BY <2>1 DEF Adds, Stands
  <2>8. Operate(s.variance, LabelVariance(l)) = t.variance
    BY <1>6, <2>7, OperateMonoid
  <2>9. Upto(t.variance, Extend(d, l), Meant(t, roots)) \in T
    BY <1>6, <2>1, <2>6, <2>7, <2>8, UptoRules
  <2>10. Unbroken(Lhs(x), roots) = Extend(d, l)
    BY <1>5 DEF Lhs
  <2>11. Meant(t, roots) \in DerivedTypeVars
    BY <2>7, StandsTyped
  <2>12. Along(Meant(t, roots), u) = Meant(t, roots) /\ Operate(t.variance, PathVariance(u)) = t.variance
    BY <2>3, <2>4, <2>7, <2>11, DtvAlong, OperateMonoid
  <2>13. Shows(T, roots, x, t)
    BY <2>9, <2>10, <2>12 DEF Shows
  <2>14. x \in WalkSpace(g)
    <3>1. Append(w.pops, l) \in Paths
      BY <1>1 DEF Paths
    <3> QED BY <1>1, <1>3, <3>1 DEF WalkSpace, u
  <2> QED BY <1>2, <2>2, <2>3, <2>7, <2>13, <2>14 DEF WalkHolds, t
<1>11. CASE e.kind = "push"
  <2>1. PICK l \in FieldLabels : e.sym = LabelSymbol(l) /\ Adds(roots, t, l, s)
    BY <1>3, <1>11
  <2> DEFINE p == <<l>> \o u
             x == [from |-> w.from, pops |-> w.pops, pushes |-> p, at |-> e.dst]
  <2>2. Extended(w, e) = x
    <3>1. e.sym[2] = l
      BY <2>1 DEF LabelSymbol
    <3>2. Extended(w, e) = [w EXCEPT !.at = e.dst, !.pushes = <<l>> \o @]
      BY <1>11, <3>1 DEF Extended
    <3> QED BY <1>1, <3>2 DEF u
  <2>3. Stands(t, roots) /\ Operate(s.variance, LabelVariance(l)) = t.variance /\ t.variance \in Variances
        /\ Meant(s, roots) = Extend(Meant(t, roots), l)
    BY <2>1 DEF Adds, Stands
  <2>4. Meant(t, roots) \in DerivedTypeVars
    BY <2>3, StandsTyped
  <2>5. PathVariance(p) = Operate(LabelVariance(l), PathVariance(u))
    BY <1>1, PathVarianceStep DEF u
  <2>6. Operate(t.variance, LabelVariance(l)) = s.variance
    BY <1>6, <2>3, OperateMonoid
  <2>7. Operate(t.variance, PathVariance(p)) = v
    BY <1>6, <2>3, <2>5, <2>6, OperateMonoid
  <2>8. Along(Meant(t, roots), p) = Along(Meant(s, roots), u)
    BY <1>1, <2>3, <2>4, DtvAlong DEF u
  <2>9. Unbroken(Lhs(x), roots) = d
    BY DEF Lhs, d
  <2>10. p \in Paths
    BY <1>1 DEF Paths, u
  <2> HIDE DEF p, v
  <2>11. Shows(T, roots, x, t)
    BY <1>2, <2>7, <2>8, <2>9 DEF Shows
  <2>12. x \in WalkSpace(g)
    BY <1>1, <1>3, <2>10 DEF WalkSpace
  <2> QED BY <1>2, <1>4, <1>11, <2>2, <2>3, <2>11, <2>12 DEF WalkHolds, t
<1> QED BY <1>3, <1>9, <1>10, <1>11

LEMMA WalksHold ==
  ASSUME NEW cons, NEW T, IsTheory(T, cons), NEW roots \in Seq(DerivedTypeVars),
         NEW g, IsCutGraph(g), SoundGraph(T, roots, g), NEW C, IsCopySide(g, C), NEW w \in Walks(g)
  PROVE  w \in WalkSpace(g) /\ WalkHolds(T, roots, g, C, w)
<1> DEFINE A == Beginnings(g)
           More(W) == W \cup UNION {{Extended(x, e) : e \in {f \in g.edges : f.src = x.at /\ f.dst # EndIdx(g)}} : x \in W}
           Good == {x \in WalkSpace(g) : WalkHolds(T, roots, g, C, x)}
           S == SUBSET Good
           step == [W \in S |-> More(W)]
           Eq(f) == f = [n \in Nat |-> IF n = 0 THEN A ELSE LET W == f[n-1]
                                                            IN  W \cup UNION {{Extended(x, e) : e \in {f_1 \in g.edges : f_1.src = x.at /\ f_1.dst # EndIdx(g)}} : x \in W}]
<1>1. A \in S
  BY BeginningsHold
<1>2. \A W \in S : More(W) \in S
  <2> SUFFICES ASSUME NEW W \in S, NEW x \in W, NEW e \in g.edges, e.src = x.at, e.dst # EndIdx(g)
               PROVE  Extended(x, e) \in Good
    OBVIOUS
  <2>1. x \in WalkSpace(g) /\ WalkHolds(T, roots, g, C, x)
    OBVIOUS
  <2> QED BY <2>1, ExtendedHolds
<1>3. step \in [S -> S]
  <2> HIDE DEF S, More
  <2> QED BY <1>2
<1>4. PICK f \in [Nat -> S] : IsIteration(f, A, step)
  <2> HIDE DEF S, A, step
  <2> QED BY <1>1, <1>3, IterationExists
<1>5. \E h : Eq(h)
  <2>1. \A n \in Nat : n # 0 => n-1 \in Nat /\ (n-1)+1 = n
    OBVIOUS
  <2>2. \A n \in Nat : f[n] = IF n = 0 THEN A ELSE More(f[n-1])
    <3> HIDE DEF A, S, More
    <3> QED BY <1>4, <2>1 DEF IsIteration
  <2>3. f = [n \in Nat |-> f[n]]
    <3> HIDE DEF S
    <3> QED BY <1>4
  <2>4. f = [n \in Nat |-> IF n = 0 THEN A ELSE More(f[n-1])]
    <3> HIDE DEF A, S, More
    <3> QED BY <2>2, <2>3
  <2> QED BY <2>4
<1> DEFINE h == WalkSteps(g)
<1>6. h = CHOOSE f_1 : Eq(f_1)
  BY DEF WalkSteps
<1>7. Eq(h)
  <2> HIDE DEF Eq, h
  <2> QED BY <1>5, <1>6
<1>8. \A n \in Nat : h[n] = IF n = 0 THEN A ELSE More(h[n-1])
  <2> HIDE DEF h, A
  <2> QED BY <1>7
<1> HIDE DEF h, A, More, S
<1>9. \A n \in Nat : h[n] \in S
  <2> DEFINE N == {n \in Nat : h[n] \in S}
  <2>1. 0 \in N
    BY <1>1, <1>8
  <2>2. \A n \in Nat : n \in N => n+1 \in N
    <3>1. \A n \in Nat : n+1 \in Nat /\ n+1 # 0 /\ (n+1)-1 = n
      OBVIOUS
    <3> QED BY <1>2, <1>8, <3>1
  <2>3. \A n \in Nat : n \in N
    <3> HIDE DEF N
    <3> QED BY <2>1, <2>2, NatSetInduction
  <2> QED BY <2>3
<1>10. Cardinality(Live(g)) \in Nat
  BY FS_CardinalityType DEF IsCutGraph, IsGraph
<1>11. Walks(g) = h[Cardinality(Live(g))]
  BY DEF Walks, h
<1> QED BY <1>9, <1>10, <1>11 DEF S

LEMMA WalkConstraintsHold ==
  ASSUME NEW cons, NEW T, IsTheory(T, cons), NEW roots \in Seq(DerivedTypeVars),
         NEW g, IsCutGraph(g), SoundGraph(T, roots, g), NEW c \in WalkConstraints(g)
  PROVE  <<Unbroken(c.lhs, roots), Unbroken(c.rhs, roots)>> \in T
<1>1. PICK w \in Walks(g), e \in g.edges :
        e.src = w.at /\ e.dst = EndIdx(g) /\ Yields(w, e) /\ c = [lhs |-> Lhs(w), rhs |-> Rhs(w, e)]
  BY DEF WalkConstraints
<1>2. PICK C : IsCopySide(g, C)
  BY DEF IsCutGraph
<1>3. w \in WalkSpace(g) /\ WalkHolds(T, roots, g, C, w)
  BY <1>2, WalksHold
<1> DEFINE s == g.weight[w.at]
           u == w.pushes
<1>4. Stands(s, roots) /\ u \in Paths /\ Shows(T, roots, w, s) /\ s.variance \in Variances
  BY <1>3 DEF WalkHolds, WalkSpace, Stands
<1>5. Holds(T, roots, s, e.kind, e.sym, End)
  BY <1>1 DEF SoundGraph, IsCutGraph, MapsApart
<1> HIDE DEF s, u
<1>6. ~Stands(End, roots)
  BY StandsTyped
<1>7. Names(roots, e.sym, s)
  BY <1>5, <1>6 DEF Holds, Judges, Adds, Names
<1>8. Unbroken(Rhs(w, e), roots) = Along(Meant(s, roots), u)
  BY <1>4, <1>7, UnbrokenAlong DEF Names, Rhs, u
<1>9. Operate(s.variance, PathVariance(u)) = Co
  BY <1>1, <1>4, <1>7, VariancesAre, OperateMonoid DEF Yields, Names, PathVariance, u
<1>10. Upto(Co, Unbroken(Lhs(w), roots), Unbroken(Rhs(w, e), roots)) \in T
  BY <1>4, <1>8, <1>9 DEF Shows, u
<1> QED BY <1>1, <1>10 DEF Upto

(* Whatever constraint walk_constraints reads off the simplified automaton   *)
(* follows from those the automaton was built from, with the loop breakers    *)
(* standing for what they replaced: no derived type variable, however long    *)
(* its path, gets a bound that the constraints do not give it.  Only a        *)
(* breaker that was given a node that is not its own (ReplacesOnlyEquals)     *)
(* is excepted.                                                               *)
THEOREM WalkFollows ==
  Spec => [](pc = "simplified" /\ ReplacesOnlyEquals =>
               \A c \in WalkConstraints(graph) :
                 Follows(given, Unbroken(c.lhs, breakers), Unbroken(c.rhs, breakers)))
<1> DEFINE Goal == pc = "simplified" /\ ReplacesOnlyEquals =>
                     \A c \in WalkConstraints(graph) :
                       Follows(given, Unbroken(c.lhs, breakers), Unbroken(c.rhs, breakers))
<1>1. IInv /\ SoundInv => Goal
  <2> SUFFICES ASSUME IInv, SoundInv, pc = "simplified", ReplacesOnlyEquals,
                      NEW c \in WalkConstraints(graph), NEW T, IsTheory(T, given)
               PROVE  <<Unbroken(c.lhs, breakers), Unbroken(c.rhs, breakers)>> \in T
    BY DEF Follows
  <2>1. IsCutGraph(graph)
    BY DEF IInv, StageInv
  <2>2. SoundGraph(T, breakers, graph) /\ breakers \in Seq(DerivedTypeVars)
    BY DEF SoundInv
  <2> QED BY <2>1, <2>2, WalkConstraintsHold
<1> HIDE DEF Goal
<1>2. Spec => []Goal
  BY <1>1, InvHolds, SoundInit, SoundStep, PTL DEF Spec
<1> QED BY <1>2 DEF Goal
=============================================================================
