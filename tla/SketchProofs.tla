---------------------------- MODULE SketchProofs ----------------------------
(***************************************************************************)
(* Proofs about sketches: the groups of a quotient (QuotientGroups), the    *)
(* operations on sketch graphs (SketchOps), the analyses of a solved graph, *)
(* which are the inference of pointers from additions (InferPointers) and   *)
(* the simplification of displaced pointers (PointerSimplify), and what     *)
(* binding formals and globals leaves of a graph (GlobalTypes).             *)
(***************************************************************************)
EXTENDS QuotientGroups, InferPointers, PointerSimplify, GlobalTypes, FixpointLemmas, SequenceTheorems

-----------------------------------------------------------------------------
(* The groups of a quotient: the least congruence, in whatever order a     *)
(* round visits the implications                                           *)

LEMMA UnionPartition ==
  ASSUME NEW N, NEW P, Abs!IsPartition(P, N), NEW a \in N, NEW b \in N
  PROVE  Abs!IsPartition(Union(P, a, b), N)
<1> DEFINE M == UNION {A \in P : a \in A \/ b \in A}
<1>1. /\ UNION P = N
      /\ \A A, B \in P : A # B => A \cap B = {}
      /\ {} \notin P
  BY DEF Abs!IsPartition
<1>2. Union(P, a, b) = {A \in P : a \notin A /\ b \notin A} \cup {M}
  BY DEF Union
<1>3. a \in M
  BY <1>1
<1>4. \A A \in P : (a \notin A /\ b \notin A) => A \cap M = {}
  BY <1>1
<1>5. M \subseteq N
  BY <1>1
<1>6. \A x \in N : x \in M \/ \E A \in P : x \in A /\ a \notin A /\ b \notin A
  BY <1>1
<1> HIDE DEF M
<1>7. UNION Union(P, a, b) = N
  BY <1>1, <1>2, <1>5, <1>6
<1>8. \A A, B \in Union(P, a, b) : A # B => A \cap B = {}
  BY <1>1, <1>2, <1>4
<1>9. {} \notin Union(P, a, b)
  BY <1>1, <1>2, <1>3
<1> QED  BY <1>7, <1>8, <1>9 DEF Abs!IsPartition

LEMMA UnionUnifies ==
  ASSUME NEW N, NEW P, Abs!IsPartition(P, N), NEW a \in N, NEW b \in N
  PROVE  /\ Abs!Same(Union(P, a, b), a, b)
         /\ \A x, y : Abs!Same(P, x, y) => Abs!Same(Union(P, a, b), x, y)
<1> DEFINE M == UNION {A \in P : a \in A \/ b \in A}
<1>1. M \in Union(P, a, b) /\ \A A \in P : A \subseteq M \/ A \in Union(P, a, b)
  BY DEF Union
<1>2. a \in M /\ b \in M
  BY DEF Abs!IsPartition
<1> HIDE DEF M
<1> QED  BY <1>1, <1>2 DEF Abs!Same

LEMMA UnionForced ==
  ASSUME NEW N, NEW P, NEW Q, Abs!IsPartition(Q, N), Abs!Refines(P, Q),
         NEW a, NEW b, Abs!Same(Q, a, b)
  PROVE  Abs!Refines(Union(P, a, b), Q)
<1>1. PICK C \in Q : a \in C /\ b \in C
  BY DEF Abs!Same
<1>2. ASSUME NEW A \in P, a \in A \/ b \in A
      PROVE  A \subseteq C
  BY <1>1, <1>2 DEF Abs!Refines, Abs!IsPartition
<1>3. UNION {A \in P : a \in A \/ b \in A} \subseteq C
  BY <1>2
<1> QED  BY <1>1, <1>3 DEF Union, Abs!Refines

LEMMA RefinedSame ==
  ASSUME NEW P, NEW Q, Abs!Refines(P, Q), NEW a, NEW b, Abs!Same(P, a, b)
  PROVE  Abs!Same(Q, a, b)
BY DEF Abs!Refines, Abs!Same

LEMMA SingletonsPartition ==
  ASSUME NEW N
  PROVE  Abs!IsPartition(Singletons(N), N)
BY DEF Abs!IsPartition, Singletons

-----------------------------------------------------------------------------
(* The graph of a constraint set *)

LEMMA GraphTyped ==
  ASSUME NEW C \in SUBSET SubtypeConstraints
  PROVE  /\ InitialUnions(C) \subseteq GraphNodes(C) \X GraphNodes(C)
         /\ \A e \in GraphEdges(C) : e.src \in GraphNodes(C) /\ e.dst \in GraphNodes(C)
<1>1. ASSUME NEW d \in DtvsOf(C)
      PROVE  d \in DerivedTypeVars /\ Len(d.path) \in Nat
  BY DEF DtvsOf, SubtypeConstraints, DerivedTypeVars
<1>2. ASSUME NEW d \in DtvsOf(C)
      PROVE  d \in DtvNodes(d)
  <2>1. SubSeq(d.path, 1, Len(d.path)) = d.path
    BY <1>1 DEF DerivedTypeVars
  <2>2. Prefix(d, Len(d.path)) = d
    BY <2>1, <1>1 DEF Prefix, DerivedTypeVars
  <2> QED  BY <2>2, <1>1 DEF DtvNodes
<1>3. ASSUME NEW d \in DtvsOf(C), NEW e \in DtvEdges(d)
      PROVE  e.src \in DtvNodes(d) /\ e.dst \in DtvNodes(d)
  BY <1>1 DEF DtvEdges, DtvEdge, DtvNodes
<1> QED  BY <1>2, <1>3 DEF InitialUnions, GraphNodes, GraphEdges, DtvsOf

-----------------------------------------------------------------------------
(* The inductive invariant: what has been consumed is honoured, and what is *)
(* left at the end does not apply.                                          *)

UnionsHonoured ==
  /\ \A u \in unions \ toUnite : Abs!Same(groups, u[1], u[2])
  /\ pc # "unite" => toUnite = {}

ConsumedHonoured ==
  \A i \in Abs!Implications(edges) \ implications : Abs!Same(groups, i[1].dst, i[2].dst)

RemainingIdle == pc = "done" => \A i \in implications : ~Applies(groups, i)

\* Without a bound on the grouping Q, unlike OnlyForced.
Forced == \A Q : Abs!Congruent(Q, nodes, edges, unions) => Abs!Refines(groups, Q)

IInv ==
  /\ TypeOK
  /\ UnionsHonoured
  /\ ConsumedHonoured
  /\ RemainingIdle
  /\ Forced

LEMMA InitInvariant == Init => IInv
<1> SUFFICES ASSUME NEW C \in ConstraintSets, InitFrom(C)
             PROVE  IInv
  BY DEF Init
<1>1. TypeOK
  BY GraphTyped, SingletonsPartition, QuotientAssumption DEF InitFrom, TypeOK
<1>2. Forced
  BY DEF Forced, InitFrom, Singletons, Abs!Refines, Abs!Congruent, Abs!IsPartition
<1> QED  BY <1>1, <1>2
         DEF InitFrom, IInv, UnionsHonoured, ConsumedHonoured, RemainingIdle

LEMMA UniteInvariant ==
  ASSUME IInv, NEW u \in toUnite, Unite(u)
  PROVE  IInv'
<1> USE DEF IInv
<1>1. /\ pc = "unite" /\ groups' = Union(groups, u[1], u[2]) /\ toUnite' = toUnite \ {u}
      /\ UNCHANGED <<nodes, edges, unions, prevGroups, implications, pc>>
  BY DEF Unite
<1>2. u[1] \in nodes /\ u[2] \in nodes /\ u \in unions /\ Abs!IsPartition(groups, nodes)
  BY DEF TypeOK
<1>3. TypeOK'
  BY <1>1, <1>2, UnionPartition DEF TypeOK
<1>4. UnionsHonoured'
  BY <1>1, <1>2, UnionUnifies DEF UnionsHonoured
<1>5. ConsumedHonoured'
  BY <1>1, <1>2, UnionUnifies DEF ConsumedHonoured
<1>6. Forced'
  BY <1>1, <1>2, UnionForced DEF Forced, Abs!Congruent
<1> QED  BY <1>1, <1>3, <1>4, <1>5, <1>6 DEF RemainingIdle

LEMMA ConsumeInvariant ==
  ASSUME IInv, NEW i \in implications, Consume(i)
  PROVE  IInv'
<1> USE DEF IInv
<1>1. /\ pc = "round" /\ Applies(groups, i)
      /\ groups' = Union(groups, i[1].dst, i[2].dst) /\ implications' = implications \ {i}
      /\ UNCHANGED <<nodes, edges, unions, toUnite, prevGroups, pc>>
  BY DEF Consume
<1>2. /\ i \in Abs!Implications(edges)
      /\ i[1].dst \in nodes /\ i[2].dst \in nodes /\ Abs!IsPartition(groups, nodes)
  BY DEF TypeOK, Abs!Implications
<1>3. TypeOK'
  BY <1>1, <1>2, UnionPartition DEF TypeOK
<1>4. UnionsHonoured'
  BY <1>1, <1>2, UnionUnifies DEF UnionsHonoured
<1>5. ConsumedHonoured'
  BY <1>1, <1>2, UnionUnifies DEF ConsumedHonoured
<1>6. ASSUME NEW Q, Abs!Congruent(Q, nodes, edges, unions)
      PROVE  Abs!Refines(Union(groups, i[1].dst, i[2].dst), Q)
  <2>1. Abs!Refines(groups, Q) /\ Abs!IsPartition(Q, nodes)
    BY <1>6 DEF Forced, Abs!Congruent
  <2>2. Abs!Same(Q, i[1].src, i[2].src)
    BY <1>1, <2>1, RefinedSame DEF Applies
  <2>3. Abs!Same(Q, i[1].dst, i[2].dst)
    BY <1>2, <1>6, <2>2 DEF Abs!Congruent
  <2> QED  BY <2>1, <2>3, UnionForced
<1>7. Forced'
  BY <1>1, <1>6 DEF Forced
<1> QED  BY <1>1, <1>3, <1>4, <1>5, <1>7 DEF RemainingIdle

LEMMA RoundInvariant ==
  ASSUME IInv, FirstRound \/ NextRound
  PROVE  IInv'
<1>1. /\ pc \in {"unite", "round"} /\ pc' = "round" /\ prevGroups' = groups /\ toUnite = {}
      /\ UNCHANGED <<nodes, edges, unions, toUnite, groups, implications>>
  BY DEF IInv, FirstRound, NextRound, RoundOver, UnionsHonoured
<1> QED  BY <1>1 DEF IInv, TypeOK, UnionsHonoured, ConsumedHonoured, RemainingIdle, Forced

LEMMA FinishInvariant ==
  ASSUME IInv, Finish
  PROVE  IInv'
<1>1. /\ pc' = "done" /\ pc = "round" /\ \A i \in implications : ~Applies(groups, i)
      /\ UNCHANGED <<nodes, edges, unions, toUnite, groups, prevGroups, implications>>
  BY DEF Finish, RoundOver
<1> QED  BY <1>1 DEF IInv, TypeOK, UnionsHonoured, ConsumedHonoured, RemainingIdle, Forced, Applies

LEMMA Invariance == Spec => []IInv
<1>1. ASSUME IInv, UNCHANGED vars
      PROVE  IInv'
  BY <1>1 DEF vars, IInv, TypeOK, UnionsHonoured, ConsumedHonoured, RemainingIdle, Forced, Applies
<1>2. IInv /\ [Next]_vars => IInv'
  BY <1>1, UniteInvariant, ConsumeInvariant, RoundInvariant, FinishInvariant DEF Next
<1> QED  BY InitInvariant, <1>2, PTL DEF Spec

-----------------------------------------------------------------------------
(* The union-find structure always partitions the nodes of the graph. *)
THEOREM TypeCorrect == Spec => []TypeOK
<1>1. IInv => TypeOK
  BY DEF IInv
<1> QED  BY <1>1, Invariance, PTL

\* Once no remaining implication applies, the groups are a congruence.
LEMMA NothingApplies ==
  ASSUME IInv, pc # "unite", \A i \in implications : ~Applies(groups, i)
  PROVE  Abs!Congruent(groups, nodes, edges, unions)
<1>1. Abs!IsPartition(groups, nodes)
  BY DEF IInv, TypeOK
<1>2. \A u \in unions : Abs!Same(groups, u[1], u[2])
  BY DEF IInv, UnionsHonoured
<1>3. \A i \in Abs!Implications(edges) :
        Abs!Same(groups, i[1].src, i[2].src) => Abs!Same(groups, i[1].dst, i[2].dst)
  BY DEF IInv, ConsumedHonoured, Applies
<1> QED  BY <1>1, <1>2, <1>3 DEF Abs!Congruent

(* When the loop exits, the groups are closed under every implication,      *)
(* those never consumed included.                                           *)
THEOREM ClosedHolds == Spec => []ClosedWhenDone
<1>1. IInv => ClosedWhenDone
  BY NothingApplies DEF IInv, RemainingIdle, ClosedWhenDone
<1> QED  BY <1>1, Invariance, PTL

(* No two nodes are ever unified unless every congruence unifies them: the  *)
(* order in which the hash set is visited never over-approximates a type.   *)
THEOREM OnlyForcedHolds == Spec => []OnlyForced
<1>1. IInv => OnlyForced
  BY DEF IInv, Forced, OnlyForced
<1> QED  BY <1>1, Invariance, PTL

(* generate_quotient_groups implements its abstract specification: every    *)
(* step is a stutter but the last, which yields the least congruence.       *)
THEOREM Refinement == Spec => ComputesLeastCongruence
<1>1. Init => Abs!AbsInit
  BY DEF Init, InitFrom, Abs!AbsInit, Result
<1>2. ASSUME IInv, [Next]_vars
      PROVE  [Abs!Compute]_(Abs!absVars)
  <2>1. CASE Finish
    <3>1. /\ pc = "round" /\ pc' = "done"
          /\ UNCHANGED <<nodes, edges, unions, groups>>
      BY <2>1 DEF Finish, RoundOver
    <3>2. \A i \in implications : ~Applies(groups, i)
      BY <2>1 DEF Finish, RoundOver
    <3>3. Abs!Congruent(groups, nodes, edges, unions)
      BY <1>2, <3>1, <3>2, NothingApplies
    <3>4. Abs!Congruent(Result', nodes, edges, unions)
      BY <3>1, <3>3 DEF Result
    <3>5. \A Q : Abs!Congruent(Q, nodes, edges, unions) => Abs!Refines(Result', Q)
      BY <3>1, <1>2 DEF Result, IInv, Forced
    <3>6. Abs!IsLeastCongruence(Result')
      BY <3>4, <3>5 DEF Abs!IsLeastCongruence
    <3> QED  BY <3>1, <3>6 DEF Abs!Compute
  <2>2. CASE (\E u \in toUnite : Unite(u)) \/ FirstRound \/ (\E i \in implications : Consume(i)) \/ NextRound
    <3>1. pc # "done" /\ pc' # "done" /\ UNCHANGED <<nodes, edges, unions>>
      BY <2>2 DEF Unite, FirstRound, Consume, NextRound, RoundOver
    <3> QED  BY <3>1 DEF Abs!absVars, Result
  <2>3. CASE UNCHANGED vars
    BY <2>3 DEF vars, Abs!absVars, Result
  <2> QED  BY <1>2, <2>1, <2>2, <2>3 DEF Next
<1> QED  BY <1>1, <1>2, Invariance, PTL DEF Spec, ComputesLeastCongruence, Abs!AbsSpec

-----------------------------------------------------------------------------
(* Operations on sketch graphs: each is what its recursion settles at. *)

(* Reached is the least set that holds N and what its edges lead to. *)
LEMMA ReachedIsLeast ==
  ASSUME NEW s, IsFiniteSet(s.edges), NEW N
  PROVE  /\ N \subseteq Reached(s, N)
         /\ \A e \in s.edges : e[1] \in Reached(s, N) => e[3] \in Reached(s, N)
         /\ \A I : /\ N \subseteq I
                   /\ \A e \in s.edges : e[1] \in I => e[3] \in I
                   => Reached(s, N) \subseteq I
<1> DEFINE T == {e[3] : e \in s.edges}
           D == SUBSET (N \cup T)
           step == [M \in D |-> Onward(s, M)]
           m == [M \in D |-> Cardinality(T \ M)]
           f == Reached(s, N)
<1>1. IsFiniteSet(T)
  <2> DEFINE t == [e \in s.edges |-> e[3]]
  <2>1. IsFiniteSet({t[e] : e \in s.edges})
    <3> HIDE DEF t
    <3> QED  BY ImageFinite
  <2>2. T = {t[e] : e \in s.edges}
    OBVIOUS
  <2> QED  BY <2>1, <2>2
<1>2. \A M \in D : /\ M \subseteq Onward(s, M) /\ Onward(s, M) \subseteq M \cup T
                   /\ Onward(s, M) = M <=> \A e \in s.edges : e[1] \in M => e[3] \in M
  BY DEF Onward
<1>3. step \in [D -> D]
  BY <1>2
<1>4. \A M \in D : IsFiniteSet(T \ M) /\ Cardinality(T \ M) \in Nat
  BY <1>1, FS_Subset, FS_CardinalityType
<1>5. m \in [D -> Nat]
  BY <1>4
<1>6. \A M \in D : step[M] # M => m[step[M]] < m[M]
  <2> SUFFICES ASSUME NEW M \in D, step[M] # M PROVE m[step[M]] < m[M]
    OBVIOUS
  <2>1. step[M] \in D /\ M \subseteq step[M] /\ step[M] \subseteq M \cup T
    BY <1>2, <1>3
  <2>2. PICK t \in T : t \in step[M] /\ t \notin M
    BY <2>1
  <2>3. T \ step[M] \subseteq T \ M /\ T \ step[M] # T \ M
    BY <2>1, <2>2
  <2>4. Cardinality(T \ step[M]) < Cardinality(T \ M)
    <3> HIDE DEF T, step, D, m
    <3>1. /\ IsFiniteSet(T \ M) /\ Cardinality(T \ M) \in Nat
          /\ Cardinality(T \ step[M]) \in Nat
      BY <1>4, <2>1
    <3>2. /\ Cardinality(T \ step[M]) <= Cardinality(T \ M)
          /\ Cardinality(T \ step[M]) # Cardinality(T \ M)
      BY <3>1, <2>3, FS_Subset
    <3> QED  BY <3>1, <3>2
  <2> QED  BY <2>1, <2>4
<1>7. \E h : h = [M \in D |-> IF Onward(s, M) = M THEN M ELSE h[Onward(s, M)]]
  <2>1. \E h : Settling(h, D, step)
    <3> HIDE DEF D, step, m
    <3> QED  BY <1>3, <1>5, <1>6, SettlingExists
  <2>2. PICK h : h = [M \in D |-> IF step[M] = M THEN M ELSE h[step[M]]]
    BY <2>1 DEF Settling
  <2>3. h = [M \in D |-> IF Onward(s, M) = M THEN M ELSE h[Onward(s, M)]]
    BY <2>2
  <2> QED  BY <2>3
<1> DEFINE reach == CHOOSE h : h = [M \in D |-> IF Onward(s, M) = M THEN M ELSE h[Onward(s, M)]]
<1>8. reach = [M \in D |-> IF Onward(s, M) = M THEN M ELSE reach[Onward(s, M)]]
  BY <1>7
<1>9. f = reach[N]
  BY DEF Reached
<1> HIDE DEF reach
<1>10. Settling(reach, D, step)
  <2>1. \A M \in D : step[M] = Onward(s, M)
    OBVIOUS
  <2>2. [M \in D |-> IF Onward(s, M) = M THEN M ELSE reach[Onward(s, M)]]
          = [M \in D |-> IF step[M] = M THEN M ELSE reach[step[M]]]
    BY <2>1
  <2> QED  BY <1>8, <2>2 DEF Settling
<1>11. /\ f \in D /\ step[f] = f
       /\ \A I \in SUBSET D : N \in I /\ (\A M \in I : step[M] \in I) => f \in I
  <2>1. N \in D
    OBVIOUS
  <2> HIDE DEF D, step, m, f
  <2> QED  BY <1>3, <1>5, <1>6, <1>9, <1>10, <2>1, SettlingSettles
<1>12. N \subseteq f
  <2> DEFINE I == {M \in D : N \subseteq M}
  <2>1. N \in I /\ I \in SUBSET D
    OBVIOUS
  <2>2. \A M \in I : step[M] \in I
    BY <1>2, <1>3
  <2> QED  BY <1>11, <2>1, <2>2
<1>13. \A e \in s.edges : e[1] \in f => e[3] \in f
  BY <1>2, <1>11
<1>14. ASSUME NEW J, N \subseteq J, \A e \in s.edges : e[1] \in J => e[3] \in J
       PROVE  f \subseteq J
  <2> DEFINE I == {M \in D : M \subseteq J}
  <2>1. N \in I /\ I \in SUBSET D
    BY <1>14
  <2>2. \A M \in I : step[M] \in I
    BY <1>3, <1>14 DEF Onward
  <2> QED  BY <1>11, <2>1, <2>2
<1> QED  BY <1>12, <1>13, <1>14

(* Enumerated lists every element of a finite set once. *)
LEMMA EnumeratedIsABijection ==
  ASSUME NEW S, IsFiniteSet(S)
  PROVE  /\ Enumerated(S) \in Seq(S)
         /\ \A x \in S : \E i \in DOMAIN Enumerated(S) : Enumerated(S)[i] = x
         /\ \A i, j \in DOMAIN Enumerated(S) : Enumerated(S)[i] = Enumerated(S)[j] => i = j
<1> DEFINE D == [done : Seq(S), left : SUBSET S]
           x(c) == CHOOSE y \in c.left : TRUE
           next(c) == [done |-> Append(c.done, x(c)), left |-> c.left \ {x(c)}]
           step == [c \in D |-> IF c.left = {} THEN c ELSE next(c)]
           m == [c \in D |-> Cardinality(c.left)]
           first == [done |-> <<>>, left |-> S]
           Is(h) == h = [c \in D |-> IF c.left = {} THEN c ELSE h[next(c)]]
           list == CHOOSE h : Is(h)
<1>1. \A c \in D : c.left # {} => /\ x(c) \in c.left /\ next(c) \in D
                                  /\ next(c).left # c.left
  <2> SUFFICES ASSUME NEW c \in D, c.left # {}
               PROVE  x(c) \in c.left /\ next(c) \in D /\ next(c).left # c.left
    OBVIOUS
  <2>1. x(c) \in c.left
    OBVIOUS
  <2> HIDE DEF x
  <2> QED  BY <2>1
<1> HIDE DEF x
<1>2. step \in [D -> D]
  <2> HIDE DEF next
  <2> QED  BY <1>1
<1>3. m \in [D -> Nat]
  BY FS_Subset, FS_CardinalityType
<1>4. \A c \in D : step[c] = c <=> c.left = {}
  <2> SUFFICES ASSUME NEW c \in D PROVE step[c] = c <=> c.left = {}
    OBVIOUS
  <2>1. step[c] = IF c.left = {} THEN c ELSE next(c)
    OBVIOUS
  <2> HIDE DEF next, step
  <2> QED  BY <1>1, <2>1
<1>5. \A c \in D : step[c] # c => m[step[c]] < m[c]
  <2> SUFFICES ASSUME NEW c \in D, c.left # {} PROVE m[next(c)] < m[c]
    <3> HIDE DEF next, m
    <3> QED  BY <1>4
  <2>1. IsFiniteSet(c.left) /\ x(c) \in c.left /\ next(c) \in D
    BY <1>1, FS_Subset
  <2>2. Cardinality(c.left \ {x(c)}) = Cardinality(c.left) - 1
    BY <2>1, FS_RemoveElement
  <2>3. Cardinality(c.left) \in Nat
    BY <2>1, FS_CardinalityType
  <2>4. m[next(c)] = Cardinality(next(c).left) /\ m[c] = Cardinality(c.left)
    BY <2>1
  <2>5. next(c).left = c.left \ {x(c)}
    OBVIOUS
  <2> HIDE DEF m, next
  <2> QED  BY <2>2, <2>3, <2>4, <2>5
<1>6. \A h : Is(h) <=> Settling(h, D, step)
  <2> SUFFICES ASSUME NEW h PROVE Is(h) <=> Settling(h, D, step)
    OBVIOUS
  <2>1. \A c \in D : (IF c.left = {} THEN c ELSE h[next(c)])
                       = (IF step[c] = c THEN c ELSE h[step[c]])
    <3> SUFFICES ASSUME NEW c \in D
                 PROVE (IF c.left = {} THEN c ELSE h[next(c)])
                       = (IF step[c] = c THEN c ELSE h[step[c]])
      OBVIOUS
    <3>1. step[c] = IF c.left = {} THEN c ELSE next(c)
      OBVIOUS
    <3> HIDE DEF next, step
    <3> QED  BY <3>1, <1>4
  <2> HIDE DEF next, step, D
  <2> QED  BY <2>1 DEF Settling
<1>7. Is(list)
  <2>1. \E h : Is(h)
    <3> HIDE DEF Is, D, step, m
    <3> QED  BY <1>2, <1>3, <1>5, <1>6, SettlingExists
  <2> HIDE DEF Is
  <2> QED  BY <2>1
<1>8. Enumerated(S) = list[first].done
  BY DEF Enumerated, x
<1> HIDE DEF list
<1> DEFINE Good(c) == /\ \A i \in DOMAIN c.done : c.done[i] \notin c.left
                      /\ \A y \in S : y \in c.left \/ \E i \in DOMAIN c.done : c.done[i] = y
                      /\ \A i, j \in DOMAIN c.done : c.done[i] = c.done[j] => i = j
           I == {c \in D : Good(c)}
           r == list[first]
<1>9. \A c \in I : step[c] \in I
  <2> SUFFICES ASSUME NEW c \in I, c.left # {} PROVE Good(next(c))
    <3>1. \A c \in D : step[c] = IF c.left = {} THEN c ELSE next(c)
      OBVIOUS
    <3> HIDE DEF Good, next, step
    <3> QED  BY <1>2, <3>1
  <2>1. x(c) \in c.left /\ c.done \in Seq(S) /\ x(c) \in S
    BY <1>1
  <2> DEFINE d == Append(c.done, x(c))
  <2>2. /\ d \in Seq(S) /\ Len(d) = Len(c.done) + 1 /\ Len(c.done) \in Nat
        /\ DOMAIN d = 1 .. Len(c.done) + 1 /\ DOMAIN c.done = 1 .. Len(c.done)
        /\ \A i \in DOMAIN c.done : d[i] = c.done[i]
        /\ d[Len(c.done) + 1] = x(c)
    BY <2>1
  <2>3. next(c).done = d /\ next(c).left = c.left \ {x(c)}
    OBVIOUS
  <2>4. Good(c) /\ c \in D
    OBVIOUS
  <2> HIDE DEF d, next, I, D
  <2>5. DOMAIN d = DOMAIN c.done \cup {Len(c.done) + 1} /\ Len(c.done) + 1 \notin DOMAIN c.done
    BY <2>2
  <2>6. \A i \in DOMAIN d : d[i] \notin c.left \ {x(c)}
    BY <2>2, <2>4, <2>5
  <2>7. \A y \in S : y \in c.left \ {x(c)} \/ \E i \in DOMAIN d : d[i] = y
    BY <2>2, <2>4, <2>5
  <2>8. \A i, j \in DOMAIN d : d[i] = d[j] => i = j
    BY <2>1, <2>2, <2>4, <2>5
  <2> QED  BY <2>3, <2>6, <2>7, <2>8
<1>10. first \in I /\ first \in D
  <2>1. <<>> \in Seq(S) /\ DOMAIN <<>> = {}
    OBVIOUS
  <2> QED  BY <2>1
<1>11. r \in D /\ step[r] = r /\ r \in I
  <2>1. Settling(list, D, step) /\ I \in SUBSET D
    BY <1>6, <1>7
  <2> HIDE DEF D, step, m, I, r, first
  <2>2. first \in D
    BY <1>10
  <2>3. list[first] \in D /\ step[list[first]] = list[first] /\ list[first] \in I
    BY <1>2, <1>3, <1>5, <1>9, <1>10, <2>1, <2>2, SettlingSettles
  <2> QED  BY <2>3 DEF r
<1>12. r.left = {} /\ Good(r) /\ r.done \in Seq(S)
  BY <1>4, <1>11
<1>13. Enumerated(S) = r.done
  BY <1>8
<1> HIDE DEF r
<1> QED  BY <1>12, <1>13

\* A graph as unification finds it: finitely many numbered nodes.
IsGraph(s) ==
  /\ IsFiniteSet(s.nodes) /\ s.nodes \subseteq Nat
  /\ \A e \in s.edges : e[1] \in s.nodes /\ e[3] \in s.nodes

\* E is an equivalence on N.
IsEquivalence(N, E) ==
  /\ \A a \in N : <<a, a>> \in E
  /\ \A a, b \in N : <<a, b>> \in E => <<b, a>> \in E
  /\ \A a, b, c \in N : <<a, b>> \in E /\ <<b, c>> \in E => <<a, c>> \in E

\* An equivalence of nodes that unifies what two edges of one label lead to.
ClosedEquivalence(s, E) ==
  /\ IsEquivalence(s.nodes, E)
  /\ \A e, f \in s.edges :
       SameLabel(e[2], f[2]) /\ <<e[1], f[1]>> \in E => <<e[3], f[3]>> \in E

(* Four nodes in a row, each equivalent to the next. *)
LEMMA TransitiveChain ==
  ASSUME NEW N, NEW E,
         \A a, b, c \in N : <<a, b>> \in E /\ <<b, c>> \in E => <<a, c>> \in E,
         NEW a \in N, NEW b \in N, NEW c \in N, NEW d \in N,
         <<a, b>> \in E, <<b, c>> \in E, <<c, d>> \in E
  PROVE  <<a, d>> \in E
<1>1. <<a, c>> \in E
  OBVIOUS
<1> QED  BY <1>1

(* Classes that are joined because x and y are equivalent stay equivalent. *)
LEMMA JoinedStaysWithin ==
  ASSUME NEW N, NEW E, NEW rep, NEW x \in N, NEW y \in N, <<x, y>> \in E,
         \A a, b \in N : rep[a] = rep[b] => <<a, b>> \in E,
         \A a, b \in N : <<a, b>> \in E => <<b, a>> \in E,
         \A a, b, c \in N : <<a, b>> \in E /\ <<b, c>> \in E => <<a, c>> \in E,
         NEW a \in N, NEW b \in N,
         (IF rep[a] = rep[y] THEN rep[x] ELSE rep[a]) = (IF rep[b] = rep[y] THEN rep[x] ELSE rep[b])
  PROVE  <<a, b>> \in E
<1>1. CASE rep[a] = rep[y] /\ rep[b] # rep[y]
  <2>1. <<a, y>> \in E /\ <<y, x>> \in E /\ <<x, b>> \in E
    BY <1>1
  <2> QED  BY <2>1, TransitiveChain
<1>2. CASE rep[a] # rep[y] /\ rep[b] = rep[y]
  <2>1. <<a, x>> \in E /\ <<y, b>> \in E
    BY <1>2
  <2> QED  BY <2>1, TransitiveChain
<1>3. CASE rep[a] = rep[b]
  BY <1>3
<1> QED  BY <1>1, <1>2, <1>3

(* A clash comes from two edges of one class; without one rep is closed. *)
LEMMA ClashIsOfEdges ==
  ASSUME NEW s, IsGraph(s), NEW rep \in [s.nodes -> s.nodes]
  PROVE  /\ \A c \in Clashes(s, rep) :
              \E e, f \in s.edges : /\ SameLabel(e[2], f[2]) /\ rep[e[1]] = rep[f[1]]
                                    /\ c[1] = rep[e[3]] /\ c[2] = rep[f[3]]
                                    /\ c[1] < c[2]
         /\ Clashes(s, rep) = {} =>
              \A e, f \in s.edges : SameLabel(e[2], f[2]) /\ rep[e[1]] = rep[f[1]]
                                      => rep[e[3]] = rep[f[3]]
<1>1. ASSUME NEW c \in Clashes(s, rep)
      PROVE  \E e, f \in s.edges : /\ SameLabel(e[2], f[2]) /\ rep[e[1]] = rep[f[1]]
                                   /\ c[1] = rep[e[3]] /\ c[2] = rep[f[3]]
                                   /\ c[1] < c[2]
  <2>1. PICK p \in s.edges \X s.edges :
          /\ SameLabel(p[1][2], p[2][2]) /\ rep[p[1][1]] = rep[p[2][1]]
          /\ rep[p[1][3]] < rep[p[2][3]]
          /\ c = <<rep[p[1][3]], rep[p[2][3]]>>
    BY <1>1 DEF Clashes
  <2>2. p[1] \in s.edges /\ p[2] \in s.edges
    OBVIOUS
  <2>3. c[1] = rep[p[1][3]] /\ c[2] = rep[p[2][3]]
    BY <2>1
  <2> QED  BY <2>1, <2>2, <2>3
<1>2. ASSUME Clashes(s, rep) = {}, NEW e \in s.edges, NEW f \in s.edges,
             SameLabel(e[2], f[2]), rep[e[1]] = rep[f[1]], rep[e[3]] # rep[f[3]]
      PROVE  FALSE
  <2>1. rep[e[3]] \in Nat /\ rep[f[3]] \in Nat
    BY DEF IsGraph
  <2>2. ASSUME NEW x \in s.edges, NEW y \in s.edges,
               SameLabel(x[2], y[2]), rep[x[1]] = rep[y[1]], rep[x[3]] < rep[y[3]]
        PROVE  FALSE
    <3> DEFINE p == <<x, y>>
    <3>1. p \in s.edges \X s.edges /\ p[1] = x /\ p[2] = y
      OBVIOUS
    <3> HIDE DEF p
    <3>2. <<rep[p[1][3]], rep[p[2][3]]>> \in Clashes(s, rep)
      BY <2>2, <3>1 DEF Clashes
    <3> QED  BY <1>2, <3>2
  <2>3. CASE rep[e[3]] < rep[f[3]]
    BY <1>2, <2>2, <2>3
  <2>4. CASE rep[f[3]] < rep[e[3]]
    BY <1>2, <2>2, <2>4 DEF SameLabel
  <2> QED  BY <1>2, <2>1, <2>3, <2>4
<1> QED  BY <1>1, <1>2

(* One clash resolved: two classes become one. *)
LEMMA ResolvedJoins ==
  ASSUME NEW s, IsGraph(s), NEW rep \in [s.nodes -> s.nodes], Resolved(s, rep) # rep
  PROVE  \E e, f \in s.edges :
           /\ SameLabel(e[2], f[2]) /\ rep[e[1]] = rep[f[1]] /\ rep[e[3]] < rep[f[3]]
           /\ Resolved(s, rep) = Joined(s, rep, rep[e[3]], rep[f[3]])
<1> DEFINE clash == CHOOSE c \in Clashes(s, rep) : TRUE
<1>1. Clashes(s, rep) # {} /\ Resolved(s, rep) = Joined(s, rep, clash[1], clash[2])
  BY DEF Resolved
<1>2. clash \in Clashes(s, rep)
  BY <1>1
<1> HIDE DEF clash
<1>3. PICK e, f \in s.edges : /\ SameLabel(e[2], f[2]) /\ rep[e[1]] = rep[f[1]]
                              /\ clash[1] = rep[e[3]] /\ clash[2] = rep[f[3]]
                              /\ clash[1] < clash[2]
  BY <1>2, ClashIsOfEdges
<1> QED  BY <1>1, <1>3

(* Each resolved clash leaves fewer classes, and only forced ones. *)
LEMMA ResolvedIs ==
  ASSUME NEW s, IsGraph(s), NEW rep \in [s.nodes -> s.nodes]
  PROVE  /\ Resolved(s, rep) \in [s.nodes -> s.nodes]
         /\ \A a, b \in s.nodes : rep[a] = rep[b] => Resolved(s, rep)[a] = Resolved(s, rep)[b]
         /\ Resolved(s, rep) = rep <=> Clashes(s, rep) = {}
         /\ Resolved(s, rep) # rep =>
              Cardinality({Resolved(s, rep)[n] : n \in s.nodes}) < Cardinality({rep[n] : n \in s.nodes})
<1>1. CASE Clashes(s, rep) = {}
  BY <1>1 DEF Resolved
<1>2. CASE Clashes(s, rep) # {}
  <2> DEFINE c == CHOOSE c \in Clashes(s, rep) : TRUE
             r == Resolved(s, rep)
             V(q) == {q[n] : n \in s.nodes}
  <2>1. c \in Clashes(s, rep) /\ r = Joined(s, rep, c[1], c[2])
    BY <1>2 DEF Resolved
  <2> HIDE DEF c, r
  <2>2. PICK e, f \in s.edges : c[1] = rep[e[3]] /\ c[2] = rep[f[3]] /\ c[1] < c[2]
    BY <2>1, ClashIsOfEdges
  <2>3. e[3] \in s.nodes /\ f[3] \in s.nodes /\ c[1] # c[2]
    BY <2>2 DEF IsGraph
  <2>4. r = [n \in s.nodes |-> IF rep[n] = c[2] THEN c[1] ELSE rep[n]]
    BY <2>1 DEF Joined
  <2>5. r \in [s.nodes -> s.nodes] /\ r # rep
        /\ \A a, b \in s.nodes : rep[a] = rep[b] => r[a] = r[b]
    BY <2>2, <2>3, <2>4
  <2>6. V(r) \subseteq V(rep) /\ c[2] \in V(rep) /\ c[2] \notin V(r)
    BY <2>2, <2>3, <2>4
  <2>7. V(rep) \subseteq s.nodes /\ IsFiniteSet(V(rep))
    BY FS_Subset DEF IsGraph
  <2>8. Cardinality(V(r)) < Cardinality(V(rep))
    <3> HIDE DEF V
    <3>1. V(r) # V(rep) /\ IsFiniteSet(V(r)) /\ Cardinality(V(r)) <= Cardinality(V(rep))
          /\ Cardinality(V(r)) # Cardinality(V(rep))
      BY <2>6, <2>7, FS_Subset
    <3>2. Cardinality(V(r)) \in Nat /\ Cardinality(V(rep)) \in Nat
      BY <2>7, <3>1, FS_CardinalityType
    <3> QED  BY <3>1, <3>2
  <2> QED  BY <1>2, <2>5, <2>8 DEF r
<1> QED  BY <1>1, <1>2

(* Unified is the least closed equivalence that the classes of rep0 force. *)
LEMMA UnifiedIsLeast ==
  ASSUME NEW s, IsGraph(s), NEW rep0 \in [s.nodes -> s.nodes]
  PROVE  LET R == Unified(s, rep0)
         IN  /\ R \in [s.nodes -> s.nodes]
             /\ \A a, b \in s.nodes : rep0[a] = rep0[b] => R[a] = R[b]
             /\ \A e, f \in s.edges :
                  SameLabel(e[2], f[2]) /\ R[e[1]] = R[f[1]] => R[e[3]] = R[f[3]]
             /\ \A E : /\ ClosedEquivalence(s, E)
                       /\ \A a, b \in s.nodes : rep0[a] = rep0[b] => <<a, b>> \in E
                       => \A a, b \in s.nodes : R[a] = R[b] => <<a, b>> \in E
<1> DEFINE D == [s.nodes -> s.nodes]
           step == [rep \in D |-> Resolved(s, rep)]
           m == [rep \in D |-> Cardinality({rep[n] : n \in s.nodes})]
           Is(h) == h = [rep \in D |-> IF Resolved(s, rep) = rep THEN rep ELSE h[Resolved(s, rep)]]
           unify == CHOOSE h : Is(h)
           R == Unified(s, rep0)
<1>1. step \in [D -> D]
  BY ResolvedIs
<1>2. m \in [D -> Nat]
  <2> SUFFICES ASSUME NEW rep \in D PROVE Cardinality({rep[n] : n \in s.nodes}) \in Nat
    OBVIOUS
  <2>1. {rep[n] : n \in s.nodes} \subseteq s.nodes
    OBVIOUS
  <2> HIDE DEF D
  <2> QED  BY <2>1, FS_Subset, FS_CardinalityType DEF IsGraph
<1>3. \A rep \in D : step[rep] # rep => m[step[rep]] < m[rep]
  <2> SUFFICES ASSUME NEW rep \in D, step[rep] # rep PROVE m[step[rep]] < m[rep]
    OBVIOUS
  <2>1. step[rep] = Resolved(s, rep) /\ Resolved(s, rep) \in D
    BY ResolvedIs
  <2>2. Cardinality({Resolved(s, rep)[n] : n \in s.nodes}) < Cardinality({rep[n] : n \in s.nodes})
    BY <2>1, ResolvedIs
  <2>3. /\ m[rep] = Cardinality({rep[n] : n \in s.nodes})
        /\ m[Resolved(s, rep)] = Cardinality({Resolved(s, rep)[n] : n \in s.nodes})
    BY <2>1
  <2> HIDE DEF m, D, step
  <2> QED  BY <2>1, <2>2, <2>3
<1>4. \A h : Is(h) <=> Settling(h, D, step)
  <2> SUFFICES ASSUME NEW h PROVE Is(h) <=> Settling(h, D, step)
    OBVIOUS
  <2>1. \A rep \in D : step[rep] = Resolved(s, rep)
    OBVIOUS
  <2> HIDE DEF step, D
  <2> QED  BY <2>1 DEF Settling
<1>5. Is(unify)
  <2>1. \E h : Is(h)
    <3> HIDE DEF Is, D, step, m
    <3> QED  BY <1>1, <1>2, <1>3, <1>4, SettlingExists
  <2> HIDE DEF Is
  <2> QED  BY <2>1
<1>6. R = unify[rep0]
  BY DEF Unified
<1> HIDE DEF unify
<1>7. /\ R \in D /\ step[R] = R
      /\ \A I \in SUBSET D : rep0 \in I /\ (\A rep \in I : step[rep] \in I) => R \in I
  <2>1. Settling(unify, D, step) /\ rep0 \in D
    BY <1>4, <1>5
  <2> HIDE DEF D, step, m, R
  <2> QED  BY <1>1, <1>2, <1>3, <1>6, <2>1, SettlingSettles
<1> HIDE DEF R
<1>8. \A a, b \in s.nodes : rep0[a] = rep0[b] => R[a] = R[b]
  <2> DEFINE I == {rep \in D : \A a, b \in s.nodes : rep0[a] = rep0[b] => rep[a] = rep[b]}
  <2>1. ASSUME NEW rep \in I PROVE step[rep] \in I
    <3>1. rep \in D /\ step[rep] = Resolved(s, rep) /\ Resolved(s, rep) \in D
      BY ResolvedIs
    <3>2. \A a, b \in s.nodes : rep[a] = rep[b] => Resolved(s, rep)[a] = Resolved(s, rep)[b]
      BY <3>1, ResolvedIs
    <3> QED  BY <3>1, <3>2
  <2>2. R \in I
    BY <1>7, <2>1
  <2> QED  BY <2>2
<1>9. \A e, f \in s.edges : SameLabel(e[2], f[2]) /\ R[e[1]] = R[f[1]] => R[e[3]] = R[f[3]]
  <2>1. Clashes(s, R) = {}
    BY <1>7, ResolvedIs
  <2> QED  BY <1>7, <2>1, ClashIsOfEdges
<1>10. ASSUME NEW E, ClosedEquivalence(s, E),
              \A a, b \in s.nodes : rep0[a] = rep0[b] => <<a, b>> \in E
       PROVE  \A a, b \in s.nodes : R[a] = R[b] => <<a, b>> \in E
  <2> DEFINE I == {rep \in D : \A a, b \in s.nodes : rep[a] = rep[b] => <<a, b>> \in E}
  <2>1. ASSUME NEW rep \in I PROVE step[rep] \in I
    <3>1. CASE step[rep] = rep
      BY <3>1
    <3>2. CASE step[rep] # rep
      <4>1. PICK e, f \in s.edges :
              /\ SameLabel(e[2], f[2]) /\ rep[e[1]] = rep[f[1]]
              /\ Resolved(s, rep) = Joined(s, rep, rep[e[3]], rep[f[3]])
        BY <3>2, ResolvedJoins
      <4>2. /\ e[1] \in s.nodes /\ f[1] \in s.nodes /\ e[3] \in s.nodes /\ f[3] \in s.nodes
        BY DEF IsGraph
      <4>3. <<e[3], f[3]>> \in E
        BY <1>10, <4>1, <4>2 DEF ClosedEquivalence, IsEquivalence
      <4> DEFINE r == Resolved(s, rep)
      <4>4. r = [n \in s.nodes |-> IF rep[n] = rep[f[3]] THEN rep[e[3]] ELSE rep[n]]
        BY <4>1 DEF Joined
      <4>5. r \in D
        BY ResolvedIs
      <4> HIDE DEF r
      <4>6. ASSUME NEW a \in s.nodes, NEW b \in s.nodes, r[a] = r[b]
            PROVE  <<a, b>> \in E
        <5> DEFINE N == s.nodes
                   x == e[3]
                   y == f[3]
        <5>1. /\ \A n, o \in N : rep[n] = rep[o] => <<n, o>> \in E
              /\ \A n, o \in N : <<n, o>> \in E => <<o, n>> \in E
              /\ \A n, o, p \in N : <<n, o>> \in E /\ <<o, p>> \in E => <<n, p>> \in E
          BY <1>10 DEF ClosedEquivalence, IsEquivalence
        <5>2. x \in N /\ y \in N /\ <<x, y>> \in E /\ a \in N /\ b \in N
          BY <4>2, <4>3
        <5>3. (IF rep[a] = rep[y] THEN rep[x] ELSE rep[a]) = (IF rep[b] = rep[y] THEN rep[x] ELSE rep[b])
          BY <4>4, <4>6
        <5> HIDE DEF N, x, y
        <5> QED  BY <5>1, <5>2, <5>3, JoinedStaysWithin
      <4>7. step[rep] = r
        BY DEF r
      <4> QED  BY <4>5, <4>6, <4>7
    <3> QED  BY <3>1, <3>2
  <2>2. rep0 \in I
    BY <1>10
  <2>3. R \in I
    BY <1>7, <2>1, <2>2
  <2> QED  BY <2>3
<1> QED  BY <1>7, <1>8, <1>9, <1>10 DEF R

-----------------------------------------------------------------------------
(* The sketch of a constraint set, up to the numbers of its nodes *)

(* A set of naturals has a least member. *)
LEMMA LeastNatural ==
  ASSUME NEW S \in SUBSET Nat, S # {}
  PROVE  \E m \in S : \A k \in S : m <= k
<1> DEFINE F == {0 .. n : n \in S}
<1>1. F # {} /\ \A X \in F : IsFiniteSet(X)
  <2>1. PICK n \in S : TRUE
    OBVIOUS
  <2>2. 0 .. n \in F
    OBVIOUS
  <2>3. \A k \in S : IsFiniteSet(0 .. k)
    <3>1. \A k \in S : k \in Int /\ 0 \in Int
      OBVIOUS
    <3> QED  BY <3>1, FS_Interval
  <2> QED  BY <2>2, <2>3
<1>2. PICK X \in F : \A Y \in F : Y \subseteq X => Y = X
  <2> HIDE DEF F
  <2> QED  BY <1>1, SmallestMember
<1>3. PICK m \in S : X = 0 .. m
  OBVIOUS
<1>4. ASSUME NEW k \in S, ~(m <= k) PROVE FALSE
  <2>1. 0 .. k \in F /\ 0 .. k \subseteq 0 .. m /\ m \in 0 .. m /\ m \notin 0 .. k
    BY <1>4
  <2> QED  BY <1>2, <1>3, <2>1
<1> QED  BY <1>4

(* The groups of the initial united: the least equivalence that holds them. *)
LEMMA UnitedByIsLeast ==
  ASSUME NEW s, IsGraph(s), NEW C, IsFiniteSet(C),
         \A c \in C : s.keys[c.lhs] \in s.nodes /\ s.keys[c.rhs] \in s.nodes
  PROVE  LET r == UnitedBy(s, C)
         IN  /\ r \in [s.nodes -> s.nodes]
             /\ \A c \in C : r[s.keys[c.lhs]] = r[s.keys[c.rhs]]
             /\ \A E : /\ IsEquivalence(s.nodes, E)
                       /\ \A c \in C : <<s.keys[c.lhs], s.keys[c.rhs]>> \in E
                       => \A a, b \in s.nodes : r[a] = r[b] => <<a, b>> \in E
<1> DEFINE united == {<<s.keys[c.lhs], "", s.keys[c.rhs]>> : c \in C}
           both == united \cup {<<u[3], u[2], u[1]>> : u \in united}
           either == [edges |-> both]
           group(n) == Reached(either, {n})
           r == UnitedBy(s, C)
<1>1. IsFiniteSet(both)
  <2>1. IsFiniteSet(united)
    <3> DEFINE t == [c \in C |-> <<s.keys[c.lhs], "", s.keys[c.rhs]>>]
    <3>1. IsFiniteSet({t[c] : c \in C})
      <4> HIDE DEF t
      <4> QED  BY ImageFinite
    <3>2. united = {t[c] : c \in C}
      OBVIOUS
    <3> QED  BY <3>1, <3>2
  <2>2. IsFiniteSet({<<u[3], u[2], u[1]>> : u \in united})
    <3> DEFINE t == [u \in united |-> <<u[3], u[2], u[1]>>]
    <3>1. IsFiniteSet({t[u] : u \in united})
      <4> HIDE DEF t, united
      <4> QED  BY <2>1, ImageFinite
    <3>2. {<<u[3], u[2], u[1]>> : u \in united} = {t[u] : u \in united}
      <4> HIDE DEF united
      <4> QED  OBVIOUS
    <3> QED  BY <3>1, <3>2
  <2> HIDE DEF united
  <2> QED  BY <2>1, <2>2, FS_Union
<1>2. /\ \A c \in C : <<s.keys[c.lhs], "", s.keys[c.rhs]>> \in both
                      /\ <<s.keys[c.rhs], "", s.keys[c.lhs]>> \in both
      /\ \A e \in both : \E c \in C : \/ e[1] = s.keys[c.lhs] /\ e[3] = s.keys[c.rhs]
                                      \/ e[1] = s.keys[c.rhs] /\ e[3] = s.keys[c.lhs]
  <2>1. \A c \in C : <<s.keys[c.lhs], "", s.keys[c.rhs]>> \in united
    OBVIOUS
  <2>2. ASSUME NEW u \in united
        PROVE  \E c \in C : u[1] = s.keys[c.lhs] /\ u[2] = "" /\ u[3] = s.keys[c.rhs]
    <3>1. PICK c \in C : u = <<s.keys[c.lhs], "", s.keys[c.rhs]>>
      OBVIOUS
    <3>2. u[1] = s.keys[c.lhs] /\ u[2] = "" /\ u[3] = s.keys[c.rhs]
      BY <3>1
    <3> QED  BY <3>2
  <2>3. \A c \in C : <<s.keys[c.rhs], "", s.keys[c.lhs]>> \in both
    <3> SUFFICES ASSUME NEW c \in C PROVE <<s.keys[c.rhs], "", s.keys[c.lhs]>> \in both
      OBVIOUS
    <3> DEFINE u == <<s.keys[c.lhs], "", s.keys[c.rhs]>>
    <3>1. u \in united /\ u[1] = s.keys[c.lhs] /\ u[2] = "" /\ u[3] = s.keys[c.rhs]
      BY <2>1
    <3> HIDE DEF united, u
    <3>2. <<u[3], u[2], u[1]>> \in both
      BY <3>1
    <3> QED  BY <3>1, <3>2
  <2> HIDE DEF united
  <2>4. ASSUME NEW e \in both
        PROVE  \E c \in C : \/ e[1] = s.keys[c.lhs] /\ e[3] = s.keys[c.rhs]
                            \/ e[1] = s.keys[c.rhs] /\ e[3] = s.keys[c.lhs]
    <3>1. CASE e \in united
      BY <2>2, <3>1
    <3>2. CASE e \notin united
      <4>1. PICK u \in united : e = <<u[3], u[2], u[1]>>
        BY <3>2
      <4>2. e[1] = u[3] /\ e[3] = u[1]
        BY <4>1
      <4> QED  BY <2>2, <4>2
    <3> QED  BY <3>1, <3>2
  <2> QED  BY <2>1, <2>3, <2>4
<1>3. \A n : /\ n \in group(n)
             /\ \A e \in both : e[1] \in group(n) => e[3] \in group(n)
             /\ \A I : /\ n \in I
                       /\ \A e \in both : e[1] \in I => e[3] \in I
                       => group(n) \subseteq I
  <2> SUFFICES ASSUME NEW n
               PROVE  /\ n \in group(n)
                      /\ \A e \in both : e[1] \in group(n) => e[3] \in group(n)
                      /\ \A I : /\ n \in I
                                /\ \A e \in both : e[1] \in I => e[3] \in I
                                => group(n) \subseteq I
    OBVIOUS
  <2>1. either.edges = both
    OBVIOUS
  <2> HIDE DEF both, either
  <2>2. /\ {n} \subseteq group(n)
        /\ \A e \in both : e[1] \in group(n) => e[3] \in group(n)
        /\ \A I : /\ {n} \subseteq I
                  /\ \A e \in both : e[1] \in I => e[3] \in I
                  => group(n) \subseteq I
    BY <1>1, <2>1, ReachedIsLeast
  <2> QED  BY <2>2
<1>4. r = [n \in s.nodes |-> CHOOSE m \in group(n) : \A k \in group(n) : m <= k]
  BY DEF UnitedBy
<1> HIDE DEF both, either, united, r
<1>5. \A n \in s.nodes : group(n) \subseteq s.nodes
  BY <1>2, <1>3
<1>6. \A n \in s.nodes : r[n] \in group(n) /\ r[n] \in s.nodes
  <2> SUFFICES ASSUME NEW n \in s.nodes PROVE r[n] \in group(n)
    BY <1>5
  <2>1. group(n) \in SUBSET Nat /\ group(n) # {}
    BY <1>3, <1>5 DEF IsGraph
  <2> HIDE DEF group
  <2>2. \E m \in group(n) : \A k \in group(n) : m <= k
    BY <2>1, LeastNatural
  <2>3. r[n] = CHOOSE m \in group(n) : \A k \in group(n) : m <= k
    BY <1>4 DEF group
  <2> QED  BY <2>2, <2>3
<1>7. r \in [s.nodes -> s.nodes]
  <2> HIDE DEF group
  <2> QED  BY <1>4, <1>6
<1>8. ASSUME NEW c \in C PROVE r[s.keys[c.lhs]] = r[s.keys[c.rhs]]
  <2> DEFINE a == s.keys[c.lhs]
             b == s.keys[c.rhs]
  <2>1. a \in s.nodes /\ b \in s.nodes /\ <<a, "", b>> \in both /\ <<b, "", a>> \in both
    BY <1>2
  <2> HIDE DEF a, b
  <2>2. <<a, "", b>>[1] = a /\ <<a, "", b>>[3] = b /\ <<b, "", a>>[1] = b /\ <<b, "", a>>[3] = a
    OBVIOUS
  <2>3. b \in group(a) /\ a \in group(b)
    BY <1>3, <2>1, <2>2
  <2>4. group(a) = group(b)
    BY <1>3, <2>3
  <2>5. /\ r[a] = CHOOSE m \in group(a) : \A k \in group(a) : m <= k
        /\ r[b] = CHOOSE m \in group(b) : \A k \in group(b) : m <= k
    BY <1>4, <2>1
  <2> HIDE DEF group
  <2>6. r[a] = r[b]
    BY <2>4, <2>5
  <2> QED  BY <2>6 DEF a, b
<1>9. ASSUME NEW E, IsEquivalence(s.nodes, E),
             \A c \in C : <<s.keys[c.lhs], s.keys[c.rhs]>> \in E,
             NEW a \in s.nodes, NEW b \in s.nodes, r[a] = r[b]
      PROVE  <<a, b>> \in E
  <2>1. ASSUME NEW n \in s.nodes PROVE group(n) \subseteq {x \in s.nodes : <<n, x>> \in E}
    <3> DEFINE I == {x \in s.nodes : <<n, x>> \in E}
    <3>1. n \in I
      BY <1>9 DEF IsEquivalence
    <3>2. ASSUME NEW e \in both, e[1] \in I PROVE e[3] \in I
      <4>1. PICK c \in C : \/ e[1] = s.keys[c.lhs] /\ e[3] = s.keys[c.rhs]
                           \/ e[1] = s.keys[c.rhs] /\ e[3] = s.keys[c.lhs]
        BY <1>2
      <4> DEFINE x == e[1]
                 y == e[3]
      <4>2. <<s.keys[c.lhs], s.keys[c.rhs]>> \in E /\ <<s.keys[c.rhs], s.keys[c.lhs]>> \in E
        BY <1>9 DEF IsEquivalence
      <4>3. x \in s.nodes /\ y \in s.nodes /\ <<x, y>> \in E /\ <<n, x>> \in E
        BY <3>2, <4>1, <4>2
      <4> HIDE DEF x, y
      <4>4. <<n, y>> \in E
        BY <1>9, <4>3 DEF IsEquivalence
      <4> QED  BY <4>3, <4>4 DEF y
    <3> HIDE DEF I
    <3>3. group(n) \subseteq I
      BY <1>3, <3>1, <3>2
    <3> QED  BY <3>3 DEF I
  <2> DEFINE x == r[a]
  <2>2. x \in s.nodes /\ x \in group(a) /\ x \in group(b)
    BY <1>6, <1>9
  <2> HIDE DEF x, group
  <2>3. <<a, x>> \in E /\ <<b, x>> \in E
    BY <2>1, <2>2
  <2>4. <<x, b>> \in E
    BY <1>9, <2>2, <2>3 DEF IsEquivalence
  <2> QED  BY <1>9, <2>2, <2>3, <2>4 DEF IsEquivalence
<1> QED  BY <1>7, <1>8, <1>9 DEF r

(* The derived type variables that have a node, and what they are fields of. *)
Dtvs(C) == UNION {PathPrefixes(c.lhs) \cup PathPrefixes(c.rhs) : c \in C}
Up(d) == [d EXCEPT !.path = Front(d.path)]

\* A finite constraint set.
AreConstraints(C) == IsFiniteSet(C) /\ \A c \in C : IsDtv(c.lhs) /\ IsDtv(c.rhs)

(* The prefixes of a path, with what each is a field of. *)
LEMMA PrefixesAre ==
  ASSUME NEW d, IsDtv(d)
  PROVE  /\ d \in PathPrefixes(d) /\ IsFiniteSet(PathPrefixes(d))
         /\ \A e \in PathPrefixes(d) : e.path # <<>> => Up(e) \in PathPrefixes(d)
<1> DEFINE S == {d.path[i] : i \in DOMAIN d.path}
           p == d.path
           at == [k \in 0 .. Len(p) |-> [d EXCEPT !.path = SubSeq(p, 1, k)]]
<1>1. p \in Seq(S) /\ Len(p) \in Nat /\ DOMAIN p = 1 .. Len(p) /\ d = [base |-> d.base, path |-> p]
  BY DEF IsDtv
<1>2. \A q : [d EXCEPT !.path = q] = [base |-> d.base, path |-> q]
  BY <1>1
<1>3. PathPrefixes(d) = {at[k] : k \in 0 .. Len(p)}
  BY DEF PathPrefixes
<1>4. \A k \in 0 .. Len(p) : at[k] = [base |-> d.base, path |-> SubSeq(p, 1, k)]
  BY <1>2
<1> HIDE DEF at, S, p
<1>5. IsFiniteSet(0 .. Len(p))
  <2>1. 0 \in Int /\ Len(p) \in Int
    BY <1>1
  <2> QED  BY <2>1, FS_Interval
<1>6. IsFiniteSet(PathPrefixes(d))
  BY <1>3, <1>5, ImageFinite
<1>7. d \in PathPrefixes(d)
  <2>1. SubSeq(p, 1, Len(p)) = p /\ Len(p) \in 0 .. Len(p)
    BY <1>1
  <2> QED  BY <1>1, <1>3, <1>4, <2>1
<1>8. ASSUME NEW e \in PathPrefixes(d), e.path # <<>> PROVE Up(e) \in PathPrefixes(d)
  <2>1. PICK k \in 0 .. Len(p) : e = [base |-> d.base, path |-> SubSeq(p, 1, k)]
    BY <1>3, <1>4
  <2>2. k \in Nat /\ k # 0
    BY <1>1, <1>8, <2>1
  <2>3. k - 1 \in 0 .. Len(p)
    BY <1>1, <2>2
  <2>4. SubSeq(p, 1, k) \in Seq(S) /\ Len(SubSeq(p, 1, k)) = k
    BY <1>1, <2>2
  <2>5. Front(e.path) = SubSeq(SubSeq(p, 1, k), 1, k - 1)
    BY <2>1, <2>4 DEF Front
  <2>6. SubSeq(SubSeq(p, 1, k), 1, k - 1) = SubSeq(p, 1, k - 1)
    BY <1>1, <2>2, <2>3, <2>4
  <2>7. Up(e) = [base |-> d.base, path |-> SubSeq(p, 1, k - 1)]
    <3>1. \A q : [e EXCEPT !.path = q] = [base |-> d.base, path |-> q]
      BY <2>1
    <3> QED  BY <2>5, <2>6, <3>1 DEF Up
  <2> QED  BY <1>3, <1>4, <2>3, <2>7
<1> QED  BY <1>6, <1>7, <1>8

(* The derived type variables of a constraint set, prefixes included. *)
LEMMA DtvsAre ==
  ASSUME NEW C, AreConstraints(C)
  PROVE  /\ IsFiniteSet(Dtvs(C))
         /\ \A c \in C : c.lhs \in Dtvs(C) /\ c.rhs \in Dtvs(C)
         /\ \A d \in Dtvs(C) : d.path # <<>> => Up(d) \in Dtvs(C)
<1> DEFINE of == [c \in C |-> PathPrefixes(c.lhs) \cup PathPrefixes(c.rhs)]
           F == {of[c] : c \in C}
<1>1. Dtvs(C) = UNION F
  BY DEF Dtvs
<1>2. \A c \in C : IsDtv(c.lhs) /\ IsDtv(c.rhs) /\ of[c] = PathPrefixes(c.lhs) \cup PathPrefixes(c.rhs)
  BY DEF AreConstraints
<1>3. \A c \in C : IsFiniteSet(of[c])
  BY <1>2, PrefixesAre, FS_Union
<1> HIDE DEF of
<1>4. IsFiniteSet(F) /\ \A X \in F : IsFiniteSet(X)
  BY <1>3, ImageFinite DEF AreConstraints
<1> HIDE DEF F
<1>5. IsFiniteSet(Dtvs(C))
  BY <1>1, <1>4, FS_UNION
<1>6. \A c \in C : c.lhs \in Dtvs(C) /\ c.rhs \in Dtvs(C)
  BY <1>1, <1>2, PrefixesAre DEF F
<1>7. ASSUME NEW d \in Dtvs(C), d.path # <<>> PROVE Up(d) \in Dtvs(C)
  <2>1. PICK c \in C : d \in PathPrefixes(c.lhs) \/ d \in PathPrefixes(c.rhs)
    BY <1>1, <1>2 DEF F
  <2>2. Up(d) \in PathPrefixes(c.lhs) \/ Up(d) \in PathPrefixes(c.rhs)
    BY <1>2, <1>7, <2>1, PrefixesAre
  <2> QED  BY <1>1, <1>2, <2>2 DEF F
<1> QED  BY <1>5, <1>6, <1>7

\* The order in which the nodes are numbered.
Listed(C) == Enumerated(Dtvs(C))

(* The graph a builder starts from: a node for each of them. *)
LEMMA GraphOfIs ==
  ASSUME NEW C, AreConstraints(C)
  PROVE  LET s == GraphOf(C)
             K == Dtvs(C)
         IN  /\ {"nodes", "edges", "weight", "keys"} = DOMAIN s
             /\ IsGraph(s)
             /\ DOMAIN s.keys = K
             /\ \A d \in K : s.keys[d] \in s.nodes /\ Listed(C)[s.keys[d]] = d
             /\ \A n \in s.nodes : Listed(C)[n] \in K /\ s.keys[Listed(C)[n]] = n
             /\ \A e \in s.edges : \E d \in K : /\ d.path # <<>> /\ e[1] = s.keys[Up(d)]
                                                /\ e[2] = Last(d.path) /\ e[3] = s.keys[d]
             /\ \A d \in K : d.path # <<>> => <<s.keys[Up(d)], Last(d.path), s.keys[d]>> \in s.edges
             /\ \A n \in s.nodes : s.weight[n] = Identity
<1> DEFINE s == GraphOf(C)
           K == Dtvs(C)
           listed == Listed(C)
           number == [d \in K |-> CHOOSE i \in DOMAIN listed : listed[i] = d]
<1>1. /\ listed \in Seq(K)
      /\ \A d \in K : \E i \in DOMAIN listed : listed[i] = d
      /\ \A i, j \in DOMAIN listed : listed[i] = listed[j] => i = j
  BY DtvsAre, EnumeratedIsABijection DEF Listed
<1>2. s = [nodes |-> DOMAIN listed,
           edges |-> {<<number[Up(d)], Last(d.path), number[d]>> : d \in {e \in K : e.path # <<>>}},
           weight |-> [n \in DOMAIN listed |-> Identity],
           keys |-> number]
  BY DEF GraphOf, Listed, Dtvs, Up
<1> HIDE DEF s, listed
<1>3. \A d \in K : number[d] \in DOMAIN listed /\ listed[number[d]] = d
  <2> HIDE DEF K
  <2> QED  BY <1>1
<1>4. DOMAIN number = K
  OBVIOUS
<1> HIDE DEF number
<1>5. /\ s.nodes = DOMAIN listed /\ s.keys = number /\ DOMAIN s = {"nodes", "edges", "weight", "keys"}
      /\ s.edges = {<<number[Up(d)], Last(d.path), number[d]>> : d \in {e \in K : e.path # <<>>}}
      /\ s.weight = [n \in DOMAIN listed |-> Identity]
  BY <1>2
<1>6. ASSUME NEW n \in DOMAIN listed PROVE listed[n] \in K /\ number[listed[n]] = n
  <2>1. listed[n] \in K
    BY <1>1
  <2> HIDE DEF K
  <2> QED  BY <1>1, <1>3, <2>1
<1>7. ASSUME NEW e \in s.edges
      PROVE  \E d \in K : /\ d.path # <<>> /\ e[1] = number[Up(d)]
                          /\ e[2] = Last(d.path) /\ e[3] = number[d]
  <2>1. PICK d \in K : d.path # <<>> /\ e = <<number[Up(d)], Last(d.path), number[d]>>
    BY <1>5
  <2> QED  BY <2>1
<1>8. \A d \in K : d.path # <<>> => <<number[Up(d)], Last(d.path), number[d]>> \in s.edges
  BY <1>5
<1>9. \A e \in s.edges : e[1] \in DOMAIN listed /\ e[3] \in DOMAIN listed
  BY <1>3, <1>7, DtvsAre
<1>10. DOMAIN listed = 1 .. Len(listed) /\ Len(listed) \in Nat
  BY <1>1
<1>11. IsFiniteSet(DOMAIN listed) /\ DOMAIN listed \subseteq Nat
  BY <1>10, FS_Interval
<1>12. IsGraph(s)
  BY <1>5, <1>9, <1>11 DEF IsGraph
<1>13. \A n \in s.nodes : s.weight[n] = Identity
  BY <1>5
<1> QED  BY <1>3, <1>4, <1>5, <1>6, <1>7, <1>8, <1>12, <1>13 DEF s, listed

\* The fields of a graph record.
Fields == {"nodes", "edges", "weight", "keys"}

(* A quotient, field by field. *)
LEMMA QuotientGraphIs ==
  ASSUME NEW s, Fields \subseteq DOMAIN s, NEW rep
  PROVE  LET q == QuotientGraph(s, rep)
         IN  /\ DOMAIN q = DOMAIN s
             /\ q.nodes = {rep[n] : n \in s.nodes}
             /\ q.edges = {<<rep[e[1]], e[2], rep[e[3]]>> : e \in s.edges}
             /\ q.keys = [k \in DOMAIN s.keys |-> rep[s.keys[k]]]
             /\ q.weight = [n \in {rep[m] : m \in s.nodes} |->
                              OperateAll({s.weight[m] : m \in {k \in s.nodes : rep[k] = n}})]
<1> DEFINE N == {rep[n] : n \in s.nodes}
           E == {<<rep[e[1]], e[2], rep[e[3]]>> : e \in s.edges}
           W == [n \in {rep[m] : m \in s.nodes} |->
                  OperateAll({s.weight[m] : m \in {k \in s.nodes : rep[k] = n}})]
           K == [k \in DOMAIN s.keys |-> rep[s.keys[k]]]
           q == QuotientGraph(s, rep)
<1>1. q = [s EXCEPT !.nodes = N, !.edges = E, !.weight = W, !.keys = K]
  BY DEF QuotientGraph
<1> HIDE DEF N, E, W, K, q
<1>2. DOMAIN q = DOMAIN s /\ q.nodes = N /\ q.edges = E /\ q.keys = K /\ q.weight = W
  BY <1>1 DEF Fields
<1> QED  BY <1>2 DEF N, E, W, K, q

(* A quotient is by the classes that are forced. *)
LEMMA QuotientByIs ==
  ASSUME NEW s, NEW rep0
  PROVE  QuotientBy(s, rep0) = QuotientGraph(s, Unified(s, rep0))
BY DEF QuotientBy

(* Labelling changes weights only, and bounds them from above. *)
LEMMA LabelByIs ==
  ASSUME NEW s, Fields \subseteq DOMAIN s, NEW C
  PROVE  LET q == LabelBy(s, C)
         IN  /\ DOMAIN q = DOMAIN s
             /\ q.nodes = s.nodes /\ q.edges = s.edges /\ q.keys = s.keys
             /\ \A n \in s.nodes :
                  q.weight[n].upper = {x \in s.weight[n].upper : \A v \in UpperBounds(s, C, n) : x \in v}
<1> DEFINE W == [n \in s.nodes |->
                  [upper |-> {x \in s.weight[n].upper : \A v \in UpperBounds(s, C, n) : x \in v},
                   lower |-> s.weight[n].lower \cup UNION LowerBounds(s, C, n)]]
           q == LabelBy(s, C)
<1>1. q = [s EXCEPT !.weight = W]
  BY DEF LabelBy
<1>2. \A n \in s.nodes :
        W[n].upper = {x \in s.weight[n].upper : \A v \in UpperBounds(s, C, n) : x \in v}
  OBVIOUS
<1> HIDE DEF W, q
<1>3. DOMAIN q = DOMAIN s /\ q.nodes = s.nodes /\ q.edges = s.edges /\ q.keys = s.keys /\ q.weight = W
  BY <1>1 DEF Fields
<1> QED  BY <1>2, <1>3 DEF q

(* What an integral type in C bounds from above. *)
BoundedBy(C) == {c \in C : ~IsElement(c.lhs) /\ IsElement(c.rhs)}

\* Two fields of one name, or a load and a store, of one type have one type.
ClosedOnFields(K, E) ==
  \A d, e \in K : /\ d.path # <<>> /\ e.path # <<>>
                  /\ SameLabel(Last(d.path), Last(e.path))
                  /\ <<Up(d), Up(e)>> \in E
                  => <<d, e>> \in E

(* What the sketch graph of C says, without its numbering. *)
IsSketchOf(q, C) ==
  LET K == Dtvs(C)
  IN  /\ DOMAIN q.keys = K
      /\ q.nodes = {q.keys[d] : d \in K}
      /\ \A c \in C : q.keys[c.lhs] = q.keys[c.rhs]
      /\ \A e \in q.edges : \E d \in K : /\ d.path # <<>> /\ e[1] = q.keys[Up(d)]
                                         /\ e[2] = Last(d.path) /\ e[3] = q.keys[d]
      /\ \A d \in K : d.path # <<>> => <<q.keys[Up(d)], Last(d.path), q.keys[d]>> \in q.edges
      /\ ClosedOnFields(K, {p \in K \X K : q.keys[p[1]] = q.keys[p[2]]})
      /\ \A E : /\ IsEquivalence(K, E) /\ ClosedOnFields(K, E)
                /\ \A c \in C : <<c.lhs, c.rhs>> \in E
                => \A d, e \in K : q.keys[d] = q.keys[e] => <<d, e>> \in E
      /\ \A d \in K :
           q.weight[q.keys[d]].upper =
             {x \in Top : \A c \in BoundedBy(C) : q.keys[c.lhs] = q.keys[d] => x \in Element[c.rhs.base]}

(* What a built sketch says, whatever order its nodes were numbered in. *)
LEMMA SketchesAre ==
  ASSUME NEW C, AreConstraints(C), NEW q \in BuildAndLabel(C)
  PROVE  IsSketchOf(q, C)
<1> DEFINE s == GraphOf(C)
           K == Dtvs(C)
           listed == Listed(C)
           rep0 == UnitedBy(s, C)
           R == Unified(s, rep0)
           t == QuotientGraph(s, R)
<1>1. q = LabelBy(t, C)
  BY QuotientByIs DEF BuildAndLabel
<1>2. /\ Fields = DOMAIN s
      /\ IsGraph(s)
      /\ DOMAIN s.keys = K
      /\ \A d \in K : s.keys[d] \in s.nodes /\ listed[s.keys[d]] = d
      /\ \A n \in s.nodes : listed[n] \in K /\ s.keys[listed[n]] = n
      /\ \A e \in s.edges : \E d \in K : /\ d.path # <<>> /\ e[1] = s.keys[Up(d)]
                                         /\ e[2] = Last(d.path) /\ e[3] = s.keys[d]
      /\ \A d \in K : d.path # <<>> => <<s.keys[Up(d)], Last(d.path), s.keys[d]>> \in s.edges
      /\ \A n \in s.nodes : s.weight[n] = Identity
  BY GraphOfIs DEF Fields
<1>3. /\ \A c \in C : c.lhs \in K /\ c.rhs \in K
      /\ \A d \in K : d.path # <<>> => Up(d) \in K
  BY DtvsAre
<1> HIDE DEF s, K, listed
<1>4. /\ rep0 \in [s.nodes -> s.nodes]
      /\ \A c \in C : rep0[s.keys[c.lhs]] = rep0[s.keys[c.rhs]]
      /\ \A E : /\ IsEquivalence(s.nodes, E)
                /\ \A c \in C : <<s.keys[c.lhs], s.keys[c.rhs]>> \in E
                => \A a, b \in s.nodes : rep0[a] = rep0[b] => <<a, b>> \in E
  <2>1. IsFiniteSet(C) /\ \A c \in C : s.keys[c.lhs] \in s.nodes /\ s.keys[c.rhs] \in s.nodes
    BY <1>2, <1>3 DEF AreConstraints
  <2> QED  BY <1>2, <2>1, UnitedByIsLeast
<1> HIDE DEF rep0
<1>5. /\ R \in [s.nodes -> s.nodes]
      /\ \A a, b \in s.nodes : rep0[a] = rep0[b] => R[a] = R[b]
      /\ \A e, f \in s.edges :
           SameLabel(e[2], f[2]) /\ R[e[1]] = R[f[1]] => R[e[3]] = R[f[3]]
      /\ \A E : /\ ClosedEquivalence(s, E)
                /\ \A a, b \in s.nodes : rep0[a] = rep0[b] => <<a, b>> \in E
                => \A a, b \in s.nodes : R[a] = R[b] => <<a, b>> \in E
  BY <1>2, <1>4, UnifiedIsLeast
<1> HIDE DEF R
<1>6. /\ DOMAIN t = DOMAIN s
      /\ t.nodes = {R[n] : n \in s.nodes}
      /\ t.edges = {<<R[e[1]], e[2], R[e[3]]>> : e \in s.edges}
      /\ t.keys = [k \in DOMAIN s.keys |-> R[s.keys[k]]]
      /\ t.weight = [n \in {R[m] : m \in s.nodes} |->
                       OperateAll({s.weight[m] : m \in {k \in s.nodes : R[k] = n}})]
  <2>1. Fields \subseteq DOMAIN s
    BY <1>2
  <2> QED  BY <2>1, QuotientGraphIs
<1>7. /\ q.nodes = t.nodes /\ q.edges = t.edges /\ q.keys = t.keys
      /\ \A n \in t.nodes :
           q.weight[n].upper = {x \in t.weight[n].upper : \A v \in UpperBounds(t, C, n) : x \in v}
  <2>1. Fields \subseteq DOMAIN t
    BY <1>2, <1>6
  <2> HIDE DEF t
  <2> QED  BY <1>1, <2>1, LabelByIs
<1> HIDE DEF t
<1>8. DOMAIN q.keys = K /\ \A d \in K : q.keys[d] = R[s.keys[d]] /\ q.keys[d] \in t.nodes
  BY <1>2, <1>6, <1>7
<1>9. q.nodes = {q.keys[d] : d \in K}
  BY <1>2, <1>6, <1>7, <1>8
<1>10. \A c \in C : q.keys[c.lhs] = q.keys[c.rhs]
  BY <1>2, <1>3, <1>4, <1>5, <1>8
<1>11. ASSUME NEW e \in q.edges
       PROVE  \E d \in K : /\ d.path # <<>> /\ e[1] = q.keys[Up(d)]
                           /\ e[2] = Last(d.path) /\ e[3] = q.keys[d]
  <2>1. PICK f \in s.edges : e = <<R[f[1]], f[2], R[f[3]]>>
    BY <1>6, <1>7
  <2>2. PICK d \in K : /\ d.path # <<>> /\ f[1] = s.keys[Up(d)]
                       /\ f[2] = Last(d.path) /\ f[3] = s.keys[d]
    BY <1>2
  <2>3. e[1] = R[f[1]] /\ e[2] = f[2] /\ e[3] = R[f[3]]
    BY <2>1
  <2> QED  BY <1>3, <1>8, <2>2, <2>3
<1>12. ASSUME NEW d \in K, d.path # <<>>
       PROVE  <<q.keys[Up(d)], Last(d.path), q.keys[d]>> \in q.edges
  <2> DEFINE e == <<s.keys[Up(d)], Last(d.path), s.keys[d]>>
  <2>1. e \in s.edges /\ e[1] = s.keys[Up(d)] /\ e[2] = Last(d.path) /\ e[3] = s.keys[d]
    BY <1>2, <1>12
  <2> HIDE DEF e
  <2>2. <<R[e[1]], e[2], R[e[3]]>> \in q.edges
    BY <1>6, <1>7, <2>1
  <2> QED  BY <1>3, <1>8, <1>12, <2>1, <2>2
<1>13. ClosedOnFields(K, {p \in K \X K : q.keys[p[1]] = q.keys[p[2]]})
  <2> SUFFICES ASSUME NEW d \in K, NEW e \in K, d.path # <<>>, e.path # <<>>,
                      SameLabel(Last(d.path), Last(e.path)), q.keys[Up(d)] = q.keys[Up(e)]
               PROVE  q.keys[d] = q.keys[e]
    BY DEF ClosedOnFields
  <2> DEFINE x == <<s.keys[Up(d)], Last(d.path), s.keys[d]>>
             y == <<s.keys[Up(e)], Last(e.path), s.keys[e]>>
  <2>1. /\ x \in s.edges /\ x[1] = s.keys[Up(d)] /\ x[2] = Last(d.path) /\ x[3] = s.keys[d]
        /\ y \in s.edges /\ y[1] = s.keys[Up(e)] /\ y[2] = Last(e.path) /\ y[3] = s.keys[e]
    BY <1>2
  <2> HIDE DEF x, y
  <2>2. R[x[3]] = R[y[3]]
    BY <1>3, <1>5, <1>8, <2>1
  <2> QED  BY <1>8, <2>1, <2>2
<1>14. ASSUME NEW E, IsEquivalence(K, E), ClosedOnFields(K, E), \A c \in C : <<c.lhs, c.rhs>> \in E,
              NEW d \in K, NEW e \in K, q.keys[d] = q.keys[e]
       PROVE  <<d, e>> \in E
  <2> DEFINE F == {p \in s.nodes \X s.nodes : <<listed[p[1]], listed[p[2]]>> \in E}
  <2>1. \A a, b \in s.nodes : <<a, b>> \in F <=> <<listed[a], listed[b]>> \in E
    OBVIOUS
  <2> HIDE DEF F
  <2>2. IsEquivalence(s.nodes, F)
    <3>1. \A a \in s.nodes : <<a, a>> \in F
      BY <1>2, <1>14, <2>1 DEF IsEquivalence
    <3>2. \A a, b \in s.nodes : <<a, b>> \in F => <<b, a>> \in F
      BY <1>2, <1>14, <2>1 DEF IsEquivalence
    <3>3. ASSUME NEW a \in s.nodes, NEW b \in s.nodes, NEW c \in s.nodes, <<a, b>> \in F, <<b, c>> \in F
          PROVE  <<a, c>> \in F
      <4> DEFINE x == listed[a]
                 y == listed[b]
                 z == listed[c]
      <4>1. x \in K /\ y \in K /\ z \in K /\ <<x, y>> \in E /\ <<y, z>> \in E
        BY <1>2, <2>1, <3>3
      <4> HIDE DEF x, y, z
      <4>2. <<x, z>> \in E
        BY <1>14, <4>1 DEF IsEquivalence
      <4> QED  BY <2>1, <4>2 DEF x, z
    <3> QED  BY <3>1, <3>2, <3>3 DEF IsEquivalence
  <2>3. \A a, b \in K : <<s.keys[a], s.keys[b]>> \in F <=> <<a, b>> \in E
    <3> SUFFICES ASSUME NEW a \in K, NEW b \in K
                 PROVE <<s.keys[a], s.keys[b]>> \in F <=> <<a, b>> \in E
      OBVIOUS
    <3> DEFINE x == s.keys[a]
               y == s.keys[b]
    <3>1. x \in s.nodes /\ y \in s.nodes /\ listed[x] = a /\ listed[y] = b
      BY <1>2
    <3> HIDE DEF x, y
    <3>2. <<x, y>> \in F <=> <<a, b>> \in E
      BY <2>1, <3>1
    <3> QED  BY <3>2 DEF x, y
  <2>4. ASSUME NEW x \in s.edges, NEW y \in s.edges, SameLabel(x[2], y[2]), <<x[1], y[1]>> \in F
        PROVE  <<x[3], y[3]>> \in F
    <3>1. PICK a \in K : /\ a.path # <<>> /\ x[1] = s.keys[Up(a)]
                         /\ x[2] = Last(a.path) /\ x[3] = s.keys[a]
      BY <1>2
    <3>2. PICK b \in K : /\ b.path # <<>> /\ y[1] = s.keys[Up(b)]
                         /\ y[2] = Last(b.path) /\ y[3] = s.keys[b]
      BY <1>2
    <3>3. Up(a) \in K /\ Up(b) \in K /\ <<s.keys[Up(a)], s.keys[Up(b)]>> \in F
      BY <1>3, <2>4, <3>1, <3>2
    <3>4. <<Up(a), Up(b)>> \in E
      BY <2>3, <3>3
    <3>5. <<a, b>> \in E
      BY <1>14, <2>4, <3>1, <3>2, <3>4 DEF ClosedOnFields
    <3> QED  BY <2>3, <3>1, <3>2, <3>5
  <2>5. ClosedEquivalence(s, F)
    BY <2>2, <2>4 DEF ClosedEquivalence
  <2>6. \A c \in C : <<s.keys[c.lhs], s.keys[c.rhs]>> \in F
    BY <1>3, <1>14, <2>3
  <2>7. \A a, b \in s.nodes : rep0[a] = rep0[b] => <<a, b>> \in F
    BY <1>4, <2>2, <2>6
  <2>8. \A a, b \in s.nodes : R[a] = R[b] => <<a, b>> \in F
    BY <1>5, <2>5, <2>7
  <2>9. <<s.keys[d], s.keys[e]>> \in F
    BY <1>2, <1>8, <1>14, <2>8
  <2> QED  BY <2>3, <2>9
<1>15. ASSUME NEW d \in K
       PROVE  q.weight[q.keys[d]].upper =
                {x \in Top : \A c \in BoundedBy(C) : q.keys[c.lhs] = q.keys[d] => x \in Element[c.rhs.base]}
  <2> DEFINE n == q.keys[d]
             W == {s.weight[m] : m \in {k \in s.nodes : R[k] = n}}
  <2>1. n \in t.nodes
    BY <1>8
  <2>2. t.weight[n] = OperateAll(W)
    BY <1>6, <2>1
  <2>3. \A w \in W : w.upper = Top
    BY <1>2 DEF Identity
  <2> HIDE DEF W, n
  <2>4. t.weight[n].upper = Top
    BY <2>2, <2>3 DEF OperateAll
  <2>5. q.weight[n].upper = {x \in Top : \A v \in UpperBounds(t, C, n) : x \in v}
    BY <1>7, <2>1, <2>4
  <2>6. \A x : (\A v \in UpperBounds(t, C, n) : x \in v)
                 <=> (\A c \in BoundedBy(C) : q.keys[c.lhs] = n => x \in Element[c.rhs.base])
    BY <1>7 DEF UpperBounds, BoundedBy
  <2> QED  BY <2>5, <2>6 DEF n
<1> QED  BY <1>8, <1>9, <1>10, <1>11, <1>12, <1>13, <1>14, <1>15 DEF IsSketchOf, K

-----------------------------------------------------------------------------
(* What infer_pointers knows of a type variable *)

LabelOf(q, d) == Lookup(q, InitialLabeling(q), d)
Loaded(q, d) == IsLoadedOrStored(q, q.keys[d])

(* A label in terms of the sketch. *)
LEMMA LabelIs ==
  ASSUME NEW C, NEW q, IsSketchOf(q, C), NEW d
  PROVE  LabelOf(q, d) = IF d \notin Dtvs(C) THEN Unknown
                         ELSE IF Loaded(q, d) THEN Pointer
                         ELSE IF q.weight[q.keys[d]].upper \subseteq Element[WeakInt] THEN Integer
                         ELSE Unknown
<1>1. DOMAIN q.keys = Dtvs(C) /\ q.nodes = {q.keys[x] : x \in Dtvs(C)}
  BY DEF IsSketchOf
<1> QED  BY <1>1 DEF LabelOf, Lookup, InitialLabeling, Loaded

(* Before the first round every label is unknown. *)
LEMMA NothingKnown ==
  ASSUME NEW d
  PROVE  LabelOf(NoSketch, d) = Unknown
<1>1. DOMAIN NoSketch.keys = {}
  BY DEF NoSketch
<1> QED  BY <1>1 DEF LabelOf, Lookup

(* Type variables that a constraint unifies have one label. *)
LEMMA UnifiedAlike ==
  ASSUME NEW C, AreConstraints(C), NEW q, IsSketchOf(q, C), NEW c \in C
  PROVE  LabelOf(q, c.lhs) = LabelOf(q, c.rhs)
<1>1. q.keys[c.lhs] = q.keys[c.rhs] /\ c.lhs \in Dtvs(C) /\ c.rhs \in Dtvs(C)
  BY DtvsAre DEF IsSketchOf
<1> QED  BY <1>1, LabelIs DEF Loaded

(* A value that the weakest integral type bounds is known. *)
LEMMA BoundedIsKnown ==
  ASSUME NEW C, AreConstraints(C), NEW q, IsSketchOf(q, C), NEW c \in C,
         ~IsElement(c.lhs), c.rhs = [base |-> WeakInt, path |-> <<>>]
  PROVE  LabelOf(q, c.lhs) # Unknown
<1>1. IsElement(c.rhs) /\ c.rhs.base = WeakInt
  BY InferenceAssumption DEF IsElement
<1>2. c.lhs \in Dtvs(C) /\ c \in BoundedBy(C)
  BY <1>1, DtvsAre DEF BoundedBy
<1>3. q.weight[q.keys[c.lhs]].upper \subseteq Element[WeakInt]
  BY <1>1, <1>2 DEF IsSketchOf
<1> QED  BY <1>2, <1>3, LabelIs DEF Unknown, Integer, Pointer

(* More constraints unify no less. *)
LEMMA KeptUnified ==
  ASSUME NEW B, NEW C, AreConstraints(B), AreConstraints(C), B \subseteq C,
         NEW p, NEW q, IsSketchOf(p, B), IsSketchOf(q, C),
         NEW d \in Dtvs(B), NEW e \in Dtvs(B), p.keys[d] = p.keys[e]
  PROVE  q.keys[d] = q.keys[e] /\ d \in Dtvs(C) /\ e \in Dtvs(C)
<1> DEFINE K == Dtvs(B)
           E == {x \in K \X K : q.keys[x[1]] = q.keys[x[2]]}
<1>1. K \subseteq Dtvs(C)
  BY DEF Dtvs
<1> HIDE DEF K
<1>2. \A a, b \in K : <<a, b>> \in E <=> q.keys[a] = q.keys[b]
  OBVIOUS
<1> DEFINE F == {x \in Dtvs(C) \X Dtvs(C) : q.keys[x[1]] = q.keys[x[2]]}
<1>3. ClosedOnFields(Dtvs(C), F) /\ \A a, b \in Dtvs(C) : <<a, b>> \in F <=> q.keys[a] = q.keys[b]
  <2>1. ClosedOnFields(Dtvs(C), F)
    BY DEF IsSketchOf
  <2> QED  BY <2>1
<1> HIDE DEF E, F
<1>4. IsEquivalence(K, E)
  BY <1>2 DEF IsEquivalence
<1>5. \A a \in K : a.path # <<>> => Up(a) \in K
  BY DtvsAre DEF K
<1>6. ASSUME NEW a \in K, NEW b \in K, a.path # <<>>, b.path # <<>>,
             SameLabel(Last(a.path), Last(b.path)), <<Up(a), Up(b)>> \in E
      PROVE  <<a, b>> \in E
  <2>1. Up(a) \in K /\ Up(b) \in K /\ q.keys[Up(a)] = q.keys[Up(b)]
    BY <1>2, <1>5, <1>6
  <2>2. q.keys[a] = q.keys[b]
    <3>1. a \in Dtvs(C) /\ b \in Dtvs(C) /\ <<Up(a), Up(b)>> \in F
      BY <1>1, <1>3, <2>1
    <3>2. <<a, b>> \in F
      BY <1>3, <1>6, <3>1 DEF ClosedOnFields
    <3> QED  BY <1>3, <3>1, <3>2
  <2> QED  BY <1>2, <2>2
<1>7. ClosedOnFields(K, E)
  BY <1>6 DEF ClosedOnFields
<1>8. \A c \in B : <<c.lhs, c.rhs>> \in E
  <2>1. \A c \in B : c.lhs \in K /\ c.rhs \in K /\ q.keys[c.lhs] = q.keys[c.rhs]
    BY DtvsAre DEF K, IsSketchOf
  <2> QED  BY <1>2, <2>1
<1>9. <<d, e>> \in E
  BY <1>4, <1>7, <1>8 DEF IsSketchOf, K
<1> QED  BY <1>1, <1>2, <1>9 DEF K

(* More constraints leave nothing unknown that was known, and no pointer an *)
(* integer.                                                                 *)
LEMMA MoreIsKnown ==
  ASSUME NEW B, NEW C, AreConstraints(B), AreConstraints(C), B \subseteq C,
         NEW p, NEW q, IsSketchOf(p, B), IsSketchOf(q, C), NEW d
  PROVE  /\ LabelOf(p, d) # Unknown => LabelOf(q, d) # Unknown
         /\ LabelOf(p, d) = Pointer => LabelOf(q, d) = Pointer
<1>1. CASE d \notin Dtvs(B)
  BY <1>1, LabelIs DEF Unknown, Pointer
<1>2. CASE d \in Dtvs(B)
  <2>1. d \in Dtvs(C)
    BY <1>2, KeptUnified
  <2>2. ASSUME Loaded(p, d) PROVE Loaded(q, d)
    <3>1. PICK x \in p.edges : x[1] = p.keys[d] /\ x[2] \in {Load, Store}
      BY <2>2 DEF Loaded, IsLoadedOrStored, EdgesOut
    <3>2. PICK e \in Dtvs(B) : e.path # <<>> /\ x[1] = p.keys[Up(e)] /\ x[2] = Last(e.path)
      BY DEF IsSketchOf
    <3>3. Up(e) \in Dtvs(B) /\ e \in Dtvs(C) /\ q.keys[Up(e)] = q.keys[d]
      <4>1. Up(e) \in Dtvs(B) /\ p.keys[Up(e)] = p.keys[d]
        BY <3>1, <3>2, DtvsAre
      <4>2. q.keys[Up(e)] = q.keys[d]
        BY <1>2, <4>1, KeptUnified
      <4> QED  BY <4>1, <4>2, KeptUnified
    <3> DEFINE y == <<q.keys[Up(e)], Last(e.path), q.keys[e]>>
    <3>4. y \in q.edges /\ y[1] = q.keys[d] /\ y[2] \in {Load, Store}
      BY <3>1, <3>2, <3>3 DEF IsSketchOf
    <3> QED  BY <3>4 DEF Loaded, IsLoadedOrStored, EdgesOut
  <2>3. q.weight[q.keys[d]].upper \subseteq p.weight[p.keys[d]].upper
    <3>1. BoundedBy(B) \subseteq BoundedBy(C) /\ BoundedBy(B) \subseteq B
      BY DEF BoundedBy
    <3>2. \A c \in BoundedBy(B) : p.keys[c.lhs] = p.keys[d] => q.keys[c.lhs] = q.keys[d]
      BY <1>2, <3>1, DtvsAre, KeptUnified
    <3>3. /\ p.weight[p.keys[d]].upper =
               {x \in Top : \A c \in BoundedBy(B) : p.keys[c.lhs] = p.keys[d] => x \in Element[c.rhs.base]}
          /\ q.weight[q.keys[d]].upper =
               {x \in Top : \A c \in BoundedBy(C) : q.keys[c.lhs] = q.keys[d] => x \in Element[c.rhs.base]}
      BY <1>2, <2>1 DEF IsSketchOf
    <3> QED  BY <3>1, <3>2, <3>3
  <2> QED  BY <1>2, <2>1, <2>2, <2>3, LabelIs DEF Unknown, Pointer, Integer
<1> QED  BY <1>1, <1>2

-----------------------------------------------------------------------------
(* The inference of pointers *)

(* The rules: each updates an operand of unknown type, by a known one or by *)
(* the weakest integral type.                                               *)
Operands(a) == {a.lhs, a.rhs, a.res}
AreAdditions(A) ==
  IsFiniteSet(A) /\ \A a \in A : \A d \in Operands(a) : IsDtv(d) /\ ~IsElement(d)

\* The place of an operand in a pattern.
Slot == [x \in {"lhs", "rhs", "res"} |-> IF x = "lhs" THEN 1 ELSE IF x = "rhs" THEN 2 ELSE 3]

Names == {"lhs", "rhs", "res"}

Decides(r) ==
  \E u \in r.updates : /\ u[1] \in Names /\ r.pattern[Slot[u[1]]] = Unknown
                        /\ \/ u[2] = weakint
                           \/ u[2] \in Names /\ r.pattern[Slot[u[2]]] # Unknown

LEMMA RuleDecides ==
  ASSUME NEW i, NEW j, NEW k, NEW U, NEW x \in Names, NEW y \in Names, <<x, y>> \in U,
         <<i, j, k>>[Slot[x]] = Unknown, <<i, j, k>>[Slot[y]] # Unknown
  PROVE  Decides(Rule(i, j, k, U))
<1> DEFINE p == <<i, j, k>>
           u == <<x, y>>
           z == Rule(i, j, k, U)
<1>1. u[1] = x /\ u[2] = y /\ u \in U
  OBVIOUS
<1>2. z.pattern = p /\ z.updates = U
  BY DEF Rule
<1>3. p[Slot[x]] = Unknown /\ p[Slot[y]] # Unknown
  OBVIOUS
<1> HIDE DEF p, u, z
<1>4. Decides(z)
  BY <1>1, <1>2, <1>3 DEF Decides
<1> QED  BY <1>4 DEF z

(* Each rule of the table only writes unknown slots, from known ones. *)
LEMMA RulesDecide == \A r \in Rules : Decides(r)
<1>1. Integer # Unknown /\ Pointer # Unknown
  BY DEF Integer, Pointer, Unknown
<1>2. Decides(Rule(Integer, Integer, Unknown, {<<"res", "lhs">>, <<"res", "rhs">>}))
  <2> DEFINE U == {<<"res", "lhs">>, <<"res", "rhs">>}
  <2>1. <<"res", "lhs">> \in U
    OBVIOUS
  <2> HIDE DEF U
  <2>2. "res" \in Names /\ "lhs" \in Names
    BY DEF Names
  <2>3. /\ <<Integer, Integer, Unknown>>[Slot["res"]] = Unknown
        /\ <<Integer, Integer, Unknown>>[Slot["lhs"]] # Unknown
    BY <1>1 DEF Slot
  <2>4. Decides(Rule(Integer, Integer, Unknown, U))
    BY <2>1, <2>2, <2>3, RuleDecides
  <2> QED  BY <2>4 DEF U
<1>3. Decides(Rule(Pointer, Integer, Unknown, {<<"res", "lhs">>}))
  <2> DEFINE U == {<<"res", "lhs">>}
  <2>1. <<"res", "lhs">> \in U
    OBVIOUS
  <2> HIDE DEF U
  <2>2. "res" \in Names /\ "lhs" \in Names
    BY DEF Names
  <2>3. /\ <<Pointer, Integer, Unknown>>[Slot["res"]] = Unknown
        /\ <<Pointer, Integer, Unknown>>[Slot["lhs"]] # Unknown
    BY <1>1 DEF Slot
  <2>4. Decides(Rule(Pointer, Integer, Unknown, U))
    BY <2>1, <2>2, <2>3, RuleDecides
  <2> QED  BY <2>4 DEF U
<1>4. Decides(Rule(Integer, Pointer, Unknown, {<<"res", "rhs">>}))
  <2> DEFINE U == {<<"res", "rhs">>}
  <2>1. <<"res", "rhs">> \in U
    OBVIOUS
  <2> HIDE DEF U
  <2>2. "res" \in Names /\ "rhs" \in Names
    BY DEF Names
  <2>3. /\ <<Integer, Pointer, Unknown>>[Slot["res"]] = Unknown
        /\ <<Integer, Pointer, Unknown>>[Slot["rhs"]] # Unknown
    BY <1>1 DEF Slot
  <2>4. Decides(Rule(Integer, Pointer, Unknown, U))
    BY <2>1, <2>2, <2>3, RuleDecides
  <2> QED  BY <2>4 DEF U
<1>5. Decides(Rule(Pointer, Unknown, Unknown, {<<"res", "lhs">>, <<"rhs", weakint>>}))
  <2> DEFINE U == {<<"res", "lhs">>, <<"rhs", weakint>>}
  <2>1. <<"res", "lhs">> \in U
    OBVIOUS
  <2> HIDE DEF U
  <2>2. "res" \in Names /\ "lhs" \in Names
    BY DEF Names
  <2>3. /\ <<Pointer, Unknown, Unknown>>[Slot["res"]] = Unknown
        /\ <<Pointer, Unknown, Unknown>>[Slot["lhs"]] # Unknown
    BY <1>1 DEF Slot
  <2>4. Decides(Rule(Pointer, Unknown, Unknown, U))
    BY <2>1, <2>2, <2>3, RuleDecides
  <2> QED  BY <2>4 DEF U
<1>6. Decides(Rule(Unknown, Integer, Pointer, {<<"lhs", "res">>}))
  <2> DEFINE U == {<<"lhs", "res">>}
  <2>1. <<"lhs", "res">> \in U
    OBVIOUS
  <2> HIDE DEF U
  <2>2. "lhs" \in Names /\ "res" \in Names
    BY DEF Names
  <2>3. /\ <<Unknown, Integer, Pointer>>[Slot["lhs"]] = Unknown
        /\ <<Unknown, Integer, Pointer>>[Slot["res"]] # Unknown
    BY <1>1 DEF Slot
  <2>4. Decides(Rule(Unknown, Integer, Pointer, U))
    BY <2>1, <2>2, <2>3, RuleDecides
  <2> QED  BY <2>4 DEF U
<1>7. Decides(Rule(Unknown, Pointer, Unknown, {<<"lhs", weakint>>, <<"res", "rhs">>}))
  <2> DEFINE U == {<<"lhs", weakint>>, <<"res", "rhs">>}
  <2>1. <<"res", "rhs">> \in U
    OBVIOUS
  <2> HIDE DEF U
  <2>2. "res" \in Names /\ "rhs" \in Names
    BY DEF Names
  <2>3. /\ <<Unknown, Pointer, Unknown>>[Slot["res"]] = Unknown
        /\ <<Unknown, Pointer, Unknown>>[Slot["rhs"]] # Unknown
    BY <1>1 DEF Slot
  <2>4. Decides(Rule(Unknown, Pointer, Unknown, U))
    BY <2>1, <2>2, <2>3, RuleDecides
  <2> QED  BY <2>4 DEF U
<1>8. Decides(Rule(Integer, Unknown, Pointer, {<<"rhs", "res">>}))
  <2> DEFINE U == {<<"rhs", "res">>}
  <2>1. <<"rhs", "res">> \in U
    OBVIOUS
  <2> HIDE DEF U
  <2>2. "rhs" \in Names /\ "res" \in Names
    BY DEF Names
  <2>3. /\ <<Integer, Unknown, Pointer>>[Slot["rhs"]] = Unknown
        /\ <<Integer, Unknown, Pointer>>[Slot["res"]] # Unknown
    BY <1>1 DEF Slot
  <2>4. Decides(Rule(Integer, Unknown, Pointer, U))
    BY <2>1, <2>2, <2>3, RuleDecides
  <2> QED  BY <2>4 DEF U
<1> QED  BY <1>2, <1>3, <1>4, <1>5, <1>6, <1>7, <1>8 DEF Rules

(* A pattern lists the labels of the operands. *)
LEMMA PatternIs ==
  ASSUME NEW q, NEW a
  PROVE  /\ PatternIn(q, a)[1] = LabelOf(q, a["lhs"])
         /\ PatternIn(q, a)[2] = LabelOf(q, a["rhs"])
         /\ PatternIn(q, a)[3] = LabelOf(q, a["res"])
         /\ \A x \in Names : PatternIn(q, a)[Slot[x]] = LabelOf(q, a[x])
BY DEF PatternIn, Pattern, LabelOf, Slot, Names

(* What a round adds are constraints on operands. *)
LEMMA InferredAreConstraints ==
  ASSUME AreAdditions(adds), NEW q, NEW labels
  PROVE  AreConstraints(ApplyAddConstraints(q, labels))
<1> DEFINE new == [a \in adds |-> {ConstraintOf(a, u) : u \in ConsToLabelUpdate(Pattern(q, labels, a))}]
           F == {new[a] : a \in adds}
           U == UNION {r.updates : r \in Rules}
<1>1. ApplyAddConstraints(q, labels) = UNION F
  BY DEF ApplyAddConstraints
<1>2. \A p : ConsToLabelUpdate(p) \subseteq U
  BY DEF ConsToLabelUpdate, RulesFor
<1>3. IsFiniteSet(U) /\ \A u \in U : u[1] \in Names /\ u[2] \in Names \cup {weakint}
  <2>1. U \subseteq Names \X (Names \cup {weakint})
    BY DEF Rules, Rule, Names
  <2>2. IsFiniteSet(Names \X (Names \cup {weakint}))
    <3>1. IsFiniteSet({"lhs"}) /\ IsFiniteSet({"rhs"}) /\ IsFiniteSet({"res"}) /\ IsFiniteSet({weakint})
      BY FS_Singleton
    <3>2. IsFiniteSet({"lhs"} \cup {"rhs"})
      BY <3>1, FS_Union
    <3>3. IsFiniteSet(({"lhs"} \cup {"rhs"}) \cup {"res"})
      BY <3>1, <3>2, FS_Union
    <3>4. Names = ({"lhs"} \cup {"rhs"}) \cup {"res"}
      BY DEF Names
    <3>5. IsFiniteSet(Names \cup {weakint})
      BY <3>1, <3>3, <3>4, FS_Union
    <3> QED  BY <3>3, <3>4, <3>5, FS_Product
  <2> HIDE DEF U
  <2> QED  BY <2>1, <2>2, FS_Subset
<1> HIDE DEF U
<1>4. ASSUME NEW a \in adds PROVE IsFiniteSet(new[a])
  <2> DEFINE T == ConsToLabelUpdate(Pattern(q, labels, a))
             t == [u \in T |-> ConstraintOf(a, u)]
  <2>1. IsFiniteSet(T)
    BY <1>2, <1>3, FS_Subset
  <2>2. IsFiniteSet({t[u] : u \in T})
    <3> HIDE DEF T, t
    <3> QED  BY <2>1, ImageFinite
  <2>3. new[a] = {t[u] : u \in T}
    OBVIOUS
  <2> QED  BY <2>2, <2>3
<1>5. IsFiniteSet(UNION F)
  <2>1. IsFiniteSet(F) /\ \A X \in F : IsFiniteSet(X)
    <3> HIDE DEF new
    <3> QED  BY <1>4, ImageFinite DEF AreAdditions
  <2> HIDE DEF F
  <2> QED  BY <2>1, FS_UNION
<1>6. ASSUME NEW c \in UNION F PROVE IsDtv(c.lhs) /\ IsDtv(c.rhs)
  <2>1. PICK a \in adds : c \in {ConstraintOf(a, u) : u \in ConsToLabelUpdate(Pattern(q, labels, a))}
    BY <1>6
  <2>2. PICK u \in ConsToLabelUpdate(Pattern(q, labels, a)) : c = ConstraintOf(a, u)
    BY <2>1
  <2>3. u[1] \in Names /\ u[2] \in Names \cup {weakint}
    BY <1>2, <1>3
  <2>4. \A x \in Names : IsDtv(a[x])
    BY DEF AreAdditions, Operands, Names
  <2>5. c.lhs = a[u[1]] /\ c.rhs = AffectingType(a, u[2])
    BY <2>2 DEF ConstraintOf
  <2>6. IsDtv([base |-> WeakInt, path |-> <<>>])
    BY DEF IsDtv
  <2> QED  BY <2>3, <2>4, <2>5, <2>6 DEF AffectingType
<1> QED  BY <1>1, <1>5, <1>6 DEF AreConstraints

(* A round that adds no constraint leaves nothing to infer. *)
LEMMA SaturatedRound ==
  ASSUME AreAdditions(adds), NEW C, AreConstraints(C), NEW q, IsSketchOf(q, C),
         ApplyAddConstraints(q, InitialLabeling(q)) \subseteq C,
         NEW a \in adds
  PROVE  RulesFor(PatternIn(q, a)) = {}
<1> SUFFICES ASSUME NEW r \in Rules, r.pattern = PatternIn(q, a) PROVE FALSE
  BY DEF RulesFor
<1> DEFINE p == PatternIn(q, a)
<1>1. PICK u \in r.updates : /\ u[1] \in Names
                             /\ p[Slot[u[1]]] = Unknown
                             /\ \/ u[2] = weakint
                                \/ u[2] \in Names /\ p[Slot[u[2]]] # Unknown
  BY RulesDecide DEF Decides
<1>2. u \in ConsToLabelUpdate(p)
  BY DEF ConsToLabelUpdate, RulesFor
<1>3. ConstraintOf(a, u) \in C
  BY <1>2 DEF ApplyAddConstraints, PatternIn
<1> DEFINE c == ConstraintOf(a, u)
<1>4. c.lhs = a[u[1]] /\ c.rhs = AffectingType(a, u[2])
  BY DEF ConstraintOf
<1>5. \A x \in Names : p[Slot[x]] = LabelOf(q, a[x])
  BY PatternIs
<1>6. \A x \in Names : ~IsElement(a[x])
  BY DEF AreAdditions, Operands, Names
<1> HIDE DEF c, p
<1>7. CASE u[2] = weakint
  <2>1. c.rhs = [base |-> WeakInt, path |-> <<>>] /\ ~IsElement(c.lhs)
    BY <1>1, <1>4, <1>6, <1>7 DEF AffectingType
  <2>2. LabelOf(q, c.lhs) # Unknown
    BY <1>3, <2>1, BoundedIsKnown DEF c
  <2> QED  BY <1>1, <1>4, <1>5, <2>2
<1>8. CASE u[2] # weakint
  <2>1. c.rhs = a[u[2]]
    BY <1>4, <1>8 DEF AffectingType
  <2>2. LabelOf(q, c.lhs) = LabelOf(q, c.rhs)
    BY <1>3, UnifiedAlike DEF c
  <2> QED  BY <1>1, <1>4, <1>5, <1>8, <2>1, <2>2
<1> QED  BY <1>7, <1>8

-----------------------------------------------------------------------------
(* The inductive invariant: a sketch is one of constraints that are still   *)
(* known, and of all of them while its labels are in use.                   *)
InferInv ==
  /\ AreConstraints(cons)
  /\ AreAdditions(adds)
  /\ stage = "build" => \/ sg = NoSketch
                        \/ \E B \in SUBSET cons : AreConstraints(B) /\ IsSketchOf(sg, B)
  /\ stage # "build" => IsSketchOf(sg, cons)
  /\ stage = "done" => ApplyAddConstraints(sg, InitialLabeling(sg)) \subseteq cons

LEMMA InferInitInvariant == InferInit => InferInv
BY InferenceAssumption DEF InferInit, InferInv, AreConstraints, AreAdditions, Operands

LEMMA BuildInvariant ==
  ASSUME InferInv, Build
  PROVE  InferInv'
<1>1. sg' \in BuildAndLabel(cons) /\ stage' = "apply" /\ UNCHANGED <<adds, cons>>
  BY DEF Build
<1>2. IsSketchOf(sg', cons)
  BY <1>1, SketchesAre DEF InferInv
<1> QED  BY <1>1, <1>2 DEF InferInv

LEMMA ApplyInvariant ==
  ASSUME InferInv, Apply
  PROVE  InferInv'
<1> DEFINE new == ApplyAddConstraints(sg, InitialLabeling(sg))
<1>1. /\ stage = "apply" /\ cons' = cons \cup new /\ UNCHANGED <<adds, sg>>
      /\ stage' = IF cons' # cons THEN "build" ELSE "done"
  BY DEF Apply, WithInferred
<1>2. AreConstraints(new) /\ AreConstraints(cons) /\ IsSketchOf(sg, cons) /\ AreAdditions(adds)
  BY <1>1, InferredAreConstraints DEF InferInv
<1>3. AreConstraints(cons')
  BY <1>1, <1>2, FS_Union DEF AreConstraints
<1>4. CASE cons' # cons
  <2>1. cons \in SUBSET cons'
    BY <1>1
  <2> HIDE DEF new
  <2> QED  BY <1>1, <1>2, <1>3, <1>4, <2>1 DEF InferInv
<1>5. CASE cons' = cons
  <2>1. new \subseteq cons
    BY <1>1, <1>5
  <2>2. ApplyAddConstraints(sg, InitialLabeling(sg))' = new
    BY <1>1 DEF ApplyAddConstraints, ConstraintOf, InitialLabeling
  <2> HIDE DEF new
  <2> QED  BY <1>1, <1>2, <1>3, <1>5, <2>1, <2>2 DEF InferInv
<1> QED  BY <1>4, <1>5

LEMMA InferStutterInvariant ==
  ASSUME InferInv, UNCHANGED inferVars
  PROVE  InferInv'
<1>1. UNCHANGED <<adds, cons, sg, stage>>
  BY DEF inferVars
<1>2. ApplyAddConstraints(sg, InitialLabeling(sg))' = ApplyAddConstraints(sg, InitialLabeling(sg))
  BY <1>1 DEF ApplyAddConstraints, ConstraintOf, InitialLabeling
<1> QED  BY <1>1, <1>2 DEF InferInv

LEMMA InferInvariance == InferSpec => []InferInv
<1>1. InferInv /\ [InferNext]_inferVars => InferInv'
  BY BuildInvariant, ApplyInvariant, InferStutterInvariant DEF InferNext
<1> QED  BY InferInitInvariant, <1>1, PTL DEF InferSpec

(* When infer_pointers stops, no rule has anything left to decide. *)
THEOREM NothingIsLeftToInfer == InferSpec => []NothingLeftToInfer
<1>1. InferInv => NothingLeftToInfer
  BY SaturatedRound DEF InferInv, NothingLeftToInfer
<1> QED  BY <1>1, InferInvariance, PTL

(* A round loses nothing that an earlier one knew of an operand, although   *)
(* it starts from a new sketch in which more nodes are one.                 *)
THEOREM KnownOperandsStayKnown == InferSpec => KnownStaysKnown
<1> DEFINE Kept(a, i) == /\ PatternIn(sg, a)[i] # Unknown => PatternIn(sg', a)[i] # Unknown
                         /\ PatternIn(sg, a)[i] = Pointer => PatternIn(sg', a)[i] = Pointer
<1>1. ASSUME InferInv, [InferNext]_inferVars, sg' # sg, NEW a \in adds, NEW i \in 1..3
      PROVE  Kept(a, i)
  <2>1. stage = "build" /\ sg' \in BuildAndLabel(cons) /\ AreConstraints(cons)
    BY <1>1 DEF InferInv, InferNext, Build, Apply, inferVars
  <2>2. IsSketchOf(sg', cons)
    BY <2>1, SketchesAre
  <2>3. \A d : /\ LabelOf(sg, d) # Unknown => LabelOf(sg', d) # Unknown
               /\ LabelOf(sg, d) = Pointer => LabelOf(sg', d) = Pointer
    <3>1. CASE sg = NoSketch
      BY <3>1, NothingKnown DEF Unknown, Pointer
    <3>2. CASE sg # NoSketch
      <4>1. PICK B \in SUBSET cons : AreConstraints(B) /\ IsSketchOf(sg, B)
        BY <1>1, <2>1, <3>2 DEF InferInv
      <4> QED  BY <2>1, <2>2, <4>1, MoreIsKnown
    <3> QED  BY <3>1, <3>2
  <2>4. i = 1 \/ i = 2 \/ i = 3
    OBVIOUS
  <2> QED  BY <2>3, <2>4, PatternIs
<1>2. InferInv /\ [InferNext]_inferVars
        => [\A a \in adds, i \in 1..3 :
              /\ PatternIn(sg, a)[i] # Unknown => PatternIn(sg', a)[i] # Unknown
              /\ PatternIn(sg, a)[i] = Pointer => PatternIn(sg', a)[i] = Pointer]_sg
  BY <1>1
<1> QED  BY <1>2, InferInvariance, PTL DEF InferSpec, KnownStaysKnown

-----------------------------------------------------------------------------
(* What is displaced from where *)

\* One more displacement from what D holds.
DisplaceOnce(s, D) ==
  D \cup {<<x[2][3], x[1][2] + Number(x[2])>> :
            x \in {y \in D \X s.edges : y[2][1] = y[1][1] /\ Kind(y[2]) = "add"}}

AddEdge(s, e) == e \in s.edges /\ Kind(e) = "add"

(* One displacement, by its edges. *)
LEMMA DisplacedOnce ==
  ASSUME NEW s, NEW D
  PROVE  /\ D \subseteq DisplaceOnce(s, D)
         /\ \A d \in D : \A e : AddEdge(s, e) /\ e[1] = d[1] => <<e[3], d[2] + Number(e)>> \in DisplaceOnce(s, D)
         /\ \A x \in DisplaceOnce(s, D) :
              x \in D \/ \E d \in D, e \in s.edges : /\ AddEdge(s, e) /\ e[1] = d[1]
                                                     /\ x = <<e[3], d[2] + Number(e)>>
<1>1. ASSUME NEW d \in D, NEW e, AddEdge(s, e), e[1] = d[1]
      PROVE  <<e[3], d[2] + Number(e)>> \in DisplaceOnce(s, D)
  <2> DEFINE x == <<d, e>>
  <2>1. x \in D \X s.edges /\ x[1] = d /\ x[2] = e
    BY <1>1 DEF AddEdge
  <2> HIDE DEF x
  <2>2. <<x[2][3], x[1][2] + Number(x[2])>> \in DisplaceOnce(s, D)
    BY <1>1, <2>1 DEF DisplaceOnce, AddEdge
  <2> QED  BY <2>1, <2>2
<1>2. ASSUME NEW x \in DisplaceOnce(s, D), x \notin D
      PROVE  \E d \in D, e \in s.edges : /\ AddEdge(s, e) /\ e[1] = d[1]
                                         /\ x = <<e[3], d[2] + Number(e)>>
  <2>1. PICK y \in D \X s.edges : /\ y[2][1] = y[1][1] /\ Kind(y[2]) = "add"
                                  /\ x = <<y[2][3], y[1][2] + Number(y[2])>>
    BY <1>2 DEF DisplaceOnce
  <2>2. y[1] \in D /\ y[2] \in s.edges
    OBVIOUS
  <2> QED  BY <2>1, <2>2 DEF AddEdge
<1>3. D \subseteq DisplaceOnce(s, D)
  BY DEF DisplaceOnce
<1> QED  BY <1>1, <1>2, <1>3

\* Displacements and offsets can be added up.
Sums(s) == \A e \in s.edges : Number(e) \in Int

\* d is where k leads by at most two displacements.
DisplacedBy(s, k, d) ==
  \/ d = <<s.keys[k], 0>>
  \/ \E e \in s.edges : AddEdge(s, e) /\ e[1] = s.keys[k] /\ d = <<e[3], Number(e)>>
  \/ \E e, f \in s.edges : /\ AddEdge(s, e) /\ e[1] = s.keys[k]
                           /\ AddEdge(s, f) /\ f[1] = e[3]
                           /\ d = <<f[3], Number(e) + Number(f)>>

(* Two displacements, by their edges. *)
LEMMA DisplacedIs ==
  ASSUME NEW s, Sums(s), NEW k
  PROVE  /\ <<s.keys[k], 0>> \in Displaced(s, k)
         /\ \A e : AddEdge(s, e) /\ e[1] = s.keys[k] => <<e[3], Number(e)>> \in Displaced(s, k)
         /\ \A e, f : AddEdge(s, e) /\ e[1] = s.keys[k] /\ AddEdge(s, f) /\ f[1] = e[3]
                        => <<f[3], Number(e) + Number(f)>> \in Displaced(s, k)
         /\ \A d \in Displaced(s, k) : DisplacedBy(s, k, d)
<1> DEFINE D0 == {<<s.keys[k], 0>>}
           D1 == DisplaceOnce(s, D0)
           D2 == DisplaceOnce(s, D1)
<1>1. Displaced(s, k) = D2
  BY DEF Displaced, DisplaceOnce
<1>2. \A e : AddEdge(s, e) => Number(e) \in Int /\ 0 + Number(e) = Number(e)
  BY DEF AddEdge, Sums
<1>3. <<s.keys[k], 0>> \in D0 /\ \A d \in D0 : d = <<s.keys[k], 0>> /\ d[1] = s.keys[k] /\ d[2] = 0
  OBVIOUS
<1> HIDE DEF D0, D1, D2
<1>4. D0 \subseteq D1 /\ D1 \subseteq D2
  BY DisplacedOnce DEF D1, D2
<1>5. ASSUME NEW e, AddEdge(s, e), e[1] = s.keys[k] PROVE <<e[3], Number(e)>> \in D1
  <2> DEFINE d == <<s.keys[k], 0>>
  <2>1. d \in D0 /\ d[1] = s.keys[k] /\ d[2] = 0
    BY <1>3
  <2> HIDE DEF d
  <2>2. <<e[3], d[2] + Number(e)>> \in D1
    BY <1>5, <2>1, DisplacedOnce DEF D1
  <2> QED  BY <1>2, <1>5, <2>1, <2>2
<1>6. ASSUME NEW e, AddEdge(s, e), e[1] = s.keys[k], NEW f, AddEdge(s, f), f[1] = e[3]
      PROVE <<f[3], Number(e) + Number(f)>> \in D2
  <2> DEFINE d == <<e[3], Number(e)>>
  <2>1. d \in D1 /\ d[1] = e[3] /\ d[2] = Number(e)
    BY <1>5, <1>6
  <2> HIDE DEF d
  <2>2. <<f[3], d[2] + Number(f)>> \in D2
    BY <1>6, <2>1, DisplacedOnce DEF D2
  <2> QED  BY <2>1, <2>2
<1>7. ASSUME NEW d \in D1
      PROVE  \/ d = <<s.keys[k], 0>>
             \/ \E e \in s.edges : AddEdge(s, e) /\ e[1] = s.keys[k] /\ d = <<e[3], Number(e)>>
  <2>1. CASE d \in D0
    BY <1>3, <2>1
  <2>2. CASE d \notin D0
    <3>1. PICK c \in D0, e \in s.edges : AddEdge(s, e) /\ e[1] = c[1] /\ d = <<e[3], c[2] + Number(e)>>
      BY <2>2, DisplacedOnce DEF D1
    <3> QED  BY <1>2, <1>3, <3>1
  <2> QED  BY <2>1, <2>2
<1>8. ASSUME NEW d \in D2
      PROVE  DisplacedBy(s, k, d)
  <2>1. CASE d \in D1
    BY <1>7, <2>1 DEF DisplacedBy
  <2>2. CASE d \notin D1
    <3>1. PICK c \in D1, f \in s.edges : AddEdge(s, f) /\ f[1] = c[1] /\ d = <<f[3], c[2] + Number(f)>>
      BY <2>2, DisplacedOnce DEF D2
    <3>2. CASE c = <<s.keys[k], 0>>
      <4>1. c[1] = s.keys[k] /\ c[2] = 0
        BY <3>2
      <4> QED  BY <1>2, <3>1, <4>1 DEF DisplacedBy, AddEdge
    <3>3. CASE c # <<s.keys[k], 0>>
      <4>1. PICK e \in s.edges : AddEdge(s, e) /\ e[1] = s.keys[k] /\ c = <<e[3], Number(e)>>
        BY <1>7, <3>3
      <4>2. c[1] = e[3] /\ c[2] = Number(e)
        BY <4>1
      <4> QED  BY <3>1, <4>1, <4>2 DEF DisplacedBy
    <3> QED  BY <3>2, <3>3
  <2> QED  BY <2>1, <2>2
<1> QED  BY <1>1, <1>3, <1>4, <1>5, <1>6, <1>8

\* From d a load or store x leads to the field f, where o is.
ContentAt(s, d, x, f, o) ==
  /\ x \in s.edges /\ x[1] = d[1] /\ Kind(x) \in {"load", "store"}
  /\ f \in s.edges /\ f[1] = x[3] /\ Kind(f) = "field"
  /\ o \in DOMAIN s.keys /\ s.keys[o] = f[3]

(* The contents of k, by the edges that lead to them. *)
LEMMA ContentsAre ==
  ASSUME NEW s, NEW k
  PROVE  /\ \A c \in Contents(s, k) : \E d \in Displaced(s, k), x, f \in s.edges, o \in DOMAIN s.keys :
                                        ContentAt(s, d, x, f, o) /\ c = <<d[2] + Number(f), o>>
         /\ \A d \in Displaced(s, k) : \A x, f, o :
              ContentAt(s, d, x, f, o) => <<d[2] + Number(f), o>> \in Contents(s, k)
<1> DEFINE Loads(d) == {x \in EdgesOut(s, d[1]) : Kind(x) \in {"load", "store"}}
           FieldsAt(x) == {f \in EdgesOut(s, x[3]) : Kind(f) = "field"}
           Of(d, f) == {<<d[2] + Number(f), o>> : o \in {o \in DOMAIN s.keys : s.keys[o] = f[3]}}
<1>1. Contents(s, k) =
        UNION {UNION {Of(d, f) : f \in UNION {FieldsAt(x) : x \in Loads(d)}} : d \in Displaced(s, k)}
  BY DEF Contents
<1>2. \A d, x : x \in Loads(d) <=> x \in s.edges /\ x[1] = d[1] /\ Kind(x) \in {"load", "store"}
  BY DEF EdgesOut
<1>3. \A x, f : f \in FieldsAt(x) <=> f \in s.edges /\ f[1] = x[3] /\ Kind(f) = "field"
  BY DEF EdgesOut
<1>4. \A d, f, c : c \in Of(d, f) <=> \E o \in DOMAIN s.keys : s.keys[o] = f[3] /\ c = <<d[2] + Number(f), o>>
  OBVIOUS
<1> HIDE DEF Loads, FieldsAt, Of
<1>5. ASSUME NEW c \in Contents(s, k)
      PROVE  \E d \in Displaced(s, k), x, f \in s.edges, o \in DOMAIN s.keys :
               ContentAt(s, d, x, f, o) /\ c = <<d[2] + Number(f), o>>
  <2>1. PICK d \in Displaced(s, k) : c \in UNION {Of(d, f) : f \in UNION {FieldsAt(x) : x \in Loads(d)}}
    BY <1>1
  <2>2. PICK f \in UNION {FieldsAt(x) : x \in Loads(d)} : c \in Of(d, f)
    BY <2>1
  <2>3. PICK x \in Loads(d) : f \in FieldsAt(x)
    BY <2>2
  <2>4. PICK o \in DOMAIN s.keys : s.keys[o] = f[3] /\ c = <<d[2] + Number(f), o>>
    BY <1>4, <2>2
  <2> QED  BY <1>2, <1>3, <2>3, <2>4 DEF ContentAt
<1>6. ASSUME NEW d \in Displaced(s, k), NEW x, NEW f, NEW o, ContentAt(s, d, x, f, o)
      PROVE  <<d[2] + Number(f), o>> \in Contents(s, k)
  <2>1. x \in Loads(d) /\ f \in FieldsAt(x) /\ <<d[2] + Number(f), o>> \in Of(d, f)
    BY <1>2, <1>3, <1>4, <1>6 DEF ContentAt
  <2> QED  BY <1>1, <2>1
<1> QED  BY <1>5, <1>6

-----------------------------------------------------------------------------
(* What a transform does to the graph *)

\* The edges that are then quotiented.
Relabelled(s, p) == (s.edges \ RemovedEdges(s, p)) \cup NewEdges(s, p)

(* The parts of an edge. *)
LEMMA EdgesAre ==
  ASSUME NEW s, IsSketchGraph(s)
  PROVE  \A e \in s.edges : /\ e = <<e[1], e[2], e[3]>> /\ e[1] \in s.nodes /\ e[3] \in s.nodes
                            /\ e[2] = <<Kind(e), Number(e)>> /\ Number(e) \in Int
                            /\ Kind(e) \in {"add", "field", "load", "store", "in", "out"}
<1> SUFFICES ASSUME NEW e \in s.edges
             PROVE  /\ e = <<e[1], e[2], e[3]>> /\ e[1] \in s.nodes /\ e[3] \in s.nodes
                    /\ e[2] = <<Kind(e), Number(e)>> /\ Number(e) \in Int
                    /\ Kind(e) \in {"add", "field", "load", "store", "in", "out"}
  OBVIOUS
<1>1. e \in s.nodes \X FieldLabels \X s.nodes
  BY DEF IsSketchGraph
<1>2. e = <<e[1], e[2], e[3]>> /\ e[1] \in s.nodes /\ e[2] \in FieldLabels /\ e[3] \in s.nodes
  BY <1>1
<1> QED  BY <1>2 DEF FieldLabels, Kind, Number

(* A new edge is a field, at the sum of the two numbers. *)
LEMMA NewEdgesAre ==
  ASSUME NEW s, IsSketchGraph(s), NEW p
  PROVE  /\ NewEdges(s, p) \subseteq s.nodes \X FieldLabels \X s.nodes
         /\ \A f \in TargetFieldEdges(s, p), e \in SourceEdges(s, p) :
              <<f[1], <<"field", Number(f) + Number(e)>>, f[3]>> \in NewEdges(s, p)
<1>1. TargetFieldEdges(s, p) \subseteq s.edges /\ SourceEdges(s, p) \subseteq s.edges
  BY DEF TargetFieldEdges, EdgesOut, SourceEdges, In
<1>2. ASSUME NEW n \in NewEdges(s, p)
      PROVE  n \in s.nodes \X FieldLabels \X s.nodes
  <2>1. PICK x \in TargetFieldEdges(s, p) \X SourceEdges(s, p) :
               n = <<x[1][1], <<"field", Number(x[1]) + Number(x[2])>>, x[1][3]>>
    BY <1>2 DEF NewEdges
  <2>2. x[1] \in s.edges /\ x[2] \in s.edges
    BY <1>1
  <2>3. x[1][1] \in s.nodes /\ x[1][3] \in s.nodes /\ Number(x[1]) + Number(x[2]) \in Int
    BY <2>2, EdgesAre
  <2>4. <<"field", Number(x[1]) + Number(x[2])>> \in FieldLabels
    BY <2>3 DEF FieldLabels
  <2> QED  BY <2>1, <2>3, <2>4
<1>3. ASSUME NEW f \in TargetFieldEdges(s, p), NEW e \in SourceEdges(s, p)
      PROVE  <<f[1], <<"field", Number(f) + Number(e)>>, f[3]>> \in NewEdges(s, p)
  <2> DEFINE x == <<f, e>>
  <2>1. x \in TargetFieldEdges(s, p) \X SourceEdges(s, p) /\ x[1] = f /\ x[2] = e
    OBVIOUS
  <2> HIDE DEF x
  <2>2. <<x[1][1], <<"field", Number(x[1]) + Number(x[2])>>, x[1][3]>> \in NewEdges(s, p)
    BY <2>1 DEF NewEdges
  <2> QED  BY <2>1, <2>2
<1> QED  BY <1>2, <1>3

(* The pointer and the variables it is displaced from are in one group. *)
LEMMA GroupedIs ==
  ASSUME NEW s, IsSketchGraph(s), NEW p \in s.nodes
  PROVE  /\ Grouped(s, p) \in [s.nodes -> s.nodes]
         /\ \A e \in SourceEdges(s, p) : e[1] \in s.nodes /\ Grouped(s, p)[e[1]] = Grouped(s, p)[p]
<1> DEFINE group == {p} \cup {e[1] : e \in SourceEdges(s, p)}
           keep == CHOOSE n \in group : \A m \in group : n <= m
<1>1. \A e \in SourceEdges(s, p) : e \in s.edges /\ e[1] \in s.nodes
  BY EdgesAre DEF SourceEdges, In
<1>2. group \subseteq s.nodes /\ group # {} /\ group \subseteq Nat
  BY <1>1 DEF IsSketchGraph
<1>3. keep \in group
  <2> HIDE DEF group
  <2>1. \E n \in group : \A m \in group : n <= m
    BY <1>2, LeastNatural
  <2> QED  BY <2>1
<1>4. Grouped(s, p) = [n \in s.nodes |-> IF n \in group THEN keep ELSE n]
  BY DEF Grouped
<1>5. p \in group /\ \A e \in SourceEdges(s, p) : e[1] \in group
  OBVIOUS
<1> HIDE DEF group, keep
<1> QED  BY <1>1, <1>2, <1>3, <1>4, <1>5

(* A transform is a homomorphism of the relabelled graph, which sends the   *)
(* pointer and the variables it is displaced from to one node.              *)
MapsTo(s, p, t, R) ==
  /\ R \in [s.nodes -> s.nodes]
  /\ \A e \in SourceEdges(s, p) : R[e[1]] = R[p]
  /\ DOMAIN t = DOMAIN s
  /\ t.nodes = {R[n] : n \in s.nodes}
  /\ t.edges = {<<R[e[1]], e[2], R[e[3]]>> : e \in Relabelled(s, p)}
  /\ t.keys = [k \in DOMAIN s.keys |-> R[s.keys[k]]]

(* A transform has such a homomorphism, and yields a graph. *)
LEMMA TransformedIs ==
  ASSUME NEW s, IsSketchGraph(s), NEW p \in s.nodes
  PROVE  /\ \E R : MapsTo(s, p, Transformed(s, p), R)
         /\ IsSketchGraph(Transformed(s, p))
<1> DEFINE E == Relabelled(s, p)
           h == [s EXCEPT !.edges = (@ \ RemovedEdges(s, p)) \cup NewEdges(s, p)]
           R == Unified(h, Grouped(s, p))
           t == Transformed(s, p)
<1>1. Fields \subseteq DOMAIN s
  BY DEF IsSketchGraph, Fields
<1>2. DOMAIN h = DOMAIN s /\ h.nodes = s.nodes /\ h.keys = s.keys /\ h.edges = E
  BY <1>1 DEF Fields, Relabelled
<1>3. t = QuotientGraph(h, R)
  BY QuotientByIs DEF Transformed
<1> HIDE DEF h, t
<1>4. E \subseteq s.nodes \X FieldLabels \X s.nodes
  BY NewEdgesAre DEF Relabelled, IsSketchGraph
<1>5. IsGraph(h)
  <2>1. \A e \in E : e[1] \in s.nodes /\ e[3] \in s.nodes
    <3> HIDE DEF E
    <3> QED  BY <1>4
  <2> QED  BY <1>2, <2>1 DEF IsGraph, IsSketchGraph
<1>6. R \in [s.nodes -> s.nodes] /\ \A a, b \in s.nodes : Grouped(s, p)[a] = Grouped(s, p)[b] => R[a] = R[b]
  BY <1>2, <1>5, GroupedIs, UnifiedIsLeast
<1> HIDE DEF R, E
<1>7. \A e \in SourceEdges(s, p) : R[e[1]] = R[p]
  BY <1>6, GroupedIs
<1>8. /\ DOMAIN t = DOMAIN s
      /\ t.nodes = {R[n] : n \in s.nodes}
      /\ t.edges = {<<R[e[1]], e[2], R[e[3]]>> : e \in E}
      /\ t.keys = [k \in DOMAIN s.keys |-> R[s.keys[k]]]
  <2> DEFINE q == QuotientGraph(h, R)
  <2>1. Fields \subseteq DOMAIN h
    BY <1>1, <1>2
  <2>2. /\ DOMAIN q = DOMAIN h
        /\ q.nodes = {R[n] : n \in h.nodes}
        /\ q.edges = {<<R[e[1]], e[2], R[e[3]]>> : e \in h.edges}
        /\ q.keys = [k \in DOMAIN h.keys |-> R[h.keys[k]]]
        /\ q.weight = [n \in {R[m] : m \in h.nodes} |->
                         OperateAll({h.weight[m] : m \in {k \in h.nodes : R[k] = n}})]
    BY <2>1, QuotientGraphIs
  <2>3. t = q
    BY <1>3
  <2> HIDE DEF q
  <2> QED  BY <1>2, <2>2, <2>3
<1>9. MapsTo(s, p, t, R)
  BY <1>6, <1>7, <1>8 DEF MapsTo, E
<1>10. IsSketchGraph(t)
  <2>1. {"nodes", "edges", "weight", "keys"} \subseteq DOMAIN t
    BY <1>1, <1>8 DEF Fields
  <2>2. t.nodes \subseteq s.nodes
    BY <1>6, <1>8
  <2>3. IsFiniteSet(t.nodes) /\ t.nodes \subseteq Nat
    BY <2>2, FS_Subset DEF IsSketchGraph
  <2>4. \A e \in E : e[1] \in s.nodes /\ e[2] \in FieldLabels /\ e[3] \in s.nodes
    BY <1>4
  <2>5. t.edges \subseteq t.nodes \X FieldLabels \X t.nodes
    BY <1>8, <2>4
  <2>6. \A k \in DOMAIN t.keys : t.keys[k] \in t.nodes
    BY <1>8 DEF IsSketchGraph
  <2> QED  BY <2>1, <2>3, <2>5, <2>6 DEF IsSketchGraph
<1> QED  BY <1>9, <1>10 DEF t

-----------------------------------------------------------------------------
(* What a transform leaves where it was *)

LEMMA SumsOf ==
  ASSUME NEW s, IsSketchGraph(s)
  PROVE  Sums(s)
BY EdgesAre DEF Sums

\* Edges that a transform at p keeps or adds.
LEMMA EdgesKept ==
  ASSUME NEW s, IsSketchGraph(s), NEW p \in Simplifiable(s)
  PROVE  /\ \A e : AddEdge(s, e) => e[1] # p /\ (e[3] # p => e \in Relabelled(s, p))
         /\ \A e : AddEdge(s, e) /\ e[3] = p => e \in SourceEdges(s, p)
         /\ \A e \in s.edges : Kind(e) \in {"load", "store"} => e \in Relabelled(s, p)
         /\ \A e \in s.edges : e[1] \notin Children(s, p) /\ Kind(e) = "field" => e \in Relabelled(s, p)
         /\ \A f \in s.edges, e \in SourceEdges(s, p) :
              f[1] \in Children(s, p)
                => <<f[1], <<"field", Number(f) + Number(e)>>, f[3]>> \in Relabelled(s, p)
<1>1. \A e \in s.edges : e[1] = p => Kind(e) \in {"load", "store"}
  BY DEF Simplifiable, IsPointer, EdgesOut
<1>2. \A e : e \in SourceEdges(s, p) <=> AddEdge(s, e) /\ e[3] = p
  BY DEF SourceEdges, In, AddEdge
<1>3. \A e : e \in TargetFieldEdges(s, p) <=> e \in s.edges /\ e[1] \in Children(s, p)
  BY DEF TargetFieldEdges, EdgesOut
<1>4. \A e \in TargetFieldEdges(s, p) : Kind(e) = "field"
  BY DEF Simplifiable, IsStructure, TargetFieldEdges
<1>5. \A e \in s.edges :
        e \notin SourceEdges(s, p) /\ e \notin TargetFieldEdges(s, p) => e \in Relabelled(s, p)
  BY DEF Relabelled, RemovedEdges
<1>6. \A e \in NewEdges(s, p) : e \in Relabelled(s, p)
  BY DEF Relabelled
<1>7. ASSUME NEW e, AddEdge(s, e)
      PROVE  e[1] # p /\ (e[3] # p => e \in Relabelled(s, p))
  BY <1>1, <1>2, <1>4, <1>5, <1>7 DEF AddEdge
<1>8. ASSUME NEW e \in s.edges, Kind(e) \in {"load", "store"}
      PROVE  e \in Relabelled(s, p)
  BY <1>2, <1>4, <1>5, <1>8 DEF AddEdge
<1>9. ASSUME NEW e \in s.edges, e[1] \notin Children(s, p), Kind(e) = "field"
      PROVE  e \in Relabelled(s, p)
  BY <1>2, <1>3, <1>5, <1>9 DEF AddEdge
<1>10. ASSUME NEW f \in s.edges, NEW e \in SourceEdges(s, p), f[1] \in Children(s, p)
       PROVE  <<f[1], <<"field", Number(f) + Number(e)>>, f[3]>> \in Relabelled(s, p)
  BY <1>3, <1>6, <1>10, NewEdgesAre
<1> QED  BY <1>2, <1>7, <1>8, <1>9, <1>10

(* The image of an edge of the relabelled graph. *)
LEMMA Mapped ==
  ASSUME NEW s, NEW p, NEW t, NEW R, MapsTo(s, p, t, R), NEW e \in Relabelled(s, p)
  PROVE  \E m \in t.edges : /\ m[1] = R[e[1]] /\ m[3] = R[e[3]]
                            /\ Kind(m) = Kind(e) /\ Number(m) = Number(e)
<1> DEFINE m == <<R[e[1]], e[2], R[e[3]]>>
<1>1. m \in t.edges
  BY DEF MapsTo
<1>2. m[1] = R[e[1]] /\ m[2] = e[2] /\ m[3] = R[e[3]]
  OBVIOUS
<1> HIDE DEF m
<1> QED  BY <1>1, <1>2 DEF Kind, Number

(* Displacements survive, those to p as its sources. *)
LEMMA DisplacementsSurvive ==
  ASSUME NEW s, IsSketchGraph(s), NEW p \in Simplifiable(s), Isolated(s, p),
         NEW t, NEW R, MapsTo(s, p, t, R), IsSketchGraph(t),
         NEW k \in DOMAIN s.keys, NEW d \in Displaced(s, k)
  PROVE  /\ d[2] \in Int
         /\ d[1] # p => <<R[d[1]], d[2]>> \in Displaced(t, k)
         /\ d[1] = p => \E e \in SourceEdges(s, p), n \in Int :
                          d[2] = n + Number(e) /\ <<R[p], n>> \in Displaced(t, k)
<1>1. Sums(s) /\ Sums(t)
  BY SumsOf
<1>2. t.keys[k] = R[s.keys[k]] /\ s.keys[k] # p
  BY DEF MapsTo, Isolated
<1>3. \A e : AddEdge(s, e) =>
        Number(e) \in Int /\ e[1] # p /\ (e[3] = p => e \in SourceEdges(s, p) /\ R[e[1]] = R[p])
  BY <1>1, EdgesKept DEF AddEdge, Sums, MapsTo
<1>4. ASSUME NEW e, AddEdge(s, e), e[3] # p
      PROVE  \E m : AddEdge(t, m) /\ m[1] = R[e[1]] /\ m[3] = R[e[3]] /\ Number(m) = Number(e)
  <2>1. e \in Relabelled(s, p)
    BY <1>4, EdgesKept
  <2>2. PICK m \in t.edges : /\ m[1] = R[e[1]] /\ m[3] = R[e[3]]
                             /\ Kind(m) = Kind(e) /\ Number(m) = Number(e)
    BY <2>1, Mapped
  <2> QED  BY <1>4, <2>2 DEF AddEdge
<1>5. <<R[s.keys[k]], 0>> \in Displaced(t, k)
  BY <1>1, <1>2, DisplacedIs
<1>6. ASSUME NEW e, AddEdge(s, e), e[1] = s.keys[k], e[3] # p
      PROVE  <<R[e[3]], Number(e)>> \in Displaced(t, k)
  <2>1. PICK m : AddEdge(t, m) /\ m[1] = R[e[1]] /\ m[3] = R[e[3]] /\ Number(m) = Number(e)
    BY <1>4, <1>6
  <2>2. m[1] = t.keys[k]
    BY <1>2, <1>6, <2>1
  <2>3. <<m[3], Number(m)>> \in Displaced(t, k)
    BY <1>1, <2>1, <2>2, DisplacedIs
  <2> QED  BY <2>1, <2>3
<1>7. CASE d = <<s.keys[k], 0>>
  <2>1. d[1] = s.keys[k] /\ d[2] = 0
    BY <1>7
  <2> QED  BY <1>2, <1>5, <2>1
<1>8. CASE \E e : AddEdge(s, e) /\ e[1] = s.keys[k] /\ d = <<e[3], Number(e)>>
  <2>1. PICK e : AddEdge(s, e) /\ e[1] = s.keys[k] /\ d = <<e[3], Number(e)>>
    BY <1>8
  <2>2. d[1] = e[3] /\ d[2] = Number(e) /\ Number(e) \in Int
    BY <1>3, <2>1
  <2>3. CASE d[1] # p
    BY <1>6, <2>1, <2>2, <2>3
  <2>4. CASE d[1] = p
    <3>1. e \in SourceEdges(s, p) /\ R[s.keys[k]] = R[p]
      BY <1>3, <2>1, <2>2, <2>4
    <3>2. 0 \in Int /\ d[2] = 0 + Number(e)
      BY <2>2
    <3> QED  BY <1>5, <2>2, <2>4, <3>1, <3>2
  <2> QED  BY <2>3, <2>4
<1>9. CASE \E e, f : /\ AddEdge(s, e) /\ e[1] = s.keys[k]
                     /\ AddEdge(s, f) /\ f[1] = e[3]
                     /\ d = <<f[3], Number(e) + Number(f)>>
  <2>1. PICK e, f : /\ AddEdge(s, e) /\ e[1] = s.keys[k]
                    /\ AddEdge(s, f) /\ f[1] = e[3]
                    /\ d = <<f[3], Number(e) + Number(f)>>
    BY <1>9
  <2>2. d[1] = f[3] /\ d[2] = Number(e) + Number(f) /\ Number(e) \in Int /\ Number(f) \in Int
    BY <1>3, <2>1
  <2>3. e[3] # p
    BY <1>3, <2>1
  <2>4. CASE d[1] # p
    <3>1. PICK m : AddEdge(t, m) /\ m[1] = R[e[1]] /\ m[3] = R[e[3]] /\ Number(m) = Number(e)
      BY <1>4, <2>1, <2>3
    <3>2. PICK n : AddEdge(t, n) /\ n[1] = R[f[1]] /\ n[3] = R[f[3]] /\ Number(n) = Number(f)
      BY <1>4, <2>1, <2>2, <2>4
    <3>3. m[1] = t.keys[k] /\ n[1] = m[3]
      BY <1>2, <2>1, <3>1, <3>2
    <3>4. <<n[3], Number(m) + Number(n)>> \in Displaced(t, k)
      BY <1>1, <3>1, <3>2, <3>3, DisplacedIs
    <3> QED  BY <2>2, <2>4, <3>1, <3>2, <3>4
  <2>5. CASE d[1] = p
    <3>1. f \in SourceEdges(s, p) /\ R[e[3]] = R[p]
      BY <1>3, <2>1, <2>2, <2>5
    <3>2. <<R[p], Number(e)>> \in Displaced(t, k)
      BY <1>6, <2>1, <2>3, <3>1
    <3> QED  BY <2>2, <2>5, <3>1, <3>2
  <2> QED  BY <2>4, <2>5
<1>10. DisplacedBy(s, k, d)
  BY <1>1, DisplacedIs
<1> QED  BY <1>7, <1>8, <1>9, <1>10 DEF DisplacedBy

(* One transform at an isolated pointer keeps the contents of every key. *)
LEMMA ContentsKept ==
  ASSUME NEW s, IsSketchGraph(s), NEW p \in Simplifiable(s), Isolated(s, p),
         NEW k \in DOMAIN s.keys
  PROVE  Contents(s, k) \subseteq Contents(Transformed(s, p), k)
<1> DEFINE t == Transformed(s, p)
<1>1. PICK R : MapsTo(s, p, t, R)
  BY TransformedIs DEF Simplifiable
<1>2. IsSketchGraph(t)
  BY TransformedIs DEF Simplifiable
<1> HIDE DEF t
<1>3. \A o \in DOMAIN s.keys : o \in DOMAIN t.keys /\ t.keys[o] = R[s.keys[o]]
  BY <1>1 DEF MapsTo
<1> SUFFICES ASSUME NEW c \in Contents(s, k) PROVE c \in Contents(t, k)
  BY DEF t
<1>4. PICK d \in Displaced(s, k), x, f \in s.edges, o \in DOMAIN s.keys :
             ContentAt(s, d, x, f, o) /\ c = <<d[2] + Number(f), o>>
  BY ContentsAre
<1>5. /\ x[1] = d[1] /\ Kind(x) \in {"load", "store"}
      /\ f[1] = x[3] /\ Kind(f) = "field" /\ s.keys[o] = f[3]
  BY <1>4 DEF ContentAt
<1>6. x \in Relabelled(s, p)
  BY <1>5, EdgesKept
<1>7. PICK y \in t.edges : y[1] = R[x[1]] /\ y[3] = R[x[3]] /\ Kind(y) = Kind(x)
  BY <1>1, <1>6, Mapped
<1>8. Number(f) \in Int
  BY EdgesAre
<1>9. CASE d[1] # p
  <2>1. f[1] \notin Children(s, p)
    BY <1>5, <1>9 DEF Isolated, In
  <2>2. f \in Relabelled(s, p)
    BY <1>5, <2>1, EdgesKept
  <2>3. PICK h \in t.edges : /\ h[1] = R[f[1]] /\ h[3] = R[f[3]]
                             /\ Kind(h) = Kind(f) /\ Number(h) = Number(f)
    BY <1>1, <2>2, Mapped
  <2> DEFINE b == <<R[d[1]], d[2]>>
  <2>4. b \in Displaced(t, k) /\ b[1] = R[d[1]] /\ b[2] = d[2]
    BY <1>1, <1>2, <1>9, DisplacementsSurvive
  <2> HIDE DEF b
  <2>5. ContentAt(t, b, y, h, o)
    BY <1>3, <1>5, <1>7, <2>3, <2>4 DEF ContentAt
  <2>6. <<b[2] + Number(h), o>> \in Contents(t, k)
    BY <2>4, <2>5, ContentsAre
  <2> QED  BY <1>4, <2>3, <2>4, <2>6
<1>10. CASE d[1] = p
  <2>1. PICK e \in SourceEdges(s, p), n \in Int :
               d[2] = n + Number(e) /\ <<R[p], n>> \in Displaced(t, k)
    <3>1. d[1] = p => \E e \in SourceEdges(s, p), n \in Int :
                        d[2] = n + Number(e) /\ <<R[p], n>> \in Displaced(t, k)
      BY <1>1, <1>2, DisplacementsSurvive
    <3> QED  BY <1>10, <3>1
  <2> DEFINE b == <<R[p], n>>
             j == <<f[1], <<"field", Number(f) + Number(e)>>, f[3]>>
  <2>2. b \in Displaced(t, k) /\ b[1] = R[p] /\ b[2] = n
    BY <2>1
  <2>3. f[1] \in Children(s, p)
    BY <1>5, <1>10 DEF Children, EdgesOut
  <2>4. j \in Relabelled(s, p)
    BY <2>3, EdgesKept
  <2>5. j[1] = f[1] /\ j[3] = f[3] /\ Kind(j) = "field" /\ Number(j) = Number(f) + Number(e)
    BY DEF Kind, Number
  <2> HIDE DEF b, j
  <2>6. PICK h \in t.edges : /\ h[1] = R[j[1]] /\ h[3] = R[j[3]]
                             /\ Kind(h) = Kind(j) /\ Number(h) = Number(j)
    BY <1>1, <2>4, Mapped
  <2>7. ContentAt(t, b, y, h, o)
    BY <1>3, <1>5, <1>7, <1>10, <2>2, <2>5, <2>6 DEF ContentAt
  <2>8. <<b[2] + Number(h), o>> \in Contents(t, k)
    BY <2>2, <2>7, ContentsAre
  <2>9. e \in s.edges /\ Number(e) \in Int
    BY EdgesAre DEF SourceEdges, In
  <2>10. b[2] + Number(h) = d[2] + Number(f)
    BY <1>8, <2>1, <2>2, <2>5, <2>6, <2>9
  <2> QED  BY <1>4, <2>8, <2>10
<1> QED  BY <1>9, <1>10

-----------------------------------------------------------------------------
(* Every transform leaves a well-formed graph: no edge and no key leads to *)
(* a node that has become part of another.                                 *)
THEOREM GraphsStayGraphs == SimplifySpec => []IsSketchGraph(g)
<1>1. SimplifyInit => IsSketchGraph(g)
  BY GraphsAssumption DEF SimplifyInit
<1>2. IsSketchGraph(g) /\ [SimplifyNext]_g => IsSketchGraph(g')
  <2> SUFFICES ASSUME IsSketchGraph(g), [SimplifyNext]_g PROVE IsSketchGraph(g')
    OBVIOUS
  <2>1. CASE UNCHANGED g
    BY <2>1
  <2>2. ASSUME NEW p \in g.nodes, Transform(p) PROVE IsSketchGraph(g')
    BY <2>2, TransformedIs DEF Transform
  <2> QED  BY <2>1, <2>2 DEF SimplifyNext
<1>3. IsSketchGraph(g)' <=> IsSketchGraph(g')
  BY DEF IsSketchGraph
<1> QED  BY <1>1, <1>2, <1>3, PTL DEF SimplifySpec

(* No variable loses a field, and each field keeps its distance from the   *)
(* variables, when an isolated pointer is simplified: the offset takes in  *)
(* the displacement.                                                       *)
THEOREM FieldsSurviveSimplification == SimplifySpec => ContentsSurvive
<1>1. IsSketchGraph(g) =>
        [\A p \in Simplifiable(g) :
           Isolated(g, p) /\ Transform(p) =>
             \A k \in DOMAIN g.keys : Contents(g, k) \subseteq Contents(g', k)]_g
  BY ContentsKept DEF Transform
<1> QED  BY <1>1, GraphsStayGraphs, PTL DEF ContentsSurvive

-----------------------------------------------------------------------------
(* Sketches of keys, quotients and products *)

LEMMA SketchOfIs ==
  ASSUME NEW s, IsBuilt(s), IsDeterministic(s), NEW k \in DOMAIN s.keys
  PROVE  IsSketch(SketchOf(s, k)) /\ SketchOf(s, k).repr = k
<1> DEFINE N == Reached(s, {s.keys[k]})
           t == SketchOf(s, k)
<1>1. /\ s.keys[k] \in N /\ \A e \in s.edges : e[1] \in N => e[3] \in N
      /\ N \subseteq s.nodes
  BY ReachedIsLeast DEF IsBuilt
<1>2. /\ DOMAIN t = {"nodes", "edges", "weight", "keys", "repr"}
      /\ t.nodes = N /\ t.edges = {e \in s.edges : e[1] \in N}
      /\ t.keys = [x \in {y \in DOMAIN s.keys : s.keys[y] \in N} |-> s.keys[x]]
      /\ t.repr = k
  BY DEF SketchOf
<1> HIDE DEF N, t
<1>3. IsFiniteSet(t.nodes) /\ IsFiniteSet(t.edges)
  BY <1>1, <1>2, FS_Subset DEF IsBuilt
<1>4. k \in DOMAIN t.keys /\ \A x \in DOMAIN t.keys : t.keys[x] \in t.nodes
  BY <1>1, <1>2
<1>5. IsBuilt(t)
  BY <1>1, <1>2, <1>3, <1>4 DEF IsBuilt
<1>6. IsDeterministic(t)
  BY <1>2 DEF IsDeterministic
<1> QED  BY <1>2, <1>4, <1>5, <1>6 DEF IsSketch, t

LEMMA QuotientIs ==
  ASSUME NEW s, IsBuilt(s)
  PROVE  LET q == Quotient(s)
         IN  /\ IsBuilt(q) /\ IsDeterministic(q)
             /\ DOMAIN q = DOMAIN s /\ DOMAIN q.keys = DOMAIN s.keys
             /\ "repr" \in DOMAIN s => q.repr = s.repr
<1> DEFINE rep0 == [n \in s.nodes |-> n]
           R == Unified(s, rep0)
           q == Quotient(s)
           t == QuotientGraph(s, R)
<1>1. q = t
  BY QuotientByIs DEF Quotient
<1>2. IsGraph(s) /\ rep0 \in [s.nodes -> s.nodes] /\ Fields \subseteq DOMAIN s
  BY DEF IsBuilt, IsGraph, Fields
<1> HIDE DEF rep0
<1>3. /\ R \in [s.nodes -> s.nodes]
      /\ \A e, f \in s.edges :
           SameLabel(e[2], f[2]) /\ R[e[1]] = R[f[1]] => R[e[3]] = R[f[3]]
  BY <1>2, UnifiedIsLeast
<1> HIDE DEF R
<1>4. /\ DOMAIN t = DOMAIN s
      /\ t.nodes = {R[n] : n \in s.nodes}
      /\ t.edges = {<<R[e[1]], e[2], R[e[3]]>> : e \in s.edges}
      /\ t.keys = [k \in DOMAIN s.keys |-> R[s.keys[k]]]
      /\ t.weight = [n \in {R[m] : m \in s.nodes} |->
                       OperateAll({s.weight[m] : m \in {k \in s.nodes : R[k] = n}})]
  <2>1. Fields \subseteq DOMAIN s
    BY <1>2
  <2> QED  BY <2>1, QuotientGraphIs
<1>5. "repr" \in DOMAIN s => t.repr = s.repr
  BY DEF QuotientGraph
<1> HIDE DEF t, q
<1>6. IsFiniteSet(t.nodes) /\ t.nodes \subseteq s.nodes
  BY <1>3, <1>4, FS_Subset DEF IsBuilt
<1>7. IsFiniteSet(t.edges)
  <2> DEFINE h == [e \in s.edges |-> <<R[e[1]], e[2], R[e[3]]>>]
  <2>1. IsFiniteSet({h[e] : e \in s.edges})
    <3> HIDE DEF h
    <3> QED  BY ImageFinite DEF IsBuilt
  <2>2. t.edges = {h[e] : e \in s.edges}
    BY <1>4
  <2> QED  BY <2>1, <2>2
<1>8. \A d \in t.edges : \E e \in s.edges : d[1] = R[e[1]] /\ d[2] = e[2] /\ d[3] = R[e[3]]
  BY <1>4
<1>9. \A e \in s.edges : R[e[1]] \in t.nodes /\ R[e[3]] \in t.nodes
  BY <1>4 DEF IsBuilt
<1>10. IsBuilt(t)
  <2>1. \A k \in DOMAIN t.keys : t.keys[k] \in t.nodes
    BY <1>4 DEF IsBuilt
  <2> QED  BY <1>4, <1>6, <1>7, <1>8, <1>9, <2>1 DEF IsBuilt
<1>11. IsDeterministic(t)
  BY <1>3, <1>8 DEF IsDeterministic
<1>12. DOMAIN t.keys = DOMAIN s.keys
  BY <1>4
<1> QED  BY <1>1, <1>4, <1>5, <1>10, <1>11, <1>12 DEF q

-----------------------------------------------------------------------------
LEMMA StepByIs ==
  ASSUME NEW s, IsBuilt(s), NEW n, NEW l
  PROVE  StepBy(s, n, l) \in s.nodes \cup {NoNode}
<1> DEFINE E == {e \in EdgesOut(s, n) : e[2] = l}
<1>1. CASE E = {}
  BY <1>1 DEF StepBy
<1>2. CASE E # {}
  <2> DEFINE c == CHOOSE e \in E : TRUE
  <2>1. c \in E
    BY <1>2
  <2>2. StepBy(s, n, l) = c[3]
    BY <1>2 DEF StepBy
  <2>3. E \subseteq s.edges
    BY DEF EdgesOut
  <2> HIDE DEF E, c
  <2> QED  BY <2>1, <2>2, <2>3 DEF IsBuilt
<1> QED  BY <1>1, <1>2

\* Some l edge leads from a to b.
Edge(s, a, l, b) == \E e \in s.edges : e[1] = a /\ e[2] = l /\ e[3] = b

(* The pairs of two sketches are those that the words lead to. *)
LEMMA PairsAreLeast ==
  ASSUME NEW s, IsSketch(s), NEW t, IsSketch(t)
  PROVE  /\ IsFiniteSet(Pairs(s, t))
         /\ Pairs(s, t) \subseteq (s.nodes \cup {NoNode}) \X (t.nodes \cup {NoNode})
         /\ <<Entry(s), Entry(t)>> \in Pairs(s, t)
         /\ \A p \in Pairs(s, t), l \in Alphabet(s, t) : PairStep(s, t, p, l) \in Pairs(s, t)
         /\ \A I : /\ <<Entry(s), Entry(t)>> \in I
                   /\ \A p \in I, l \in Alphabet(s, t) : PairStep(s, t, p, l) \in I
                   => Pairs(s, t) \subseteq I
<1> DEFINE U == (s.nodes \cup {NoNode}) \X (t.nodes \cup {NoNode})
           D == SUBSET U
           step == [P \in D |-> PairsOnward(s, t, P)]
           m == [P \in D |-> Cardinality(U \ P)]
           P0 == {<<Entry(s), Entry(t)>>}
           f == Pairs(s, t)
<1>1. IsFiniteSet(U)
  <2>1. IsFiniteSet(s.nodes \cup {NoNode}) /\ IsFiniteSet(t.nodes \cup {NoNode})
    BY FS_AddElement DEF IsSketch, IsBuilt
  <2> QED  BY <2>1, FS_Product
<1>2. \A P \in D : P \subseteq PairsOnward(s, t, P) /\ PairsOnward(s, t, P) \subseteq U
  <2> SUFFICES ASSUME NEW P \in D PROVE P \subseteq PairsOnward(s, t, P) /\ PairsOnward(s, t, P) \subseteq U
    OBVIOUS
  <2>1. \A p, l : PairStep(s, t, p, l) \in U
    BY StepByIs DEF PairStep, IsSketch
  <2> HIDE DEF U
  <2> QED  BY <2>1 DEF PairsOnward
<1>3. step \in [D -> D]
  BY <1>2
<1>4. \A P \in D : IsFiniteSet(U \ P) /\ Cardinality(U \ P) \in Nat
  <2> HIDE DEF U
  <2> QED  BY <1>1, FS_Subset, FS_CardinalityType
<1>5. m \in [D -> Nat]
  BY <1>4
<1>6. \A P \in D : step[P] # P => m[step[P]] < m[P]
  <2> SUFFICES ASSUME NEW P \in D, step[P] # P PROVE m[step[P]] < m[P]
    OBVIOUS
  <2>1. step[P] \in D /\ P \subseteq step[P] /\ step[P] \subseteq U
    BY <1>2, <1>3
  <2>2. PICK x : x \in step[P] /\ x \notin P /\ x \in U
    <3> HIDE DEF step, U
    <3> QED  BY <2>1
  <2>3. U \ step[P] \subseteq U \ P /\ U \ step[P] # U \ P
    <3> HIDE DEF step, U
    <3> QED  BY <2>1, <2>2
  <2>4. Cardinality(U \ step[P]) < Cardinality(U \ P)
    <3> HIDE DEF U, step, D, m
    <3>1. /\ IsFiniteSet(U \ P) /\ Cardinality(U \ P) \in Nat
          /\ Cardinality(U \ step[P]) \in Nat
      BY <1>4, <2>1
    <3>2. /\ Cardinality(U \ step[P]) <= Cardinality(U \ P)
          /\ Cardinality(U \ step[P]) # Cardinality(U \ P)
      BY <3>1, <2>3, FS_Subset
    <3> QED  BY <3>1, <3>2
  <2> QED  BY <2>1, <2>4
<1> DEFINE Is(h) == h = [P \in D |-> IF PairsOnward(s, t, P) = P THEN P ELSE h[PairsOnward(s, t, P)]]
           reach == CHOOSE h : Is(h)
<1>7. \A h : Is(h) <=> Settling(h, D, step)
  <2> SUFFICES ASSUME NEW h PROVE Is(h) <=> Settling(h, D, step)
    OBVIOUS
  <2>1. \A P \in D : step[P] = PairsOnward(s, t, P)
    OBVIOUS
  <2> HIDE DEF step, D
  <2> QED  BY <2>1 DEF Settling
<1>8. Is(reach)
  <2>1. \E h : Is(h)
    <3> HIDE DEF D, step, m, Is
    <3> QED  BY <1>3, <1>5, <1>6, <1>7, SettlingExists
  <2> HIDE DEF Is
  <2> QED  BY <2>1
<1>9. f = reach[P0]
  BY DEF Pairs
<1> HIDE DEF reach, Is
<1>10. P0 \in D
  BY DEF IsSketch, IsBuilt, Entry
<1>11. /\ f \in D /\ step[f] = f
       /\ \A J \in SUBSET D : P0 \in J /\ (\A P \in J : step[P] \in J) => f \in J
  <2> HIDE DEF D, step, m, f, P0
  <2> QED  BY <1>3, <1>5, <1>6, <1>7, <1>8, <1>9, <1>10, SettlingSettles
<1>12. \A P \in D : step[P] = PairsOnward(s, t, P)
  OBVIOUS
<1> HIDE DEF f, step
<1>13. P0 \subseteq f
  <2> DEFINE J == {P \in D : P0 \subseteq P}
  <2>1. P0 \in J
    BY <1>10
  <2>2. \A P \in J : step[P] \in J
    <3> HIDE DEF P0, D
    <3> QED  BY <1>2, <1>3, <1>12
  <2>3. J \in SUBSET D
    OBVIOUS
  <2>4. f \in J
    <3> HIDE DEF J, D, P0
    <3> QED  BY <1>11, <2>1, <2>2, <2>3
  <2> QED  BY <2>4
<1>14. \A p \in f, l \in Alphabet(s, t) : PairStep(s, t, p, l) \in f
  <2>1. f = PairsOnward(s, t, f)
    <3> HIDE DEF D, P0
    <3> QED  BY <1>11, <1>12
  <2> HIDE DEF D, P0, U
  <2> QED  BY <2>1 DEF PairsOnward
<1>15. ASSUME NEW I, <<Entry(s), Entry(t)>> \in I,
              \A p \in I, l \in Alphabet(s, t) : PairStep(s, t, p, l) \in I
       PROVE  f \subseteq I
  <2> DEFINE J == {P \in D : P \subseteq I}
  <2>1. P0 \in J
    BY <1>10, <1>15
  <2>2. \A P \in J : step[P] \in J
    <3> SUFFICES ASSUME NEW P \in J PROVE step[P] \in J
      OBVIOUS
    <3>1. P \in D /\ P \subseteq I /\ step[P] = PairsOnward(s, t, P) /\ step[P] \in D
      BY <1>3, <1>12
    <3>2. PairsOnward(s, t, P) \subseteq I
      <4> HIDE DEF J, D
      <4> QED  BY <3>1, <1>15 DEF PairsOnward
    <3> HIDE DEF D
    <3> QED  BY <3>1, <3>2
  <2>3. J \in SUBSET D
    OBVIOUS
  <2>4. f \in J
    <3> HIDE DEF J, D, P0
    <3> QED  BY <1>11, <2>1, <2>2, <2>3
  <2> QED  BY <2>4
<1>16. IsFiniteSet(f)
  <2>1. f \subseteq U
    BY <1>11
  <2> HIDE DEF U
  <2> QED  BY <1>1, <2>1, FS_Subset
<1>17. f \subseteq U /\ <<Entry(s), Entry(t)>> \in f
  BY <1>11, <1>13
<1> HIDE DEF P0, D
<1> QED  BY <1>14, <1>15, <1>16, <1>17 DEF f

EntryPair(s, t) == <<Entry(s), Entry(t)>>

(* Every pair that leads to one of P is one of P. *)
IsPrefixClosed(s, t, P) ==
  \A p \in Pairs(s, t), l \in Alphabet(s, t) : PairStep(s, t, p, l) \in P => p \in P

(* What binop_sketch makes a quotient of. *)
ProductSketch(s, t, label, accepting) ==
  LET p == ProductGraph(s, t, accepting)
  IN  [nodes |-> p.nodes,
       edges |-> p.edges,
       weight |-> [n \in p.nodes |->
                     IF n \in Reached(p, {p.entry}) THEN label[p.pair[n]] ELSE Identity],
       keys |-> [k \in {s.repr} |-> p.entry],
       repr |-> s.repr]

(* N numbers the pairs of P in h. *)
IsNumbering(N, s, t, P, h) ==
  /\ N \in [P -> h.nodes]
  /\ \A n \in h.nodes : \E p \in P : N[p] = n
  /\ \A p, r \in P : N[p] = N[r] => p = r
  /\ N[EntryPair(s, t)] = h.keys[s.repr]
  /\ \A x \in h.edges : \E p \in P, l \in Alphabet(s, t) :
       PairStep(s, t, p, l) \in P /\ x[1] = N[p] /\ x[2] = l /\ x[3] = N[PairStep(s, t, p, l)]
  /\ \A p \in P, l \in Alphabet(s, t) :
       PairStep(s, t, p, l) \in P => Edge(h, N[p], l, N[PairStep(s, t, p, l)])

(* h is a graph of the pairs P, weighed by label. *)
IsProduct(h, s, t, label, P) ==
  /\ IsBuilt(h) /\ "repr" \in DOMAIN h
  /\ h.repr = s.repr /\ DOMAIN h.keys = {s.repr}
  /\ \E N : /\ IsNumbering(N, s, t, P, h)
            /\ IsPrefixClosed(s, t, P) => \A p \in P : h.weight[N[p]] = label[p]

LEMMA ProductSketchIs ==
  ASSUME NEW s, IsSketch(s), NEW t, IsSketch(t), NEW label, NEW accepting \in SUBSET Pairs(s, t)
  PROVE  IsProduct(ProductSketch(s, t, label, accepting), s, t, label, accepting \cup {EntryPair(s, t)})
<1> DEFINE entry == EntryPair(s, t)
           kept == accepting \cup {entry}
           listed == Enumerated(kept)
           number(p) == CHOOSE i \in DOMAIN listed : listed[i] = p
           A == Alphabet(s, t)
           M == {y \in kept \X A : PairStep(s, t, y[1], y[2]) \in kept}
           E == {<<number(x[1]), x[2], number(PairStep(s, t, x[1], x[2]))>> : x \in M}
           p == ProductGraph(s, t, accepting)
           h == ProductSketch(s, t, label, accepting)
           N == [x \in kept |-> number(x)]
<1>1. p = [nodes |-> DOMAIN listed, edges |-> E, pair |-> listed, entry |-> number(entry)]
  BY DEF ProductGraph, EntryPair
<1> HIDE DEF p
<1>2. IsFiniteSet(kept)
  BY PairsAreLeast, FS_Subset, FS_AddElement
<1>3. /\ listed \in Seq(kept)
      /\ \A x \in kept : \E i \in DOMAIN listed : listed[i] = x
      /\ \A i, j \in DOMAIN listed : listed[i] = listed[j] => i = j
  <2> HIDE DEF kept
  <2> QED  BY <1>2, EnumeratedIsABijection
<1>4. DOMAIN listed = 1 .. Len(listed) /\ Len(listed) \in Nat /\ \A i \in DOMAIN listed : listed[i] \in kept
  <2> HIDE DEF kept, listed
  <2> QED  BY <1>3
<1> HIDE DEF listed
<1>5. \A x \in kept : number(x) \in DOMAIN listed /\ listed[number(x)] = x
  <2> HIDE DEF kept
  <2> QED  BY <1>3
<1>6. IsFiniteSet(DOMAIN listed) /\ DOMAIN listed \subseteq Nat \ {NoNode}
  <2>1. IsFiniteSet(1 .. Len(listed))
    BY <1>4, FS_Interval
  <2>2. 1 .. Len(listed) \subseteq Nat \ {0}
    BY <1>4
  <2> QED  BY <1>4, <2>1, <2>2 DEF NoNode
<1>7. p.nodes = DOMAIN listed /\ p.edges = E /\ p.entry = number(entry) /\ p.pair = listed
  <2> HIDE DEF E, number, entry, kept
  <2> QED  BY <1>1
<1>8. entry \in kept
  OBVIOUS
<1>9. IsFiniteSet(A)
  <2>1. ASSUME NEW u, IsSketch(u) PROVE IsFiniteSet(LabelsIn(u))
    <3> DEFINE f == [e \in u.edges |-> e[2]]
    <3>1. IsFiniteSet({f[e] : e \in u.edges})
      <4> HIDE DEF f
      <4> QED  BY <2>1, ImageFinite DEF IsSketch, IsBuilt
    <3>2. LabelsIn(u) = {f[e] : e \in u.edges}
      BY DEF LabelsIn
    <3> QED  BY <3>1, <3>2
  <2> QED  BY <2>1, FS_Union DEF Alphabet
<1>10. IsFiniteSet(E)
  <2>1. IsFiniteSet(kept \X A)
    <3> HIDE DEF kept, A
    <3> QED  BY <1>2, <1>9, FS_Product
  <2>2. IsFiniteSet(M)
    <3> HIDE DEF kept, A
    <3> QED  BY <2>1, FS_Subset
  <2> HIDE DEF M
  <2> DEFINE f == [x \in M |-> <<number(x[1]), x[2], number(PairStep(s, t, x[1], x[2]))>>]
  <2>3. IsFiniteSet({f[x] : x \in M})
    <3> HIDE DEF f
    <3> QED  BY <2>2, ImageFinite
  <2>4. E = {f[x] : x \in M}
    OBVIOUS
  <2> QED  BY <2>3, <2>4
<1>11. \A e \in E : \E x \in kept, l \in A :
         PairStep(s, t, x, l) \in kept /\ e[1] = number(x) /\ e[2] = l /\ e[3] = number(PairStep(s, t, x, l))
  <2> SUFFICES ASSUME NEW e \in E
               PROVE  \E x \in kept, l \in A :
                        /\ PairStep(s, t, x, l) \in kept
                        /\ e[1] = number(x) /\ e[2] = l /\ e[3] = number(PairStep(s, t, x, l))
    OBVIOUS
  <2>1. PICK y \in M : e = <<number(y[1]), y[2], number(PairStep(s, t, y[1], y[2]))>>
    OBVIOUS
  <2>2. y[1] \in kept /\ y[2] \in A /\ PairStep(s, t, y[1], y[2]) \in kept
    OBVIOUS
  <2> HIDE DEF kept, A, number, E, M
  <2> QED  BY <2>1, <2>2
<1>12. \A x \in kept, l \in A : PairStep(s, t, x, l) \in kept
         => <<number(x), l, number(PairStep(s, t, x, l))>> \in E
  <2> SUFFICES ASSUME NEW x \in kept, NEW l \in A, PairStep(s, t, x, l) \in kept
               PROVE  <<number(x), l, number(PairStep(s, t, x, l))>> \in E
    OBVIOUS
  <2>1. <<x, l>> \in M
    <3> HIDE DEF kept, A
    <3> QED  OBVIOUS
  <2> HIDE DEF kept, A, number, M
  <2> QED  BY <2>1
<1> HIDE DEF kept, E, A, number, entry
<1>13. /\ DOMAIN h = {"nodes", "edges", "weight", "keys", "repr"}
       /\ h.nodes = p.nodes /\ h.edges = p.edges /\ h.repr = s.repr
       /\ h.keys = [k \in {s.repr} |-> p.entry]
       /\ h.weight = [n \in p.nodes |->
                        IF n \in Reached(p, {p.entry}) THEN label[p.pair[n]] ELSE Identity]
  BY DEF ProductSketch, p
<1> HIDE DEF h
<1>14. IsBuilt(h)
  <2>1. \A e \in h.edges : e[1] \in h.nodes /\ e[3] \in h.nodes
    BY <1>5, <1>7, <1>11, <1>13
  <2>2. \A k \in DOMAIN h.keys : h.keys[k] \in h.nodes
    BY <1>5, <1>7, <1>8, <1>13
  <2> QED  BY <1>6, <1>7, <1>10, <1>13, <2>1, <2>2 DEF IsBuilt
<1>15. N \in [kept -> h.nodes] /\ \A x \in kept : N[x] = number(x)
  BY <1>5, <1>7, <1>13
<1> HIDE DEF N
<1>16. IsNumbering(N, s, t, kept, h)
  <2>1. \A n \in h.nodes : \E x \in kept : N[x] = n
    <3> SUFFICES ASSUME NEW n \in h.nodes PROVE \E x \in kept : N[x] = n
      OBVIOUS
    <3>1. n \in DOMAIN listed /\ listed[n] \in kept
      BY <1>4, <1>7, <1>13
    <3>2. number(listed[n]) = n
      BY <1>3, <1>5, <3>1
    <3> QED  BY <3>1, <3>2, <1>15
  <2>2. \A x, y \in kept : N[x] = N[y] => x = y
    BY <1>5, <1>15
  <2>3. N[EntryPair(s, t)] = h.keys[s.repr]
    BY <1>7, <1>8, <1>13, <1>15 DEF entry
  <2>4. \A e \in h.edges : \E x \in kept, l \in Alphabet(s, t) :
          PairStep(s, t, x, l) \in kept /\ e[1] = N[x] /\ e[2] = l /\ e[3] = N[PairStep(s, t, x, l)]
    BY <1>7, <1>11, <1>13, <1>15 DEF A
  <2>5. \A x \in kept, l \in Alphabet(s, t) :
          PairStep(s, t, x, l) \in kept => Edge(h, N[x], l, N[PairStep(s, t, x, l)])
    <3> SUFFICES ASSUME NEW x \in kept, NEW l \in Alphabet(s, t), PairStep(s, t, x, l) \in kept
                 PROVE  Edge(h, N[x], l, N[PairStep(s, t, x, l)])
      OBVIOUS
    <3> DEFINE d == <<number(x), l, number(PairStep(s, t, x, l))>>
    <3>1. d \in h.edges /\ d[1] = N[x] /\ d[2] = l /\ d[3] = N[PairStep(s, t, x, l)]
      BY <1>7, <1>12, <1>13, <1>15 DEF A
    <3> HIDE DEF d
    <3> QED  BY <3>1 DEF Edge
  <2> QED  BY <1>15, <2>1, <2>2, <2>3, <2>4, <2>5 DEF IsNumbering
<1>17. ASSUME IsPrefixClosed(s, t, kept) PROVE \A x \in kept : h.weight[N[x]] = label[x]
  <2> DEFINE I == {x \in Pairs(s, t) : x \in kept => N[x] \in Reached(p, {p.entry})}
  <2>1. /\ p.entry \in Reached(p, {p.entry})
        /\ \A e \in p.edges : e[1] \in Reached(p, {p.entry}) => e[3] \in Reached(p, {p.entry})
    BY <1>14, <1>13, ReachedIsLeast DEF IsBuilt
  <2>2. entry \in I
    BY <1>7, <1>15, <2>1, PairsAreLeast DEF entry, EntryPair
  <2>3. \A x \in I, l \in Alphabet(s, t) : PairStep(s, t, x, l) \in I
    <3> SUFFICES ASSUME NEW x \in I, NEW l \in Alphabet(s, t), PairStep(s, t, x, l) \in kept
                 PROVE  N[PairStep(s, t, x, l)] \in Reached(p, {p.entry})
      BY PairsAreLeast
    <3>1. x \in kept
      BY <1>17 DEF IsPrefixClosed
    <3>2. N[x] \in Reached(p, {p.entry})
      BY <3>1
    <3>3. Edge(h, N[x], l, N[PairStep(s, t, x, l)])
      BY <1>16, <3>1 DEF IsNumbering
    <3> HIDE DEF I
    <3> QED  BY <1>13, <2>1, <3>2, <3>3 DEF Edge
  <2>4. Pairs(s, t) \subseteq I
    <3> HIDE DEF I
    <3> QED  BY <2>2, <2>3, PairsAreLeast DEF entry, EntryPair
  <2>5. kept \subseteq Pairs(s, t)
    BY PairsAreLeast DEF kept, entry, EntryPair
  <2>6. \A x \in kept : N[x] \in Reached(p, {p.entry})
    BY <2>4, <2>5
  <2> HIDE DEF I
  <2> SUFFICES ASSUME NEW x \in kept PROVE h.weight[N[x]] = label[x]
    OBVIOUS
  <2>7. N[x] \in p.nodes /\ p.pair[N[x]] = x
    BY <1>5, <1>7, <1>15
  <2> QED  BY <2>6, <2>7, <1>13
<1>18. DOMAIN h.keys = {s.repr}
  BY <1>13
<1>19. "repr" \in DOMAIN h /\ h.repr = s.repr
  BY <1>13
<1>20. IsProduct(h, s, t, label, kept)
  BY <1>14, <1>16, <1>17, <1>18, <1>19 DEF IsProduct
<1> QED  BY <1>20 DEF h, kept, entry

LEMMA BinopSketchIs ==
  ASSUME NEW s, IsSketch(s), NEW t, IsSketch(t), NEW label, NEW accepting \in SUBSET Pairs(s, t)
  PROVE  /\ BinopSketch(s, t, label, accepting) = Quotient(ProductSketch(s, t, label, accepting))
         /\ IsSketch(BinopSketch(s, t, label, accepting))
         /\ BinopSketch(s, t, label, accepting).repr = s.repr
<1> DEFINE h == ProductSketch(s, t, label, accepting)
           q == Quotient(h)
<1>1. BinopSketch(s, t, label, accepting) = q
  BY DEF BinopSketch, ProductSketch
<1>0. IsProduct(h, s, t, label, accepting \cup {EntryPair(s, t)})
  BY ProductSketchIs
<1> HIDE DEF h, q
<1>2. IsBuilt(h) /\ "repr" \in DOMAIN h /\ h.repr = s.repr /\ DOMAIN h.keys = {s.repr}
  BY <1>0 DEF IsProduct
<1>3. /\ IsBuilt(q) /\ IsDeterministic(q)
      /\ DOMAIN q = DOMAIN h /\ DOMAIN q.keys = {s.repr} /\ q.repr = s.repr
  BY <1>2, QuotientIs DEF q
<1>4. IsSketch(q)
  BY <1>2, <1>3 DEF IsSketch
<1> QED  BY <1>1, <1>3, <1>4 DEF q, h

(* Combined sketches are sketches of the first one's key. *)
LEMMA CombinedIs ==
  ASSUME NEW s, IsSketch(s), NEW t, IsSketch(t)
  PROVE  /\ IsSketch(Intersect(s, t)) /\ Intersect(s, t).repr = s.repr
         /\ IsSketch(UnionOf(s, t)) /\ UnionOf(s, t).repr = s.repr
<1>1. {p \in Pairs(s, t) : AcceptedByEither(p)} \in SUBSET Pairs(s, t)
  OBVIOUS
<1>2. {p \in Pairs(s, t) : AcceptedByBoth(p)} \in SUBSET Pairs(s, t)
  OBVIOUS
<1>3. IsSketch(Intersect(s, t)) /\ Intersect(s, t).repr = s.repr
  BY <1>1, BinopSketchIs DEF Intersect
<1>4. IsSketch(UnionOf(s, t)) /\ UnionOf(s, t).repr = s.repr
  BY <1>2, BinopSketchIs DEF UnionOf
<1> QED  BY <1>3, <1>4

-----------------------------------------------------------------------------
LEMMA OneLessRound ==
  ASSUME NEW a \in Nat, NEW b \in Nat, NEW c \in Nat, NEW x \in Nat, NEW y \in Nat,
         b < a, y < x + c
  PROVE  b * c + y < a * c + x
<1>1. PICK d \in Nat : a = b + 1 + d
  <2>1. a - b - 1 \in Nat /\ a = b + 1 + (a - b - 1)
    OBVIOUS
  <2> QED  BY <2>1
<1>2. a * c = b * c + c + d * c
  BY <1>1
<1>3. b * c \in Nat /\ d * c \in Nat
  OBVIOUS
<1> QED  BY <1>2, <1>3

Visits(s) == [at : s.nodes, word : Seq(LabelsIn(s))]

LEMMA PendingIs ==
  ASSUME NEW s, IsBuilt(s), NEW top \in Visits(s), NEW seen
  PROVE  \A todo \in SetToSeqs(Pending(s, top, seen)) :
           todo \in Seq(Visits(s)) /\ Len(todo) \in Nat /\ Len(todo) <= Cardinality(s.edges)
<1> DEFINE E == {f \in EdgesOut(s, top.at) : f[3] \notin seen \cup {top.at}}
           visit == [e \in E |-> [at |-> e[3], word |-> Append(top.word, e[2])]]
           P == Pending(s, top, seen)
<1>1. P = {visit[e] : e \in E}
  BY DEF Pending
<1>2. E \subseteq s.edges
  BY DEF EdgesOut
<1>3. IsFiniteSet(E) /\ Cardinality(E) <= Cardinality(s.edges) /\ Cardinality(E) \in Nat
      /\ Cardinality(s.edges) \in Nat
  BY <1>2, FS_Subset, FS_CardinalityType DEF IsBuilt
<1>4. P \subseteq Visits(s)
  <2> SUFFICES ASSUME NEW e \in E PROVE visit[e] \in Visits(s)
    BY <1>1
  <2>1. e \in s.edges
    BY <1>2
  <2>2. e[3] \in s.nodes /\ e[2] \in LabelsIn(s)
    BY <2>1 DEF IsBuilt, LabelsIn
  <2>3. Append(top.word, e[2]) \in Seq(LabelsIn(s))
    BY <2>2 DEF Visits
  <2> QED  BY <2>2, <2>3 DEF Visits
<1>5. IsFiniteSet(P) /\ Cardinality(P) <= Cardinality(E) /\ Cardinality(P) \in Nat
  <2>1. visit \in Surjection(E, P)
    <3>1. visit \in [E -> P]
      BY <1>1
    <3> HIDE DEF P, visit, E
    <3> QED  BY <1>1, <3>1 DEF Surjection
  <2> HIDE DEF P, visit, E
  <2> QED  BY <2>1, <1>3, FS_Surjection, FS_CardinalityType
<1> HIDE DEF P, E, visit
<1> SUFFICES ASSUME NEW todo \in SetToSeqs(P)
             PROVE  todo \in Seq(Visits(s)) /\ Len(todo) \in Nat /\ Len(todo) <= Cardinality(s.edges)
  BY DEF P
<1>6. todo \in [1 .. Cardinality(P) -> P]
  BY DEF SetToSeqs
<1>7. todo \in Seq(Visits(s)) /\ Len(todo) = Cardinality(P)
  BY <1>4, <1>5, <1>6
<1> QED  BY <1>3, <1>5, <1>7

(* G holds of every configuration and of what is explored from it when it    *)
(* holds along the steps of the search.                                      *)
Skipped(c) == [stack |-> Front(c.stack), seen |-> c.seen]

Visiting(c, todo) ==
  [stack |-> Front(c.stack) \o todo, seen |-> c.seen \cup {Last(c.stack).at}]

IsExploration(G, s) ==
  \A c \in Configurations(s), vs \in Seq(Visits(s)) :
    /\ c.stack = <<>> => <<c, <<>>>> \in G
    /\ c.stack # <<>> /\ Last(c.stack).at \in c.seen /\ <<Skipped(c), vs>> \in G => <<c, vs>> \in G
    /\ c.stack # <<>> /\ Last(c.stack).at \notin c.seen =>
         \A todo \in SetToSeqs(Pending(s, Last(c.stack), c.seen)) :
           <<Visiting(c, todo), vs>> \in G => <<c, <<Last(c.stack)>> \o vs>> \in G

StartAt(n) == [stack |-> <<[at |-> n, word |-> <<>>]>>, seen |-> {}]

LEMMA Explored ==
  ASSUME NEW s, IsBuilt(s), NEW n \in s.nodes, NEW G, IsExploration(G, s)
  PROVE  /\ StartAt(n) \in Configurations(s)
         /\ \A visits \in ExplorePaths(s, n) : visits \in Seq(Visits(s)) /\ <<StartAt(n), visits>> \in G
<1> DEFINE D == Configurations(s)
           V == SUBSET Seq(Visits(s))
           K == Cardinality(s.edges) + 1
           m == [c \in D |-> Cardinality(s.nodes \ c.seen) * K + Len(c.stack)]
           top(c) == Last(c.stack)
           below(c) == Front(c.stack)
           skip(c) == [stack |-> below(c), seen |-> c.seen]
           visit(c, todo) == [stack |-> below(c) \o todo, seen |-> c.seen \cup {top(c).at}]
           value(h, c) ==
             IF c.stack = <<>> THEN {<<>>}
             ELSE IF top(c).at \in c.seen THEN h[skip(c)]
             ELSE UNION {{<<top(c)>> \o visits : visits \in h[visit(c, todo)]} :
                          todo \in SetToSeqs(Pending(s, top(c), c.seen))}
           F == [h \in [D -> V] |-> [c \in D |-> value(h, c)]]
<1>1. K \in Nat /\ IsFiniteSet(s.nodes)
  BY FS_CardinalityType DEF IsBuilt
<1>2. \A c \in D : /\ c.stack \in Seq(Visits(s)) /\ c.seen \subseteq s.nodes
                   /\ Len(c.stack) \in Nat
                   /\ IsFiniteSet(s.nodes \ c.seen) /\ Cardinality(s.nodes \ c.seen) \in Nat
  <2> SUFFICES ASSUME NEW c \in D
               PROVE  /\ c.stack \in Seq(Visits(s)) /\ c.seen \subseteq s.nodes
                      /\ Len(c.stack) \in Nat
                      /\ IsFiniteSet(s.nodes \ c.seen) /\ Cardinality(s.nodes \ c.seen) \in Nat
    OBVIOUS
  <2>1. c.stack \in Seq(Visits(s)) /\ c.seen \subseteq s.nodes
    BY DEF Configurations, Visits
  <2>2. s.nodes \ c.seen \in SUBSET s.nodes
    OBVIOUS
  <2>3. IsFiniteSet(s.nodes \ c.seen)
    BY <1>1, <2>2, FS_Subset
  <2> QED  BY <2>1, <2>3, FS_CardinalityType
<1>3. m \in [D -> Nat]
  <2>1. \A a, b, k \in Nat : a * k + b \in Nat
    OBVIOUS
  <2> HIDE DEF K, D
  <2> QED  BY <1>1, <1>2, <2>1
<1>4. \A c \in D : c.stack # <<>> =>
        /\ top(c) \in Visits(s)
        /\ below(c) \in Seq(Visits(s)) /\ Len(below(c)) = Len(c.stack) - 1
        /\ skip(c) \in D /\ m[skip(c)] < m[c]
  <2> SUFFICES ASSUME NEW c \in D, c.stack # <<>>
               PROVE  /\ top(c) \in Visits(s)
                      /\ below(c) \in Seq(Visits(s)) /\ Len(below(c)) = Len(c.stack) - 1
                      /\ skip(c) \in D /\ m[skip(c)] < m[c]
    OBVIOUS
  <2> HIDE DEF D, K
  <2>1. c.stack \in Seq(Visits(s)) /\ Len(c.stack) \in Nat /\ Len(c.stack) >= 1
    <3>1. c.stack \in Seq(Visits(s)) /\ Len(c.stack) \in Nat
      BY <1>2
    <3>2. Len(c.stack) # 0
      BY <3>1, EmptySeq
    <3> QED  BY <3>1, <3>2
  <2>2. top(c) \in Visits(s)
    BY <2>1 DEF Last
  <2>3. below(c) \in Seq(Visits(s)) /\ Len(below(c)) = Len(c.stack) - 1
    <3>1. below(c) = SubSeq(c.stack, 1, Len(c.stack) - 1)
      BY DEF Front
    <3> HIDE DEF below
    <3> QED  BY <2>1, <3>1
  <2>4. skip(c) \in D
    BY <2>3, <1>2 DEF D, Configurations, Visits
  <2>5. m[skip(c)] = Cardinality(s.nodes \ c.seen) * K + Len(below(c))
    BY <2>4
  <2>6. Cardinality(s.nodes \ c.seen) * K \in Nat
    <3>1. \A a, b \in Nat : a * b \in Nat
      OBVIOUS
    <3> QED  BY <3>1, <1>1, <1>2
  <2>7. m[c] = Cardinality(s.nodes \ c.seen) * K + Len(c.stack)
    OBVIOUS
  <2> HIDE DEF m, skip, below, top
  <2> QED  BY <2>1, <2>2, <2>3, <2>4, <2>5, <2>6, <2>7
<1>5. \A c \in D : c.stack # <<>> /\ top(c).at \notin c.seen =>
        \A todo \in SetToSeqs(Pending(s, top(c), c.seen)) :
          visit(c, todo) \in D /\ m[visit(c, todo)] < m[c]
  <2> SUFFICES ASSUME NEW c \in D, c.stack # <<>>, top(c).at \notin c.seen,
                      NEW todo \in SetToSeqs(Pending(s, top(c), c.seen))
               PROVE  visit(c, todo) \in D /\ m[visit(c, todo)] < m[c]
    OBVIOUS
  <2> DEFINE v == visit(c, todo)
             a == Cardinality(s.nodes \ c.seen)
             b == Cardinality(s.nodes \ v.seen)
  <2>1. /\ top(c) \in Visits(s)
        /\ below(c) \in Seq(Visits(s)) /\ Len(below(c)) = Len(c.stack) - 1
    BY <1>4
  <2>2. todo \in Seq(Visits(s)) /\ Len(todo) \in Nat /\ Len(todo) <= Cardinality(s.edges)
    <3> HIDE DEF top
    <3> QED  BY <2>1, PendingIs
  <2>3. top(c).at \in s.nodes
    BY <2>1 DEF Visits
  <2>4. /\ v.stack = below(c) \o todo /\ v.seen = c.seen \cup {top(c).at}
        /\ v = [stack |-> v.stack, seen |-> v.seen]
    OBVIOUS
  <2> HIDE DEF D, K, top, below, visit, v
  <2>5. v.stack \in Seq(Visits(s)) /\ Len(v.stack) = Len(c.stack) - 1 + Len(todo)
    <3>1. v.stack \in Seq(Visits(s)) /\ Len(v.stack) = Len(below(c)) + Len(todo)
      BY <2>1, <2>2, <2>4, ConcatProperties
    <3> QED  BY <2>1, <3>1
  <2>6. v \in D
    BY <2>3, <2>4, <2>5, <1>2 DEF D, Configurations, Visits
  <2>7. b < a
    <3>1. s.nodes \ v.seen = (s.nodes \ c.seen) \ {top(c).at} /\ top(c).at \in s.nodes \ c.seen
      BY <2>3, <2>4
    <3> DEFINE X == s.nodes \ c.seen
    <3>2. IsFiniteSet(X) /\ Cardinality(X) \in Nat
      BY <1>2
    <3>3. Cardinality(X \ {top(c).at}) = Cardinality(X) - 1
      <4> HIDE DEF X
      <4> QED  BY <3>1, <3>2, FS_RemoveElement DEF X
    <3>4. a = Cardinality(X) /\ b = Cardinality(X \ {top(c).at})
      BY <3>1
    <3> HIDE DEF X, a, b
    <3> QED  BY <3>2, <3>3, <3>4
  <2>8. a \in Nat /\ b \in Nat /\ Len(c.stack) \in Nat /\ Len(v.stack) \in Nat
    BY <1>2, <2>6
  <2>9. Len(v.stack) < Len(c.stack) + K
    <3>1. Cardinality(s.edges) \in Nat
      BY FS_CardinalityType DEF IsBuilt
    <3> QED  BY <2>2, <2>5, <2>8, <3>1 DEF K
  <2>10. m[v] = b * K + Len(v.stack) /\ m[c] = a * K + Len(c.stack)
    BY <2>6
  <2> HIDE DEF a, b, m
  <2>11. b * K + Len(v.stack) < a * K + Len(c.stack)
    BY <2>7, <2>8, <2>9, <1>1, OneLessRound
  <2>12. v \in D /\ m[v] < m[c]
    BY <2>6, <2>10, <2>11
  <2> QED  BY <2>12 DEF v
<1>6. \A h \in [D -> V], c \in D : value(h, c) \in V
  <2> SUFFICES ASSUME NEW h \in [D -> V], NEW c \in D PROVE value(h, c) \in V
    OBVIOUS
  <2> HIDE DEF D
  <2>1. CASE c.stack = <<>>
    BY <2>1
  <2>2. CASE c.stack # <<>> /\ top(c).at \in c.seen
    <3>1. skip(c) \in D
      BY <1>4, <2>2
    <3>2. value(h, c) = h[skip(c)]
      BY <2>2
    <3> HIDE DEF V, skip, value
    <3> QED  BY <3>1, <3>2
  <2>3. CASE c.stack # <<>> /\ top(c).at \notin c.seen
    <3> DEFINE O == SetToSeqs(Pending(s, top(c), c.seen))
    <3>1. value(h, c) = UNION {{<<top(c)>> \o visits : visits \in h[visit(c, todo)]} : todo \in O}
      BY <2>3
    <3>2. top(c) \in Visits(s)
      BY <1>4, <2>3
    <3>3. \A todo \in O : h[visit(c, todo)] \in V
      <4>1. \A todo \in O : visit(c, todo) \in D
        BY <1>5, <2>3
      <4> HIDE DEF O, visit, V
      <4> QED  BY <4>1
    <3>4. \A visits \in Seq(Visits(s)) : <<top(c)>> \o visits \in Seq(Visits(s))
      <4> HIDE DEF top
      <4> QED  BY <3>2
    <3> HIDE DEF O, visit, top, value
    <3> QED  BY <3>1, <3>3, <3>4
  <2> QED  BY <2>1, <2>2, <2>3
<1>7. F \in [[D -> V] -> [D -> V]]
  <2> HIDE DEF D, V, value
  <2> QED  BY <1>6
<1>8. \A h1, h2 : \A c \in D :
        (\A y \in D : m[y] < m[c] => h1[y] = h2[y]) => value(h1, c) = value(h2, c)
  <2> SUFFICES ASSUME NEW h1, NEW h2, NEW c \in D,
                      \A y \in D : m[y] < m[c] => h1[y] = h2[y]
               PROVE  value(h1, c) = value(h2, c)
    <3> HIDE DEF value, D, m
    <3> QED  OBVIOUS
  <2> HIDE DEF D, V, m
  <2>1. CASE c.stack = <<>>
    BY <2>1
  <2>2. CASE c.stack # <<>> /\ top(c).at \in c.seen
    <3>1. skip(c) \in D /\ m[skip(c)] < m[c]
      BY <1>4, <2>2
    <3>2. h1[skip(c)] = h2[skip(c)]
      <4> HIDE DEF skip
      <4> QED  BY <3>1
    <3>3. value(h1, c) = h1[skip(c)] /\ value(h2, c) = h2[skip(c)]
      BY <2>2
    <3> HIDE DEF skip, value
    <3> QED  BY <3>2, <3>3
  <2>3. CASE c.stack # <<>> /\ top(c).at \notin c.seen
    <3> DEFINE O == SetToSeqs(Pending(s, top(c), c.seen))
               out(h) == UNION {{<<top(c)>> \o visits : visits \in h[visit(c, todo)]} : todo \in O}
    <3>1. value(h1, c) = out(h1) /\ value(h2, c) = out(h2)
      BY <2>3
    <3>2. \A todo \in O : visit(c, todo) \in D /\ m[visit(c, todo)] < m[c]
      BY <1>5, <2>3
    <3>3. \A todo \in O : h1[visit(c, todo)] = h2[visit(c, todo)]
      <4> HIDE DEF O, visit
      <4> QED  BY <3>2
    <3>4. out(h1) = out(h2)
      <4> HIDE DEF O, visit, top
      <4> QED  BY <3>3
    <3> HIDE DEF value, out
    <3> QED  BY <3>1, <3>4
  <2> QED  BY <2>1, <2>2, <2>3
<1>16. IsRecursion(F, D, V, m)
  <2>1. V # {}
    OBVIOUS
  <2>2. \A h1, h2 \in [D -> V], c \in D :
          (\A y \in D : m[y] < m[c] => h1[y] = h2[y]) => F[h1][c] = F[h2][c]
    <3> HIDE DEF value, D, V, m
    <3> QED  BY <1>8
  <2> HIDE DEF F, D, V, m
  <2> QED  BY <1>3, <1>7, <2>1, <2>2 DEF IsRecursion
<1> DEFINE Is(h) == h = [c \in D |-> value(h, c)]
           explore == CHOOSE h : Is(h)
           start == StartAt(n)
<1>9. \E h : Is(h)
  <2>2. \E h \in [D -> V] : F[h] = h
    <3> HIDE DEF D, V, m, F
    <3> QED  BY <1>16, RecursionExists
  <2>3. \A h \in [D -> V] : F[h] = [c \in D |-> value(h, c)]
    <3> HIDE DEF D, V, value
    <3> QED  OBVIOUS
  <2> HIDE DEF F, value, D, V
  <2> QED  BY <2>2, <2>3
<1>10. Is(explore)
  <2> HIDE DEF Is
  <2> QED  BY <1>9
<1>11. ExplorePaths(s, n) = explore[start]
  BY DEF ExplorePaths, StartAt
<1> HIDE DEF explore
<1>12. \A c \in D : explore[c] = value(explore, c)
  <2> HIDE DEF value, D
  <2> QED  BY <1>10
<1> DEFINE Fits(c) == \A vs \in explore[c] : vs \in Seq(Visits(s)) /\ <<c, vs>> \in G
           P(k) == \A c \in D : m[c] < k => Fits(c)
           T == {k \in Nat : P(k)}
<1>13. \A k \in Nat : k \in T
  <2>1. 0 \in T
    <3>1. P(0)
      <4> HIDE DEF m, D, Fits
      <4> QED  BY <1>3
    <3> HIDE DEF P
    <3> QED  BY <3>1
  <2>2. \A k \in Nat : k \in T => k + 1 \in T
    <3> SUFFICES \A k \in Nat : P(k) => P(k + 1)
      <4>1. \A k \in Nat : k + 1 \in Nat
        OBVIOUS
      <4> HIDE DEF P
      <4> QED  BY <4>1
    <3> SUFFICES ASSUME NEW k \in Nat, P(k), NEW c \in D, m[c] < k + 1, NEW vs \in explore[c]
                 PROVE  vs \in Seq(Visits(s)) /\ <<c, vs>> \in G
      BY Zenon
    <3>1. vs \in value(explore, c)
      <4> HIDE DEF D, m, value
      <4> QED  BY <1>12
    <3>2. \A y \in D : m[y] < m[c] => Fits(y)
      <4> HIDE DEF D, m, Fits
      <4> QED  BY <1>3
    <3>3. c \in Configurations(s)
      OBVIOUS
    <3>4. skip(c) = Skipped(c) /\ \A todo : visit(c, todo) = Visiting(c, todo)
      BY DEF Skipped, Visiting
    <3> HIDE DEF D, m, P
    <3>5. CASE c.stack = <<>>
      <4>1. vs = <<>> /\ <<>> \in Seq(Visits(s))
        BY <3>1, <3>5
      <4> QED  BY <3>3, <3>5, <4>1 DEF IsExploration
    <3>6. CASE c.stack # <<>> /\ top(c).at \in c.seen
      <4>1. vs \in explore[skip(c)]
        BY <3>1, <3>6
      <4>2. skip(c) \in D /\ m[skip(c)] < m[c]
        BY <1>4, <3>6
      <4> HIDE DEF skip
      <4>3. vs \in Seq(Visits(s)) /\ <<skip(c), vs>> \in G
        BY <3>2, <4>1, <4>2
      <4> QED  BY <3>3, <3>4, <3>6, <4>3 DEF IsExploration
    <3>7. CASE c.stack # <<>> /\ top(c).at \notin c.seen
      <4>6. PICK todo \in SetToSeqs(Pending(s, top(c), c.seen)) :
              \E visits \in explore[visit(c, todo)] : vs = <<top(c)>> \o visits
        <5>1. vs \in UNION {{<<top(c)>> \o visits : visits \in explore[visit(c, todo)]} :
                              todo \in SetToSeqs(Pending(s, top(c), c.seen))}
          BY <3>1, <3>7
        <5> HIDE DEF visit, top, value
        <5> QED  BY <5>1
      <4>1. PICK visits \in explore[visit(c, todo)] : vs = <<top(c)>> \o visits
        BY <4>6
      <4>2. visit(c, todo) \in D /\ m[visit(c, todo)] < m[c]
        BY <1>5, <3>7
      <4>3. top(c) \in Visits(s)
        BY <1>4, <3>7
      <4> HIDE DEF visit
      <4>4. visits \in Seq(Visits(s)) /\ <<visit(c, todo), visits>> \in G
        BY <3>2, <4>2
      <4>5. <<c, <<top(c)>> \o visits>> \in G
        BY <3>3, <3>4, <3>7, <4>4 DEF IsExploration
      <4>7. <<top(c)>> \o visits \in Seq(Visits(s))
        <5> HIDE DEF top
        <5> QED  BY <4>3, <4>4
      <4> QED  BY <4>1, <4>5, <4>7
    <3> QED  BY <3>5, <3>6, <3>7
  <2> HIDE DEF T
  <2> QED  BY <2>1, <2>2, NatSetInduction
<1>14. start \in D
  BY DEF Configurations, StartAt
<1>15. Fits(start)
  <2>1. m[start] \in Nat
    <3> HIDE DEF m, D, start
    <3> QED  BY <1>3, <1>14
  <2>2. m[start] + 1 \in T
    <3> HIDE DEF T, m
    <3> QED  BY <2>1, <1>13
  <2>3. m[start] < m[start] + 1
    BY <2>1
  <2> HIDE DEF m, D, Fits, start
  <2> QED  BY <2>2, <2>3, <1>14
<1> QED  BY <1>11, <1>14, <1>15

LEMMA ExplorePathsAre ==
  ASSUME NEW s, IsBuilt(s), NEW n \in s.nodes
  PROVE  \A visits \in ExplorePaths(s, n) : visits \in Seq(Visits(s))
<1> DEFINE G == Configurations(s) \X Seq(Visits(s))
<1>1. \A c \in Configurations(s) : c.stack # <<>> => Last(c.stack) \in Visits(s)
  <2> SUFFICES ASSUME NEW c \in Configurations(s), c.stack # <<>> PROVE Last(c.stack) \in Visits(s)
    OBVIOUS
  <2>1. c.stack \in Seq(Visits(s))
    BY DEF Configurations, Visits
  <2>2. Len(c.stack) \in Nat /\ Len(c.stack) # 0
    BY <2>1, EmptySeq
  <2> QED  BY <2>1, <2>2 DEF Last
<1>2. \A x \in Visits(s), vs \in Seq(Visits(s)) : <<x>> \o vs \in Seq(Visits(s))
  OBVIOUS
<1>3. <<>> \in Seq(Visits(s))
  OBVIOUS
<1>4. \A c \in Configurations(s), vs \in Seq(Visits(s)) : <<c, vs>> \in G
  OBVIOUS
<1> HIDE DEF G
<1>5. IsExploration(G, s)
  <2> SUFFICES ASSUME NEW c \in Configurations(s), NEW vs \in Seq(Visits(s))
               PROVE  /\ c.stack = <<>> => <<c, <<>>>> \in G
                      /\ <<c, vs>> \in G
                      /\ c.stack # <<>> => <<c, <<Last(c.stack)>> \o vs>> \in G
    BY DEF IsExploration
  <2> QED  BY <1>1, <1>2, <1>3, <1>4
<1>6. \A visits \in ExplorePaths(s, n) : visits \in Seq(Visits(s))
  BY <1>5, Explored
<1> QED  BY <1>6

-----------------------------------------------------------------------------
LEMMA GreatestNatural ==
  ASSUME NEW S \in SUBSET Nat, IsFiniteSet(S), S # {}
  PROVE  \E m \in S : \A k \in S : k <= m
<1>0. PICK n \in Nat : \E f \in [1 .. n -> S] : \A x \in S : \E i \in 1 .. n : f[i] = x
  BY FS_CardinalityType DEF ExistsBijection, Bijection, Surjection
<1>1. PICK f \in [1 .. n -> S] : \A x \in S : \E i \in 1 .. n : f[i] = x
  BY <1>0
<1> DEFINE P(k) == k <= n => \E b \in Nat : \A i \in 1 .. k : f[i] <= b
           T == {k \in Nat : P(k)}
<1>2. \A k \in Nat : k \in T
  <2>1. 0 \in T
    OBVIOUS
  <2>2. \A k \in Nat : k \in T => k + 1 \in T
    <3> SUFFICES \A k \in Nat : P(k) => P(k + 1)
      <4>1. \A k \in Nat : k + 1 \in Nat
        OBVIOUS
      <4> HIDE DEF P
      <4> QED  BY <4>1
    <3> SUFFICES ASSUME NEW k \in Nat, P(k), k + 1 <= n PROVE \E b \in Nat : \A i \in 1 .. k+1 : f[i] <= b
      OBVIOUS
    <3>1. PICK b \in Nat : \A i \in 1 .. k : f[i] <= b
      OBVIOUS
    <3>0. \A i \in 1 .. n : f[i] \in Nat
      BY <1>1
    <3>2. f[k+1] \in Nat
      <4>1. k + 1 \in 1 .. n
        OBVIOUS
      <4> QED  BY <3>0, <4>1
    <3> HIDE DEF P, T
    <3>3. b + f[k+1] \in Nat
      BY <3>2
    <3>4. \A i \in 1 .. k+1 : f[i] <= b + f[k+1]
      <4> SUFFICES ASSUME NEW i \in 1 .. k+1 PROVE f[i] <= b + f[k+1]
        OBVIOUS
      <4>1. CASE i = k + 1
        BY <3>2, <4>1
      <4>2. CASE i \in 1 .. k
        <5>1. f[i] <= b /\ f[i] \in Nat
          BY <3>0, <3>1, <4>2
        <5> QED  BY <5>1, <3>2
      <4> QED  BY <4>1, <4>2
    <3> QED  BY <3>3, <3>4
  <2> HIDE DEF T
  <2> QED  BY <2>1, <2>2, NatSetInduction
<1>3. \E b \in Nat : \A i \in 1 .. n : f[i] <= b
  <2>1. n \in T
    <3> HIDE DEF T
    <3> QED  BY <1>2
  <2> QED  BY <2>1
<1>4. PICK b \in Nat : \A k \in S : k <= b
  BY <1>1, <1>3
<1> DEFINE B == {c \in Nat : \A k \in S : k <= c}
<1>5. PICK c \in B : \A d \in B : c <= d
  <2>1. B \in SUBSET Nat /\ B # {}
    BY <1>4
  <2> HIDE DEF B
  <2> QED  BY <2>1, LeastNatural
<1>6. c \in S
  <2> SUFFICES ASSUME c \notin S PROVE FALSE
    OBVIOUS
  <2>1. \A k \in S : k \in Nat /\ k < c
    <3> SUFFICES ASSUME NEW k \in S PROVE k \in Nat /\ k < c
      OBVIOUS
    <3>1. k \in Nat /\ c \in Nat /\ k <= c /\ k # c
      OBVIOUS
    <3> HIDE DEF B, P, T
    <3> QED  BY <3>1
  <2>2. c > 0 /\ c - 1 \in Nat
    <3>1. PICK k \in S : k \in Nat /\ k < c
      BY <2>1
    <3>2. c \in Nat
      OBVIOUS
    <3> HIDE DEF B, P, T
    <3> QED  BY <3>1, <3>2
  <2>3. \A k \in S : k <= c - 1
    BY <2>1, <2>2
  <2>4. c - 1 \in B
    BY <2>2, <2>3
  <2>5. c <= c - 1
    <3> HIDE DEF B
    <3> QED  BY <1>5, <2>4
  <2> QED  BY <2>2, <2>5
<1> QED  BY <1>6

LEMMA FreshIs ==
  ASSUME NEW s, IsBuilt(s)
  PROVE  \E o \in Nat : /\ \A n : Fresh(s, n) = n + o
                        /\ \A n \in s.nodes : n <= o
<1> DEFINE N == s.nodes \cup {0}
           o == CHOOSE m \in N : \A k \in s.nodes : k <= m
<1>1. N \in SUBSET Nat /\ N # {} /\ IsFiniteSet(N)
  BY FS_AddElement DEF IsBuilt
<1>2. \E m \in N : \A k \in s.nodes : k <= m
  <2>1. \E m \in N : \A k \in N : k <= m
    <3> HIDE DEF N
    <3> QED  BY <1>1, GreatestNatural
  <2> QED  BY <2>1
<1>3. o \in N /\ \A k \in s.nodes : k <= o
  <2> HIDE DEF N
  <2> QED  BY <1>2
<1>4. \A n : Fresh(s, n) = n + o
  BY DEF Fresh
<1> HIDE DEF o
<1> QED  BY <1>1, <1>3, <1>4

-----------------------------------------------------------------------------
(* Labels move keys only, to nodes that are visited. *)
LEMMA LabelDtvsAre ==
  ASSUME NEW s, IsSketch(s), NEW other
  PROVE  \A t \in LabelDtvs(s, other) : IsBuilt(t) /\ IsDeterministic(t)
<1> SUFFICES ASSUME NEW t \in LabelDtvs(s, other) PROVE IsBuilt(t) /\ IsDeterministic(t)
  OBVIOUS
<1> DEFINE reachedBy(visit) == Follow(other, Entry(other), visit.word)
           found(visits, k) == {i \in DOMAIN visits : reachedBy(visits[i]) = other.keys[k]}
           last(visits, k) == CHOOSE i \in found(visits, k) : \A j \in found(visits, k) : j <= i
           known(visits) == {k \in DOMAIN other.keys : \E i \in DOMAIN visits : reachedBy(visits[i]) = other.keys[k]}
           labels(visits) == [k \in known(visits) |-> visits[last(visits, k)].at]
<1>1. PICK visits \in ExplorePaths(s, Entry(s)) :
        t = [s EXCEPT !.keys = labels(visits), !.repr = other.repr]
  BY DEF LabelDtvs
<1>2. visits \in Seq(Visits(s))
  <2>1. Entry(s) \in s.nodes /\ IsBuilt(s)
    BY DEF IsSketch, IsBuilt, Entry
  <2> QED  BY <2>1, ExplorePathsAre
<1>3. \A k \in known(visits) : labels(visits)[k] \in s.nodes
  <2> SUFFICES ASSUME NEW k \in known(visits) PROVE visits[last(visits, k)].at \in s.nodes
    OBVIOUS
  <2> DEFINE S == found(visits, k)
  <2>1. DOMAIN visits = 1 .. Len(visits) /\ Len(visits) \in Nat
    BY <1>2
  <2>2. S \in SUBSET (1 .. Len(visits)) /\ S # {}
    BY <2>1
  <2>3. S \in SUBSET Nat /\ IsFiniteSet(S)
    <3>1. IsFiniteSet(1 .. Len(visits))
      BY <2>1, FS_Interval
    <3>2. 1 .. Len(visits) \subseteq Nat
      BY <2>1
    <3> HIDE DEF S
    <3>3. IsFiniteSet(S)
      BY <2>2, <3>1, FS_Subset
    <3> QED  BY <2>2, <3>2, <3>3
  <2>4. \E i \in S : \A j \in S : j <= i
    <3> HIDE DEF S
    <3> QED  BY <2>2, <2>3, GreatestNatural
  <2> DEFINE i == CHOOSE x \in S : \A j \in S : j <= x
  <2>5. i \in DOMAIN visits
    <3>1. i \in S
      <4> HIDE DEF S
      <4> QED  BY <2>4
    <3> HIDE DEF i
    <3> QED  BY <3>1
  <2>6. last(visits, k) = i
    OBVIOUS
  <2> HIDE DEF last, i
  <2>7. visits[i].at \in s.nodes
    <3>1. visits[i] \in Visits(s)
      BY <1>2, <2>5
    <3> QED  BY <3>1 DEF Visits
  <2> QED  BY <2>6, <2>7
<1> DEFINE K == labels(visits)
<1>4. DOMAIN K = known(visits)
  OBVIOUS
<1>5. \A k \in DOMAIN K : K[k] \in s.nodes
  <2> HIDE DEF K, known, labels
  <2> QED  BY <1>3, <1>4 DEF K
<1> HIDE DEF K, labels
<1>6. t = [s EXCEPT !.keys = K, !.repr = other.repr]
  BY <1>1 DEF K
<1>7. Fields \subseteq DOMAIN s /\ "repr" \in DOMAIN s
  BY DEF IsSketch, IsBuilt, Fields
<1>8. DOMAIN t = DOMAIN s /\ t.nodes = s.nodes /\ t.edges = s.edges /\ t.keys = K
  BY <1>6, <1>7 DEF Fields
<1> QED  BY <1>5, <1>8 DEF IsSketch, IsBuilt, IsDeterministic

-----------------------------------------------------------------------------
(* Replacing the graph below a key leaves the edges that one node has by one *)
(* label together: those into the graph that goes move to one place, and     *)
(* the new nodes are no old ones.                                            *)
LEMMA ReplacedIs ==
  ASSUME NEW s, IsBuilt(s), IsDeterministic(s), NEW key \in DOMAIN s.keys,
         NEW r, IsBuilt(r), IsDeterministic(r), NEW visits
  PROVE  LET t == Replaced(s, key, r, visits) IN IsBuilt(t) /\ IsDeterministic(t)
<1> DEFINE gone == Reached(s, {s.keys[key]})
           target == [n \in gone |-> Replacement(visits, r, key, n)]
           kept == s.nodes \ gone
           new == {Fresh(s, n) : n \in r.nodes}
           inner == {e \in s.edges : e[1] \in kept /\ e[3] \in kept}
           below == {<<Fresh(s, e[1]), e[2], Fresh(s, e[3])>> : e \in r.edges}
           into == EdgesInto(s, r, gone, target)
           labels == NewLabeling(s, r, gone, target)
           t == Replaced(s, key, r, visits)
<1>1. PICK o \in Nat : /\ \A n : Fresh(s, n) = n + o
                       /\ \A n \in s.nodes : n <= o
  BY FreshIs
<1>2. /\ DOMAIN t = {"nodes", "edges", "weight", "keys"}
      /\ t.nodes = kept \cup new /\ t.edges = inner \cup below \cup into /\ t.keys = labels
  BY DEF Replaced
<1> HIDE DEF t
<1>3. /\ IsFiniteSet(s.nodes) /\ s.nodes \subseteq Nat \ {0} /\ IsFiniteSet(s.edges)
      /\ \A e \in s.edges : e[1] \in s.nodes /\ e[3] \in s.nodes
      /\ IsFiniteSet(r.nodes) /\ r.nodes \subseteq Nat \ {0} /\ IsFiniteSet(r.edges)
      /\ \A e \in r.edges : e[1] \in r.nodes /\ e[3] \in r.nodes
      /\ \A k \in DOMAIN s.keys : s.keys[k] \in s.nodes
      /\ \A k \in DOMAIN r.keys : r.keys[k] \in r.nodes
  BY DEF IsBuilt, NoNode
<1>4. \A n \in r.nodes : Fresh(s, n) \in Nat \ {0} /\ Fresh(s, n) \notin s.nodes
  <2> SUFFICES ASSUME NEW n \in r.nodes PROVE Fresh(s, n) \in Nat \ {0} /\ Fresh(s, n) \notin s.nodes
    OBVIOUS
  <2>1. n \in Nat /\ n > 0 /\ Fresh(s, n) = n + o
    BY <1>1, <1>3
  <2>2. Fresh(s, n) \in Nat \ {0} /\ Fresh(s, n) > o
    BY <2>1
  <2> QED  BY <2>2, <1>1, <1>3
<1>5. \A m, n \in r.nodes : Fresh(s, m) = Fresh(s, n) => m = n
  <2> SUFFICES ASSUME NEW m \in r.nodes, NEW n \in r.nodes, Fresh(s, m) = Fresh(s, n) PROVE m = n
    OBVIOUS
  <2>1. m \in Nat /\ n \in Nat /\ m + o = n + o
    BY <1>1, <1>3
  <2> QED  BY <2>1
<1>6. \A x \in into : \E f \in s.edges :
        /\ f[1] \in kept /\ f[3] \in gone /\ target[f[3]] \in r.nodes
        /\ x = <<f[1], f[2], Fresh(s, target[f[3]])>>
  <2> HIDE DEF gone, target
  <2> QED  BY <1>3 DEF EdgesInto
<1> HIDE DEF into
<1>7. \A k \in DOMAIN labels : labels[k] \in kept \cup new
  <2> DEFINE outer == {k \in DOMAIN s.keys : s.keys[k] \notin gone}
             moved == {k \in DOMAIN s.keys \ outer : target[s.keys[k]] \in r.nodes}
  <2>1. /\ DOMAIN labels = outer \cup DOMAIN r.keys \cup moved
        /\ \A k \in DOMAIN labels :
             labels[k] = IF k \in outer THEN s.keys[k]
                         ELSE Fresh(s, IF k \in DOMAIN r.keys THEN r.keys[k] ELSE target[s.keys[k]])
    <3> HIDE DEF gone, target
    <3> QED  BY DEF NewLabeling
  <2> HIDE DEF labels, target, gone
  <2> SUFFICES ASSUME NEW k \in DOMAIN labels PROVE labels[k] \in kept \cup new
    OBVIOUS
  <2>2. CASE k \in outer
    BY <1>3, <2>1, <2>2
  <2>3. CASE k \notin outer /\ k \in DOMAIN r.keys
    <3>1. labels[k] = Fresh(s, r.keys[k]) /\ r.keys[k] \in r.nodes
      BY <1>3, <2>1, <2>3
    <3> QED  BY <3>1
  <2>4. CASE k \notin outer /\ k \notin DOMAIN r.keys
    <3>1. labels[k] = Fresh(s, target[s.keys[k]]) /\ target[s.keys[k]] \in r.nodes
      BY <2>1, <2>4
    <3> QED  BY <3>1
  <2> QED  BY <2>2, <2>3, <2>4
<1> HIDE DEF labels, target
<1>8. IsFiniteSet(kept \cup new) /\ kept \cup new \subseteq Nat \ {0}
  <2>1. IsFiniteSet(kept)
    <3> HIDE DEF gone
    <3> QED  BY <1>3, FS_Subset
  <2>2. IsFiniteSet(new)
    <3> DEFINE h == [n \in r.nodes |-> Fresh(s, n)]
    <3>1. IsFiniteSet({h[n] : n \in r.nodes})
      <4> HIDE DEF h
      <4> QED  BY <1>3, ImageFinite
    <3> QED  BY <3>1
  <2>3. IsFiniteSet(kept \cup new)
    <3> HIDE DEF kept, new
    <3> QED  BY <2>1, <2>2, FS_Union
  <2> QED  BY <1>3, <1>4, <2>3
<1>9. IsFiniteSet(inner \cup below \cup into)
  <2>1. IsFiniteSet(inner)
    <3> HIDE DEF gone, kept
    <3> QED  BY <1>3, FS_Subset
  <2>2. IsFiniteSet(below)
    <3> DEFINE h == [e \in r.edges |-> <<Fresh(s, e[1]), e[2], Fresh(s, e[3])>>]
    <3>1. IsFiniteSet({h[e] : e \in r.edges})
      <4> HIDE DEF h
      <4> QED  BY <1>3, ImageFinite
    <3> QED  BY <3>1
  <2>3. IsFiniteSet(into)
    <3> DEFINE h == [f \in s.edges |-> <<f[1], f[2], Fresh(s, target[f[3]])>>]
               I == {h[f] : f \in s.edges}
    <3>1. IsFiniteSet(I)
      <4> HIDE DEF h
      <4> QED  BY <1>3, ImageFinite
    <3>2. into \subseteq I
      BY <1>6
    <3> HIDE DEF I
    <3> QED  BY <3>1, <3>2, FS_Subset
  <2>4. IsFiniteSet(inner \cup below)
    <3> HIDE DEF inner, below
    <3> QED  BY <2>1, <2>2, FS_Union
  <2> HIDE DEF inner, below
  <2> QED  BY <2>3, <2>4, FS_Union
<1>10. \A x \in inner \cup below \cup into : x[1] \in kept \cup new /\ x[3] \in kept \cup new
  <2>1. \A x \in inner : x[1] \in kept /\ x[3] \in kept
    OBVIOUS
  <2>2. \A x \in below : x[1] \in new /\ x[3] \in new
    <3> HIDE DEF gone
    <3> QED  BY <1>3
  <2>3. \A x \in into : x[1] \in kept /\ x[3] \in new
    <3> HIDE DEF gone, kept
    <3> QED  BY <1>6
  <2> HIDE DEF inner, below, kept, new
  <2> QED  BY <2>1, <2>2, <2>3
<1>11. IsBuilt(t)
  <2> HIDE DEF kept, new, inner, below
  <2> QED  BY <1>2, <1>7, <1>8, <1>9, <1>10 DEF IsBuilt, NoNode
<1> DEFINE Old(x) == x[1] \in s.nodes /\ \E f \in s.edges :
                        f[1] = x[1] /\ f[2] = x[2] /\ (\/ x[3] = f[3] /\ f[3] \in kept
                                                       \/ f[3] \in gone /\ x[3] = Fresh(s, target[f[3]]))
           New(x) == x[1] \notin s.nodes /\ \E f \in r.edges :
                        x[1] = Fresh(s, f[1]) /\ f[2] = x[2] /\ x[3] = Fresh(s, f[3])
<1>12. \A x \in inner \cup below \cup into : Old(x) \/ New(x)
  <2>1. \A x \in inner : Old(x)
    <3> SUFFICES ASSUME NEW x \in inner PROVE Old(x)
      OBVIOUS
    <3>1. x \in s.edges /\ x[1] \in s.nodes /\ x[3] \in kept
      OBVIOUS
    <3>2. \E f \in s.edges :
            f[1] = x[1] /\ f[2] = x[2] /\ (\/ x[3] = f[3] /\ f[3] \in kept
                                           \/ f[3] \in gone /\ x[3] = Fresh(s, target[f[3]]))
      <4> HIDE DEF kept, gone, inner
      <4> USE <3>1
      <4> WITNESS x \in s.edges
      <4> QED  OBVIOUS
    <3> HIDE DEF kept, gone, inner
    <3> QED  BY <3>1, <3>2
  <2>2. \A x \in below : New(x)
    <3> HIDE DEF gone
    <3> QED  BY <1>3, <1>4
  <2>3. \A x \in into : Old(x)
    <3> HIDE DEF gone
    <3> QED  BY <1>6
  <2> HIDE DEF inner, below, Old, New
  <2> QED  BY <2>1, <2>2, <2>3
<1>13. IsDeterministic(t)
  <2> SUFFICES ASSUME NEW x \in inner \cup below \cup into, NEW y \in inner \cup below \cup into,
                      x[1] = y[1], SameLabel(x[2], y[2])
               PROVE  x[3] = y[3]
    <3> HIDE DEF inner, below
    <3> QED  BY <1>2 DEF IsDeterministic
  <2>1. CASE x[1] \in s.nodes
    <3>1. PICK e \in s.edges :
            e[1] = x[1] /\ e[2] = x[2] /\ (\/ x[3] = e[3] /\ e[3] \in kept
                                           \/ e[3] \in gone /\ x[3] = Fresh(s, target[e[3]]))
      <4> HIDE DEF inner, below, kept, gone
      <4> QED  BY <1>12, <2>1
    <3>2. PICK f \in s.edges :
            f[1] = y[1] /\ f[2] = y[2] /\ (\/ y[3] = f[3] /\ f[3] \in kept
                                           \/ f[3] \in gone /\ y[3] = Fresh(s, target[f[3]]))
      <4> HIDE DEF inner, below, kept, gone
      <4> QED  BY <1>12, <2>1
    <3>3. e[3] = f[3]
      <4> HIDE DEF inner, below, kept, gone
      <4> QED  BY <3>1, <3>2 DEF IsDeterministic
    <3> HIDE DEF inner, below, gone
    <3> QED  BY <3>1, <3>2, <3>3
  <2>2. CASE x[1] \notin s.nodes
    <3>1. PICK e \in r.edges : x[1] = Fresh(s, e[1]) /\ e[2] = x[2] /\ x[3] = Fresh(s, e[3])
      <4> HIDE DEF inner, below, kept, gone
      <4> QED  BY <1>12, <2>2
    <3>2. PICK f \in r.edges : y[1] = Fresh(s, f[1]) /\ f[2] = y[2] /\ y[3] = Fresh(s, f[3])
      <4> HIDE DEF inner, below, kept, gone
      <4> QED  BY <1>12, <2>2
    <3>3. e[1] = f[1]
      <4> HIDE DEF inner, below, kept, gone
      <4>1. e[1] \in r.nodes /\ f[1] \in r.nodes
        BY <1>3
      <4>2. Fresh(s, e[1]) = Fresh(s, f[1])
        BY <3>1, <3>2
      <4> QED  BY <1>5, <4>1, <4>2
    <3>4. e[3] = f[3]
      <4> HIDE DEF inner, below, kept, gone
      <4> QED  BY <3>1, <3>2, <3>3 DEF IsDeterministic
    <3> HIDE DEF inner, below, kept, gone
    <3> QED  BY <3>1, <3>2, <3>4
  <2> QED  BY <2>1, <2>2
<1> QED  BY <1>11, <1>13 DEF t

LEMMA ReplaceNodeIs ==
  ASSUME NEW s, IsBuilt(s), IsDeterministic(s), NEW key \in DOMAIN s.keys,
         NEW r, IsBuilt(r), IsDeterministic(r)
  PROVE  \A t \in ReplaceNode(s, key, r) : IsBuilt(t) /\ IsDeterministic(t)
BY ReplacedIs DEF ReplaceNode

-----------------------------------------------------------------------------
(* The callers and the refined callee *)

(* The graph of a caller before its quotient. *)
CallerParts(s, extra) ==
  LET own == (UNION {{e[1], e[3]} : e \in extra.edges}) \cup {extra.keys[k] : k \in DOMAIN extra.keys}
      copied == FormalsSubgraph(s)
      tagged == {k \in DOMAIN s.keys : s.keys[k] \in copied}
      weightOf(n) == OperateBounds(IF n \in copied THEN s.weight[n] ELSE Identity,
                                   extra.weight[n])
  IN  [nodes |-> copied \cup own,
       edges |-> {e \in s.edges : e[1] \in copied} \cup extra.edges,
       weight |-> [n \in copied \cup own |-> weightOf(n)],
       keys |-> [k \in tagged \cup DOMAIN extra.keys |->
                   IF k \in tagged THEN s.keys[k] ELSE extra.keys[k]]]

LEMMA CallerPartsAre ==
  ASSUME NEW s, IsBuilt(s), Formals \subseteq DOMAIN s.keys, NEW extra \in Extras
  PROVE  LET t == CallerParts(s, extra)
             copied == FormalsSubgraph(s)
         IN  /\ CallerGraph(s, extra) = Quotient(t)
             /\ IsBuilt(t) /\ Formals \subseteq DOMAIN t.keys
             /\ copied \subseteq s.nodes /\ copied \subseteq t.nodes
             /\ \A e \in s.edges : e[1] \in copied => e[3] \in copied /\ e \in t.edges
             /\ \A k \in Formals : s.keys[k] \in copied /\ t.keys[k] = s.keys[k]
<1> DEFINE own == (UNION {{e[1], e[3]} : e \in extra.edges}) \cup {extra.keys[k] : k \in DOMAIN extra.keys}
           roots == {s.keys[k] : k \in Formals \cup (Globals \cap DOMAIN s.keys)}
           copied == FormalsSubgraph(s)
           tagged == {k \in DOMAIN s.keys : s.keys[k] \in copied}
           t == CallerParts(s, extra)
<1>1. CallerGraph(s, extra) = Quotient(t)
  BY DEF CallerGraph, CallerParts
<1>2. /\ DOMAIN t = {"nodes", "edges", "weight", "keys"}
      /\ t.nodes = copied \cup own
      /\ t.edges = {e \in s.edges : e[1] \in copied} \cup extra.edges
      /\ t.keys = [k \in tagged \cup DOMAIN extra.keys |->
                     IF k \in tagged THEN s.keys[k] ELSE extra.keys[k]]
  BY DEF CallerParts
<1> HIDE DEF t
<1>3. /\ IsFiniteSet(s.nodes) /\ s.nodes \subseteq Nat \ {NoNode} /\ IsFiniteSet(s.edges)
      /\ \A e \in s.edges : e[1] \in s.nodes /\ e[3] \in s.nodes
      /\ \A k \in DOMAIN s.keys : s.keys[k] \in s.nodes
  BY DEF IsBuilt
<1>4. /\ IsFiniteSet(extra.edges) /\ IsFiniteSet(DOMAIN extra.keys)
      /\ \A e \in extra.edges : {e[1], e[3]} \subseteq Nat \ {NoNode}
      /\ \A k \in DOMAIN extra.keys : extra.keys[k] \in Nat \ {NoNode}
  BY ExtrasAssumption
<1>5. /\ roots \subseteq copied /\ copied \subseteq s.nodes
      /\ \A e \in s.edges : e[1] \in copied => e[3] \in copied
  <2>1. roots \subseteq s.nodes
    BY <1>3
  <2> HIDE DEF roots
  <2>2. /\ roots \subseteq Reached(s, roots)
        /\ \A e \in s.edges : e[1] \in Reached(s, roots) => e[3] \in Reached(s, roots)
        /\ Reached(s, roots) \subseteq s.nodes
    BY <1>3, <2>1, ReachedIsLeast
  <2>3. copied = Reached(s, roots)
    BY DEF FormalsSubgraph, roots
  <2> HIDE DEF copied
  <2> QED  BY <2>2, <2>3
<1> HIDE DEF copied
<1>6. IsFiniteSet(own) /\ own \subseteq Nat \ {NoNode}
  <2> DEFINE from == [e \in extra.edges |-> e[1]]
             to == [e \in extra.edges |-> e[3]]
             at == [k \in DOMAIN extra.keys |-> extra.keys[k]]
             A == {from[e] : e \in extra.edges}
             B == {to[e] : e \in extra.edges}
             C == {at[k] : k \in DOMAIN extra.keys}
  <2>1. IsFiniteSet(A)
    <3> HIDE DEF from
    <3> QED  BY <1>4, ImageFinite
  <2>2. IsFiniteSet(B)
    <3> HIDE DEF to
    <3> QED  BY <1>4, ImageFinite
  <2>3. IsFiniteSet(C)
    <3> HIDE DEF at
    <3> QED  BY <1>4, ImageFinite
  <2>4. IsFiniteSet(A \cup B \cup C)
    <3> HIDE DEF A, B, C
    <3> QED  BY <2>1, <2>2, <2>3, FS_Union
  <2>5. own = A \cup B \cup C
    <3>1. UNION {{e[1], e[3]} : e \in extra.edges} = A \cup B
      <4>1. A = {e[1] : e \in extra.edges} /\ B = {e[3] : e \in extra.edges}
        OBVIOUS
      <4> HIDE DEF A, B
      <4> QED  BY <4>1
    <3>2. C = {extra.keys[k] : k \in DOMAIN extra.keys}
      OBVIOUS
    <3> HIDE DEF A, B, C
    <3> QED  BY <3>1, <3>2
  <2>6. own \subseteq Nat \ {NoNode}
    BY <1>4
  <2> QED  BY <2>4, <2>5, <2>6
<1>7. \A e \in extra.edges : e[1] \in own /\ e[3] \in own
  OBVIOUS
<1>8. \A k \in DOMAIN extra.keys : extra.keys[k] \in own
  OBVIOUS
<1> HIDE DEF own
<1>9. IsFiniteSet(t.nodes) /\ t.nodes \subseteq Nat \ {NoNode}
  <2>1. IsFiniteSet(copied)
    BY <1>3, <1>5, FS_Subset
  <2>2. IsFiniteSet(copied \cup own)
    BY <2>1, <1>6, FS_Union
  <2>3. t.nodes = copied \cup own
    BY <1>2
  <2> QED  BY <2>2, <2>3, <1>3, <1>5, <1>6
<1>10. IsFiniteSet(t.edges)
  <2>1. IsFiniteSet({e \in s.edges : e[1] \in copied})
    BY <1>3, FS_Subset
  <2>2. t.edges = {e \in s.edges : e[1] \in copied} \cup extra.edges
    BY <1>2
  <2> QED  BY <2>1, <2>2, <1>4, FS_Union
<1>11. \A e \in t.edges : e[1] \in t.nodes /\ e[3] \in t.nodes
  BY <1>2, <1>3, <1>5, <1>7
<1>12. \A k \in DOMAIN t.keys : t.keys[k] \in t.nodes
  BY <1>2, <1>8
<1>13. IsBuilt(t)
  BY <1>2, <1>9, <1>10, <1>11, <1>12 DEF IsBuilt
<1>14. Formals \subseteq DOMAIN t.keys
  <2> SUFFICES ASSUME NEW k \in Formals PROVE k \in tagged
    BY <1>2
  <2> QED  BY <1>5
<1>15. \A k \in Formals : s.keys[k] \in copied /\ t.keys[k] = s.keys[k]
  <2> SUFFICES ASSUME NEW k \in Formals PROVE s.keys[k] \in copied /\ t.keys[k] = s.keys[k]
    OBVIOUS
  <2>1. k \in DOMAIN s.keys /\ s.keys[k] \in copied
    BY <1>5
  <2> QED  BY <1>2, <2>1
<1>16. copied \subseteq t.nodes /\ \A e \in s.edges : e[1] \in copied => e \in t.edges
  BY <1>2
<1> QED  BY <1>1, <1>5, <1>13, <1>14, <1>15, <1>16 DEF t, copied

LEMMA CallerGraphIs ==
  ASSUME NEW s, IsBuilt(s), Formals \subseteq DOMAIN s.keys, NEW extra \in Extras
  PROVE  LET c == CallerGraph(s, extra)
         IN  IsBuilt(c) /\ IsDeterministic(c) /\ Formals \subseteq DOMAIN c.keys
<1> DEFINE t == CallerParts(s, extra)
           q == Quotient(t)
<1>1. CallerGraph(s, extra) = q /\ IsBuilt(t) /\ Formals \subseteq DOMAIN t.keys
  BY CallerPartsAre
<1> HIDE DEF t, q
<1>2. IsBuilt(q) /\ IsDeterministic(q) /\ DOMAIN q.keys = DOMAIN t.keys
  BY <1>1, QuotientIs DEF q
<1> QED  BY <1>1, <1>2

LEMMA OperatedIs ==
  ASSUME NEW op, NEW s, IsSketch(s), NEW t, IsSketch(t)
  PROVE  IsSketch(Operate(op, s, t))
<1>1. CASE op = "intersect"
  BY <1>1, CombinedIs DEF Operate
<1>2. CASE op # "intersect"
  BY <1>2, CombinedIs DEF Operate
<1> QED  BY <1>1, <1>2

(* merged is what the LET of Merged stands for. *)
IsMerged(h, n, ts, op) ==
  h = [i \in 1 .. n |-> IF i = 1 THEN ts[1] ELSE Operate(op, h[i-1], ts[i])]

LEMMA MergedExists ==
  ASSUME NEW ts, NEW op
  PROVE  \A n \in Nat : \E h : IsMerged(h, n, ts, op)
<1> DEFINE P(n) == \E h : IsMerged(h, n, ts, op)
           T == {n \in Nat : P(n)}
<1>1. 0 \in T
  <2> DEFINE h == [i \in 1 .. 0 |-> 0]
  <2>1. IsMerged(h, 0, ts, op)
    BY DEF IsMerged
  <2> HIDE DEF h
  <2> QED  BY <2>1
<1>2. \A n \in Nat : n \in T => n + 1 \in T
  <2> SUFFICES \A n \in Nat : P(n) => P(n + 1)
    <3>1. \A n \in Nat : n + 1 \in Nat
      OBVIOUS
    <3> HIDE DEF P
    <3> QED  BY <3>1
  <2> SUFFICES ASSUME NEW n \in Nat, P(n) PROVE P(n + 1)
    OBVIOUS
  <2>1. PICK h : IsMerged(h, n, ts, op)
    OBVIOUS
  <2> DEFINE k == [i \in 1 .. n+1 |-> IF i \in 1 .. n THEN h[i]
                                      ELSE IF i = 1 THEN ts[1] ELSE Operate(op, h[i-1], ts[i])]
  <2>2. \A i \in 1 .. n : h[i] = IF i = 1 THEN ts[1] ELSE Operate(op, h[i-1], ts[i])
    BY <2>1 DEF IsMerged
  <2>3. \A i \in 1 .. n+1 : k[i] = IF i = 1 THEN ts[1] ELSE Operate(op, k[i-1], ts[i])
    <3> SUFFICES ASSUME NEW i \in 1 .. n+1
                 PROVE  k[i] = IF i = 1 THEN ts[1] ELSE Operate(op, k[i-1], ts[i])
      OBVIOUS
    <3>1. i # 1 => i - 1 \in 1 .. n
      OBVIOUS
    <3>2. i # 1 => k[i-1] = h[i-1]
      BY <3>1
    <3>3. k[i] = IF i = 1 THEN ts[1] ELSE Operate(op, h[i-1], ts[i])
      BY <2>2
    <3> HIDE DEF k
    <3> QED  BY <3>2, <3>3
  <2>4. k = [i \in 1 .. n+1 |-> k[i]]
    OBVIOUS
  <2> HIDE DEF k
  <2>5. IsMerged(k, n + 1, ts, op)
    BY <2>3, <2>4 DEF IsMerged
  <2> QED  BY <2>5
<1> HIDE DEF T
<1>3. \A n \in Nat : n \in T
  BY <1>1, <1>2, NatSetInduction
<1> QED  BY <1>3 DEF T

LEMMA MergedIs ==
  ASSUME NEW n \in Nat, n # 0, NEW ts, DOMAIN ts = 1 .. n, Len(ts) = n,
         \A i \in 1 .. n : IsSketch(ts[i]), NEW op
  PROVE  IsSketch(Merged(ts, op))
<1> DEFINE h == CHOOSE f : IsMerged(f, n, ts, op)
<1>1. IsMerged(h, n, ts, op)
  BY MergedExists
<1>2. Merged(ts, op) = h[n]
  BY DEF Merged, IsMerged
<1> HIDE DEF h
<1>3. \A i \in 1 .. n : h[i] = IF i = 1 THEN ts[1] ELSE Operate(op, h[i-1], ts[i])
  BY <1>1 DEF IsMerged
<1> DEFINE P(k) == k \in 1 .. n => IsSketch(h[k])
           T == {k \in Nat : P(k)}
<1>4. 0 \in T
  OBVIOUS
<1>5. \A k \in Nat : k \in T => k + 1 \in T
  <2> SUFFICES \A k \in Nat : P(k) => P(k + 1)
    <3>1. \A k \in Nat : k + 1 \in Nat
      OBVIOUS
    <3> HIDE DEF P
    <3> QED  BY <3>1
  <2> SUFFICES ASSUME NEW k \in Nat, P(k), k + 1 \in 1 .. n PROVE IsSketch(h[k+1])
    OBVIOUS
  <2>1. CASE k = 0
    BY <1>3, <2>1
  <2>2. CASE k # 0
    <3>1. k \in 1 .. n /\ (k + 1) - 1 = k /\ k + 1 # 1
      BY <2>2
    <3>2. h[k+1] = Operate(op, h[k], ts[k+1])
      BY <1>3, <3>1
    <3>3. IsSketch(h[k]) /\ IsSketch(ts[k+1])
      BY <3>1
    <3> QED  BY <3>2, <3>3, OperatedIs
  <2> QED  BY <2>1, <2>2
<1> HIDE DEF T
<1>6. n \in T
  BY <1>4, <1>5, NatSetInduction
<1>7. n \in 1 .. n
  OBVIOUS
<1> QED  BY <1>2, <1>6, <1>7 DEF T

LEMMA RefinedIs ==
  ASSUME IsBuilt(callee), IsDeterministic(callee), callers \in Seq(Range(callers)),
         NEW k \in DOMAIN callee.keys,
         \A i \in DOMAIN callers : /\ IsBuilt(callers[i]) /\ IsDeterministic(callers[i])
                                   /\ k \in DOMAIN callers[i].keys,
         NEW merge, NEW refine
  PROVE  \A t \in Refined(k, merge, refine) : IsBuilt(t) /\ IsDeterministic(t)
<1> DEFINE orig == SketchOf(callee, k)
           ts == CallsiteTypes(k)
           type == CallSiteType(ts, orig, merge, refine)
           n == Len(callers)
<1>1. n \in Nat /\ DOMAIN callers = 1 .. n
  OBVIOUS
<1>2. IsSketch(orig)
  BY SketchOfIs
<1>3. ts = [i \in 1 .. n |-> SketchOf(callers[i], k)]
  BY <1>1 DEF CallsiteTypes
<1>4. DOMAIN ts = 1 .. n /\ \A i \in 1 .. n : ts[i] = SketchOf(callers[i], k)
  BY <1>3
<1>5. Len(ts) = n
  <2> DEFINE S == {SketchOf(callers[i], k) : i \in 1 .. n}
  <2>1. ts \in [1 .. n -> S]
    BY <1>3
  <2> HIDE DEF S, ts, n
  <2> QED  BY <2>1, <1>1
<1>6. \A i \in 1 .. n : IsSketch(ts[i])
  BY <1>1, <1>4, SketchOfIs
<1> HIDE DEF orig, ts, n
<1>7. IsSketch(type)
  <2>1. CASE ts = <<>>
    BY <2>1, <1>2 DEF CallSiteType
  <2>2. CASE ts # <<>>
    <3>1. n # 0
      <4> SUFFICES ASSUME n = 0 PROVE ts = <<>>
        BY <2>2
      <4> QED  BY <1>3
    <3>2. IsSketch(Merged(ts, merge))
      BY <3>1, <1>1, <1>4, <1>5, <1>6, MergedIs
    <3> QED  BY <2>2, <3>2, <1>2, OperatedIs DEF CallSiteType
  <2> QED  BY <2>1, <2>2
<1> HIDE DEF type
<1> SUFFICES ASSUME NEW t \in Refined(k, merge, refine) PROVE IsBuilt(t) /\ IsDeterministic(t)
  OBVIOUS
<1>8. PICK labeled \in LabelDtvs(type, orig) : t \in ReplaceNode(callee, k, labeled)
  BY DEF Refined, type, ts, orig
<1>9. IsBuilt(labeled) /\ IsDeterministic(labeled)
  BY <1>7, LabelDtvsAre
<1> QED  BY <1>8, <1>9, ReplaceNodeIs

-----------------------------------------------------------------------------
(* The graphs of the components while formals are bound and globals applied. *)
GraphsAreBuilt ==
  /\ callers \in Seq(Range(callers))
  /\ IsBuilt(callee) /\ IsDeterministic(callee)
  /\ \A i \in DOMAIN callers : IsBuilt(callers[i]) /\ IsDeterministic(callers[i])
  /\ phase = "bind" =>
       /\ pending = {}
       /\ refined = {} => callee \in Callees
       /\ \A i \in DOMAIN callers : Formals \subseteq DOMAIN callers[i].keys

GlobalsAreSketches ==
  /\ pending \subseteq Components
  /\ DOMAIN refinedAs \subseteq Globals
  /\ \A k \in DOMAIN refinedAs : IsSketch(refinedAs[k])
  /\ order \in Seq(DOMAIN refinedAs)

GlobalInv == GraphsAreBuilt /\ GlobalsAreSketches

LEMMA SeqOfItsRange ==
  ASSUME NEW S, NEW s \in Seq(S)
  PROVE  s \in Seq(Range(s))
<1> DEFINE R == Range(s)
<1>1. Len(s) \in Nat /\ DOMAIN s = 1 .. Len(s) /\ s = [i \in 1 .. Len(s) |-> s[i]]
  OBVIOUS
<1>2. \A i \in 1 .. Len(s) : s[i] \in R
  BY <1>1 DEF Range
<1> HIDE DEF R
<1>3. s \in [1 .. Len(s) -> R]
  BY <1>1, <1>2
<1>4. s \in Seq(R)
  <2> DEFINE n == Len(s)
  <2>1. n \in Nat /\ s \in [1 .. n -> R]
    BY <1>1, <1>3
  <2> HIDE DEF n
  <2> QED  BY <2>1
<1> QED  BY <1>4 DEF R

LEMMA GraphIs ==
  ASSUME GlobalInv, NEW i \in Components
  PROVE  IsBuilt(Graph(i)) /\ IsDeterministic(Graph(i))
<1>1. CASE i = 0
  BY <1>1 DEF Graph, GlobalInv, GraphsAreBuilt
<1>2. CASE i # 0
  <2>1. DOMAIN callers = 1 .. Len(callers) /\ Len(callers) \in Nat
    BY DEF GlobalInv, GraphsAreBuilt
  <2>2. i \in DOMAIN callers
    BY <1>2, <2>1 DEF Components
  <2> QED  BY <1>2, <2>2 DEF Graph, GlobalInv, GraphsAreBuilt
<1> QED  BY <1>1, <1>2

LEMMA GlobalInitInv == InitGlobal => GlobalInv
<1> SUFFICES ASSUME InitGlobal PROVE GlobalInv
  OBVIOUS
<1>1. callee \in Callees /\ callers = <<>> /\ refined = {} /\ pending = {} /\ refinedAs = <<>> /\ order = <<>>
  BY DEF InitGlobal, BindInit
<1>2. IsBuilt(callee) /\ IsDeterministic(callee)
  BY <1>1, CalleesAssumption
<1>3. DOMAIN callers = {} /\ DOMAIN refinedAs = {}
  BY <1>1
<1>4. callers \in Seq(Range(callers)) /\ order \in Seq(DOMAIN refinedAs)
  BY <1>1
<1> QED  BY <1>1, <1>2, <1>3, <1>4 DEF GlobalInv, GraphsAreBuilt, GlobalsAreSketches

LEMMA GlobalCall ==
  ASSUME GlobalInv, phase = "bind", NEW extra \in Extras, Call(extra), UNCHANGED globalVars
  PROVE  GlobalInv'
<1> DEFINE c == CallerGraph(callee, extra)
           S == Range(callers) \cup {c}
           n == Len(callers)
<1>1. callee \in Callees /\ callee' = callee /\ refined' = refined /\ callers' = Append(callers, c)
  BY DEF Call, GlobalInv, GraphsAreBuilt
<1>2. IsBuilt(callee) /\ IsDeterministic(callee) /\ Formals \subseteq DOMAIN callee.keys
  BY <1>1, CalleesAssumption
<1>3. IsBuilt(c) /\ IsDeterministic(c) /\ Formals \subseteq DOMAIN c.keys
  BY <1>2, CallerGraphIs
<1> HIDE DEF c
<1>4. callers \in Seq(S) /\ c \in S
  BY DEF GlobalInv, GraphsAreBuilt
<1> HIDE DEF S
<1>5. /\ callers' \in Seq(S) /\ Len(callers') = n + 1 /\ n \in Nat
      /\ DOMAIN callers' = 1 .. n+1 /\ DOMAIN callers = 1 .. n
      /\ \A i \in 1 .. n : callers'[i] = callers[i]
      /\ callers'[n+1] = c
  BY <1>1, <1>4, AppendProperties
<1>6. callers' \in Seq(Range(callers'))
  BY <1>5, SeqOfItsRange
<1>7. \A i \in DOMAIN callers' : /\ IsBuilt(callers'[i]) /\ IsDeterministic(callers'[i])
                                 /\ Formals \subseteq DOMAIN callers'[i].keys
  <2> SUFFICES ASSUME NEW i \in DOMAIN callers'
               PROVE  /\ IsBuilt(callers'[i]) /\ IsDeterministic(callers'[i])
                      /\ Formals \subseteq DOMAIN callers'[i].keys
    OBVIOUS
  <2>1. CASE i \in 1 .. n
    <3>1. callers'[i] = callers[i] /\ i \in DOMAIN callers
      BY <1>5, <2>1
    <3> QED  BY <3>1 DEF GlobalInv, GraphsAreBuilt
  <2>2. CASE i = n + 1
    BY <1>3, <1>5, <2>2
  <2> QED  BY <1>5, <2>1, <2>2
<1>8. phase' = phase /\ pending' = pending /\ refinedAs' = refinedAs /\ order' = order
  BY DEF globalVars
<1>9. Range(callers)' = Range(callers')
  OBVIOUS
<1>10. GraphsAreBuilt'
  BY <1>1, <1>2, <1>6, <1>7, <1>8, <1>9 DEF GlobalInv, GraphsAreBuilt
<1>11. GlobalsAreSketches'
  BY <1>8 DEF GlobalInv, GraphsAreBuilt, GlobalsAreSketches
<1> QED  BY <1>10, <1>11 DEF GlobalInv

LEMMA GlobalRefine ==
  ASSUME GlobalInv, phase = "bind", NEW k \in Formals, NEW merge, NEW refine,
         RefineFormal(k, merge, refine), UNCHANGED globalVars
  PROVE  GlobalInv'
<1>1. /\ k \in DOMAIN callee.keys /\ callee' \in Refined(k, merge, refine)
      /\ refined' = refined \cup {k} /\ callers' = callers
  BY DEF RefineFormal
<1>2. phase' = phase /\ pending' = pending /\ refinedAs' = refinedAs /\ order' = order
  BY DEF globalVars
<1>3. IsBuilt(callee') /\ IsDeterministic(callee')
  <2>1. /\ IsBuilt(callee) /\ IsDeterministic(callee) /\ callers \in Seq(Range(callers))
        /\ \A i \in DOMAIN callers : /\ IsBuilt(callers[i]) /\ IsDeterministic(callers[i])
                                     /\ k \in DOMAIN callers[i].keys
    BY DEF GlobalInv, GraphsAreBuilt
  <2> QED  BY <1>1, <2>1, RefinedIs
<1>4. GraphsAreBuilt'
  BY <1>1, <1>2, <1>3 DEF GlobalInv, GraphsAreBuilt, Range
<1>5. GlobalsAreSketches'
  BY <1>1, <1>2 DEF GlobalInv, GlobalsAreSketches, Components
<1> QED  BY <1>4, <1>5 DEF GlobalInv

LEMMA GlobalBind ==
  ASSUME GlobalInv, Bind
  PROVE  GlobalInv'
<1>1. phase = "bind" /\ UNCHANGED globalVars
  BY DEF Bind
<1>2. CASE \E extra \in Extras : Call(extra)
  BY <1>1, <1>2, GlobalCall
<1>3. CASE \E k \in InParams : RefineFormalIn(k)
  <2>1. PICK k \in InParams : RefineFormal(k, "union", "intersect")
    BY <1>3 DEF RefineFormalIn
  <2>2. k \in Formals
    BY DEF Formals
  <2> QED  BY <1>1, <2>1, <2>2, GlobalRefine
<1>4. CASE \E k \in OutParams : RefineFormalOut(k)
  <2>1. PICK k \in OutParams : RefineFormal(k, "intersect", "union")
    BY <1>4 DEF RefineFormalOut
  <2>2. k \in Formals
    BY DEF Formals
  <2> QED  BY <1>1, <2>1, <2>2, GlobalRefine
<1> QED  BY <1>2, <1>3, <1>4 DEF Bind, BindNext

(* What a step that leaves the graphs alone must still show. *)
LEMMA GraphsUnchanged ==
  ASSUME GlobalInv, UNCHANGED bindVars, phase' # "bind"
  PROVE  GraphsAreBuilt' /\ Components' = Components
<1>1. callee' = callee /\ callers' = callers /\ refined' = refined
  BY DEF bindVars
<1>2. GraphsAreBuilt'
  BY <1>1 DEF GlobalInv, GraphsAreBuilt, Range
<1> QED  BY <1>1, <1>2 DEF Components

LEMMA VisitedIs ==
  ASSUME GlobalInv, NEW i, NEW next, Visit(i, next), Components' = Components
  PROVE  i \in Components /\ pending' \subseteq Components'
BY DEF Visit, GlobalInv, GlobalsAreSketches

LEMMA GlobalBound ==
  ASSUME GlobalInv, Bound
  PROVE  GlobalInv'
<1>1. /\ phase' = "collect" /\ pending' = Components /\ UNCHANGED bindVars
      /\ refinedAs' = refinedAs /\ order' = order
  BY DEF Bound
<1>2. GraphsAreBuilt' /\ Components' = Components
  BY <1>1, GraphsUnchanged
<1>3. GlobalsAreSketches'
  BY <1>1, <1>2 DEF GlobalInv, GlobalsAreSketches
<1> QED  BY <1>2, <1>3 DEF GlobalInv

LEMMA GlobalInsert ==
  ASSUME GlobalInv, NEW i \in pending, InsertGlobalSketches(i)
  PROVE  GlobalInv'
<1>1. phase = "collect" /\ Visit(i, "apply") /\ UNCHANGED bindVars
  BY DEF InsertGlobalSketches
<1>2. phase' # "bind"
  BY <1>1 DEF Visit
<1>3. GraphsAreBuilt' /\ Components' = Components
  BY <1>1, <1>2, GraphsUnchanged
<1>4. i \in Components /\ pending' \subseteq Components'
  BY <1>1, <1>3, VisitedIs
<1>5. IsBuilt(Graph(i)) /\ IsDeterministic(Graph(i))
  BY <1>4, GraphIs
<1> DEFINE D == DOMAIN refinedAs \cup GlobalsOf(i)
           own(k) == SketchOf(Graph(i), k)
           met(k) == IF k \notin GlobalsOf(i) THEN refinedAs[k]
                     ELSE Intersect(IF k \in DOMAIN refinedAs THEN refinedAs[k] ELSE own(k), own(k))
<1>6. refinedAs' = [k \in D |-> met(k)]
  BY DEF InsertGlobalSketches
<1>7. \A k \in DOMAIN refinedAs : IsSketch(refinedAs[k])
  BY DEF GlobalInv, GlobalsAreSketches
<1>8. \A k \in GlobalsOf(i) : IsSketch(own(k))
  BY <1>5, SketchOfIs DEF GlobalsOf
<1> HIDE DEF own
<1>9. \A k \in D : IsSketch(met(k))
  <2> SUFFICES ASSUME NEW k \in D PROVE IsSketch(met(k))
    OBVIOUS
  <2>1. CASE k \notin GlobalsOf(i)
    BY <1>7, <2>1
  <2>2. CASE k \in GlobalsOf(i) /\ k \in DOMAIN refinedAs
    BY <1>7, <1>8, <2>2, CombinedIs
  <2>3. CASE k \in GlobalsOf(i) /\ k \notin DOMAIN refinedAs
    BY <1>8, <2>3, CombinedIs
  <2> QED  BY <2>1, <2>2, <2>3
<1> HIDE DEF met
<1>10. DOMAIN refinedAs' = D /\ \A k \in D : IsSketch(refinedAs'[k])
  BY <1>6, <1>9
<1>11. D \subseteq Globals /\ DOMAIN refinedAs \subseteq D
  BY DEF GlobalInv, GlobalsAreSketches, GlobalsOf
<1>12. order' \in Seq(D)
  <2>1. order' = order \/ order' \in SetToSeqs(DOMAIN refinedAs')
    BY DEF InsertGlobalSketches
  <2>2. CASE order' = order
    <3>1. order \in Seq(DOMAIN refinedAs)
      BY DEF GlobalInv, GlobalsAreSketches
    <3> HIDE DEF D
    <3> QED  BY <2>2, <3>1, <1>11
  <2>3. CASE order' \in SetToSeqs(DOMAIN refinedAs')
    <3>1. IsFiniteSet(D)
      <4> HIDE DEF D
      <4> QED  BY <1>11, GlobalsAssumption, FS_Subset
    <3>2. Cardinality(D) \in Nat
      <4> HIDE DEF D
      <4> QED  BY <3>1, FS_CardinalityType
    <3>3. order' \in [1 .. Cardinality(D) -> D]
      <4> HIDE DEF D
      <4> QED  BY <2>3, <1>10 DEF SetToSeqs
    <3> HIDE DEF D
    <3> QED  BY <3>2, <3>3
  <2> QED  BY <2>1, <2>2, <2>3
<1>13. GlobalsAreSketches'
  <2> HIDE DEF D
  <2> QED  BY <1>4, <1>10, <1>11, <1>12 DEF GlobalsAreSketches
<1> QED  BY <1>3, <1>13 DEF GlobalInv

LEMMA ReplaceNodeKeys ==
  ASSUME NEW s, NEW key, NEW r, NEW t \in ReplaceNode(s, key, r)
  PROVE  DOMAIN t.keys \subseteq DOMAIN s.keys \cup DOMAIN r.keys
<1>1. PICK visits : t = Replaced(s, key, r, visits)
  BY DEF ReplaceNode
<1> DEFINE gone == Reached(s, {s.keys[key]})
           target == [n \in gone |-> Replacement(visits, r, key, n)]
<1>2. t.keys = NewLabeling(s, r, gone, target)
  BY <1>1 DEF Replaced
<1> HIDE DEF gone, target
<1> QED  BY <1>2 DEF NewLabeling

GlobalKeys == UNION {DOMAIN refinedAs[k].keys : k \in DOMAIN refinedAs}

LEMMA MaybeReplacedIs ==
  ASSUME GlobalInv, NEW s, IsBuilt(s), IsDeterministic(s), NEW k \in DOMAIN refinedAs
  PROVE  \A t \in MaybeReplaced(s, k) :
           IsBuilt(t) /\ IsDeterministic(t) /\ DOMAIN t.keys \subseteq DOMAIN s.keys \cup GlobalKeys
<1>1. IsBuilt(refinedAs[k]) /\ IsDeterministic(refinedAs[k])
  BY DEF GlobalInv, GlobalsAreSketches, IsSketch
<1>2. \A t \in MaybeReplaced(s, k) : IsBuilt(t) /\ IsDeterministic(t)
  BY <1>1, ReplaceNodeIs DEF MaybeReplaced
<1>3. \A t \in MaybeReplaced(s, k) : DOMAIN t.keys \subseteq DOMAIN s.keys \cup DOMAIN refinedAs[k].keys
  BY ReplaceNodeKeys DEF MaybeReplaced
<1>4. DOMAIN refinedAs[k].keys \subseteq GlobalKeys
  BY DEF GlobalKeys
<1> QED  BY <1>2, <1>3, <1>4

(* after is what the LET of Instantiated stands for. *)
IsInstantiation(h, n, i) ==
  h = [j \in 0 .. n |-> IF j = 0 THEN {Graph(i)} ELSE AllMaybeReplaced(h[j-1], order[j])]

LEMMA InstantiationExists ==
  ASSUME NEW i
  PROVE  \A n \in Nat : \E h : IsInstantiation(h, n, i)
<1> DEFINE P(n) == \E h : IsInstantiation(h, n, i)
           T == {n \in Nat : P(n)}
<1>1. 0 \in T
  <2> DEFINE h == [j \in 0 .. 0 |-> {Graph(i)}]
  <2>1. IsInstantiation(h, 0, i)
    BY DEF IsInstantiation
  <2> HIDE DEF h
  <2> QED  BY <2>1
<1>2. \A n \in Nat : n \in T => n + 1 \in T
  <2> SUFFICES \A n \in Nat : P(n) => P(n + 1)
    <3>1. \A n \in Nat : n + 1 \in Nat
      OBVIOUS
    <3> HIDE DEF P
    <3> QED  BY <3>1
  <2> SUFFICES ASSUME NEW n \in Nat, P(n) PROVE P(n + 1)
    OBVIOUS
  <2>1. PICK h : IsInstantiation(h, n, i)
    OBVIOUS
  <2> DEFINE f == [j \in 0 .. n+1 |-> IF j \in 0 .. n THEN h[j] ELSE AllMaybeReplaced(h[j-1], order[j])]
  <2>2. \A j \in 0 .. n : h[j] = IF j = 0 THEN {Graph(i)} ELSE AllMaybeReplaced(h[j-1], order[j])
    BY <2>1 DEF IsInstantiation
  <2>3. \A j \in 0 .. n+1 : f[j] = IF j = 0 THEN {Graph(i)} ELSE AllMaybeReplaced(f[j-1], order[j])
    <3> SUFFICES ASSUME NEW j \in 0 .. n+1
                 PROVE  f[j] = IF j = 0 THEN {Graph(i)} ELSE AllMaybeReplaced(f[j-1], order[j])
      OBVIOUS
    <3>1. j # 0 => j - 1 \in 0 .. n
      OBVIOUS
    <3>2. j # 0 => f[j-1] = h[j-1]
      BY <3>1
    <3>3. f[j] = IF j = 0 THEN {Graph(i)} ELSE AllMaybeReplaced(h[j-1], order[j])
      BY <2>2
    <3> HIDE DEF f
    <3> QED  BY <3>2, <3>3
  <2>4. f = [j \in 0 .. n+1 |-> f[j]]
    OBVIOUS
  <2> HIDE DEF f
  <2>5. IsInstantiation(f, n + 1, i)
    BY <2>3, <2>4 DEF IsInstantiation
  <2> QED  BY <2>5
<1> HIDE DEF T
<1>3. \A n \in Nat : n \in T
  BY <1>1, <1>2, NatSetInduction
<1> QED  BY <1>3 DEF T

LEMMA InstantiatedIs ==
  ASSUME GlobalInv, NEW i \in Components
  PROVE  \A t \in Instantiated(i) :
           IsBuilt(t) /\ IsDeterministic(t) /\ DOMAIN t.keys \subseteq DOMAIN Graph(i).keys \cup GlobalKeys
<1> DEFINE K == DOMAIN Graph(i).keys \cup GlobalKeys
           n == Len(order)
           h == CHOOSE f : IsInstantiation(f, n, i)
<1>1. order \in Seq(DOMAIN refinedAs) /\ n \in Nat
  BY DEF GlobalInv, GlobalsAreSketches
<1>2. IsInstantiation(h, n, i)
  BY <1>1, InstantiationExists
<1>3. Instantiated(i) = h[n]
  BY DEF Instantiated, IsInstantiation
<1> HIDE DEF h
<1>4. \A j \in 0 .. n : h[j] = IF j = 0 THEN {Graph(i)} ELSE AllMaybeReplaced(h[j-1], order[j])
  BY <1>2 DEF IsInstantiation
<1> DEFINE P(k) == k <= n => \A t \in h[k] : IsBuilt(t) /\ IsDeterministic(t) /\ DOMAIN t.keys \subseteq K
           T == {k \in Nat : P(k)}
<1>5. 0 \in T
  <2>1. h[0] = {Graph(i)}
    BY <1>1, <1>4
  <2>2. P(0)
    BY <2>1, GraphIs
  <2> HIDE DEF P
  <2> QED  BY <2>2
<1>6. \A k \in Nat : k \in T => k + 1 \in T
  <2> SUFFICES \A k \in Nat : P(k) => P(k + 1)
    <3>1. \A k \in Nat : k + 1 \in Nat
      OBVIOUS
    <3> HIDE DEF P
    <3> QED  BY <3>1
  <2> SUFFICES ASSUME NEW k \in Nat, P(k), k + 1 <= n, NEW t \in h[k+1]
               PROVE  IsBuilt(t) /\ IsDeterministic(t) /\ DOMAIN t.keys \subseteq K
    OBVIOUS
  <2> HIDE DEF n
  <2>1. k + 1 \in 0 .. n /\ k + 1 # 0 /\ (k + 1) - 1 = k /\ k + 1 \in 1 .. n /\ k <= n
    BY <1>1
  <2>2. h[k+1] = AllMaybeReplaced(h[k], order[k+1])
    BY <1>4, <2>1
  <2>3. PICK graph \in h[k] : t \in MaybeReplaced(graph, order[k+1])
    BY <2>2 DEF AllMaybeReplaced
  <2>4. IsBuilt(graph) /\ IsDeterministic(graph) /\ DOMAIN graph.keys \subseteq K
    BY <2>1, <2>3
  <2>5. order[k+1] \in DOMAIN refinedAs
    BY <1>1, <2>1 DEF n
  <2>6. /\ IsBuilt(t) /\ IsDeterministic(t)
        /\ DOMAIN t.keys \subseteq DOMAIN graph.keys \cup GlobalKeys
    BY <2>3, <2>4, <2>5, MaybeReplacedIs
  <2> QED  BY <2>4, <2>6
<1> HIDE DEF T
<1>7. n \in T
  BY <1>1, <1>5, <1>6, NatSetInduction
<1>8. P(n)
  <2> HIDE DEF P
  <2> QED  BY <1>7 DEF T
<1>9. n <= n
  BY <1>1
<1> QED  BY <1>3, <1>8, <1>9

LEMMA GlobalApply ==
  ASSUME GlobalInv, NEW i \in pending, ApplyGlobalInstantiations(i)
  PROVE  GlobalInv'
<1>1. /\ phase = "apply" /\ Visit(i, "alias")
      /\ refined' = refined /\ refinedAs' = refinedAs /\ order' = order
  BY DEF ApplyGlobalInstantiations
<1>2. phase' # "bind"
  BY <1>1 DEF Visit
<1>3. PICK graph \in Instantiated(i) :
        IF i = 0 THEN callee' = graph /\ UNCHANGED callers
        ELSE callers' = [callers EXCEPT ![i] = graph] /\ UNCHANGED callee
  BY DEF ApplyGlobalInstantiations
<1>4. i \in Components
  BY DEF GlobalInv, GlobalsAreSketches
<1>5. IsBuilt(graph) /\ IsDeterministic(graph)
  BY <1>3, <1>4, InstantiatedIs
<1>6. /\ IsBuilt(callee) /\ IsDeterministic(callee) /\ callers \in Seq(Range(callers))
      /\ \A j \in DOMAIN callers : IsBuilt(callers[j]) /\ IsDeterministic(callers[j])
      /\ Len(callers) \in Nat /\ DOMAIN callers = 1 .. Len(callers)
  BY DEF GlobalInv, GraphsAreBuilt
<1>7. /\ IsBuilt(callee') /\ IsDeterministic(callee') /\ callers' \in Seq(Range(callers'))
      /\ \A j \in DOMAIN callers' : IsBuilt(callers'[j]) /\ IsDeterministic(callers'[j])
      /\ Len(callers') = Len(callers)
  <2>1. CASE i = 0
    BY <1>3, <1>5, <1>6, <2>1
  <2>2. CASE i # 0
    <3> DEFINE S == Range(callers) \cup {graph}
    <3>1. callers' = [callers EXCEPT ![i] = graph] /\ callee' = callee
      BY <1>3, <2>2
    <3>2. callers \in Seq(S) /\ graph \in S
      BY <1>6
    <3>3. i \in 1 .. Len(callers)
      BY <1>4, <1>6, <2>2 DEF Components
    <3> HIDE DEF S
    <3>4. /\ callers' \in Seq(S) /\ Len(callers') = Len(callers)
          /\ \A j \in 1 .. Len(callers) : callers'[j] = IF j = i THEN graph ELSE callers[j]
      BY <3>1, <3>2, <3>3, ExceptSeq
    <3>5. DOMAIN callers' = 1 .. Len(callers)
      BY <3>1, <1>6
    <3>6. callers' \in Seq(Range(callers'))
      BY <3>4, SeqOfItsRange
    <3>7. \A j \in DOMAIN callers' : IsBuilt(callers'[j]) /\ IsDeterministic(callers'[j])
      BY <3>4, <3>5, <1>5, <1>6
    <3> QED  BY <3>1, <3>4, <3>6, <3>7, <1>6
  <2> QED  BY <2>1, <2>2
<1>8. Range(callers)' = Range(callers')
  OBVIOUS
<1>9. GraphsAreBuilt'
  BY <1>2, <1>7, <1>8 DEF GraphsAreBuilt
<1>10. Components' = Components
  BY <1>7 DEF Components
<1>11. pending' \subseteq Components'
  BY <1>1, <1>10, VisitedIs
<1>12. GlobalsAreSketches'
  BY <1>1, <1>11 DEF GlobalInv, GlobalsAreSketches
<1> QED  BY <1>9, <1>12 DEF GlobalInv

LEMMA GlobalNextInv == GlobalInv /\ [NextGlobal]_<<bindVars, globalVars>> => GlobalInv'
<1> SUFFICES ASSUME GlobalInv, [NextGlobal]_<<bindVars, globalVars>> PROVE GlobalInv'
  OBVIOUS
<1>0. ASSUME UNCHANGED bindVars, phase' # "bind", refinedAs' = refinedAs, order' = order,
             Components' = Components => pending' \subseteq Components'
      PROVE  GlobalInv'
  <2>1. GraphsAreBuilt' /\ Components' = Components
    BY <1>0, GraphsUnchanged
  <2>2. GlobalsAreSketches'
    BY <1>0, <2>1 DEF GlobalInv, GlobalsAreSketches
  <2> QED  BY <2>1, <2>2 DEF GlobalInv
<1>p. pending \subseteq Components
  BY DEF GlobalInv, GlobalsAreSketches
<1>1. CASE Bind
  BY <1>1, GlobalBind
<1>2. CASE Bound
  BY <1>2, GlobalBound
<1>3. CASE \E i \in pending : InsertGlobalSketches(i)
  BY <1>3, GlobalInsert
<1>4. CASE \E i \in pending : ApplyGlobalInstantiations(i)
  BY <1>4, GlobalApply
<1>5. CASE CollectAliases
  BY <1>0, <1>5, <1>p DEF CollectAliases
<1>6. CASE ExtendAliases
  BY <1>0, <1>6, <1>p DEF ExtendAliases
<1>7. CASE \E k \in DOMAIN refinedAs : CopyGlobal(k)
  BY <1>0, <1>7, <1>p DEF CopyGlobal
<1>8. CASE \E i \in pending : CopyBuiltSketch(i)
  <2>1. PICK i \in pending : CopyBuiltSketch(i)
    BY <1>8
  <2>2. Visit(i, "done") /\ phase = "copy" /\ UNCHANGED bindVars /\ refinedAs' = refinedAs /\ order' = order
    BY <2>1 DEF CopyBuiltSketch
  <2>3. phase' # "bind"
    BY <2>2 DEF Visit
  <2>4. Components' = Components => pending' \subseteq Components'
    BY <2>2, VisitedIs
  <2> QED  BY <1>0, <2>2, <2>3, <2>4
<1>9. CASE UNCHANGED <<bindVars, globalVars>>
  BY <1>9 DEF GlobalInv, GraphsAreBuilt, GlobalsAreSketches, Components, Range, bindVars, globalVars
<1> QED  BY <1>1, <1>2, <1>3, <1>4, <1>5, <1>6, <1>7, <1>8, <1>9 DEF NextGlobal

(* "preserve invariant that no two equal outgoing edges without merging       *)
(* nodes": replace_node, which refines formals and puts in globals, never     *)
(* makes a graph of a component nondeterministic.                             *)
THEOREM GraphsStayDeterministic == SpecGlobal => []Deterministic
<1>1. GlobalInv => Deterministic
  BY GraphIs DEF Deterministic
<1> QED  BY <1>1, GlobalInitInv, GlobalNextInv, PTL DEF SpecGlobal

-----------------------------------------------------------------------------
(* Aliases and the graph of all types *)

(* Every global of a component that the phase has been to has a sketch, of   *)
(* which it is the only key.                                                 *)
GlobalsAreKnown ==
  /\ \A k \in DOMAIN refinedAs : refinedAs[k].repr = k /\ DOMAIN refinedAs[k].keys = {k}
  /\ \A i \in Components :
       phase \in {"bind", "collect"} \/ GlobalsOf(i) \subseteq DOMAIN refinedAs
  /\ phase = "collect" => \A i \in Components \ pending : GlobalsOf(i) \subseteq DOMAIN refinedAs

(* A location of component i stands for a node of a global's sketch or, in a *)
(* caller, of the callee.                                                    *)
IsEarlier(to, i) ==
  \/ \E k \in DOMAIN refinedAs : \E n \in refinedAs[k].nodes : to = <<"global", k, n>>
  \/ i # 0 /\ \E n \in callee.nodes : to = <<"scc", 0, n>>

AliasesAreEarlier ==
  /\ phase \in {"bind", "collect", "apply", "alias"} => aliases = <<>>
  /\ \A loc \in DOMAIN aliases :
       loc[2] \in Components /\ IsEarlier(aliases[loc], loc[2])

\* The components whose locations are known.
Copied ==
  IF phase = "copy" THEN Components \ pending
  ELSE IF phase = "done" THEN Components ELSE {}

IsCopied(k) == <<"global", k>> \in DOMAIN types.keys

CalleesAreFirst ==
  /\ phase \in {"alias", "extend"} => pending = Components
  /\ phase \notin {"copy", "done"} => index = <<>> /\ types = NoTypes
  /\ \A k \in DOMAIN refinedAs :
       IsCopied(k) => \A n \in refinedAs[k].nodes : <<"global", k, n>> \in DOMAIN index
  /\ \A i \in Components : \A n \in Graph(i).nodes : <<"scc", i, n>> \in DOMAIN index <=> i \in Copied
  /\ Copied # {} => 0 \in Copied /\ \A k \in DOMAIN refinedAs : IsCopied(k)

AliasInv == GlobalInv /\ GlobalsAreKnown /\ AliasesAreEarlier /\ CalleesAreFirst

-----------------------------------------------------------------------------
LEMMA QuotientKeys ==
  ASSUME NEW s, "keys" \in DOMAIN s
  PROVE  DOMAIN Quotient(s).keys = DOMAIN s.keys
BY DEF Quotient, QuotientBy, QuotientGraph

LEMMA IntersectKeys ==
  ASSUME NEW s, NEW t
  PROVE  DOMAIN Intersect(s, t).keys = {s.repr}
BY QuotientKeys DEF Intersect, BinopSketch

LEMMA SameGraphs ==
  ASSUME UNCHANGED bindVars
  PROVE  /\ \A i : Graph(i)' = Graph(i) /\ GlobalsOf(i)' = GlobalsOf(i)
         /\ Components' = Components
BY DEF bindVars, Graph, GlobalsOf, Components

LEMMA KnownInit == InitGlobal => GlobalsAreKnown
BY DEF InitGlobal, GlobalsAreKnown

LEMMA KnownInsert ==
  ASSUME GlobalInv, GlobalsAreKnown, NEW i \in pending, InsertGlobalSketches(i)
  PROVE  GlobalsAreKnown'
<1>1. phase = "collect" /\ Visit(i, "apply") /\ UNCHANGED bindVars
  BY DEF InsertGlobalSketches
<1>2. /\ \A j : GlobalsOf(j)' = GlobalsOf(j)
      /\ Components' = Components
  BY <1>1, SameGraphs
<1> DEFINE D == DOMAIN refinedAs \cup GlobalsOf(i)
           own(k) == SketchOf(Graph(i), k)
           met(k) == IF k \notin GlobalsOf(i) THEN refinedAs[k]
                     ELSE Intersect(IF k \in DOMAIN refinedAs THEN refinedAs[k] ELSE own(k), own(k))
<1>3. refinedAs' = [k \in D |-> met(k)]
  BY DEF InsertGlobalSketches
<1>4. /\ \A k \in DOMAIN refinedAs : IsSketch(refinedAs[k]) /\ refinedAs[k].repr = k
      /\ \A k \in DOMAIN refinedAs : DOMAIN refinedAs[k].keys = {k}
  BY DEF GlobalInv, GlobalsAreSketches, GlobalsAreKnown
<1>5. \A k \in GlobalsOf(i) : IsSketch(own(k)) /\ own(k).repr = k
  <2>1. IsBuilt(Graph(i)) /\ IsDeterministic(Graph(i))
    BY GraphIs DEF GlobalInv, GlobalsAreSketches
  <2> QED  BY <2>1, SketchOfIs DEF GlobalsOf
<1> HIDE DEF own
<1>6. \A k \in D : met(k).repr = k /\ DOMAIN met(k).keys = {k}
  <2> SUFFICES ASSUME NEW k \in D PROVE met(k).repr = k /\ DOMAIN met(k).keys = {k}
    OBVIOUS
  <2>1. CASE k \notin GlobalsOf(i)
    BY <1>4, <2>1
  <2>2. CASE k \in GlobalsOf(i)
    <3> DEFINE first == IF k \in DOMAIN refinedAs THEN refinedAs[k] ELSE own(k)
    <3>1. IsSketch(first) /\ IsSketch(own(k)) /\ first.repr = k
      BY <1>4, <1>5, <2>2
    <3>2. met(k) = Intersect(first, own(k))
      BY <2>2
    <3> HIDE DEF first, met
    <3> QED  BY <3>1, <3>2, CombinedIs, IntersectKeys
  <2> QED  BY <2>1, <2>2
<1> HIDE DEF met
<1>7. DOMAIN refinedAs' = D /\ \A k \in D : refinedAs'[k].repr = k /\ DOMAIN refinedAs'[k].keys = {k}
  BY <1>3, <1>6
<1>8. \A j \in Components \ pending : GlobalsOf(j) \subseteq D
  BY <1>1 DEF GlobalsAreKnown
<1>9. GlobalsOf(i) \subseteq D
  OBVIOUS
<1> HIDE DEF D
<1>10. CASE pending = {i}
  <2>1. phase' = "apply" /\ \A j \in Components : GlobalsOf(j) \subseteq D
    BY <1>1, <1>8, <1>9, <1>10 DEF Visit
  <2> QED  BY <2>1, <1>2, <1>7 DEF GlobalsAreKnown
<1>11. CASE pending # {i}
  <2>1. phase' = "collect" /\ \A j \in Components \ pending' : GlobalsOf(j) \subseteq D
    BY <1>1, <1>8, <1>9, <1>11 DEF Visit
  <2> QED  BY <2>1, <1>2, <1>7 DEF GlobalsAreKnown
<1> QED  BY <1>10, <1>11

LEMMA ApplyKeepsComponents ==
  ASSUME GlobalInv, NEW i \in pending, ApplyGlobalInstantiations(i)
  PROVE  Components' = Components
<1>1. PICK graph \in Instantiated(i) :
        IF i = 0 THEN callee' = graph /\ UNCHANGED callers
        ELSE callers' = [callers EXCEPT ![i] = graph] /\ UNCHANGED callee
  BY DEF ApplyGlobalInstantiations
<1>2. callers \in Seq(Range(callers)) /\ Len(callers) \in Nat /\ DOMAIN callers = 1 .. Len(callers)
  BY DEF GlobalInv, GraphsAreBuilt
<1>3. CASE i = 0
  BY <1>1, <1>3 DEF Components
<1>4. CASE i # 0
  <2>1. callers' = [callers EXCEPT ![i] = graph]
    BY <1>1, <1>4
  <2>2. Len(callers') = Len(callers)
    BY <2>1, <1>2
  <2> QED  BY <2>2 DEF Components
<1> QED  BY <1>3, <1>4

LEMMA KnownApply ==
  ASSUME GlobalInv, GlobalsAreKnown, NEW i \in pending, ApplyGlobalInstantiations(i)
  PROVE  GlobalsAreKnown'
<1>1. phase = "apply" /\ phase' \in {"apply", "alias"} /\ refinedAs' = refinedAs
  BY DEF ApplyGlobalInstantiations, Visit
<1>2. PICK graph \in Instantiated(i) :
        IF i = 0 THEN callee' = graph /\ UNCHANGED callers
        ELSE callers' = [callers EXCEPT ![i] = graph] /\ UNCHANGED callee
  BY DEF ApplyGlobalInstantiations
<1>3. i \in Components
  BY DEF GlobalInv, GlobalsAreSketches
<1>4. DOMAIN graph.keys \subseteq DOMAIN Graph(i).keys \cup GlobalKeys
  BY <1>2, <1>3, InstantiatedIs
<1>5. GlobalKeys \subseteq DOMAIN refinedAs
  BY DEF GlobalKeys, GlobalsAreKnown
<1>6. callers \in Seq(Range(callers)) /\ Len(callers) \in Nat /\ DOMAIN callers = 1 .. Len(callers)
  BY DEF GlobalInv, GraphsAreBuilt
<1>7. \A j \in Components : GlobalsOf(j) \subseteq DOMAIN refinedAs
  BY <1>1 DEF GlobalsAreKnown
<1>8. \A j \in Components : Graph(j)' = IF j = i THEN graph ELSE Graph(j)
  <2>1. CASE i = 0
    BY <1>2, <2>1 DEF Graph
  <2>2. CASE i # 0
    <3>1. callers' = [callers EXCEPT ![i] = graph] /\ callee' = callee
      BY <1>2, <2>2
    <3>2. \A j \in DOMAIN callers : callers'[j] = IF j = i THEN graph ELSE callers[j]
      BY <3>1
    <3>3. \A j \in Components : j # 0 => j \in DOMAIN callers
      BY <1>6 DEF Components
    <3> QED  BY <2>2, <3>1, <3>2, <3>3 DEF Graph
  <2> QED  BY <2>1, <2>2
<1>9. Components' = Components
  BY ApplyKeepsComponents
<1>10. \A j \in Components : GlobalsOf(j)' \subseteq DOMAIN refinedAs
  <2> SUFFICES ASSUME NEW j \in Components, NEW k \in GlobalsOf(j)' PROVE k \in DOMAIN refinedAs
    OBVIOUS
  <2>1. k \in Globals /\ k \in DOMAIN Graph(j)'.keys
    BY DEF GlobalsOf
  <2>2. k \in DOMAIN Graph(j).keys \/ k \in DOMAIN refinedAs
    BY <2>1, <1>4, <1>5, <1>8
  <2> QED  BY <2>1, <2>2, <1>7 DEF GlobalsOf
<1> QED  BY <1>1, <1>9, <1>10 DEF GlobalsAreKnown

LEMMA KnownNext ==
  ASSUME GlobalInv, GlobalsAreKnown, [NextGlobal]_<<bindVars, globalVars>>
  PROVE  GlobalsAreKnown'
<1>0. ASSUME UNCHANGED bindVars, refinedAs' = refinedAs, phase \notin {"bind", "collect"}, phase' # "collect"
      PROVE  GlobalsAreKnown'
  BY <1>0, SameGraphs DEF GlobalsAreKnown
<1>1. CASE Bind
  BY <1>1 DEF Bind, globalVars, GlobalsAreKnown
<1>2. CASE Bound
  <2>1. phase' = "collect" /\ pending' = Components /\ refinedAs' = refinedAs /\ Components' = Components
    BY <1>2, SameGraphs DEF Bound
  <2> QED  BY <2>1 DEF GlobalsAreKnown
<1>3. CASE \E i \in pending : InsertGlobalSketches(i)
  BY <1>3, KnownInsert
<1>4. CASE \E i \in pending : ApplyGlobalInstantiations(i)
  BY <1>4, KnownApply
<1>5. CASE CollectAliases
  BY <1>0, <1>5 DEF CollectAliases
<1>6. CASE ExtendAliases
  BY <1>0, <1>6 DEF ExtendAliases
<1>7. CASE \E k \in DOMAIN refinedAs : CopyGlobal(k)
  BY <1>0, <1>7 DEF CopyGlobal
<1>8. CASE \E i \in pending : CopyBuiltSketch(i)
  BY <1>0, <1>8 DEF CopyBuiltSketch, Visit
<1>9. CASE UNCHANGED <<bindVars, globalVars>>
  BY <1>9, SameGraphs DEF GlobalsAreKnown, globalVars
<1> QED  BY <1>1, <1>2, <1>3, <1>4, <1>5, <1>6, <1>7, <1>8, <1>9 DEF NextGlobal

LEMMA LastWritesAre ==
  ASSUME NEW R, NEW f \in LastWrites(R)
  PROVE  \A loc \in DOMAIN f : <<loc, f[loc]>> \in R
<1> DEFINE written == {p[1] : p \in R}
           values == {p[2] : p \in R}
<1>1. PICK W \in kSubset(Cardinality(written), R) :
        /\ \A loc \in written : \E v \in values : <<loc, v>> \in W
        /\ f = [loc \in written |-> CHOOSE v \in values : <<loc, v>> \in W]
  BY DEF LastWrites
<1>2. W \subseteq R
  BY DEF kSubset
<1> HIDE DEF written, values
<1>3. \A loc \in written : <<loc, f[loc]>> \in W
  BY <1>1
<1> QED  BY <1>1, <1>2, <1>3

LEMMA SurvivingIs ==
  ASSUME NEW inserted, NEW later, NEW p \in Surviving(inserted, later)
  PROVE  \E j \in DOMAIN inserted : p \in inserted[j]
BY DEF Surviving

LEMMA OverIs ==
  ASSUME NEW f, NEW h
  PROVE  /\ DOMAIN Over(f, h) = DOMAIN f \cup DOMAIN h
         /\ \A x \in DOMAIN f : Over(f, h)[x] = f[x]
         /\ \A x \in DOMAIN h \ DOMAIN f : Over(f, h)[x] = h[x]
BY DEF Over

\* What a pair of an alias must say.
IsEarly(p) == p[1][2] \in Components /\ IsEarlier(p[2], p[1][2])

LEMMA GlobalAliasesEarly ==
  ASSUME GlobalInv, GlobalsAreKnown, phase \notin {"bind", "collect"}, NEW i \in Components
  PROVE  \A p \in GlobalAliases(i) : IsEarly(p)
<1> SUFFICES ASSUME NEW k \in GlobalsOf(i)
             PROVE  IsEarly(<<<<"scc", i, Graph(i).keys[k]>>, <<"global", k, Entry(refinedAs[k])>>>>)
  BY DEF GlobalAliases
<1>1. k \in DOMAIN refinedAs
  BY DEF GlobalsAreKnown
<1>2. Entry(refinedAs[k]) \in refinedAs[k].nodes
  BY <1>1 DEF GlobalInv, GlobalsAreSketches, IsSketch, IsBuilt, Entry
<1>3. IsEarlier(<<"global", k, Entry(refinedAs[k])>>, i)
  BY <1>1, <1>2 DEF IsEarlier
<1> QED  BY <1>3 DEF IsEarly

LEMMA FormalAliasesEarly ==
  ASSUME GlobalInv, NEW k, NEW i \in DOMAIN callers, NEW P \in FormalAliases(k, i)
  PROVE  \A p \in P : IsEarly(p)
<1> SUFFICES ASSUME NEW p \in P PROVE IsEarly(p)
  OBVIOUS
<1>1. i \in Components /\ i # 0
  BY DEF GlobalInv, GraphsAreBuilt, Components
<1>2. PICK m, n : p = <<<<"scc", i, m>>, <<"scc", 0, n>>>> /\ n \in callee.nodes
  BY DEF FormalAliases
<1> QED  BY <1>1, <1>2 DEF IsEarly, IsEarlier

LEMMA OneOfEachIs ==
  ASSUME NEW A, NEW f \in OneOfEach(A), NEW x \in DOMAIN A
  PROVE  f[x] \in A[x]
BY DEF OneOfEach

LEMMA AllFormalAliasesEarly ==
  ASSUME GlobalInv, NEW k, NEW P \in AllFormalAliases(k)
  PROVE  \A p \in P : IsEarly(p)
<1> DEFINE ways == [i \in DOMAIN callers |-> FormalAliases(k, i)]
<1>1. PICK f \in OneOfEach(ways) : P = UNION {f[i] : i \in DOMAIN callers}
  BY DEF AllFormalAliases
<1>2. \A i \in DOMAIN callers : f[i] \in FormalAliases(k, i)
  BY OneOfEachIs
<1> QED  BY <1>1, <1>2, FormalAliasesEarly

LEMMA FoundForEach ==
  ASSUME NEW formals \in FormalOrders, NEW found \in FoundFor(formals)
  PROVE  Len(found) \in Nat /\ \A j \in 1 .. Len(found) : \E k : found[j] \in AllFormalAliases(k)
<1>0. found \in OneOfEach([j \in DOMAIN formals |-> AllFormalAliases(formals[j])])
  BY DEF FoundFor
<1>1. PICK ins \in SetToSeqs(InParams), outs \in SetToSeqs(OutParams) : formals = ins \o outs
  BY DEF FormalOrders
<1> DEFINE n == Len(ins) + Len(outs)
           ways == [j \in DOMAIN formals |-> AllFormalAliases(formals[j])]
<1>2. \A j \in DOMAIN formals : found[j] \in AllFormalAliases(formals[j])
  BY <1>0, OneOfEachIs
<1>3. DOMAIN found = DOMAIN formals
  BY <1>0 DEF OneOfEach
<1>4. n \in Nat /\ DOMAIN formals = 1 .. n
  BY <1>1 DEF SetToSeqs
<1>5. found \in Seq(UNION {ways[j] : j \in DOMAIN ways})
  BY <1>0, <1>4 DEF OneOfEach
<1> QED  BY <1>2, <1>3, <1>4, <1>5

LEMMA CollectedEarly ==
  ASSUME GlobalInv, GlobalsAreKnown, phase \notin {"bind", "collect"},
         NEW found, Len(found) \in Nat,
         \A j \in 1 .. Len(found) : \E k : found[j] \in AllFormalAliases(k)
  PROVE  \A p \in Collected(found) : IsEarly(p)
<1> SUFFICES ASSUME NEW p \in Collected(found) PROVE IsEarly(p)
  OBVIOUS
<1> DEFINE last == Len(found) + 1
           inserted == [j \in 0 .. last |->
                          IF j = 0 THEN UNION {GlobalAliases(i) : i \in DOMAIN callers}
                          ELSE IF j = last THEN GlobalAliases(0)
                          ELSE found[j]]
<1>1. PICK j \in DOMAIN inserted : p \in inserted[j]
  BY SurvivingIs DEF Collected
<1>2. DOMAIN callers \subseteq Components /\ 0 \in Components
  BY DEF GlobalInv, GraphsAreBuilt, Components
<1>3. CASE j = 0
  <2>1. PICK i \in DOMAIN callers : p \in GlobalAliases(i)
    BY <1>1, <1>3
  <2> QED  BY <2>1, <1>2, GlobalAliasesEarly
<1>4. CASE j # 0 /\ j = last
  BY <1>1, <1>2, <1>4, GlobalAliasesEarly
<1>5. CASE j # 0 /\ j # last
  <2>1. p \in found[j] /\ j \in 1 .. Len(found)
    BY <1>1, <1>5
  <2> QED  BY <2>1, AllFormalAliasesEarly
<1> QED  BY <1>3, <1>4, <1>5

LEMMA ImpliedEarly ==
  ASSUME AliasesAreEarlier, NEW from \in DOMAIN aliases
  PROVE  \A p \in Implied(from) : IsEarly(p)
<1> SUFFICES ASSUME NEW p \in Implied(from) PROVE IsEarly(p)
  OBVIOUS
<1> DEFINE to == aliases[from]
           i == from[2]
<1>1. i \in Components /\ IsEarlier(to, i)
  BY DEF AliasesAreEarlier
<1>2. PICK m, w : /\ p = <<<<"scc", i, m>>, ChildOf(to, w)>>
                  /\ p[2][3] \in GraphAt(to).nodes
  BY DEF Implied
<1> HIDE DEF to
<1>3. PICK n : ChildOf(to, w) = <<to[1], to[2], n>> /\ n \in GraphAt(to).nodes
  BY <1>2 DEF ChildOf
<1>4. IsEarlier(<<to[1], to[2], n>>, i)
  <2>1. CASE \E k \in DOMAIN refinedAs : \E x \in refinedAs[k].nodes : to = <<"global", k, x>>
    <3>1. PICK k \in DOMAIN refinedAs : to[1] = "global" /\ to[2] = k
      BY <2>1
    <3>2. n \in refinedAs[k].nodes
      BY <1>3, <3>1 DEF GraphAt
    <3> QED  BY <3>1, <3>2 DEF IsEarlier
  <2>2. CASE i # 0 /\ \E x \in callee.nodes : to = <<"scc", 0, x>>
    <3>1. to[1] = "scc" /\ to[2] = 0
      BY <2>2
    <3>2. n \in callee.nodes
      BY <1>3, <3>1 DEF GraphAt, Graph
    <3> QED  BY <2>2, <3>1, <3>2 DEF IsEarlier
  <2> QED  BY <1>1, <2>1, <2>2 DEF IsEarlier
<1> QED  BY <1>1, <1>2, <1>3, <1>4 DEF IsEarly

LEMMA EarlierCollect ==
  ASSUME GlobalInv, GlobalsAreKnown, AliasesAreEarlier, CollectAliases
  PROVE  AliasesAreEarlier'
<1>1. phase = "alias" /\ phase' = "extend" /\ UNCHANGED bindVars /\ refinedAs' = refinedAs
  BY DEF CollectAliases
<1>0. PICK formals \in FormalOrders : \E found \in FoundFor(formals) : aliases' \in LastWrites(Collected(found))
  BY DEF CollectAliases
<1>2. PICK found \in FoundFor(formals) : aliases' \in LastWrites(Collected(found))
  BY <1>0
<1>3. Len(found) \in Nat /\ \A j \in 1 .. Len(found) : \E k : found[j] \in AllFormalAliases(k)
  BY FoundForEach
<1>4. \A p \in Collected(found) : IsEarly(p)
  BY <1>1, <1>3, CollectedEarly
<1>5. \A loc \in DOMAIN aliases' : <<loc, aliases'[loc]>> \in Collected(found)
  BY <1>2, LastWritesAre
<1>6. \A loc \in DOMAIN aliases' : loc[2] \in Components /\ IsEarlier(aliases'[loc], loc[2])
  BY <1>4, <1>5 DEF IsEarly
<1>7. Components' = Components /\ callee' = callee
  BY <1>1, SameGraphs DEF bindVars
<1> QED  BY <1>1, <1>6, <1>7 DEF AliasesAreEarlier, IsEarlier

LEMMA EarlierExtend ==
  ASSUME GlobalInv, AliasesAreEarlier, ExtendAliases
  PROVE  AliasesAreEarlier'
<1>1. phase = "extend" /\ phase' = "copy" /\ UNCHANGED bindVars /\ refinedAs' = refinedAs
  BY DEF ExtendAliases
<1>2. PICK f \in LastWrites(Extended) : aliases' = Over(f, aliases)
  BY DEF ExtendAliases
<1>3. \A p \in Extended : IsEarly(p)
  BY SurvivingIs, ImpliedEarly DEF Extended
<1>4. \A loc \in DOMAIN f : loc[2] \in Components /\ IsEarlier(f[loc], loc[2])
  <2> SUFFICES ASSUME NEW loc \in DOMAIN f PROVE loc[2] \in Components /\ IsEarlier(f[loc], loc[2])
    OBVIOUS
  <2>1. IsEarly(<<loc, f[loc]>>)
    BY <1>3, LastWritesAre
  <2> QED  BY <2>1 DEF IsEarly
<1>5. \A loc \in DOMAIN aliases : loc[2] \in Components /\ IsEarlier(aliases[loc], loc[2])
  BY DEF AliasesAreEarlier
<1>6. \A loc \in DOMAIN aliases' : loc[2] \in Components /\ IsEarlier(aliases'[loc], loc[2])
  <2> SUFFICES ASSUME NEW loc \in DOMAIN aliases'
               PROVE  loc[2] \in Components /\ IsEarlier(aliases'[loc], loc[2])
    OBVIOUS
  <2>1. CASE loc \in DOMAIN f
    <3>1. aliases'[loc] = f[loc]
      BY <1>2, <2>1, OverIs
    <3> QED  BY <1>4, <2>1, <3>1
  <2>2. CASE loc \notin DOMAIN f
    <3>0. loc \in DOMAIN aliases
      BY <1>2, <2>2, OverIs
    <3>1. aliases'[loc] = aliases[loc]
      <4>1. Over(f, aliases)[loc] = aliases[loc]
        BY <2>2, <3>0 DEF Over
      <4> QED  BY <1>2, <4>1
    <3> QED  BY <1>5, <3>0, <3>1
  <2> QED  BY <2>1, <2>2
<1>7. Components' = Components /\ callee' = callee
  BY <1>1, SameGraphs DEF bindVars
<1> QED  BY <1>1, <1>6, <1>7 DEF AliasesAreEarlier, IsEarlier

LEMMA EarlierNext ==
  ASSUME GlobalInv, GlobalsAreKnown, AliasesAreEarlier, [NextGlobal]_<<bindVars, globalVars>>
  PROVE  AliasesAreEarlier'
<1>0. ASSUME aliases = <<>>, aliases' = aliases, phase' \in {"bind", "collect", "apply", "alias"}
      PROVE  AliasesAreEarlier'
  BY <1>0 DEF AliasesAreEarlier
<1>c. ASSUME UNCHANGED bindVars, refinedAs' = refinedAs, aliases' = aliases, phase = "copy", phase' \in {"copy", "done"}
      PROVE  AliasesAreEarlier'
  BY <1>c, SameGraphs DEF AliasesAreEarlier, IsEarlier, bindVars
<1>1. CASE Bind
  BY <1>0, <1>1 DEF Bind, globalVars, AliasesAreEarlier
<1>2. CASE Bound
  BY <1>0, <1>2 DEF Bound, AliasesAreEarlier
<1>3. CASE \E i \in pending : InsertGlobalSketches(i)
  BY <1>0, <1>3 DEF InsertGlobalSketches, Visit, AliasesAreEarlier
<1>4. CASE \E i \in pending : ApplyGlobalInstantiations(i)
  BY <1>0, <1>4 DEF ApplyGlobalInstantiations, Visit, AliasesAreEarlier
<1>5. CASE CollectAliases
  BY <1>5, EarlierCollect
<1>6. CASE ExtendAliases
  BY <1>6, EarlierExtend
<1>7. CASE \E k \in DOMAIN refinedAs : CopyGlobal(k)
  BY <1>c, <1>7 DEF CopyGlobal
<1>8. CASE \E i \in pending : CopyBuiltSketch(i)
  BY <1>c, <1>8 DEF CopyBuiltSketch, Visit
<1>9. CASE UNCHANGED <<bindVars, globalVars>>
  BY <1>9, SameGraphs DEF AliasesAreEarlier, IsEarlier, bindVars, globalVars
<1> QED  BY <1>1, <1>2, <1>3, <1>4, <1>5, <1>6, <1>7, <1>8, <1>9 DEF NextGlobal

LEMMA FirstInit == InitGlobal => AliasesAreEarlier /\ CalleesAreFirst
<1> SUFFICES ASSUME InitGlobal PROVE AliasesAreEarlier /\ CalleesAreFirst
  OBVIOUS
<1>1. phase = "bind" /\ refinedAs = <<>> /\ aliases = <<>> /\ index = <<>> /\ types = NoTypes
  BY DEF InitGlobal
<1>2. DOMAIN refinedAs = {} /\ DOMAIN aliases = {} /\ DOMAIN index = {} /\ Copied = {}
  BY <1>1 DEF Copied
<1> QED  BY <1>1, <1>2 DEF AliasesAreEarlier, CalleesAreFirst

LEMMA NumberingIs ==
  ASSUME NEW s, NEW at
  PROVE  DOMAIN Numbering(s, at) = {at[n] : n \in s.nodes}
<1> DEFINE number(n) == Fresh(types, Cardinality({m \in s.nodes : m <= n}))
           known == {[loc |-> at[n], idx |-> number(n)] : n \in s.nodes}
<1>1. DOMAIN Numbering(s, at) = {k.loc : k \in known}
  BY DEF Numbering
<1> HIDE DEF number
<1>2. {k.loc : k \in known} = {at[n] : n \in s.nodes}
  <2>1. \A n \in s.nodes : [loc |-> at[n], idx |-> number(n)] \in known
    OBVIOUS
  <2>2. \A n \in s.nodes : [loc |-> at[n], idx |-> number(n)].loc = at[n]
    OBVIOUS
  <2>3. \A x \in known : \E n \in s.nodes : x.loc = at[n]
    OBVIOUS
  <2> HIDE DEF known
  <2> QED  BY <2>1, <2>2, <2>3
<1> QED  BY <1>1, <1>2

(* Before the copying there is nothing to know. *)
LEMMA FirstBefore ==
  ASSUME index = <<>>, types = NoTypes, index' = index, types' = types,
         phase' \notin {"copy", "done"}, phase' \in {"alias", "extend"} => pending' = Components'
  PROVE  CalleesAreFirst'
<1>1. DOMAIN index' = {} /\ DOMAIN types'.keys = {} /\ Copied' = {}
  BY DEF NoTypes, Copied
<1> QED  BY <1>1 DEF CalleesAreFirst, IsCopied, NoTypes

LEMMA FirstCopyGlobal ==
  ASSUME GlobalInv, CalleesAreFirst, NEW k \in DOMAIN refinedAs, CopyGlobal(k)
  PROVE  CalleesAreFirst'
<1> DEFINE at == [n \in refinedAs[k].nodes |-> <<"global", k, n>>]
           new == Numbering(refinedAs[k], at)
           entry == [x \in {<<"global", k>>} |-> new[<<"global", k, Entry(refinedAs[k])>>]]
<1>1. /\ phase = "copy" /\ phase' = "copy" /\ pending' = pending
      /\ refinedAs' = refinedAs /\ UNCHANGED bindVars
  BY DEF CopyGlobal
<1>2. index' = Over(new, index) /\ types'.keys = Over(entry, types.keys)
  BY DEF CopyGlobal
<1>3. DOMAIN new = {<<"global", k, n>> : n \in refinedAs[k].nodes} /\ DOMAIN entry = {<<"global", k>>}
  <2>0. DOMAIN entry = {<<"global", k>>}
    OBVIOUS
  <2>1. {at[n] : n \in refinedAs[k].nodes} = {<<"global", k, n>> : n \in refinedAs[k].nodes}
    OBVIOUS
  <2> HIDE DEF at, entry
  <2> QED  BY <2>0, <2>1, NumberingIs
<1> HIDE DEF new, entry
<1>4. /\ DOMAIN index' = {<<"global", k, n>> : n \in refinedAs[k].nodes} \cup DOMAIN index
      /\ DOMAIN types'.keys = {<<"global", k>>} \cup DOMAIN types.keys
  <2>1. /\ DOMAIN Over(new, index) = DOMAIN new \cup DOMAIN index
        /\ DOMAIN Over(entry, types.keys) = DOMAIN entry \cup DOMAIN types.keys
    BY OverIs
  <2> QED  BY <1>2, <1>3, <2>1
<1>5. /\ \A i : Graph(i)' = Graph(i)
      /\ Components' = Components
  BY <1>1, SameGraphs
<1>6. Copied' = Copied
  BY <1>1, <1>5 DEF Copied
<1>7. \A j \in DOMAIN refinedAs : IsCopied(j) => IsCopied(j)'
  BY <1>4 DEF IsCopied
<1>8. ASSUME NEW j \in DOMAIN refinedAs, IsCopied(j)', NEW n \in refinedAs[j].nodes
      PROVE  <<"global", j, n>> \in DOMAIN index'
  <2>1. CASE j = k
    BY <1>4, <2>1
  <2>2. CASE j # k
    <3>1. IsCopied(j)
      BY <1>4, <1>8, <2>2 DEF IsCopied
    <3> QED  BY <1>4, <3>1 DEF CalleesAreFirst
  <2> QED  BY <2>1, <2>2
<1>9. \A i, n : <<"scc", i, n>> \in DOMAIN index' <=> <<"scc", i, n>> \in DOMAIN index
  BY <1>4
<1>10. \A i \in Components : \A n \in Graph(i).nodes : <<"scc", i, n>> \in DOMAIN index' <=> i \in Copied
  BY <1>9 DEF CalleesAreFirst
<1>11. Copied # {} => 0 \in Copied /\ \A j \in DOMAIN refinedAs : IsCopied(j)'
  BY <1>7 DEF CalleesAreFirst
<1> QED  BY <1>1, <1>5, <1>6, <1>8, <1>10, <1>11 DEF CalleesAreFirst

LEMMA FirstCopyBuilt ==
  ASSUME GlobalInv, CalleesAreFirst, NEW i \in pending, CopyBuiltSketch(i)
  PROVE  CalleesAreFirst'
<1> DEFINE at == [n \in Graph(i).nodes |-> <<"scc", i, n>>]
           new == Numbering(Graph(i), at)
           labels == [k \in {<<"scc", i, v>> : v \in OwnVariables(i)} |->
                        Over(new, index)[<<"scc", i, Graph(i).keys[k[3]]>>]]
<1>1. /\ phase = "copy" /\ Visit(i, "done") /\ MayCopy(i)
      /\ refinedAs' = refinedAs /\ UNCHANGED bindVars
      /\ \A k \in DOMAIN refinedAs : IsCopied(k)
  BY DEF CopyBuiltSketch, IsCopied
<1>2. index' = Over(new, index) /\ types'.keys = Over(labels, types.keys)
  BY DEF CopyBuiltSketch
<1>3. DOMAIN new = {<<"scc", i, n>> : n \in Graph(i).nodes}
  <2>1. {at[n] : n \in Graph(i).nodes} = {<<"scc", i, n>> : n \in Graph(i).nodes}
    OBVIOUS
  <2>2. \A s, f : DOMAIN Numbering(s, f) = {f[n] : n \in s.nodes}
    BY NumberingIs
  <2> HIDE DEF at, labels
  <2> QED  BY <2>1, <2>2
<1> HIDE DEF new, labels
<1>4. /\ DOMAIN index' = {<<"scc", i, n>> : n \in Graph(i).nodes} \cup DOMAIN index
      /\ DOMAIN types.keys \subseteq DOMAIN types'.keys
  <2>1. /\ DOMAIN Over(new, index) = DOMAIN new \cup DOMAIN index
        /\ DOMAIN Over(labels, types.keys) = DOMAIN labels \cup DOMAIN types.keys
    BY OverIs
  <2> QED  BY <1>2, <1>3, <2>1
<1>5. /\ \A j : Graph(j)' = Graph(j)
      /\ Components' = Components
  BY <1>1, SameGraphs
<1>6. i \in Components /\ pending \subseteq Components
  BY DEF GlobalInv, GlobalsAreSketches
<1>7. Copied = Components \ pending
  BY <1>1 DEF Copied
<1>8. Copied' = Copied \cup {i} /\ phase' \in {"copy", "done"}
  <2>1. CASE pending = {i}
    <3>1. phase' = "done"
      BY <1>1, <2>1 DEF Visit
    <3>2. Copied' = Components
      BY <3>1, <1>5 DEF Copied
    <3> QED  BY <2>1, <3>1, <3>2, <1>6, <1>7
  <2>2. CASE pending # {i}
    <3>1. phase' = "copy" /\ pending' = pending \ {i}
      BY <1>1, <2>2 DEF Visit
    <3>2. Copied' = Components \ (pending \ {i})
      BY <3>1, <1>5 DEF Copied
    <3> QED  BY <3>1, <3>2, <1>6, <1>7
  <2> QED  BY <2>1, <2>2
<1>9. 0 \in Copied'
  <2>1. 0 \in Components
    BY DEF Components, GlobalInv, GraphsAreBuilt
  <2>2. i = 0 \/ 0 \notin pending
    BY <1>1 DEF MayCopy
  <2> QED  BY <2>1, <2>2, <1>7, <1>8
<1>10. \A k \in DOMAIN refinedAs : IsCopied(k)'
  BY <1>1, <1>4 DEF IsCopied
<1>11. \A k \in DOMAIN refinedAs : \A n \in refinedAs[k].nodes : <<"global", k, n>> \in DOMAIN index'
  BY <1>1, <1>4 DEF CalleesAreFirst
<1>12. ASSUME NEW j \in Components, NEW n \in Graph(j).nodes
       PROVE  <<"scc", j, n>> \in DOMAIN index' <=> j \in Copied'
  <2>1. CASE j = i
    BY <1>4, <1>8, <2>1
  <2>2. CASE j # i
    <3>1. <<"scc", j, n>> \in DOMAIN index' <=> <<"scc", j, n>> \in DOMAIN index
      BY <1>4, <2>2
    <3> QED  BY <1>8, <2>2, <3>1 DEF CalleesAreFirst
  <2> QED  BY <2>1, <2>2
<1> QED  BY <1>1, <1>5, <1>8, <1>9, <1>10, <1>11, <1>12 DEF CalleesAreFirst

LEMMA FirstNext ==
  ASSUME GlobalInv, CalleesAreFirst, [NextGlobal]_<<bindVars, globalVars>>
  PROVE  CalleesAreFirst'
<1>1. CASE Bind
  <2>1. phase = "bind" /\ phase' = phase /\ index' = index /\ types' = types
    BY <1>1 DEF Bind, globalVars
  <2> QED  BY <2>1, FirstBefore DEF CalleesAreFirst
<1>2. CASE Bound
  BY <1>2, FirstBefore DEF Bound, CalleesAreFirst
<1>3. CASE \E i \in pending : InsertGlobalSketches(i)
  <2>1. phase = "collect" /\ phase' \in {"collect", "apply"} /\ index' = index /\ types' = types
    BY <1>3 DEF InsertGlobalSketches, Visit
  <2> QED  BY <2>1, FirstBefore DEF CalleesAreFirst
<1>4. CASE \E i \in pending : ApplyGlobalInstantiations(i)
  <2>1. PICK i \in pending : ApplyGlobalInstantiations(i)
    BY <1>4
  <2>2. phase = "apply" /\ Visit(i, "alias") /\ index' = index /\ types' = types
    BY <2>1 DEF ApplyGlobalInstantiations
  <2>3. Components' = Components
    BY <2>1, ApplyKeepsComponents
  <2>4. phase' \in {"apply", "alias"} /\ (phase' = "alias" => pending' = Components)
    BY <2>2 DEF Visit
  <2> QED  BY <2>2, <2>3, <2>4, FirstBefore DEF CalleesAreFirst
<1>5. CASE CollectAliases
  <2>1. phase = "alias" /\ phase' = "extend" /\ pending' = pending /\ index' = index /\ types' = types
    BY <1>5 DEF CollectAliases
  <2>2. Components' = Components
    BY <1>5, SameGraphs DEF CollectAliases
  <2> QED  BY <2>1, <2>2, FirstBefore DEF CalleesAreFirst
<1>6. CASE ExtendAliases
  <2>1. /\ phase = "extend" /\ phase' = "copy" /\ pending' = pending
        /\ refinedAs' = refinedAs /\ index' = index /\ types' = types
    BY <1>6 DEF ExtendAliases
  <2>2. Components' = Components
    BY <1>6, SameGraphs DEF ExtendAliases
  <2>3. pending' = Components' /\ index' = <<>> /\ types' = NoTypes
    BY <2>1, <2>2 DEF CalleesAreFirst
  <2>4. DOMAIN index' = {} /\ DOMAIN types'.keys = {} /\ Copied' = {}
    BY <2>1, <2>3 DEF NoTypes, Copied
  <2> QED  BY <2>1, <2>4 DEF CalleesAreFirst, IsCopied
<1>7. CASE \E k \in DOMAIN refinedAs : CopyGlobal(k)
  BY <1>7, FirstCopyGlobal
<1>8. CASE \E i \in pending : CopyBuiltSketch(i)
  BY <1>8, FirstCopyBuilt
<1>9. CASE UNCHANGED <<bindVars, globalVars>>
  BY <1>9, SameGraphs DEF CalleesAreFirst, Copied, IsCopied, bindVars, globalVars
<1> QED  BY <1>1, <1>2, <1>3, <1>4, <1>5, <1>6, <1>7, <1>8, <1>9 DEF NextGlobal

LEMMA AliasInvariance == SpecGlobal => []AliasInv
<1>1. AliasInv /\ [NextGlobal]_<<bindVars, globalVars>> => AliasInv'
  BY GlobalNextInv, KnownNext, EarlierNext, FirstNext DEF AliasInv
<1>2. InitGlobal => AliasInv
  BY GlobalInitInv, KnownInit, FirstInit DEF AliasInv
<1> QED  BY <1>1, <1>2, PTL DEF SpecGlobal

(* "Alias targets should be built before alias due to reverse topo order": *)
(* whatever aliases find_shared_subgraphs finds and extension implies, the *)
(* place an edge leads to has an index when the edge is copied.            *)
THEOREM AliasTargetsHold == SpecGlobal => []AliasTargetsAreBuilt
<1>1. AliasInv => AliasTargetsAreBuilt
  <2> SUFFICES ASSUME AliasInv, NEW i \in Components, NEW m \in Graph(i).nodes,
                      <<"scc", i, m>> \in DOMAIN index, NEW e \in Graph(i).edges
               PROVE  Destination(<<"scc", i, e[3]>>) \in DOMAIN index
    BY DEF AliasTargetsAreBuilt
  <2> DEFINE loc == <<"scc", i, e[3]>>
  <2>1. /\ i \in Copied /\ 0 \in Copied
        /\ \A k \in DOMAIN refinedAs : \A n \in refinedAs[k].nodes : <<"global", k, n>> \in DOMAIN index
    BY DEF AliasInv, CalleesAreFirst
  <2>2. CASE loc \notin DOMAIN aliases
    <3>1. e[3] \in Graph(i).nodes
      BY GraphIs DEF AliasInv, IsBuilt
    <3>2. loc \in DOMAIN index
      BY <2>1, <3>1 DEF AliasInv, CalleesAreFirst
    <3> QED  BY <2>2, <3>2 DEF Destination
  <2>3. CASE loc \in DOMAIN aliases
    <3>1. IsEarlier(aliases[loc], i)
      BY <2>3 DEF AliasInv, AliasesAreEarlier
    <3>2. CASE \E k \in DOMAIN refinedAs : \E n \in refinedAs[k].nodes : aliases[loc] = <<"global", k, n>>
      BY <2>1, <2>3, <3>2 DEF Destination
    <3>3. CASE i # 0 /\ \E n \in callee.nodes : aliases[loc] = <<"scc", 0, n>>
      <4>1. 0 \in Components /\ Graph(0) = callee
        BY DEF Components, Graph, AliasInv, GlobalInv, GraphsAreBuilt
      <4>2. \A n \in callee.nodes : <<"scc", 0, n>> \in DOMAIN index
        BY <2>1, <4>1 DEF AliasInv, CalleesAreFirst
      <4> QED  BY <2>3, <3>3, <4>2 DEF Destination
    <3> QED  BY <3>1, <3>2, <3>3 DEF IsEarlier
  <2> QED  BY <2>2, <2>3
<1> QED  BY <1>1, AliasInvariance, PTL

-----------------------------------------------------------------------------
(* Maps between graphs that keep edges. *)

(* f takes the part D of s, which no edge leaves, to t. *)
IsMorphism(f, D, s, t) ==
  /\ f \in [D -> t.nodes]
  /\ \A e \in s.edges : e[1] \in D => e[3] \in D /\ Edge(t, f[e[1]], e[2], f[e[3]])

(* t knows whatever s knows, at the node that stands for it. *)
Embeds(s, t) == \E f : IsMorphism(f, s.nodes, s, t) /\ f[Entry(s)] = Entry(t)

LEMMA StepIsEdge ==
  ASSUME NEW s, IsBuilt(s), IsDeterministic(s)
  PROVE  /\ \A e \in s.edges : StepBy(s, e[1], e[2]) = e[3]
         /\ \A n, l : StepBy(s, n, l) # NoNode => Edge(s, n, l, StepBy(s, n, l))
         /\ \A l : StepBy(s, NoNode, l) = NoNode
<1>1. \A n, l : \/ StepBy(s, n, l) = NoNode /\ \A e \in s.edges : ~(e[1] = n /\ e[2] = l)
                \/ Edge(s, n, l, StepBy(s, n, l))
  <2> SUFFICES ASSUME NEW n, NEW l
               PROVE  \/ StepBy(s, n, l) = NoNode /\ \A e \in s.edges : ~(e[1] = n /\ e[2] = l)
                      \/ Edge(s, n, l, StepBy(s, n, l))
    OBVIOUS
  <2> DEFINE E == {e \in EdgesOut(s, n) : e[2] = l}
             c == CHOOSE e \in E : TRUE
  <2>1. \A e : e \in E <=> e \in s.edges /\ e[1] = n /\ e[2] = l
    BY DEF EdgesOut
  <2>2. StepBy(s, n, l) = IF E = {} THEN NoNode ELSE c[3]
    BY DEF StepBy
  <2>3. E # {} => c \in E
    OBVIOUS
  <2> HIDE DEF E, c
  <2>4. CASE E = {}
    BY <2>1, <2>2, <2>4
  <2>5. CASE E # {}
    BY <2>1, <2>2, <2>3, <2>5 DEF Edge
  <2> QED  BY <2>4, <2>5
<1>2. \A e \in s.edges : StepBy(s, e[1], e[2]) = e[3]
  <2> SUFFICES ASSUME NEW e \in s.edges PROVE StepBy(s, e[1], e[2]) = e[3]
    OBVIOUS
  <2>1. PICK d \in s.edges : d[1] = e[1] /\ d[2] = e[2] /\ d[3] = StepBy(s, e[1], e[2])
    BY <1>1 DEF Edge
  <2> QED  BY <2>1 DEF IsDeterministic, SameLabel
<1>3. \A l : StepBy(s, NoNode, l) = NoNode
  <2>1. \A e \in s.edges : e[1] # NoNode
    BY DEF IsBuilt
  <2> QED  BY <1>1, <2>1 DEF Edge
<1> QED  BY <1>1, <1>2, <1>3

LEMMA MorphismSteps ==
  ASSUME NEW s, IsBuilt(s), IsDeterministic(s), NEW t, IsBuilt(t), IsDeterministic(t),
         NEW D, NEW f, IsMorphism(f, D, s, t), NEW n \in D, NEW l, StepBy(s, n, l) # NoNode
  PROVE  StepBy(s, n, l) \in D /\ StepBy(t, f[n], l) = f[StepBy(s, n, l)]
<1>1. PICK e \in s.edges : e[1] = n /\ e[2] = l /\ e[3] = StepBy(s, n, l)
  BY StepIsEdge DEF Edge
<1>2. e[3] \in D /\ Edge(t, f[n], l, f[e[3]])
  BY <1>1 DEF IsMorphism
<1>3. StepBy(t, f[n], l) = f[e[3]]
  BY <1>2, StepIsEdge DEF Edge
<1> QED  BY <1>1, <1>2, <1>3

LEMMA MorphismsCompose ==
  ASSUME NEW s, NEW t, NEW u, NEW D, NEW f, IsMorphism(f, D, s, t),
         NEW E, NEW z, IsMorphism(z, E, t, u), \A n \in D : f[n] \in E
  PROVE  IsMorphism([n \in D |-> z[f[n]]], D, s, u)
<1> DEFINE h == [n \in D |-> z[f[n]]]
<1>1. h \in [D -> u.nodes]
  BY DEF IsMorphism
<1>2. ASSUME NEW e \in s.edges, e[1] \in D
      PROVE  e[3] \in D /\ Edge(u, h[e[1]], e[2], h[e[3]])
  <2>1. e[3] \in D /\ Edge(t, f[e[1]], e[2], f[e[3]])
    BY <1>2 DEF IsMorphism
  <2>2. PICK d \in t.edges : d[1] = f[e[1]] /\ d[2] = e[2] /\ d[3] = f[e[3]]
    BY <2>1 DEF Edge
  <2>3. Edge(u, z[d[1]], d[2], z[d[3]])
    BY <1>2, <2>2 DEF IsMorphism
  <2> QED  BY <1>2, <2>1, <2>2, <2>3
<1> HIDE DEF h
<1>3. IsMorphism(h, D, s, u)
  BY <1>1, <1>2 DEF IsMorphism
<1> QED  BY <1>3 DEF h

LEMMA EmbedsCompose ==
  ASSUME NEW s, IsSketch(s), NEW t, IsSketch(t), NEW u, Embeds(s, t), Embeds(t, u)
  PROVE  Embeds(s, u)
<1>1. PICK f : IsMorphism(f, s.nodes, s, t) /\ f[Entry(s)] = Entry(t)
  BY DEF Embeds
<1>2. PICK z : IsMorphism(z, t.nodes, t, u) /\ z[Entry(t)] = Entry(u)
  BY DEF Embeds
<1> DEFINE h == [n \in s.nodes |-> z[f[n]]]
<1>3. \A n \in s.nodes : f[n] \in t.nodes
  BY <1>1 DEF IsMorphism
<1>4. IsMorphism(h, s.nodes, s, u)
  BY <1>1, <1>2, <1>3, MorphismsCompose
<1>5. h[Entry(s)] = Entry(u)
  BY <1>1, <1>2 DEF IsSketch, IsBuilt, Entry
<1> QED  BY <1>4, <1>5 DEF Embeds

LEMMA EmbedsItself ==
  ASSUME NEW s, IsSketch(s)
  PROVE  Embeds(s, s)
<1> DEFINE f == [n \in s.nodes |-> n]
<1>1. IsMorphism(f, s.nodes, s, s)
  BY DEF IsMorphism, IsSketch, IsBuilt, Edge
<1>2. f[Entry(s)] = Entry(s)
  BY DEF IsSketch, IsBuilt, Entry
<1> QED  BY <1>1, <1>2 DEF Embeds

(* Two maps that agree on a node agree on what it reaches. *)
LEMMA MorphismsAgree ==
  ASSUME NEW s, IsBuilt(s), NEW t, IsBuilt(t), IsDeterministic(t),
         NEW D, NEW f, IsMorphism(f, D, s, t), NEW E, NEW z, IsMorphism(z, E, s, t),
         NEW n, n \in D, n \in E, f[n] = z[n]
  PROVE  \A m \in Reached(s, {n}) : m \in D /\ m \in E /\ f[m] = z[m]
<1> DEFINE I == {m \in D : m \in E /\ f[m] = z[m]}
<1>1. \A e \in s.edges : e[1] \in I => e[3] \in I
  <2> SUFFICES ASSUME NEW e \in s.edges, e[1] \in I PROVE e[3] \in I
    OBVIOUS
  <2>1. /\ e[3] \in D /\ Edge(t, f[e[1]], e[2], f[e[3]])
        /\ e[3] \in E /\ Edge(t, z[e[1]], e[2], z[e[3]])
    BY DEF IsMorphism
  <2>2. f[e[3]] = z[e[3]]
    BY <2>1, StepIsEdge DEF Edge
  <2> QED  BY <2>1, <2>2
<1>2. {n} \subseteq I
  OBVIOUS
<1> HIDE DEF I
<1>3. Reached(s, {n}) \subseteq I
  BY <1>1, <1>2, ReachedIsLeast DEF IsBuilt
<1> QED  BY <1>3 DEF I

LEMMA SketchFields ==
  ASSUME NEW s, IsBuilt(s), NEW k \in DOMAIN s.keys
  PROVE  LET t == SketchOf(s, k)
         IN  /\ t.nodes = Reached(s, {s.keys[k]})
             /\ t.edges = {e \in s.edges : e[1] \in t.nodes}
             /\ Entry(t) = s.keys[k] /\ Entry(t) \in t.nodes
             /\ \A n \in t.nodes : t.weight[n] = s.weight[n]
             /\ \A x \in DOMAIN t.keys : x \in DOMAIN s.keys /\ t.keys[x] = s.keys[x] /\ s.keys[x] \in t.nodes
             /\ t.nodes \subseteq s.nodes
             /\ \A e \in s.edges : e[1] \in t.nodes => e[3] \in t.nodes
<1> DEFINE N == Reached(s, {s.keys[k]})
           t == SketchOf(s, k)
<1>1. /\ s.keys[k] \in N /\ \A e \in s.edges : e[1] \in N => e[3] \in N
      /\ N \subseteq s.nodes
  BY ReachedIsLeast DEF IsBuilt
<1>2. /\ t.nodes = N /\ t.edges = {e \in s.edges : e[1] \in N}
      /\ t.keys = [x \in {y \in DOMAIN s.keys : s.keys[y] \in N} |-> s.keys[x]]
      /\ t.repr = k /\ t.weight = [n \in N |-> s.weight[n]]
  BY DEF SketchOf
<1> HIDE DEF N, t
<1>3. Entry(t) = s.keys[k]
  BY <1>1, <1>2 DEF Entry
<1> QED  BY <1>1, <1>2, <1>3 DEF t, N

(* A map that keeps a key takes its sketch to its sketch. *)
LEMMA SketchesEmbed ==
  ASSUME NEW s, IsBuilt(s), NEW t, IsBuilt(t),
         NEW D, NEW f, IsMorphism(f, D, s, t),
         NEW k \in DOMAIN s.keys, k \in DOMAIN t.keys, s.keys[k] \in D, f[s.keys[k]] = t.keys[k]
  PROVE  /\ SketchOf(s, k).nodes \subseteq D
         /\ LET h == [n \in SketchOf(s, k).nodes |-> f[n]]
            IN  IsMorphism(h, SketchOf(s, k).nodes, SketchOf(s, k), SketchOf(t, k))
         /\ Embeds(SketchOf(s, k), SketchOf(t, k))
<1> DEFINE a == SketchOf(s, k)
           b == SketchOf(t, k)
           I == {n \in D : f[n] \in b.nodes}
           h == [n \in a.nodes |-> f[n]]
<1>1. /\ a.nodes = Reached(s, {s.keys[k]}) /\ a.edges = {e \in s.edges : e[1] \in a.nodes}
      /\ Entry(a) = s.keys[k] /\ Entry(a) \in a.nodes
      /\ \A e \in s.edges : e[1] \in a.nodes => e[3] \in a.nodes
  BY SketchFields
<1>2. /\ b.edges = {e \in t.edges : e[1] \in b.nodes}
      /\ Entry(b) = t.keys[k] /\ Entry(b) \in b.nodes
      /\ \A e \in t.edges : e[1] \in b.nodes => e[3] \in b.nodes
  BY SketchFields
<1> HIDE DEF a, b
<1>3. \A e \in s.edges : e[1] \in I => e[3] \in I /\ Edge(b, f[e[1]], e[2], f[e[3]])
  BY <1>2 DEF IsMorphism, Edge
<1>4. {s.keys[k]} \subseteq I
  BY <1>2
<1> HIDE DEF I
<1>5. a.nodes \subseteq I
  BY <1>1, <1>3, <1>4, ReachedIsLeast DEF IsBuilt
<1>6. IsMorphism(h, a.nodes, a, b)
  <2>1. h \in [a.nodes -> b.nodes]
    BY <1>5 DEF I
  <2>2. ASSUME NEW e \in a.edges, e[1] \in a.nodes
        PROVE  e[3] \in a.nodes /\ Edge(b, h[e[1]], e[2], h[e[3]])
    <3>1. e \in s.edges /\ e[3] \in a.nodes
      BY <1>1, <2>2
    <3>2. Edge(b, f[e[1]], e[2], f[e[3]])
      BY <1>3, <1>5, <2>2, <3>1
    <3> QED  BY <2>2, <3>1, <3>2
  <2> HIDE DEF h
  <2> QED  BY <2>1, <2>2 DEF IsMorphism
<1>7. h[Entry(a)] = Entry(b)
  BY <1>1, <1>2
<1>8. a.nodes \subseteq D
  BY <1>5 DEF I
<1> HIDE DEF h
<1>9. Embeds(a, b)
  BY <1>6, <1>7 DEF Embeds
<1> QED  BY <1>6, <1>8, <1>9 DEF a, b, h

(* R takes the nodes of s to their classes in q, the least graph in which    *)
(* labels tell edges apart.                                                  *)
IsClassMap(R, s, q) ==
  /\ IsMorphism(R, s.nodes, s, q)
  /\ \A m \in q.nodes : \E n \in s.nodes : R[n] = m
  /\ \A d \in q.edges : \E e \in s.edges : d[1] = R[e[1]] /\ d[2] = e[2] /\ d[3] = R[e[3]]
  /\ \A k \in DOMAIN s.keys : q.keys[k] = R[s.keys[k]]
  /\ \A m \in q.nodes : q.weight[m] = OperateAll({s.weight[n] : n \in {x \in s.nodes : R[x] = m}})
  /\ \A u, f : IsBuilt(u) /\ IsDeterministic(u) /\ IsMorphism(f, s.nodes, s, u) =>
       \E z : IsMorphism(z, q.nodes, q, u) /\ \A n \in s.nodes : z[R[n]] = f[n]

LEMMA QuotientMaps ==
  ASSUME NEW s, IsBuilt(s)
  PROVE  \E R : IsClassMap(R, s, Quotient(s))
<1> DEFINE rep0 == [n \in s.nodes |-> n]
           R == Unified(s, rep0)
           q == Quotient(s)
<1>1. q = QuotientGraph(s, R)
  BY QuotientByIs DEF Quotient
<1>2. IsGraph(s) /\ rep0 \in [s.nodes -> s.nodes] /\ Fields \subseteq DOMAIN s
  BY DEF IsBuilt, IsGraph, Fields
<1>r. \A a, b \in s.nodes : rep0[a] = rep0[b] => a = b
  OBVIOUS
<1> HIDE DEF rep0
<1>3. /\ R \in [s.nodes -> s.nodes]
      /\ \A E : /\ ClosedEquivalence(s, E)
                /\ \A a, b \in s.nodes : rep0[a] = rep0[b] => <<a, b>> \in E
                => \A a, b \in s.nodes : R[a] = R[b] => <<a, b>> \in E
  BY <1>2, UnifiedIsLeast
<1> HIDE DEF R, q
<1>4. /\ q.nodes = {R[n] : n \in s.nodes}
      /\ q.edges = {<<R[e[1]], e[2], R[e[3]]>> : e \in s.edges}
      /\ q.keys = [k \in DOMAIN s.keys |-> R[s.keys[k]]]
      /\ q.weight = [n \in {R[m] : m \in s.nodes} |->
                       OperateAll({s.weight[m] : m \in {k \in s.nodes : R[k] = n}})]
  BY <1>1, <1>2, QuotientGraphIs
<1>5. \A e \in s.edges : e[1] \in s.nodes /\ e[3] \in s.nodes
  BY DEF IsBuilt
<1>6. \A d \in q.edges : \E e \in s.edges : d[1] = R[e[1]] /\ d[2] = e[2] /\ d[3] = R[e[3]]
  BY <1>4
<1>7. IsMorphism(R, s.nodes, s, q)
  <2>1. R \in [s.nodes -> q.nodes]
    BY <1>3, <1>4
  <2>2. \A e \in s.edges : Edge(q, R[e[1]], e[2], R[e[3]])
    <3> SUFFICES ASSUME NEW e \in s.edges PROVE Edge(q, R[e[1]], e[2], R[e[3]])
      OBVIOUS
    <3> DEFINE d == <<R[e[1]], e[2], R[e[3]]>>
    <3>1. d \in q.edges /\ d[1] = R[e[1]] /\ d[2] = e[2] /\ d[3] = R[e[3]]
      BY <1>4
    <3> HIDE DEF d
    <3> QED  BY <3>1 DEF Edge
  <2> QED  BY <2>1, <2>2, <1>5 DEF IsMorphism
<1>8. ASSUME NEW u, NEW f, IsBuilt(u), IsDeterministic(u), IsMorphism(f, s.nodes, s, u)
      PROVE  \E z : IsMorphism(z, q.nodes, q, u) /\ \A n \in s.nodes : z[R[n]] = f[n]
  <2> DEFINE E == {p \in s.nodes \X s.nodes : f[p[1]] = f[p[2]]}
  <2>1. \A e \in s.edges : Edge(u, f[e[1]], e[2], f[e[3]])
    BY <1>5, <1>8 DEF IsMorphism
  <2>2. ClosedEquivalence(s, E)
    <3>1. IsEquivalence(s.nodes, E)
      BY DEF IsEquivalence
    <3>2. ASSUME NEW d \in s.edges, NEW e \in s.edges, SameLabel(d[2], e[2]), <<d[1], e[1]>> \in E
          PROVE  <<d[3], e[3]>> \in E
      <4>1. f[d[1]] = f[e[1]]
        BY <3>2
      <4>2. PICK x \in u.edges : x[1] = f[d[1]] /\ x[2] = d[2] /\ x[3] = f[d[3]]
        BY <2>1 DEF Edge
      <4>3. PICK y \in u.edges : y[1] = f[e[1]] /\ y[2] = e[2] /\ y[3] = f[e[3]]
        BY <2>1 DEF Edge
      <4>4. f[d[3]] = f[e[3]]
        <5> HIDE DEF E
        <5> QED  BY <3>2, <4>1, <4>2, <4>3, <1>8 DEF IsDeterministic
      <4> QED  BY <4>4, <1>5
    <3> HIDE DEF E
    <3> QED  BY <3>1, <3>2 DEF ClosedEquivalence
  <2>3. \A a, b \in s.nodes : rep0[a] = rep0[b] => <<a, b>> \in E
    BY <1>r
  <2>4. \A a, b \in s.nodes : R[a] = R[b] => f[a] = f[b]
    <3>1. \A a, b \in s.nodes : R[a] = R[b] => <<a, b>> \in E
      <4> HIDE DEF E
      <4> QED  BY <1>3, <2>2, <2>3
    <3> QED  BY <3>1
  <2> DEFINE some(m) == CHOOSE n \in s.nodes : R[n] = m
             z == [m \in q.nodes |-> f[some(m)]]
  <2>5. \A m \in q.nodes : some(m) \in s.nodes /\ R[some(m)] = m
    BY <1>4
  <2>6. \A n \in s.nodes : z[R[n]] = f[n]
    <3> SUFFICES ASSUME NEW n \in s.nodes PROVE z[R[n]] = f[n]
      OBVIOUS
    <3>1. R[n] \in q.nodes
      BY <1>4
    <3>2. z[R[n]] = f[some(R[n])]
      BY <3>1
    <3> HIDE DEF some, z
    <3> QED  BY <3>1, <3>2, <2>4, <2>5
  <2>7. z \in [q.nodes -> u.nodes]
    <3> HIDE DEF some
    <3> QED  BY <2>5, <1>8 DEF IsMorphism
  <2> HIDE DEF z
  <2>8. ASSUME NEW d \in q.edges PROVE d[3] \in q.nodes /\ Edge(u, z[d[1]], d[2], z[d[3]])
    <3>1. PICK e \in s.edges : d[1] = R[e[1]] /\ d[2] = e[2] /\ d[3] = R[e[3]]
      BY <1>6
    <3> QED  BY <3>1, <2>1, <2>6, <1>4, <1>5
  <2>9. IsMorphism(z, q.nodes, q, u)
    BY <2>7, <2>8 DEF IsMorphism
  <2> QED  BY <2>6, <2>9
<1>9. \A m \in q.nodes : \E n \in s.nodes : R[n] = m
  BY <1>4
<1>10. \A m \in q.nodes : q.weight[m] = OperateAll({s.weight[n] : n \in {x \in s.nodes : R[x] = m}})
  BY <1>4
<1>11. \A k \in DOMAIN s.keys : q.keys[k] = R[s.keys[k]]
  BY <1>4
<1>12. IsClassMap(R, s, q)
  BY <1>6, <1>7, <1>8, <1>9, <1>10, <1>11 DEF IsClassMap
<1> QED  BY <1>12 DEF q

(* C takes the pairs of P to the nodes of q. *)
FollowsPairs(C, s, t, P, q) ==
  /\ C \in [P -> q.nodes]
  /\ \A p \in P, l \in Alphabet(s, t) :
       PairStep(s, t, p, l) \in P => Edge(q, C[p], l, C[PairStep(s, t, p, l)])

IsPairMap(C, s, t, label, P, q) ==
  /\ FollowsPairs(C, s, t, P, q)
  /\ \A m \in q.nodes : \E p \in P : C[p] = m
  /\ C[EntryPair(s, t)] = Entry(q)
  /\ IsPrefixClosed(s, t, P) =>
       \A m \in q.nodes : q.weight[m] = OperateAll({label[p] : p \in {x \in P : C[x] = m}})
  /\ \A u, f : IsBuilt(u) /\ IsDeterministic(u) /\ FollowsPairs(f, s, t, P, u) =>
       \E z : IsMorphism(z, q.nodes, q, u) /\ \A p \in P : z[C[p]] = f[p]

LEMMA BinopMaps ==
  ASSUME NEW s, IsSketch(s), NEW t, IsSketch(t), NEW label, NEW accepting \in SUBSET Pairs(s, t)
  PROVE  \E C : IsPairMap(C, s, t, label, accepting \cup {EntryPair(s, t)},
                          BinopSketch(s, t, label, accepting))
<1> DEFINE P == accepting \cup {EntryPair(s, t)}
           h == ProductSketch(s, t, label, accepting)
           q == BinopSketch(s, t, label, accepting)
<1>0. IsProduct(h, s, t, label, P)
  BY ProductSketchIs
<1>2. q = Quotient(h)
  BY DEF BinopSketch, ProductSketch
<1> HIDE DEF h, q, P
<1>1. /\ IsBuilt(h) /\ "repr" \in DOMAIN h
      /\ h.repr = s.repr /\ DOMAIN h.keys = {s.repr}
      /\ \E N : /\ IsNumbering(N, s, t, P, h)
                /\ IsPrefixClosed(s, t, P) => \A p \in P : h.weight[N[p]] = label[p]
  BY <1>0 DEF IsProduct
<1>3. PICK N : /\ IsNumbering(N, s, t, P, h)
               /\ IsPrefixClosed(s, t, P) => \A p \in P : h.weight[N[p]] = label[p]
  BY <1>1
<1>4. PICK R : IsClassMap(R, h, q)
  BY <1>1, <1>2, QuotientMaps
<1>5. IsBuilt(q) /\ q.repr = s.repr
  BY <1>1, <1>2, QuotientIs
<1> DEFINE C == [p \in P |-> R[N[p]]]
<1>6. N \in [P -> h.nodes] /\ R \in [h.nodes -> q.nodes] /\ EntryPair(s, t) \in P
  BY <1>3, <1>4 DEF IsNumbering, IsClassMap, IsMorphism, P
<1>7. C \in [P -> q.nodes] /\ \A p \in P : C[p] = R[N[p]]
  BY <1>6
<1> HIDE DEF C
<1>8. \A m \in q.nodes : \E p \in P : C[p] = m
  BY <1>3, <1>4, <1>7 DEF IsNumbering, IsClassMap
<1>9. C[EntryPair(s, t)] = Entry(q)
  <2>1. q.keys[s.repr] = R[h.keys[s.repr]]
    BY <1>1, <1>4 DEF IsClassMap
  <2> QED  BY <1>3, <1>5, <1>6, <1>7, <2>1 DEF IsNumbering, Entry
<1>10. ASSUME NEW p \in P, NEW l \in Alphabet(s, t), PairStep(s, t, p, l) \in P
       PROVE  Edge(q, C[p], l, C[PairStep(s, t, p, l)])
  <2>1. PICK e \in h.edges : e[1] = N[p] /\ e[2] = l /\ e[3] = N[PairStep(s, t, p, l)]
    BY <1>3, <1>10 DEF IsNumbering, Edge
  <2>2. Edge(q, R[e[1]], e[2], R[e[3]])
    BY <1>4, <1>6, <2>1 DEF IsClassMap, IsMorphism
  <2> QED  BY <1>7, <1>10, <2>1, <2>2
<1>11. ASSUME IsPrefixClosed(s, t, P), NEW m \in q.nodes
       PROVE  q.weight[m] = OperateAll({label[p] : p \in {x \in P : C[x] = m}})
  <2>1. {h.weight[n] : n \in {x \in h.nodes : R[x] = m}} = {label[p] : p \in {x \in P : C[x] = m}}
    <3>1. \A p \in P : h.weight[N[p]] = label[p]
      BY <1>3, <1>11
    <3>2. \A n \in h.nodes : \E p \in P : N[p] = n
      BY <1>3 DEF IsNumbering
    <3> QED  BY <3>1, <3>2, <1>6, <1>7
  <2>2. q.weight[m] = OperateAll({h.weight[n] : n \in {x \in h.nodes : R[x] = m}})
    BY <1>4 DEF IsClassMap
  <2> QED  BY <2>1, <2>2
<1>12. ASSUME NEW u, NEW f, IsBuilt(u), IsDeterministic(u), FollowsPairs(f, s, t, P, u)
       PROVE  \E z : IsMorphism(z, q.nodes, q, u) /\ \A p \in P : z[C[p]] = f[p]
  <2> DEFINE at(n) == CHOOSE p \in P : N[p] = n
             v == [n \in h.nodes |-> f[at(n)]]
  <2>1. \A n \in h.nodes : at(n) \in P /\ N[at(n)] = n
    BY <1>3 DEF IsNumbering
  <2>2. \A p \in P : at(N[p]) = p
    <3> HIDE DEF at
    <3> QED  BY <1>3, <1>6, <2>1 DEF IsNumbering
  <2>3. v \in [h.nodes -> u.nodes] /\ \A p \in P : v[N[p]] = f[p]
    <3> HIDE DEF at
    <3> QED  BY <1>6, <1>12, <2>1, <2>2 DEF FollowsPairs
  <2> HIDE DEF v
  <2>4. IsMorphism(v, h.nodes, h, u)
    <3>1. ASSUME NEW e \in h.edges PROVE e[3] \in h.nodes /\ Edge(u, v[e[1]], e[2], v[e[3]])
      <4>1. PICK p \in P, l \in Alphabet(s, t) :
              /\ PairStep(s, t, p, l) \in P
              /\ e[1] = N[p] /\ e[2] = l /\ e[3] = N[PairStep(s, t, p, l)]
        BY <1>3 DEF IsNumbering
      <4> QED  BY <4>1, <1>1, <1>12, <2>3 DEF IsBuilt, FollowsPairs
    <3> QED  BY <2>3, <3>1 DEF IsMorphism
  <2>5. PICK z : IsMorphism(z, q.nodes, q, u) /\ \A n \in h.nodes : z[R[n]] = v[n]
    BY <1>4, <1>12, <2>4 DEF IsClassMap
  <2>6. \A p \in P : z[C[p]] = f[p]
    BY <1>6, <1>7, <2>3, <2>5
  <2> QED  BY <2>5, <2>6
<1>13. IsPairMap(C, s, t, label, P, q)
  <2>1. FollowsPairs(C, s, t, P, q)
    BY <1>7, <1>10 DEF FollowsPairs
  <2>2. IsPrefixClosed(s, t, P) =>
          \A m \in q.nodes : q.weight[m] = OperateAll({label[p] : p \in {x \in P : C[x] = m}})
    BY <1>11
  <2>3. \A u, f : IsBuilt(u) /\ IsDeterministic(u) /\ FollowsPairs(f, s, t, P, u) =>
          \E z : IsMorphism(z, q.nodes, q, u) /\ \A p \in P : z[C[p]] = f[p]
    BY <1>12
  <2> QED  BY <2>1, <1>8, <1>9, <2>2, <2>3 DEF IsPairMap
<1> QED  BY <1>13 DEF P, q

(* Every node is found from the entry. *)
IsConnected(s) == s.nodes \subseteq Reached(s, {Entry(s)})

LEMMA SketchesAreConnected ==
  ASSUME NEW s, IsBuilt(s), NEW k \in DOMAIN s.keys
  PROVE  IsConnected(SketchOf(s, k))
<1> DEFINE t == SketchOf(s, k)
           I == Reached(t, {Entry(t)})
<1>1. /\ t.nodes = Reached(s, {s.keys[k]})
      /\ t.edges = {e \in s.edges : e[1] \in t.nodes}
      /\ Entry(t) = s.keys[k] /\ Entry(t) \in t.nodes
      /\ \A e \in s.edges : e[1] \in t.nodes => e[3] \in t.nodes
  BY SketchFields
<1> HIDE DEF t
<1>2. IsFiniteSet(t.edges) /\ IsFiniteSet(s.edges)
  BY <1>1, FS_Subset DEF IsBuilt
<1>3. Entry(t) \in I /\ \A e \in t.edges : e[1] \in I => e[3] \in I
  BY <1>2, ReachedIsLeast
<1> HIDE DEF I
<1> DEFINE J == I \cap t.nodes
<1>4. \A e \in s.edges : e[1] \in J => e[3] \in J
  BY <1>1, <1>3
<1>5. {s.keys[k]} \subseteq J
  BY <1>1, <1>3
<1> HIDE DEF J
<1>6. t.nodes \subseteq J
  BY <1>1, <1>2, <1>4, <1>5, ReachedIsLeast
<1> QED  BY <1>6 DEF IsConnected, t, I, J

LEMMA EntryOf ==
  ASSUME NEW s, IsSketch(s)
  PROVE  Entry(s) \in s.nodes /\ Entry(s) # NoNode /\ NoNode \notin s.nodes
BY DEF IsSketch, IsBuilt, Entry

LEMMA EdgeSteps ==
  ASSUME NEW s, IsSketch(s), NEW a, NEW l, NEW b, Edge(s, a, l, b)
  PROVE  StepBy(s, a, l) = b /\ l \in LabelsIn(s) /\ a \in s.nodes /\ b \in s.nodes
<1>1. PICK e \in s.edges : e[1] = a /\ e[2] = l /\ e[3] = b
  BY DEF Edge
<1>2. StepBy(s, e[1], e[2]) = e[3]
  BY StepIsEdge DEF IsSketch
<1>3. e[1] \in s.nodes /\ e[3] \in s.nodes
  BY DEF IsSketch, IsBuilt
<1> QED  BY <1>1, <1>2, <1>3 DEF LabelsIn

LEMMA PairIs ==
  ASSUME NEW s, IsSketch(s), NEW t, IsSketch(t), NEW p \in Pairs(s, t)
  PROVE  p = <<p[1], p[2]>> /\ p[1] \in s.nodes \cup {NoNode} /\ p[2] \in t.nodes \cup {NoNode}
<1> DEFINE A == s.nodes \cup {NoNode}
           B == t.nodes \cup {NoNode}
<1>1. p \in A \X B
  <2>1. Pairs(s, t) \subseteq A \X B
    BY PairsAreLeast
  <2> HIDE DEF A, B
  <2> QED  BY <2>1
<1> HIDE DEF A, B
<1>2. p = <<p[1], p[2]>> /\ p[1] \in A /\ p[2] \in B
  BY <1>1
<1> QED  BY <1>2 DEF A, B

(* What two sketches both know, their combinations know. *)
LEMMA PairsEmbed ==
  ASSUME NEW x, IsSketch(x), IsConnected(x), NEW s, IsSketch(s), NEW t, IsSketch(t),
         Embeds(x, s), Embeds(x, t), NEW label, NEW accepting \in SUBSET Pairs(s, t),
         \A p \in Pairs(s, t) : AcceptedByBoth(p) => p \in accepting
  PROVE  Embeds(x, BinopSketch(s, t, label, accepting))
<1> DEFINE q == BinopSketch(s, t, label, accepting)
           P == accepting \cup {EntryPair(s, t)}
<1>1. PICK a : IsMorphism(a, x.nodes, x, s) /\ a[Entry(x)] = Entry(s)
  BY DEF Embeds
<1>2. PICK b : IsMorphism(b, x.nodes, x, t) /\ b[Entry(x)] = Entry(t)
  BY DEF Embeds
<1>3. PICK C : IsPairMap(C, s, t, label, P, q)
  BY BinopMaps
<1> HIDE DEF q
<1> DEFINE I == {n \in x.nodes : <<a[n], b[n]>> \in Pairs(s, t)}
<1>4. ASSUME NEW e \in x.edges
      PROVE  /\ e[1] \in x.nodes /\ e[3] \in x.nodes /\ e[2] \in Alphabet(s, t)
             /\ PairStep(s, t, <<a[e[1]], b[e[1]]>>, e[2]) = <<a[e[3]], b[e[3]]>>
  <2>1. e[1] \in x.nodes /\ e[3] \in x.nodes
    BY DEF IsSketch, IsBuilt
  <2>2. Edge(s, a[e[1]], e[2], a[e[3]]) /\ Edge(t, b[e[1]], e[2], b[e[3]])
    BY <1>1, <1>2, <2>1 DEF IsMorphism
  <2> QED  BY <2>1, <2>2, EdgeSteps DEF PairStep, Alphabet
<1>5. Entry(x) \in I
  BY <1>1, <1>2, EntryOf, PairsAreLeast
<1>6. \A e \in x.edges : e[1] \in I => e[3] \in I
  <2> SUFFICES ASSUME NEW e \in x.edges, <<a[e[1]], b[e[1]]>> \in Pairs(s, t)
               PROVE  <<a[e[3]], b[e[3]]>> \in Pairs(s, t)
    BY <1>4
  <2> HIDE DEF I, P
  <2>1. PairStep(s, t, <<a[e[1]], b[e[1]]>>, e[2]) \in Pairs(s, t)
    BY <1>4, PairsAreLeast
  <2> QED  BY <1>4, <2>1
<1> HIDE DEF I
<1>7. x.nodes \subseteq I
  <2>1. Reached(x, {Entry(x)}) \subseteq I
    BY <1>5, <1>6, ReachedIsLeast DEF IsSketch, IsBuilt
  <2> QED  BY <2>1 DEF IsConnected
<1>8. \A n \in x.nodes : <<a[n], b[n]>> \in P
  <2>1. \A n \in x.nodes : a[n] \in s.nodes /\ b[n] \in t.nodes
    BY <1>1, <1>2 DEF IsMorphism
  <2>2. \A n \in x.nodes : AcceptedByBoth(<<a[n], b[n]>>)
    BY <2>1, EntryOf DEF AcceptedByBoth
  <2> QED  BY <1>7, <2>2 DEF I
<1> HIDE DEF P
<1> DEFINE f == [n \in x.nodes |-> C[<<a[n], b[n]>>]]
<1>9. IsMorphism(f, x.nodes, x, q)
  <2>1. f \in [x.nodes -> q.nodes]
    BY <1>3, <1>8 DEF IsPairMap, FollowsPairs
  <2>2. ASSUME NEW e \in x.edges PROVE e[3] \in x.nodes /\ Edge(q, f[e[1]], e[2], f[e[3]])
    <3>1. Edge(q, C[<<a[e[1]], b[e[1]]>>], e[2], C[<<a[e[3]], b[e[3]]>>])
      <4>1. <<a[e[1]], b[e[1]]>> \in P /\ <<a[e[3]], b[e[3]]>> \in P
        BY <1>4, <1>8
      <4> QED  BY <4>1, <1>3, <1>4 DEF IsPairMap, FollowsPairs
    <3> QED  BY <3>1, <1>4
  <2> HIDE DEF f
  <2> QED  BY <2>1, <2>2 DEF IsMorphism
<1>10. f[Entry(x)] = Entry(q)
  BY <1>1, <1>2, <1>3, EntryOf DEF IsPairMap, EntryPair
<1> HIDE DEF f
<1>11. Embeds(x, q)
  BY <1>9, <1>10 DEF Embeds
<1> QED  BY <1>11 DEF q

(* A combination that only holds what one of the two knows. *)
LEMMA PairsProject ==
  ASSUME NEW s, IsSketch(s), NEW t, IsSketch(t), NEW label, NEW accepting \in SUBSET Pairs(s, t)
  PROVE  /\ (\A p \in accepting : p[1] # NoNode) => Embeds(BinopSketch(s, t, label, accepting), s)
         /\ (\A p \in accepting : p[2] # NoNode) => Embeds(BinopSketch(s, t, label, accepting), t)
<1> DEFINE q == BinopSketch(s, t, label, accepting)
           P == accepting \cup {EntryPair(s, t)}
<1>1. PICK C : IsPairMap(C, s, t, label, P, q)
  BY BinopMaps
<1> HIDE DEF q
<1>2. P \subseteq Pairs(s, t) /\ P \subseteq (s.nodes \cup {NoNode}) \X (t.nodes \cup {NoNode})
  BY PairsAreLeast DEF EntryPair
<1>3. EntryPair(s, t)[1] = Entry(s) /\ EntryPair(s, t)[2] = Entry(t) /\ EntryPair(s, t) \in P
  BY DEF EntryPair
<1>4. ASSUME \A p \in accepting : p[1] # NoNode PROVE Embeds(q, s)
  <2> DEFINE f == [p \in P |-> p[1]]
  <2>1. \A p \in P : p[1] \in s.nodes /\ p[1] # NoNode
    BY <1>2, <1>3, <1>4, EntryOf
  <2> HIDE DEF P
  <2>2. FollowsPairs(f, s, t, P, s)
    <3>1. ASSUME NEW p \in P, NEW l \in Alphabet(s, t), PairStep(s, t, p, l) \in P
          PROVE  Edge(s, f[p], l, f[PairStep(s, t, p, l)])
      <4>1. PairStep(s, t, p, l)[1] = StepBy(s, p[1], l)
        BY DEF PairStep
      <4>2. Edge(s, p[1], l, StepBy(s, p[1], l))
        BY <2>1, <3>1, <4>1, StepIsEdge DEF IsSketch
      <4> QED  BY <3>1, <4>1, <4>2
    <3> QED  BY <2>1, <3>1 DEF FollowsPairs
  <2>3. PICK z : IsMorphism(z, q.nodes, q, s) /\ \A p \in P : z[C[p]] = f[p]
    <3> HIDE DEF f
    <3> QED  BY <1>1, <2>2 DEF IsPairMap, IsSketch
  <2>4. z[Entry(q)] = Entry(s)
    BY <1>1, <1>3, <2>3 DEF IsPairMap
  <2> QED  BY <2>3, <2>4 DEF Embeds
<1>5. ASSUME \A p \in accepting : p[2] # NoNode PROVE Embeds(q, t)
  <2> DEFINE f == [p \in P |-> p[2]]
  <2>1. \A p \in P : p[2] \in t.nodes /\ p[2] # NoNode
    BY <1>2, <1>3, <1>5, EntryOf
  <2> HIDE DEF P
  <2>2. FollowsPairs(f, s, t, P, t)
    <3>1. ASSUME NEW p \in P, NEW l \in Alphabet(s, t), PairStep(s, t, p, l) \in P
          PROVE  Edge(t, f[p], l, f[PairStep(s, t, p, l)])
      <4>1. PairStep(s, t, p, l)[2] = StepBy(t, p[2], l)
        BY DEF PairStep
      <4>2. Edge(t, p[2], l, StepBy(t, p[2], l))
        BY <2>1, <3>1, <4>1, StepIsEdge DEF IsSketch
      <4> QED  BY <3>1, <4>1, <4>2
    <3> QED  BY <2>1, <3>1 DEF FollowsPairs
  <2>3. PICK z : IsMorphism(z, q.nodes, q, t) /\ \A p \in P : z[C[p]] = f[p]
    <3> HIDE DEF f
    <3> QED  BY <1>1, <2>2 DEF IsPairMap, IsSketch
  <2>4. z[Entry(q)] = Entry(t)
    BY <1>1, <1>3, <2>3 DEF IsPairMap
  <2> QED  BY <2>3, <2>4 DEF Embeds
<1> QED  BY <1>4, <1>5 DEF q

LEMMA UnionEmbeds ==
  ASSUME NEW s, IsSketch(s), NEW t, IsSketch(t)
  PROVE  /\ Embeds(UnionOf(s, t), s) /\ Embeds(UnionOf(s, t), t)
         /\ \A x : IsSketch(x) /\ IsConnected(x) /\ Embeds(x, s) /\ Embeds(x, t)
                     => Embeds(x, UnionOf(s, t))
<1> DEFINE label == [p \in Pairs(s, t) |-> JoinBounds(WeightAt(s, p[1]), WeightAt(t, p[2]))]
           accepting == {p \in Pairs(s, t) : AcceptedByBoth(p)}
<1>1. UnionOf(s, t) = BinopSketch(s, t, label, accepting)
  BY DEF UnionOf
<1>2. /\ accepting \in SUBSET Pairs(s, t)
      /\ \A p \in Pairs(s, t) : AcceptedByBoth(p) => p \in accepting
      /\ \A p \in accepting : p[1] # NoNode /\ p[2] # NoNode
  BY DEF AcceptedByBoth
<1> HIDE DEF label, accepting
<1> QED  BY <1>1, <1>2, PairsEmbed, PairsProject

LEMMA IntersectEmbeds ==
  ASSUME NEW s, IsSketch(s), NEW t, IsSketch(t)
  PROVE  /\ Embeds(t, s) => Embeds(Intersect(s, t), s)
         /\ \A x : IsSketch(x) /\ IsConnected(x) /\ Embeds(x, s) /\ Embeds(x, t)
                     => Embeds(x, Intersect(s, t))
<1> DEFINE label == [p \in Pairs(s, t) |-> MeetBounds(WeightAt(s, p[1]), WeightAt(t, p[2]))]
           accepting == {p \in Pairs(s, t) : AcceptedByEither(p)}
<1>1. Intersect(s, t) = BinopSketch(s, t, label, accepting)
  BY DEF Intersect
<1>2. /\ accepting \in SUBSET Pairs(s, t)
      /\ \A p \in accepting : p # <<NoNode, NoNode>>
  BY DEF AcceptedByEither
<1>3. \A p \in Pairs(s, t) : AcceptedByBoth(p) => p \in accepting
  BY DEF AcceptedByBoth, AcceptedByEither
<1> HIDE DEF label, accepting
<1>4. ASSUME Embeds(t, s) PROVE \A p \in accepting : p[1] # NoNode
  <2>1. PICK f : IsMorphism(f, t.nodes, t, s) /\ f[Entry(t)] = Entry(s)
    BY <1>4 DEF Embeds
  <2> DEFINE I == {p \in Pairs(s, t) : p[2] # NoNode => p[1] = f[p[2]]}
  <2>2. <<Entry(s), Entry(t)>> \in I
    BY <2>1, PairsAreLeast
  <2>3. \A p \in I, l \in Alphabet(s, t) : PairStep(s, t, p, l) \in I
    <3> SUFFICES ASSUME NEW p \in I, NEW l \in Alphabet(s, t), StepBy(t, p[2], l) # NoNode
                 PROVE  StepBy(s, p[1], l) = f[StepBy(t, p[2], l)]
      BY PairsAreLeast DEF PairStep
    <3>1. p[2] \in t.nodes \cup {NoNode}
      BY PairIs
    <3>2. p[2] # NoNode
      BY StepIsEdge DEF IsSketch
    <3>3. p[2] \in t.nodes /\ p[1] = f[p[2]]
      BY <3>1, <3>2
    <3> HIDE DEF I
    <3> QED  BY <2>1, <3>3, MorphismSteps DEF IsSketch
  <2>4. Pairs(s, t) \subseteq I
    <3> HIDE DEF I
    <3> QED  BY <2>2, <2>3, PairsAreLeast
  <2> SUFFICES ASSUME NEW p \in accepting, p[1] = NoNode PROVE FALSE
    OBVIOUS
  <2>5. p \in Pairs(s, t) /\ p = <<p[1], p[2]>> /\ p[2] \in t.nodes \cup {NoNode}
    BY <1>2, PairIs
  <2>6. p[2] \in t.nodes /\ p[2] # NoNode
    BY <1>2, <2>5
  <2>7. f[p[2]] \in s.nodes /\ p[1] = f[p[2]]
    BY <2>1, <2>4, <2>5, <2>6 DEF IsMorphism
  <2> QED  BY <2>7, EntryOf
<1> QED  BY <1>1, <1>2, <1>3, <1>4, PairsEmbed, PairsProject

LEMMA OperatedEmbeds ==
  ASSUME NEW op, NEW s, IsSketch(s), NEW t, IsSketch(t)
  PROVE  /\ \A x : IsSketch(x) /\ IsConnected(x) /\ Embeds(x, s) /\ Embeds(x, t)
                     => Embeds(x, Operate(op, s, t))
         /\ op # "intersect" => Embeds(Operate(op, s, t), s) /\ Embeds(Operate(op, s, t), t)
<1>1. CASE op = "intersect"
  BY <1>1, IntersectEmbeds DEF Operate
<1>2. CASE op # "intersect"
  BY <1>2, UnionEmbeds DEF Operate
<1> QED  BY <1>1, <1>2

(* What all callsites know the merge knows, and what the merge by union      *)
(* knows each of them does.                                                  *)
LEMMA MergedEmbeds ==
  ASSUME NEW n \in Nat, n # 0, NEW ts, DOMAIN ts = 1 .. n, Len(ts) = n,
         \A i \in 1 .. n : IsSketch(ts[i]), NEW op
  PROVE  /\ \A x : IsSketch(x) /\ IsConnected(x) /\ (\A i \in 1 .. n : Embeds(x, ts[i]))
                     => Embeds(x, Merged(ts, op))
         /\ op # "intersect" => \A i \in 1 .. n : Embeds(Merged(ts, op), ts[i])
<1> DEFINE h == CHOOSE f : IsMerged(f, n, ts, op)
<1>1. IsMerged(h, n, ts, op)
  BY MergedExists
<1>2. Merged(ts, op) = h[n]
  BY DEF Merged, IsMerged
<1> HIDE DEF h
<1>3. \A i \in 1 .. n : h[i] = IF i = 1 THEN ts[1] ELSE Operate(op, h[i-1], ts[i])
  BY <1>1 DEF IsMerged
<1> DEFINE Above(k) == \A x : IsSketch(x) /\ IsConnected(x) /\ (\A i \in 1 .. n : Embeds(x, ts[i]))
                                => Embeds(x, h[k])
           Below(k) == op # "intersect" => \A i \in 1 .. k : Embeds(h[k], ts[i])
           P(k) == k \in 1 .. n => IsSketch(h[k]) /\ Above(k) /\ Below(k)
           T == {k \in Nat : P(k)}
<1>4. 0 \in T
  OBVIOUS
<1>5. \A k \in Nat : k \in T => k + 1 \in T
  <2> SUFFICES \A k \in Nat : P(k) => P(k + 1)
    <3>1. \A k \in Nat : k + 1 \in Nat
      OBVIOUS
    <3> HIDE DEF P
    <3> QED  BY <3>1
  <2> SUFFICES ASSUME NEW k \in Nat, P(k), k + 1 \in 1 .. n
               PROVE  IsSketch(h[k+1]) /\ Above(k+1) /\ Below(k+1)
    OBVIOUS
  <2>1. CASE k = 0
    <3>1. h[k+1] = ts[1] /\ 1 \in 1 .. n
      BY <1>3, <2>1
    <3>2. IsSketch(h[k+1]) /\ Above(k+1)
      BY <3>1
    <3>3. \A i \in 1 .. k+1 : i = 1
      BY <2>1
    <3>4. Embeds(ts[1], ts[1])
      BY <3>1, EmbedsItself
    <3> QED  BY <3>1, <3>2, <3>3, <3>4
  <2>2. CASE k # 0
    <3>1. k \in 1 .. n /\ (k + 1) - 1 = k /\ k + 1 # 1
      BY <2>2
    <3>2. h[k+1] = Operate(op, h[k], ts[k+1])
      BY <1>3, <3>1
    <3>3. IsSketch(h[k]) /\ IsSketch(ts[k+1]) /\ Above(k) /\ Below(k)
      BY <3>1
    <3>4. IsSketch(h[k+1])
      BY <3>2, <3>3, OperatedIs
    <3>5. Above(k+1)
      <4> SUFFICES ASSUME NEW x, IsSketch(x), IsConnected(x), \A i \in 1 .. n : Embeds(x, ts[i])
                   PROVE  Embeds(x, h[k+1])
        OBVIOUS
      <4>1. Embeds(x, h[k]) /\ Embeds(x, ts[k+1])
        BY <3>3
      <4> HIDE DEF P, Above, Below
      <4> QED  BY <3>2, <3>3, <4>1, OperatedEmbeds
    <3>6. ASSUME op # "intersect", NEW i \in 1 .. k+1 PROVE Embeds(h[k+1], ts[i])
      <4>1. Embeds(h[k+1], h[k]) /\ Embeds(h[k+1], ts[k+1])
        <5> HIDE DEF P, Above, Below
        <5> QED  BY <3>2, <3>3, <3>6, OperatedEmbeds
      <4>2. CASE i = k + 1
        BY <4>1, <4>2
      <4>3. CASE i \in 1 .. k
        <5>1. Embeds(h[k], ts[i])
          BY <3>3, <3>6, <4>3
        <5> HIDE DEF P, Above, Below
        <5> QED  BY <3>3, <3>4, <4>1, <5>1, EmbedsCompose
      <4> QED  BY <4>2, <4>3
    <3> HIDE DEF P, Above
    <3> QED  BY <3>4, <3>5, <3>6
  <2> QED  BY <2>1, <2>2
<1> HIDE DEF T
<1>6. n \in T
  BY <1>4, <1>5, NatSetInduction
<1>7. n \in 1 .. n
  OBVIOUS
<1>8. Above(n) /\ Below(n)
  BY <1>6, <1>7 DEF T
<1> QED  BY <1>2, <1>8

(* The type that takes the formal's place knows what the formal knew and     *)
(* nothing that some callsite does not know.                                 *)
Refines(merge, refine) ==
  \/ merge = "union" /\ refine = "intersect"
  \/ merge = "intersect" /\ refine = "union"

LEMMA TypeEmbeds ==
  ASSUME NEW n \in Nat, NEW ts, DOMAIN ts = 1 .. n, Len(ts) = n, n = 0 <=> ts = <<>>,
         \A i \in 1 .. n : IsSketch(ts[i]),
         NEW orig, IsSketch(orig), IsConnected(orig), \A i \in 1 .. n : Embeds(orig, ts[i]),
         NEW merge, NEW refine, Refines(merge, refine)
  PROVE  LET type == CallSiteType(ts, orig, merge, refine)
         IN  IsSketch(type) /\ Embeds(orig, type) /\ \A i \in 1 .. n : Embeds(type, ts[i])
<1> DEFINE type == CallSiteType(ts, orig, merge, refine)
           m == Merged(ts, merge)
<1>1. Embeds(orig, orig)
  BY EmbedsItself
<1>2. CASE n = 0
  <2>1. type = orig
    BY <1>2 DEF CallSiteType
  <2> QED  BY <1>1, <1>2, <2>1
<1>3. CASE n # 0
  <2>1. type = Operate(refine, m, orig)
    BY <1>3 DEF CallSiteType
  <2>2. IsSketch(m)
    BY <1>3, MergedIs
  <2>3. Embeds(orig, m) /\ (merge # "intersect" => \A i \in 1 .. n : Embeds(m, ts[i]))
    BY <1>3, MergedEmbeds
  <2> HIDE DEF type, m
  <2>4. IsSketch(type)
    BY <2>1, <2>2, OperatedIs
  <2>5. Embeds(orig, type)
    BY <1>1, <2>1, <2>2, <2>3, OperatedEmbeds
  <2>6. CASE merge = "union" /\ refine = "intersect"
    <3>1. Embeds(type, m)
      BY <2>1, <2>2, <2>3, <2>6, IntersectEmbeds DEF Operate
    <3>2. \A i \in 1 .. n : Embeds(m, ts[i])
      BY <2>3, <2>6
    <3>3. \A i \in 1 .. n : Embeds(type, ts[i])
      <4> SUFFICES ASSUME NEW i \in 1 .. n PROVE Embeds(type, ts[i])
        OBVIOUS
      <4>1. Embeds(m, ts[i])
        BY <3>2
      <4> QED  BY <2>2, <2>4, <3>1, <4>1, EmbedsCompose
    <3> QED  BY <2>4, <2>5, <3>3 DEF type
  <2>7. CASE merge = "intersect" /\ refine = "union"
    <3>1. Embeds(type, orig)
      <4>1. type = UnionOf(m, orig)
        BY <2>1, <2>7 DEF Operate
      <4> QED  BY <2>2, <4>1, UnionEmbeds
    <3>2. \A i \in 1 .. n : Embeds(type, ts[i])
      BY <2>4, <3>1, EmbedsCompose
    <3> QED  BY <2>4, <2>5, <3>2 DEF type
  <2> QED  BY <2>6, <2>7 DEF Refines
<1> QED  BY <1>2, <1>3

(* h is what the LET of Follow stands for. *)
IsWalk(h, s, n, word, k) ==
  h = [i \in 0 .. k |-> IF i = 0 THEN n ELSE StepBy(s, h[i-1], word[i])]

LEMMA WalkExists ==
  ASSUME NEW s, NEW n, NEW word
  PROVE  \A k \in Nat : \E h : IsWalk(h, s, n, word, k)
<1> DEFINE P(k) == \E h : IsWalk(h, s, n, word, k)
           T == {k \in Nat : P(k)}
<1>1. 0 \in T
  <2> DEFINE h == [i \in 0 .. 0 |-> n]
  <2>1. h = [i \in 0 .. 0 |-> IF i = 0 THEN n ELSE StepBy(s, h[i-1], word[i])]
    OBVIOUS
  <2> HIDE DEF h
  <2>2. IsWalk(h, s, n, word, 0)
    BY <2>1 DEF IsWalk
  <2> QED  BY <2>2
<1>2. \A k \in Nat : k \in T => k + 1 \in T
  <2> SUFFICES \A k \in Nat : P(k) => P(k + 1)
    <3>1. \A k \in Nat : k + 1 \in Nat
      OBVIOUS
    <3> HIDE DEF P
    <3> QED  BY <3>1
  <2> SUFFICES ASSUME NEW k \in Nat, P(k) PROVE P(k + 1)
    OBVIOUS
  <2>1. PICK f : IsWalk(f, s, n, word, k)
    OBVIOUS
  <2> DEFINE h == [i \in 0 .. k+1 |-> IF i \in 0 .. k THEN f[i]
                                      ELSE IF i = 0 THEN n ELSE StepBy(s, f[i-1], word[i])]
  <2>2. \A i \in 0 .. k : f[i] = IF i = 0 THEN n ELSE StepBy(s, f[i-1], word[i])
    BY <2>1 DEF IsWalk
  <2>3. \A i \in 0 .. k+1 : h[i] = IF i = 0 THEN n ELSE StepBy(s, h[i-1], word[i])
    <3> SUFFICES ASSUME NEW i \in 0 .. k+1
                 PROVE  h[i] = IF i = 0 THEN n ELSE StepBy(s, h[i-1], word[i])
      OBVIOUS
    <3>1. i # 0 => i - 1 \in 0 .. k
      OBVIOUS
    <3>2. i # 0 => h[i-1] = f[i-1]
      BY <3>1
    <3>3. h[i] = IF i = 0 THEN n ELSE StepBy(s, f[i-1], word[i])
      BY <2>2
    <3> HIDE DEF h
    <3> QED  BY <3>2, <3>3
  <2>4. h = [i \in 0 .. k+1 |-> h[i]]
    OBVIOUS
  <2> HIDE DEF h
  <2>5. IsWalk(h, s, n, word, k + 1)
    BY <2>3, <2>4 DEF IsWalk
  <2> QED  BY <2>5
<1> HIDE DEF T
<1>3. \A k \in Nat : k \in T
  BY <1>1, <1>2, NatSetInduction
<1> QED  BY <1>3 DEF T

IsWalkTo(h, s, n, w) == Follow(s, n, w) = h[Len(w)] /\ IsWalk(h, s, n, w, Len(w))

LEMMA WalkIs ==
  ASSUME NEW s, NEW n, NEW w, Len(w) \in Nat
  PROVE  \E h : IsWalkTo(h, s, n, w)
<1> DEFINE h == CHOOSE x : IsWalk(x, s, n, w, Len(w))
<1>1. Follow(s, n, w) = h[Len(w)]
  BY DEF Follow, IsWalk
<1>2. IsWalk(h, s, n, w, Len(w))
  BY WalkExists
<1> HIDE DEF h
<1> QED  BY <1>1, <1>2 DEF IsWalkTo

LEMMA FollowNothing ==
  ASSUME NEW s, NEW n
  PROVE  Follow(s, n, <<>>) = n
<1>1. Len(<<>>) = 0
  OBVIOUS
<1>2. PICK h : IsWalkTo(h, s, n, <<>>)
  BY <1>1, WalkIs
<1>3. 0 \in 0 .. 0
  OBVIOUS
<1> QED  BY <1>1, <1>2, <1>3 DEF IsWalkTo, IsWalk

(* find_node goes one label after the other. *)
LEMMA FollowAppend ==
  ASSUME NEW s, NEW n, NEW S, NEW w \in Seq(S), NEW l \in S
  PROVE  Follow(s, n, Append(w, l)) = StepBy(s, Follow(s, n, w), l)
<1> DEFINE v == Append(w, l)
           m == Len(w)
<1>1. m \in Nat /\ Len(v) = m + 1 /\ v[m+1] = l /\ \A i \in 1 .. m : v[i] = w[i]
  BY AppendProperties
<1> HIDE DEF v
<1>9. PICK a : IsWalkTo(a, s, n, w)
  BY <1>1, WalkIs
<1>10. PICK b : IsWalkTo(b, s, n, v)
  <2>1. Len(v) \in Nat
    BY <1>1
  <2> QED  BY <2>1, WalkIs
<1>2. /\ Follow(s, n, w) = a[m]
      /\ \A i \in 0 .. m : a[i] = IF i = 0 THEN n ELSE StepBy(s, a[i-1], w[i])
  BY <1>9 DEF IsWalkTo, IsWalk
<1>3. /\ Follow(s, n, v) = b[m+1]
      /\ \A i \in 0 .. m+1 : b[i] = IF i = 0 THEN n ELSE StepBy(s, b[i-1], v[i])
  BY <1>1, <1>10 DEF IsWalkTo, IsWalk
<1> DEFINE T == {k \in Nat : k <= m => a[k] = b[k]}
<1>4. 0 \in T
  <2>1. 0 \in 0 .. m /\ 0 \in 0 .. m+1
    BY <1>1
  <2> QED  BY <1>1, <1>2, <1>3, <2>1
<1>5. \A k \in Nat : k \in T => k + 1 \in T
  <2> SUFFICES ASSUME NEW k \in Nat, k \in T, k + 1 <= m PROVE a[k+1] = b[k+1]
    OBVIOUS
  <2>1. k <= m /\ k + 1 \in 1 .. m /\ k + 1 \in 0 .. m /\ k + 1 \in 0 .. m+1 /\ (k + 1) - 1 = k /\ k + 1 # 0
    BY <1>1
  <2>2. a[k+1] = StepBy(s, a[k], w[k+1]) /\ b[k+1] = StepBy(s, b[k], v[k+1])
    BY <1>1, <1>2, <1>3, <2>1
  <2>3. a[k] = b[k]
    BY <2>1
  <2> HIDE DEF T
  <2> QED  BY <1>1, <2>1, <2>2, <2>3
<1> HIDE DEF T
<1>6. a[m] = b[m]
  <2>1. m \in T
    BY <1>1, <1>4, <1>5, NatSetInduction
  <2> QED  BY <1>1, <2>1 DEF T
<1>7. b[m+1] = StepBy(s, b[m], l)
  <2>1. m + 1 \in 0 .. m+1 /\ m + 1 # 0 /\ (m + 1) - 1 = m
    BY <1>1
  <2> QED  BY <1>1, <1>3, <2>1
<1>8. Follow(s, n, v) = StepBy(s, Follow(s, n, w), l)
  BY <1>1, <1>2, <1>3, <1>6, <1>7
<1> QED  BY <1>8 DEF v

(* A map takes what a word leads to, to what it leads to. *)
LEMMA MorphismFollows ==
  ASSUME NEW s, IsBuilt(s), IsDeterministic(s), NEW t, IsBuilt(t), IsDeterministic(t),
         NEW D, NEW f, IsMorphism(f, D, s, t), NEW n \in D, NEW S, NEW w \in Seq(S),
         Follow(s, n, w) # NoNode
  PROVE  Follow(s, n, w) \in D /\ Follow(t, f[n], w) = f[Follow(s, n, w)]
<1> DEFINE Is(v) == Follow(s, n, v) # NoNode =>
                      Follow(s, n, v) \in D /\ Follow(t, f[n], v) = f[Follow(s, n, v)]
           T == {k \in Nat : \A v \in Seq(S) : Len(v) = k => Is(v)}
<1>1. 0 \in T
  <2> SUFFICES ASSUME NEW v \in Seq(S), Len(v) = 0 PROVE Is(v)
    OBVIOUS
  <2>1. v = <<>>
    BY EmptySeq
  <2> QED  BY <2>1, FollowNothing
<1>2. \A k \in Nat : k \in T => k + 1 \in T
  <2> SUFFICES ASSUME NEW k \in Nat, \A v \in Seq(S) : Len(v) = k => Is(v),
                      NEW v \in Seq(S), Len(v) = k + 1, Follow(s, n, v) # NoNode
               PROVE  Follow(s, n, v) \in D /\ Follow(t, f[n], v) = f[Follow(s, n, v)]
    OBVIOUS
  <2>1. v # <<>>
    <3>1. Len(<<>>) = 0
      OBVIOUS
    <3> QED  BY <3>1
  <2>2. PICK u \in Seq(S), l \in S : v = Append(u, l)
    BY <2>1, SequenceEmptyOrAppend
  <2>3. Len(u) = k
    <3>1. Len(u) \in Nat /\ Len(v) = Len(u) + 1
      BY <2>2, AppendProperties
    <3> QED  BY <3>1
  <2>4. Is(u)
    BY <2>3
  <2> HIDE DEF T
  <2>5. /\ Follow(s, n, v) = StepBy(s, Follow(s, n, u), l)
        /\ Follow(t, f[n], v) = StepBy(t, Follow(t, f[n], u), l)
    <3> HIDE DEF Is
    <3> QED  BY <2>2, FollowAppend
  <2>6. Follow(s, n, u) # NoNode
    BY <2>5, StepIsEdge
  <2> DEFINE m == Follow(s, n, u)
  <2>7. m \in D /\ Follow(t, f[n], u) = f[m] /\ StepBy(s, m, l) # NoNode
    BY <2>4, <2>5, <2>6
  <2> HIDE DEF m
  <2>8. StepBy(s, m, l) \in D /\ StepBy(t, f[m], l) = f[StepBy(s, m, l)]
    BY <2>7, MorphismSteps
  <2>9. Follow(s, n, v) = StepBy(s, m, l) /\ Follow(t, f[n], v) = StepBy(t, f[m], l)
    BY <2>5, <2>7 DEF m
  <2> QED  BY <2>8, <2>9
<1> HIDE DEF T
<1>3. \A k \in Nat : k \in T
  BY <1>1, <1>2, NatSetInduction
<1>4. Len(w) \in T
  BY <1>3
<1> QED  BY <1>4 DEF T

LEMMA RangeOfConcat ==
  ASSUME NEW S, NEW a \in Seq(S), NEW b \in Seq(S)
  PROVE  a \o b \in Seq(S) /\ Range(a \o b) = Range(a) \cup Range(b)
<1>1. Len(a) \in Nat /\ DOMAIN a = 1 .. Len(a)
  OBVIOUS
<1> DEFINE c == a \o b
<1>11. /\ c \in Seq(S) /\ Len(c) = Len(a) + Len(b) /\ DOMAIN c = 1 .. Len(c)
      /\ \A i \in 1 .. Len(a) + Len(b) : c[i] = IF i <= Len(a) THEN a[i] ELSE b[i - Len(a)]
  BY ConcatProperties
<1>2. Len(b) \in Nat /\ DOMAIN b = 1 .. Len(b)
  OBVIOUS
<1> HIDE DEF c
<1>3. ASSUME NEW x \in Range(c) PROVE x \in Range(a) \cup Range(b)
  <2>1. PICK i \in 1 .. Len(c) : x = c[i]
    BY <1>11, <1>3 DEF Range
  <2>2. CASE i <= Len(a)
    <3>1. i \in DOMAIN a /\ x = a[i]
      BY <1>1, <1>11, <2>1, <2>2
    <3> QED  BY <3>1 DEF Range
  <2>3. CASE ~(i <= Len(a))
    <3>1. i - Len(a) \in DOMAIN b /\ x = b[i - Len(a)]
      BY <1>1, <1>11, <1>2, <2>1, <2>3
    <3> QED  BY <3>1 DEF Range
  <2> QED  BY <2>2, <2>3
<1>4. ASSUME NEW i \in DOMAIN a PROVE a[i] \in Range(c)
  <2>1. i \in DOMAIN c /\ c[i] = a[i]
    BY <1>1, <1>11, <1>2
  <2> QED  BY <2>1 DEF Range
<1>5. ASSUME NEW i \in DOMAIN b PROVE b[i] \in Range(c)
  <2>1. i + Len(a) \in DOMAIN c /\ c[i + Len(a)] = b[i]
    <3>1. i \in 1 .. Len(b) /\ i + Len(a) \in 1 .. Len(a) + Len(b)
          /\ ~(i + Len(a) <= Len(a)) /\ (i + Len(a)) - Len(a) = i
      BY <1>1, <1>2
    <3>2. c[i + Len(a)] = b[(i + Len(a)) - Len(a)]
      BY <1>11, <3>1
    <3> QED  BY <1>11, <3>1, <3>2
  <2> QED  BY <2>1 DEF Range
<1>6. Range(c) = Range(a) \cup Range(b)
  BY <1>3, <1>4, <1>5 DEF Range
<1> QED  BY <1>11, <1>6 DEF c

LEMMA RangesAre ==
  ASSUME NEW S, NEW a \in Seq(S)
  PROVE  /\ Range(a) \subseteq S /\ Range(<<>>) = {}
         /\ a # <<>> => /\ Last(a) \in S /\ Front(a) \in Seq(S)
                        /\ Range(a) = Range(Front(a)) \cup {Last(a)}
<1>1. Len(a) \in Nat /\ DOMAIN a = 1 .. Len(a)
  OBVIOUS
<1>2. Range(a) \subseteq S /\ Range(<<>>) = {}
  BY DEF Range
<1>4. ASSUME a # <<>>
      PROVE  /\ Last(a) \in S /\ Front(a) \in Seq(S)
             /\ Range(a) = Range(Front(a)) \cup {Last(a)}
  <2>1. Len(a) >= 1
    <3>1. Len(a) # 0
      BY <1>4, EmptySeq
    <3> QED  BY <1>1, <3>1
  <2>2. Last(a) = a[Len(a)] /\ Last(a) \in S
    BY <1>1, <2>1 DEF Last
  <2> DEFINE h == Front(a)
  <2>3. /\ h \in Seq(S) /\ Len(h) = Len(a) - 1 /\ DOMAIN h = 1 .. Len(h)
        /\ \A i \in 1 .. Len(a) - 1 : h[i] = a[i]
    <3> DEFINE k == SubSeq(a, 1, Len(a) - 1)
    <3>1. h = k
      BY DEF Front
    <3>2. k \in Seq(S) /\ Len(k) = Len(a) - 1 /\ \A i \in 1 .. Len(a) - 1 : k[i] = a[i]
      BY <1>1, <2>1
    <3> HIDE DEF h, k
    <3> QED  BY <3>1, <3>2
  <2> HIDE DEF h
  <2>4. ASSUME NEW i \in DOMAIN a PROVE a[i] \in Range(h) \cup {Last(a)}
    <3>1. CASE i = Len(a)
      BY <2>2, <3>1
    <3>2. CASE i # Len(a)
      <4>1. i \in DOMAIN h /\ h[i] = a[i]
        BY <1>1, <2>3, <3>2
      <4> QED  BY <4>1 DEF Range
    <3> QED  BY <3>1, <3>2
  <2>5. ASSUME NEW i \in DOMAIN h PROVE h[i] \in Range(a)
    <3>1. i \in DOMAIN a /\ h[i] = a[i]
      BY <1>1, <2>1, <2>3
    <3> QED  BY <3>1 DEF Range
  <2>6. Last(a) \in Range(a)
    <3>1. Len(a) \in DOMAIN a
      BY <1>1, <2>1
    <3> QED  BY <2>2, <3>1 DEF Range
  <2>7. Range(a) = Range(h) \cup {Last(a)}
    BY <2>4, <2>5, <2>6 DEF Range
  <2> QED  BY <2>2, <2>3, <2>7 DEF h
<1> QED  BY <1>2, <1>4

LEMMA OrdersList ==
  ASSUME NEW S, IsFiniteSet(S), NEW todo \in SetToSeqs(S)
  PROVE  Range(todo) = S
<1> DEFINE n == Cardinality(S)
<1>1. n \in Nat /\ IsFiniteSet(1 .. n) /\ Cardinality(1 .. n) = n
  BY FS_CardinalityType, FS_Interval
<1>2. todo \in [1 .. n -> S] /\ \A i, j \in 1 .. n : i # j => todo[i] # todo[j]
  BY DEF SetToSeqs
<1>3. todo \in Injection(1 .. n, S)
  BY <1>2 DEF Injection, IsInjective
<1>4. todo \in Surjection(1 .. n, S)
  BY <1>1, <1>3, FS_Injection
<1> QED  BY <1>2, <1>4 DEF Surjection, Range

(* The word of a visit leads to it. *)
IsVisit(s, n, v) == v \in Visits(s) /\ Follow(s, n, v.word) = v.at

(* What waits on the stack is what the seen nodes still lead to. *)
Frontier(s, n, c) ==
  /\ \A v \in Range(c.stack) : IsVisit(s, n, v)
  /\ \A e \in s.edges : e[1] \in c.seen => e[3] \in c.seen \/ \E v \in Range(c.stack) : v.at = e[3]

Covers(s, n, c, vs) ==
  LET A == c.seen \cup {v.at : v \in Range(vs)}
  IN  /\ \A v \in Range(vs) : IsVisit(s, n, v)
      /\ \A v \in Range(c.stack) : v.at \in A
      /\ \A e \in s.edges : e[1] \in A => e[3] \in A
      /\ c.seen = {} /\ c.stack # <<>> => Last(c.stack) \in Range(vs)

LEMMA VisitsCover ==
  ASSUME NEW s, IsBuilt(s), IsDeterministic(s), NEW n \in s.nodes
  PROVE  IsExploration({x \in Configurations(s) \X Seq(Visits(s)) :
                          Frontier(s, n, x[1]) => Covers(s, n, x[1], x[2])}, s)
<1> DEFINE D == Configurations(s)
           Q == Seq(Visits(s))
           Fits(c, vs) == Frontier(s, n, c) => Covers(s, n, c, vs)
           G == {x \in D \X Q : Fits(x[1], x[2])}
<1>1. \A c, vs : <<c, vs>> \in G <=> c \in D /\ vs \in Q /\ Fits(c, vs)
  <2> HIDE DEF D, Q, Fits
  <2> QED  OBVIOUS
<1> HIDE DEF G
<1> SUFFICES ASSUME NEW c \in D, NEW vs \in Q
             PROVE  /\ c.stack = <<>> => <<c, <<>>>> \in G
                    /\ c.stack # <<>> /\ Last(c.stack).at \in c.seen /\ <<Skipped(c), vs>> \in G
                         => <<c, vs>> \in G
                    /\ c.stack # <<>> /\ Last(c.stack).at \notin c.seen =>
                         \A todo \in SetToSeqs(Pending(s, Last(c.stack), c.seen)) :
                           <<Visiting(c, todo), vs>> \in G => <<c, <<Last(c.stack)>> \o vs>> \in G
  <2> HIDE DEF D, Q
  <2> QED  BY DEF IsExploration, D, Q, G
<1>2. c.stack \in Seq(Visits(s)) /\ c.seen \subseteq s.nodes
  BY DEF Configurations, Visits
<1>3. ASSUME c.stack = <<>> PROVE <<c, <<>>>> \in G
  <2>1. <<>> \in Q /\ Range(<<>>) = {}
    BY DEF Range
  <2> HIDE DEF D, Q
  <2>2. Fits(c, <<>>)
    BY <1>3, <2>1 DEF Frontier, Covers
  <2> QED  BY <1>1, <2>1, <2>2
<1> DEFINE top == Last(c.stack)
           below == Front(c.stack)
<1>4. c.stack # <<>> => top \in Visits(s) /\ below \in Q /\ Range(c.stack) = Range(below) \cup {top}
  BY <1>2, RangesAre
<1>5. ASSUME c.stack # <<>>, top.at \in c.seen, <<Skipped(c), vs>> \in G
      PROVE  <<c, vs>> \in G
  <2> DEFINE d == Skipped(c)
  <2>1. d.stack = below /\ d.seen = c.seen
    BY DEF Skipped
  <2>2. Fits(d, vs)
    BY <1>1, <1>5
  <2> HIDE DEF d, D, Q, top, below
  <2>3. ASSUME Frontier(s, n, c) PROVE Covers(s, n, c, vs)
    <3>1. Frontier(s, n, d)
      BY <1>4, <1>5, <2>1, <2>3 DEF Frontier
    <3>2. Covers(s, n, d, vs)
      BY <2>2, <3>1
    <3>3. c.seen # {}
      BY <1>5
    <3> QED  BY <1>4, <1>5, <2>1, <3>2, <3>3 DEF Covers
  <2> QED  BY <1>1, <2>3
<1>6. ASSUME c.stack # <<>>, top.at \notin c.seen,
             NEW todo \in SetToSeqs(Pending(s, top, c.seen)), <<Visiting(c, todo), vs>> \in G
      PROVE  <<c, <<top>> \o vs>> \in G
  <2> DEFINE d == Visiting(c, todo)
             ws == <<top>> \o vs
             E == {f \in EdgesOut(s, top.at) : f[3] \notin c.seen \cup {top.at}}
             P == Pending(s, top, c.seen)
             visit(e) == [at |-> e[3], word |-> Append(top.word, e[2])]
  <2>1. d.stack = below \o todo /\ d.seen = c.seen \cup {top.at}
    BY DEF Visiting
  <2>2. Fits(d, vs)
    BY <1>1, <1>6
  <2>3. P = {visit(e) : e \in E} /\ \A e : e \in E <=> e \in s.edges /\ e[1] = top.at /\ e[3] \notin c.seen \cup {top.at}
    BY DEF Pending, EdgesOut
  <2>4. top \in Visits(s) /\ top.at \in s.nodes /\ top.word \in Seq(LabelsIn(s))
    BY <1>4, <1>6 DEF Visits
  <2>5. Range(todo) = P
    <3>1. IsFiniteSet(P)
      <4>1. IsFiniteSet(E)
        <5>1. E \subseteq s.edges
          BY <2>3
        <5> HIDE DEF E
        <5> QED  BY <5>1, FS_Subset DEF IsBuilt
      <4> DEFINE v == [e \in E |-> visit(e)]
      <4>2. v \in Surjection(E, P)
        <5>1. v \in [E -> P]
          BY <2>3
        <5> HIDE DEF E, P, visit
        <5> QED  BY <2>3, <5>1 DEF Surjection
      <4> HIDE DEF E, P, v
      <4> QED  BY <4>1, <4>2, FS_Surjection
    <3> HIDE DEF P
    <3> QED  BY <3>1, OrdersList DEF P
  <2>6. todo \in Q
    <3> HIDE DEF top
    <3> QED  BY <1>6, <2>4, PendingIs
  <2>7. Range(d.stack) = Range(below) \cup P
    <3>1. below \in Q
      BY <1>4, <1>6
    <3> HIDE DEF below, P, d
    <3>2. Range(below \o todo) = Range(below) \cup Range(todo)
      BY <2>6, <3>1, RangeOfConcat
    <3> QED  BY <2>1, <2>5, <3>2
  <2>8. ws \in Q /\ Range(ws) = {top} \cup Range(vs)
    <3>1. <<top>> \in Q
      <4> HIDE DEF top
      <4> QED  BY <2>4
    <3>2. Range(<<top>>) = {top}
      <4> HIDE DEF top
      <4> QED  BY DEF Range
    <3> HIDE DEF top
    <3>3. ws \in Q /\ Range(ws) = Range(<<top>>) \cup Range(vs)
      BY <3>1, RangeOfConcat
    <3> QED  BY <3>2, <3>3
  <2> HIDE DEF d, D, Q, top, below, ws, P, E
  <2>9. ASSUME Frontier(s, n, c) PROVE Frontier(s, n, d)
    <3>1. IsVisit(s, n, top) /\ Follow(s, n, top.word) = top.at
      BY <1>4, <1>6, <2>9 DEF Frontier, IsVisit
    <3>2. ASSUME NEW e \in E PROVE visit(e) \in Visits(s) /\ IsVisit(s, n, visit(e))
      <4>1. e \in s.edges /\ e[1] = top.at
        BY <2>3, <3>2
      <4>2. e[3] \in s.nodes /\ e[2] \in LabelsIn(s)
        BY <4>1 DEF IsBuilt, LabelsIn
      <4>3. StepBy(s, top.at, e[2]) = e[3]
        BY <4>1, StepIsEdge
      <4>4. Follow(s, n, Append(top.word, e[2])) = StepBy(s, Follow(s, n, top.word), e[2])
        BY <2>4, <4>2, FollowAppend
      <4>5. Append(top.word, e[2]) \in Seq(LabelsIn(s))
        BY <2>4, <4>2
      <4>6. visit(e) \in Visits(s)
        BY <4>2, <4>5 DEF Visits
      <4> QED  BY <3>1, <4>3, <4>4, <4>6 DEF IsVisit
    <3>3. \A v \in Range(d.stack) : IsVisit(s, n, v)
      <4>1. \A v \in P : IsVisit(s, n, v)
        <5> HIDE DEF visit
        <5> QED  BY <2>3, <3>2
      <4>2. \A v \in Range(below) : IsVisit(s, n, v)
        BY <1>4, <1>6, <2>9 DEF Frontier
      <4> QED  BY <2>7, <4>1, <4>2
    <3>4. ASSUME NEW e \in s.edges, e[1] \in d.seen, e[3] \notin d.seen
          PROVE  \E v \in Range(d.stack) : v.at = e[3]
      <4>1. CASE e[1] = top.at
        <5>1. e \in E
          BY <2>1, <2>3, <3>4, <4>1
        <5>2. visit(e) \in P /\ visit(e).at = e[3]
          BY <2>3, <5>1
        <5> QED  BY <2>7, <5>2
      <4>2. CASE e[1] \in c.seen
        <5>1. PICK v \in Range(c.stack) : v.at = e[3]
          BY <2>1, <2>9, <3>4, <4>2 DEF Frontier
        <5>2. v \in Range(below)
          BY <1>4, <1>6, <2>1, <3>4, <5>1
        <5> QED  BY <2>7, <5>1, <5>2
      <4> QED  BY <2>1, <3>4, <4>1, <4>2
    <3> QED  BY <3>3, <3>4 DEF Frontier
  <2>10. ASSUME Frontier(s, n, c) PROVE Covers(s, n, c, ws)
    <3>1. Covers(s, n, d, vs)
      BY <2>2, <2>9, <2>10
    <3>2. IsVisit(s, n, top)
      BY <1>4, <1>6, <2>10 DEF Frontier
    <3> DEFINE A == d.seen \cup {v.at : v \in Range(vs)}
               B == c.seen \cup {v.at : v \in Range(ws)}
    <3>3. A = B
      BY <2>1, <2>8
    <3>4. /\ \A v \in Range(vs) : IsVisit(s, n, v)
          /\ \A v \in Range(d.stack) : v.at \in A
          /\ \A e \in s.edges : e[1] \in A => e[3] \in A
      BY <3>1 DEF Covers
    <3>5. top.at \in A
      BY <2>1
    <3> HIDE DEF A
    <3>6. \A v \in Range(c.stack) : v.at \in A
      BY <1>4, <1>6, <2>7, <3>4, <3>5
    <3>7. \A v \in Range(ws) : IsVisit(s, n, v)
      BY <2>8, <3>2, <3>4
    <3>8. Last(c.stack) \in Range(ws)
      BY <2>8 DEF top
    <3> QED  BY <3>3, <3>4, <3>6, <3>7, <3>8 DEF Covers
  <2> QED  BY <1>1, <2>8, <2>10 DEF ws
<1> HIDE DEF D, Q
<1> QED  BY <1>3, <1>5, <1>6 DEF top

(* explore_paths visits what can be reached, each by a word that leads       *)
(* there, and the start by the empty one.                                    *)
LEMMA ExplorePathsVisit ==
  ASSUME NEW s, IsBuilt(s), IsDeterministic(s), NEW n \in s.nodes,
         NEW visits \in ExplorePaths(s, n)
  PROVE  /\ visits \in Seq(Visits(s))
         /\ \A i \in DOMAIN visits : visits[i] \in Visits(s) /\ Follow(s, n, visits[i].word) = visits[i].at
         /\ \A m \in Reached(s, {n}) : \E i \in DOMAIN visits : visits[i].at = m
         /\ \E i \in DOMAIN visits : visits[i] = [at |-> n, word |-> <<>>]
<1> DEFINE c == StartAt(n)
           v0 == [at |-> n, word |-> <<>>]
<1>1. c.stack = <<v0>> /\ c.seen = {}
  BY DEF StartAt
<1>2. Range(c.stack) = {v0} /\ Last(c.stack) = v0 /\ c.stack # <<>>
  BY <1>1 DEF Range, Last
<1>3. visits \in Seq(Visits(s)) /\ (Frontier(s, n, c) => Covers(s, n, c, visits))
  <2> DEFINE G == {x \in Configurations(s) \X Seq(Visits(s)) :
                     Frontier(s, n, x[1]) => Covers(s, n, x[1], x[2])}
  <2>1. IsExploration(G, s)
    BY VisitsCover
  <2>2. \A x, y : <<x, y>> \in G => (Frontier(s, n, x) => Covers(s, n, x, y))
    OBVIOUS
  <2> HIDE DEF G
  <2>3. visits \in Seq(Visits(s)) /\ <<c, visits>> \in G
    BY <2>1, Explored
  <2> QED  BY <2>2, <2>3
<1>4. IsVisit(s, n, v0)
  <2>1. <<>> \in Seq(LabelsIn(s))
    OBVIOUS
  <2>2. v0 \in Visits(s)
    BY <2>1 DEF Visits
  <2>3. Follow(s, n, v0.word) = v0.at
    BY FollowNothing
  <2> QED  BY <2>2, <2>3 DEF IsVisit
<1> HIDE DEF c
<1>5. Covers(s, n, c, visits)
  <2> HIDE DEF v0
  <2>1. Frontier(s, n, c)
    BY <1>1, <1>2, <1>4 DEF Frontier
  <2> QED  BY <1>3, <2>1
<1> DEFINE A == {v.at : v \in Range(visits)}
<1>6. /\ \A v \in Range(visits) : IsVisit(s, n, v)
      /\ n \in A /\ \A e \in s.edges : e[1] \in A => e[3] \in A
      /\ v0 \in Range(visits)
  BY <1>1, <1>2, <1>5 DEF Covers
<1>7. Reached(s, {n}) \subseteq A
  <2>1. {n} \subseteq A
    BY <1>6
  <2> HIDE DEF A
  <2> QED  BY <1>6, <2>1, ReachedIsLeast DEF IsBuilt
<1>8. \A i \in DOMAIN visits : visits[i] \in Range(visits)
  BY DEF Range
<1>9. \A v \in Range(visits) : \E i \in DOMAIN visits : visits[i] = v
  BY DEF Range
<1> HIDE DEF v0
<1>10. \A m \in Reached(s, {n}) : \E i \in DOMAIN visits : visits[i].at = m
  BY <1>7, <1>9
<1>11. \E i \in DOMAIN visits : visits[i] = v0
  BY <1>6, <1>9
<1>12. \A i \in DOMAIN visits : visits[i] \in Visits(s) /\ Follow(s, n, visits[i].word) = visits[i].at
  BY <1>6, <1>8 DEF IsVisit
<1> QED  BY <1>3, <1>10, <1>11, <1>12 DEF v0

(* A map from the old sketch to the new one takes the keys along: label_dtvs *)
(* gives a key the node that stands for its old one.                         *)
LEMMA LabelDtvsFollow ==
  ASSUME NEW s, IsSketch(s), NEW other, IsSketch(other), NEW f,
         IsMorphism(f, other.nodes, other, s), f[Entry(other)] = Entry(s),
         NEW t \in LabelDtvs(s, other)
  PROVE  /\ t.nodes = s.nodes /\ t.edges = s.edges /\ t.weight = s.weight
         /\ DOMAIN t.keys \subseteq DOMAIN other.keys /\ other.repr \in DOMAIN t.keys
         /\ \A k \in DOMAIN t.keys : t.keys[k] = f[other.keys[k]]
<1> DEFINE reachedBy(visit) == Follow(other, Entry(other), visit.word)
           found(visits, k) == {i \in DOMAIN visits : reachedBy(visits[i]) = other.keys[k]}
           last(visits, k) == CHOOSE i \in found(visits, k) : \A j \in found(visits, k) : j <= i
           known(visits) == {k \in DOMAIN other.keys : \E i \in DOMAIN visits : reachedBy(visits[i]) = other.keys[k]}
           labels(visits) == [k \in known(visits) |-> visits[last(visits, k)].at]
<1>1. PICK visits \in ExplorePaths(s, Entry(s)) :
        t = [s EXCEPT !.keys = labels(visits), !.repr = other.repr]
  BY DEF LabelDtvs
<1>2. /\ Entry(s) \in s.nodes /\ IsBuilt(s) /\ IsDeterministic(s)
      /\ Entry(other) \in other.nodes /\ IsBuilt(other) /\ IsDeterministic(other)
  BY DEF IsSketch, IsBuilt, Entry
<1>3. /\ visits \in Seq(Visits(s))
      /\ \A i \in DOMAIN visits : visits[i] \in Visits(s) /\ Follow(s, Entry(s), visits[i].word) = visits[i].at
      /\ \E i \in DOMAIN visits : visits[i] = [at |-> Entry(s), word |-> <<>>]
  BY <1>2, ExplorePathsVisit
<1>4. ASSUME NEW k \in known(visits) PROVE visits[last(visits, k)].at = f[other.keys[k]]
  <2> DEFINE S == found(visits, k)
  <2>1. DOMAIN visits = 1 .. Len(visits) /\ Len(visits) \in Nat
    BY <1>3
  <2>2. S \in SUBSET (1 .. Len(visits)) /\ S # {}
    BY <1>4, <2>1
  <2>3. S \in SUBSET Nat /\ IsFiniteSet(S)
    <3>1. IsFiniteSet(1 .. Len(visits))
      BY <2>1, FS_Interval
    <3>2. 1 .. Len(visits) \subseteq Nat
      BY <2>1
    <3> HIDE DEF S
    <3>3. IsFiniteSet(S)
      BY <2>2, <3>1, FS_Subset
    <3> QED  BY <2>2, <3>2, <3>3
  <2>4. \E i \in S : \A j \in S : j <= i
    <3> HIDE DEF S
    <3> QED  BY <2>2, <2>3, GreatestNatural
  <2> DEFINE i == CHOOSE x \in S : \A j \in S : j <= x
             w == visits[i].word
  <2>5. i \in S
    <3> HIDE DEF S
    <3> QED  BY <2>4
  <2>6. last(visits, k) = i
    OBVIOUS
  <2> HIDE DEF last, i
  <2>7. i \in DOMAIN visits /\ Follow(other, Entry(other), w) = other.keys[k]
    BY <2>5
  <2>8. other.keys[k] # NoNode
    BY <1>2, <1>4 DEF IsBuilt
  <2>9. w \in Seq(LabelsIn(s)) /\ Follow(s, Entry(s), w) = visits[i].at
    BY <1>3, <2>7 DEF Visits
  <2> HIDE DEF w
  <2>10. Follow(s, f[Entry(other)], w) = f[Follow(other, Entry(other), w)]
    BY <1>2, <2>7, <2>8, <2>9, MorphismFollows
  <2> QED  BY <2>6, <2>7, <2>9, <2>10
<1>5. other.repr \in known(visits)
  <2>1. PICK i \in DOMAIN visits : visits[i] = [at |-> Entry(s), word |-> <<>>]
    BY <1>3
  <2>2. Follow(other, Entry(other), <<>>) = Entry(other)
    BY FollowNothing
  <2>3. reachedBy(visits[i]) = other.keys[other.repr]
    BY <2>1, <2>2 DEF Entry
  <2>4. other.repr \in DOMAIN other.keys
    BY DEF IsSketch
  <2> HIDE DEF reachedBy
  <2> QED  BY <2>3, <2>4
<1> DEFINE K == labels(visits)
<1>6. DOMAIN K = known(visits) /\ known(visits) \subseteq DOMAIN other.keys
  OBVIOUS
<1>7. \A k \in DOMAIN K : K[k] = f[other.keys[k]]
  <2> HIDE DEF known, last
  <2> QED  BY <1>4, <1>6
<1> HIDE DEF K, labels, known
<1>8. t = [s EXCEPT !.keys = K, !.repr = other.repr]
  BY <1>1 DEF K
<1>9. Fields \subseteq DOMAIN s /\ "repr" \in DOMAIN s
  BY DEF IsSketch, IsBuilt, Fields
<1>10. t.nodes = s.nodes /\ t.edges = s.edges /\ t.weight = s.weight /\ t.keys = K
  BY <1>8, <1>9 DEF Fields
<1> QED  BY <1>5, <1>6, <1>7, <1>10

(* What replace_node does to the nodes, f being the map from the subgraph    *)
(* that goes to the one that comes.                                          *)
Moved(s, gone, f) == [n \in s.nodes |-> IF n \in gone THEN Fresh(s, f[n]) ELSE n]

IsPlaced(s, gone, r, f, t) ==
  /\ gone \subseteq s.nodes /\ \A e \in s.edges : e[1] \in gone => e[3] \in gone
  /\ IsMorphism(f, gone, s, r)
  /\ \A n \in r.nodes : Fresh(s, n) \notin s.nodes
  /\ \A m, n \in r.nodes : Fresh(s, m) = Fresh(s, n) => m = n
  /\ t.nodes = (s.nodes \ gone) \cup {Fresh(s, n) : n \in r.nodes}
  /\ t.edges = {e \in s.edges : e[1] \in s.nodes \ gone /\ e[3] \in s.nodes \ gone}
                 \cup {<<Fresh(s, e[1]), e[2], Fresh(s, e[3])>> : e \in r.edges}
                 \cup {<<e[1], e[2], Fresh(s, f[e[3]])>> :
                         e \in {d \in s.edges : d[1] \notin gone /\ d[3] \in gone}}
  /\ DOMAIN t.keys = DOMAIN s.keys
  /\ \A k \in DOMAIN s.keys : t.keys[k] = Moved(s, gone, f)[s.keys[k]]

LEMMA ReplacedIsPlaced ==
  ASSUME NEW s, IsBuilt(s), IsDeterministic(s), NEW key \in DOMAIN s.keys,
         NEW r, IsBuilt(r), IsDeterministic(r), NEW f,
         IsMorphism(f, Reached(s, {s.keys[key]}), s, r),
         key \in DOMAIN r.keys, f[s.keys[key]] = r.keys[key],
         \A k \in DOMAIN r.keys :
           k \in DOMAIN s.keys /\ s.keys[k] \in Reached(s, {s.keys[key]}) /\ r.keys[k] = f[s.keys[k]],
         NEW t \in ReplaceNode(s, key, r)
  PROVE  IsPlaced(s, Reached(s, {s.keys[key]}), r, f, t)
<1> DEFINE gone == Reached(s, {s.keys[key]})
<1>1. PICK visits \in ExplorePaths(s, s.keys[key]) : t = Replaced(s, key, r, visits)
  BY DEF ReplaceNode
<1> DEFINE target == [n \in gone |-> Replacement(visits, r, key, n)]
           kept == s.nodes \ gone
           new == {Fresh(s, n) : n \in r.nodes}
           inner == {e \in s.edges : e[1] \in kept /\ e[3] \in kept}
           below == {<<Fresh(s, e[1]), e[2], Fresh(s, e[3])>> : e \in r.edges}
<1>2. /\ t.nodes = kept \cup new /\ t.edges = inner \cup below \cup EdgesInto(s, r, gone, target)
      /\ t.keys = NewLabeling(s, r, gone, target)
  BY <1>1 DEF Replaced
<1>3. s.keys[key] \in s.nodes
  BY DEF IsBuilt
<1>4. /\ s.keys[key] \in gone /\ gone \subseteq s.nodes
      /\ \A e \in s.edges : e[1] \in gone => e[3] \in gone
  BY <1>3, ReachedIsLeast DEF IsBuilt
<1>5. /\ visits \in Seq(Visits(s))
      /\ \A i \in DOMAIN visits : visits[i] \in Visits(s)
                                  /\ Follow(s, s.keys[key], visits[i].word) = visits[i].at
      /\ \A m \in gone : \E i \in DOMAIN visits : visits[i].at = m
  BY <1>3, ExplorePathsVisit
<1> HIDE DEF gone
<1>6. \A n \in gone : target[n] = f[n]
  <2> SUFFICES ASSUME NEW n \in gone PROVE Replacement(visits, r, key, n) = f[n]
    OBVIOUS
  <2> DEFINE i == CHOOSE j \in DOMAIN visits : visits[j].at = n
             w == visits[i].word
  <2>1. i \in DOMAIN visits /\ visits[i].at = n
    BY <1>5
  <2>2. Replacement(visits, r, key, n) = Follow(r, r.keys[key], w)
    BY DEF Replacement
  <2> HIDE DEF i
  <2>3. w \in Seq(LabelsIn(s)) /\ Follow(s, s.keys[key], w) = n
    BY <1>5, <2>1 DEF Visits
  <2> HIDE DEF w
  <2>4. n # NoNode
    BY <1>4 DEF IsBuilt
  <2>5. IsMorphism(f, gone, s, r)
    BY DEF gone
  <2>6. Follow(r, f[s.keys[key]], w) = f[Follow(s, s.keys[key], w)]
    BY <1>4, <2>3, <2>4, <2>5, MorphismFollows
  <2> QED  BY <2>2, <2>3, <2>6
<1> HIDE DEF target
<1>7. f \in [gone -> r.nodes]
  BY DEF IsMorphism, gone
<1>8. EdgesInto(s, r, gone, target) = {<<e[1], e[2], Fresh(s, f[e[3]])>> :
                                         e \in {d \in s.edges : d[1] \notin gone /\ d[3] \in gone}}
  <2>1. {d \in s.edges : d[1] \notin gone /\ d[3] \in gone /\ target[d[3]] \in r.nodes}
        = {d \in s.edges : d[1] \notin gone /\ d[3] \in gone}
    BY <1>6, <1>7
  <2> QED  BY <1>6, <2>1 DEF EdgesInto
<1> DEFINE outer == {k \in DOMAIN s.keys : s.keys[k] \notin gone}
           moved == {k \in DOMAIN s.keys \ outer : target[s.keys[k]] \in r.nodes}
<1>9. /\ DOMAIN t.keys = outer \cup DOMAIN r.keys \cup moved
      /\ \A k \in DOMAIN t.keys :
           t.keys[k] = IF k \in outer THEN s.keys[k]
                       ELSE Fresh(s, IF k \in DOMAIN r.keys THEN r.keys[k] ELSE target[s.keys[k]])
  BY <1>2 DEF NewLabeling
<1>10. /\ \A k \in DOMAIN r.keys : k \in DOMAIN s.keys /\ s.keys[k] \in gone /\ r.keys[k] = f[s.keys[k]]
       /\ \A k \in DOMAIN s.keys : s.keys[k] \in s.nodes
  BY DEF IsBuilt, gone
<1>11. DOMAIN t.keys = DOMAIN s.keys
  BY <1>6, <1>7, <1>9, <1>10
<1>12. \A k \in DOMAIN s.keys : t.keys[k] = Moved(s, gone, f)[s.keys[k]]
  <2> SUFFICES ASSUME NEW k \in DOMAIN s.keys
               PROVE  t.keys[k] = IF s.keys[k] \in gone THEN Fresh(s, f[s.keys[k]]) ELSE s.keys[k]
    BY <1>10 DEF Moved
  <2>1. CASE s.keys[k] \notin gone
    BY <1>9, <1>11, <2>1
  <2>2. CASE s.keys[k] \in gone
    <3>1. (IF k \in DOMAIN r.keys THEN r.keys[k] ELSE target[s.keys[k]]) = f[s.keys[k]]
      BY <1>6, <1>10, <2>2
    <3>2. k \notin outer
      BY <2>2
    <3>3. t.keys[k] = Fresh(s, IF k \in DOMAIN r.keys THEN r.keys[k] ELSE target[s.keys[k]])
      BY <1>9, <1>11, <3>2
    <3> QED  BY <2>2, <3>1, <3>3
  <2> QED  BY <2>1, <2>2
<1>13. PICK o \in Nat : /\ \A n : Fresh(s, n) = n + o
                        /\ \A n \in s.nodes : n <= o
  BY FreshIs
<1>14. r.nodes \subseteq Nat \ {0} /\ s.nodes \subseteq Nat
  BY DEF IsBuilt, NoNode
<1>15. \A n \in r.nodes : Fresh(s, n) \notin s.nodes
  <2> SUFFICES ASSUME NEW n \in r.nodes PROVE Fresh(s, n) \notin s.nodes
    OBVIOUS
  <2>1. n \in Nat /\ n > 0 /\ Fresh(s, n) = n + o
    BY <1>13, <1>14
  <2>2. Fresh(s, n) \in Nat /\ Fresh(s, n) > o
    BY <2>1
  <2> QED  BY <2>2, <1>13, <1>14
<1>16. \A m, n \in r.nodes : Fresh(s, m) = Fresh(s, n) => m = n
  <2> SUFFICES ASSUME NEW m \in r.nodes, NEW n \in r.nodes, Fresh(s, m) = Fresh(s, n) PROVE m = n
    OBVIOUS
  <2>1. m \in Nat /\ n \in Nat /\ m + o = n + o
    BY <1>13, <1>14
  <2> QED  BY <2>1
<1>17. IsMorphism(f, gone, s, r)
  BY DEF gone
<1>18. t.edges = inner \cup below \cup {<<e[1], e[2], Fresh(s, f[e[3]])>> :
                                         e \in {d \in s.edges : d[1] \notin gone /\ d[3] \in gone}}
  BY <1>2, <1>8
<1> HIDE DEF outer, moved
<1>19. IsPlaced(s, gone, r, f, t)
  BY <1>2, <1>4, <1>11, <1>12, <1>15, <1>16, <1>17, <1>18 DEF IsPlaced
<1> QED  BY <1>19 DEF gone

(* No edge is lost, and each leads where its nodes have moved to. *)
LEMMA PlacedKeeps ==
  ASSUME NEW s, IsBuilt(s), NEW r, NEW gone, NEW f, NEW t, IsPlaced(s, gone, r, f, t)
  PROVE  /\ IsMorphism(Moved(s, gone, f), s.nodes, s, t)
         /\ \A a, l, b : <<a, l, b>> \in s.edges =>
              <<Moved(s, gone, f)[a], l, Moved(s, gone, f)[b]>> \in t.edges
<1> DEFINE F == Moved(s, gone, f)
           kept == s.nodes \ gone
           inner == {e \in s.edges : e[1] \in kept /\ e[3] \in kept}
           below == {<<Fresh(s, e[1]), e[2], Fresh(s, e[3])>> : e \in r.edges}
           into == {<<e[1], e[2], Fresh(s, f[e[3]])>> : e \in {d \in s.edges : d[1] \notin gone /\ d[3] \in gone}}
<1>1. /\ gone \subseteq s.nodes /\ \A e \in s.edges : e[1] \in gone => e[3] \in gone
      /\ IsMorphism(f, gone, s, r)
      /\ t.nodes = kept \cup {Fresh(s, n) : n \in r.nodes}
      /\ t.edges = inner \cup below \cup into
  BY DEF IsPlaced
<1>2. /\ \A n \in s.nodes : F[n] = IF n \in gone THEN Fresh(s, f[n]) ELSE n
      /\ f \in [gone -> r.nodes]
      /\ \A e \in s.edges : e[1] \in s.nodes /\ e[3] \in s.nodes
  BY <1>1 DEF Moved, IsMorphism, IsBuilt
<1>3. F \in [s.nodes -> t.nodes]
  <2>1. F = [n \in s.nodes |-> F[n]]
    BY DEF Moved
  <2> HIDE DEF F
  <2>2. \A n \in s.nodes : F[n] \in t.nodes
    BY <1>1, <1>2
  <2> QED  BY <2>1, <2>2
<1> HIDE DEF F
<1>4. ASSUME NEW e \in s.edges
      PROVE  IF e[1] \notin gone /\ e[3] \notin gone THEN F[e[1]] = e[1] /\ F[e[3]] = e[3] /\ e \in t.edges
             ELSE <<F[e[1]], e[2], F[e[3]]>> \in t.edges
  <2>1. CASE e[1] \in gone
    <3>1. e[3] \in gone /\ F[e[1]] = Fresh(s, f[e[1]]) /\ F[e[3]] = Fresh(s, f[e[3]])
      BY <1>1, <1>2, <2>1
    <3>2. PICK d \in r.edges : d[1] = f[e[1]] /\ d[2] = e[2] /\ d[3] = f[e[3]]
      BY <1>1, <2>1 DEF IsMorphism, Edge
    <3>3. <<Fresh(s, d[1]), d[2], Fresh(s, d[3])>> \in below
      OBVIOUS
    <3> HIDE DEF below, inner, into
    <3> QED  BY <1>1, <2>1, <3>1, <3>2, <3>3
  <2>2. CASE e[1] \notin gone /\ e[3] \in gone
    <3>1. F[e[1]] = e[1] /\ F[e[3]] = Fresh(s, f[e[3]])
      BY <1>2, <2>2
    <3>2. <<e[1], e[2], Fresh(s, f[e[3]])>> \in into
      BY <2>2
    <3> HIDE DEF below, inner, into
    <3> QED  BY <1>1, <2>2, <3>1, <3>2
  <2>3. CASE e[1] \notin gone /\ e[3] \notin gone
    <3>1. F[e[1]] = e[1] /\ F[e[3]] = e[3] /\ e \in inner
      BY <1>2, <2>3
    <3> HIDE DEF below, inner, into
    <3> QED  BY <1>1, <2>3, <3>1
  <2> QED  BY <2>1, <2>2, <2>3
<1>5. \A e \in s.edges : Edge(t, F[e[1]], e[2], F[e[3]])
  <2> SUFFICES ASSUME NEW e \in s.edges PROVE Edge(t, F[e[1]], e[2], F[e[3]])
    OBVIOUS
  <2>1. CASE e[1] \notin gone /\ e[3] \notin gone
    <3>1. F[e[1]] = e[1] /\ F[e[3]] = e[3] /\ e \in t.edges
      BY <1>4, <2>1
    <3> QED  BY <3>1 DEF Edge
  <2>2. CASE ~(e[1] \notin gone /\ e[3] \notin gone)
    <3> DEFINE x == <<F[e[1]], e[2], F[e[3]]>>
    <3>1. x \in t.edges
      BY <1>4, <2>2
    <3>2. x[1] = F[e[1]] /\ x[2] = e[2] /\ x[3] = F[e[3]]
      OBVIOUS
    <3> HIDE DEF x
    <3> QED  BY <3>1, <3>2 DEF Edge
  <2> QED  BY <2>1, <2>2
<1>6. IsMorphism(F, s.nodes, s, t)
  BY <1>2, <1>3, <1>5 DEF IsMorphism
<1>7. ASSUME NEW a, NEW l, NEW b, <<a, l, b>> \in s.edges PROVE <<F[a], l, F[b]>> \in t.edges
  <2> DEFINE e == <<a, l, b>>
  <2>1. e \in s.edges /\ e[1] = a /\ e[2] = l /\ e[3] = b
    BY <1>7
  <2>2. CASE a \notin gone /\ b \notin gone
    <3>1. F[e[1]] = e[1] /\ F[e[3]] = e[3] /\ e \in t.edges
      <4> HIDE DEF e
      <4> QED  BY <1>4, <2>1, <2>2
    <3> QED  BY <2>1, <3>1
  <2>3. CASE ~(a \notin gone /\ b \notin gone)
    <3>1. <<F[e[1]], e[2], F[e[3]]>> \in t.edges
      <4> HIDE DEF e
      <4> QED  BY <1>4, <2>1, <2>3
    <3> QED  BY <2>1, <3>1
  <2> QED  BY <2>2, <2>3
<1> QED  BY <1>6, <1>7 DEF F

(* There is a map of t that F takes h to. *)
Extends(F, D, h, t, c) ==
  \E E, m : /\ E \subseteq t.nodes /\ IsMorphism(m, E, t, c)
            /\ \A n \in D : F[n] \in E /\ m[F[n]] = h[n]

(* What maps the old graph and the new subgraph maps the new graph. *)
LEMMA PlacedMaps ==
  ASSUME NEW s, IsBuilt(s), NEW r, IsBuilt(r), NEW gone, NEW f, NEW t, IsPlaced(s, gone, r, f, t),
         NEW c, NEW D, D \subseteq s.nodes, gone \subseteq D, NEW h, IsMorphism(h, D, s, c),
         NEW z, IsMorphism(z, r.nodes, r, c), \A n \in gone : z[f[n]] = h[n]
  PROVE  Extends(Moved(s, gone, f), D, h, t, c)
<1> DEFINE F == Moved(s, gone, f)
           kept == s.nodes \ gone
           new == {Fresh(s, n) : n \in r.nodes}
           inner == {e \in s.edges : e[1] \in kept /\ e[3] \in kept}
           below == {<<Fresh(s, e[1]), e[2], Fresh(s, e[3])>> : e \in r.edges}
           into == {<<e[1], e[2], Fresh(s, f[e[3]])>> : e \in {d \in s.edges : d[1] \notin gone /\ d[3] \in gone}}
           E == (D \ gone) \cup new
           old(x) == CHOOSE n \in r.nodes : Fresh(s, n) = x
           m == [x \in E |-> IF x \in s.nodes THEN h[x] ELSE z[old(x)]]
<1>1. /\ gone \subseteq s.nodes
      /\ IsMorphism(f, gone, s, r)
      /\ \A n \in r.nodes : Fresh(s, n) \notin s.nodes
      /\ \A a, b \in r.nodes : Fresh(s, a) = Fresh(s, b) => a = b
      /\ t.nodes = kept \cup new
      /\ t.edges = inner \cup below \cup into
  BY DEF IsPlaced
<1>2. /\ \A n \in s.nodes : F[n] = IF n \in gone THEN Fresh(s, f[n]) ELSE n
      /\ f \in [gone -> r.nodes] /\ h \in [D -> c.nodes] /\ z \in [r.nodes -> c.nodes]
      /\ \A e \in s.edges : e[1] \in s.nodes /\ e[3] \in s.nodes
      /\ \A e \in r.edges : e[1] \in r.nodes /\ e[3] \in r.nodes
  BY <1>1 DEF Moved, IsMorphism, IsBuilt
<1>3. \A n \in r.nodes : old(Fresh(s, n)) = n
  BY <1>1
<1>4. \A n \in D \ gone : n \in E /\ m[n] = h[n]
  OBVIOUS
<1>5. \A n \in r.nodes : Fresh(s, n) \in E /\ m[Fresh(s, n)] = z[n]
  BY <1>1, <1>3
<1>6. \A x \in E : x \in D \ gone \/ \E n \in r.nodes : x = Fresh(s, n)
  OBVIOUS
<1>7. m = [x \in E |-> m[x]]
  OBVIOUS
<1>8. E \subseteq t.nodes
  BY <1>1
<1> HIDE DEF E, m, F, old
<1>9. m \in [E -> c.nodes]
  <2>1. \A x \in E : m[x] \in c.nodes
    BY <1>2, <1>4, <1>5, <1>6
  <2> QED  BY <1>7, <2>1
<1>10. ASSUME NEW x \in t.edges, x[1] \in E PROVE x[3] \in E /\ Edge(c, m[x[1]], x[2], m[x[3]])
  <2>1. CASE x \in inner
    <3>1. x \in s.edges /\ x[1] \in kept /\ x[3] \in kept
      BY <2>1
    <3>2. x[1] \in D
      BY <1>1, <1>6, <1>10, <3>1
    <3>3. x[3] \in D /\ Edge(c, h[x[1]], x[2], h[x[3]])
      BY <3>1, <3>2 DEF IsMorphism
    <3> QED  BY <1>4, <3>1, <3>2, <3>3
  <2>2. CASE x \in below
    <3>1. PICK e \in r.edges : x = <<Fresh(s, e[1]), e[2], Fresh(s, e[3])>>
      BY <2>2
    <3>2. x[1] = Fresh(s, e[1]) /\ x[2] = e[2] /\ x[3] = Fresh(s, e[3])
      BY <3>1
    <3>3. Edge(c, z[e[1]], e[2], z[e[3]])
      BY <1>2 DEF IsMorphism
    <3> HIDE DEF below, inner, into
    <3> QED  BY <1>2, <1>5, <3>2, <3>3
  <2>3. CASE x \in into
    <3>1. PICK e \in s.edges : /\ e[1] \notin gone /\ e[3] \in gone
                               /\ x = <<e[1], e[2], Fresh(s, f[e[3]])>>
      BY <2>3
    <3>2. x[1] = e[1] /\ x[2] = e[2] /\ x[3] = Fresh(s, f[e[3]])
      BY <3>1
    <3> HIDE DEF below, inner, into
    <3>3. e[1] \in s.nodes
      BY <1>2
    <3>4. e[1] \in D
      BY <1>1, <1>6, <1>10, <3>2, <3>3
    <3>5. Edge(c, h[e[1]], e[2], h[e[3]])
      BY <3>4 DEF IsMorphism
    <3>6. f[e[3]] \in r.nodes /\ z[f[e[3]]] = h[e[3]]
      BY <1>2, <3>1
    <3>7. x[3] \in E /\ m[x[3]] = h[e[3]]
      BY <1>5, <3>2, <3>6
    <3>8. m[x[1]] = h[e[1]]
      BY <1>4, <3>1, <3>2, <3>4
    <3> QED  BY <3>2, <3>5, <3>7, <3>8
  <2> HIDE DEF inner, below, into
  <2> QED  BY <1>1, <2>1, <2>2, <2>3
<1>11. IsMorphism(m, E, t, c)
  BY <1>9, <1>10 DEF IsMorphism
<1>12. \A n \in D : F[n] \in E /\ m[F[n]] = h[n]
  <2> SUFFICES ASSUME NEW n \in D PROVE F[n] \in E /\ m[F[n]] = h[n]
    OBVIOUS
  <2>1. CASE n \in gone
    <3>1. F[n] = Fresh(s, f[n]) /\ f[n] \in r.nodes
      BY <1>1, <1>2, <2>1
    <3> QED  BY <1>5, <2>1, <3>1
  <2>2. CASE n \notin gone
    <3>1. F[n] = n
      BY <1>2, <2>2
    <3> QED  BY <1>4, <2>2, <3>1
  <2> QED  BY <2>1, <2>2
<1> QED  BY <1>8, <1>11, <1>12 DEF F, Extends

(* The formals of s, and what is below them, are known in c. *)
FormalsMap(s, c) ==
  \E D, h : /\ D \subseteq s.nodes /\ IsMorphism(h, D, s, c)
            /\ \A k \in Formals : s.keys[k] \in D /\ h[s.keys[k]] = c.keys[k]

LEMMA CallerMaps ==
  ASSUME NEW s, IsBuilt(s), Formals \subseteq DOMAIN s.keys, NEW extra \in Extras
  PROVE  FormalsMap(s, CallerGraph(s, extra))
<1> DEFINE t == CallerParts(s, extra)
           copied == FormalsSubgraph(s)
           q == Quotient(t)
<1>1. /\ CallerGraph(s, extra) = q /\ IsBuilt(t) /\ Formals \subseteq DOMAIN t.keys
      /\ copied \subseteq s.nodes /\ copied \subseteq t.nodes
      /\ \A e \in s.edges : e[1] \in copied => e[3] \in copied /\ e \in t.edges
      /\ \A k \in Formals : s.keys[k] \in copied /\ t.keys[k] = s.keys[k]
  BY CallerPartsAre
<1> HIDE DEF t, copied, q
<1>2. PICK R : IsClassMap(R, t, q)
  BY <1>1, QuotientMaps DEF q
<1>3. IsMorphism(R, t.nodes, t, q) /\ \A k \in DOMAIN t.keys : q.keys[k] = R[t.keys[k]]
  BY <1>2 DEF IsClassMap
<1> DEFINE h == [n \in copied |-> R[n]]
<1>4. h \in [copied -> q.nodes] /\ \A n \in copied : h[n] = R[n]
  BY <1>1, <1>3 DEF IsMorphism
<1> HIDE DEF h
<1>5. \A e \in s.edges : e[1] \in copied => e[3] \in copied /\ Edge(q, h[e[1]], e[2], h[e[3]])
  BY <1>1, <1>3, <1>4 DEF IsMorphism
<1>6. IsMorphism(h, copied, s, q)
  BY <1>4, <1>5 DEF IsMorphism
<1>7. \A k \in Formals : s.keys[k] \in copied /\ h[s.keys[k]] = q.keys[k]
  BY <1>1, <1>3, <1>4
<1> QED  BY <1>1, <1>6, <1>7 DEF FormalsMap

(* F takes every node of s, with its keys and edges, to t. *)
Moves(F, s, t) ==
  /\ IsMorphism(F, s.nodes, s, t)
  /\ DOMAIN t.keys = DOMAIN s.keys
  /\ \A k \in DOMAIN s.keys : t.keys[k] = F[s.keys[k]]
  /\ \A a, l, b : <<a, l, b>> \in s.edges => <<F[a], l, F[b]>> \in t.edges

(* The sketch below a key makes room for a type that knows what it knew. *)
LEMMA LabeledIsPlaced ==
  ASSUME NEW s, IsBuilt(s), IsDeterministic(s), NEW k \in DOMAIN s.keys,
         NEW type, IsSketch(type), NEW f,
         IsMorphism(f, SketchOf(s, k).nodes, SketchOf(s, k), type), f[s.keys[k]] = Entry(type),
         NEW r \in LabelDtvs(type, SketchOf(s, k)), NEW t \in ReplaceNode(s, k, r)
  PROVE  /\ IsBuilt(r) /\ r.nodes = type.nodes /\ r.edges = type.edges
         /\ IsPlaced(s, SketchOf(s, k).nodes, r, f, t)
<1> DEFINE orig == SketchOf(s, k)
           gone == orig.nodes
<1>1. /\ gone = Reached(s, {s.keys[k]}) /\ orig.edges = {e \in s.edges : e[1] \in gone}
      /\ Entry(orig) = s.keys[k] /\ Entry(orig) \in gone
      /\ \A e \in s.edges : e[1] \in gone => e[3] \in gone
  BY SketchFields
<1>11. \A x \in DOMAIN orig.keys : x \in DOMAIN s.keys /\ orig.keys[x] = s.keys[x] /\ s.keys[x] \in gone
  BY SketchFields
<1>2. IsSketch(orig) /\ orig.repr = k
  BY SketchOfIs DEF SketchOf
<1>3. IsMorphism(f, orig.nodes, orig, type) /\ r \in LabelDtvs(type, orig) /\ t \in ReplaceNode(s, k, r)
  OBVIOUS
<1> HIDE DEF orig
<1>10. IsBuilt(r) /\ IsDeterministic(r)
  BY <1>3, LabelDtvsAre
<1>4. IsMorphism(f, orig.nodes, orig, type) /\ f[Entry(orig)] = Entry(type) /\ r \in LabelDtvs(type, orig)
  <2>1. Entry(orig) = s.keys[k]
    BY <1>1
  <2> QED  BY <1>3, <2>1
<1>5. /\ r.nodes = type.nodes /\ r.edges = type.edges
      /\ DOMAIN r.keys \subseteq DOMAIN orig.keys /\ k \in DOMAIN r.keys
      /\ \A x \in DOMAIN r.keys : r.keys[x] = f[orig.keys[x]]
  BY <1>2, <1>4, LabelDtvsFollow
<1>6. IsMorphism(f, gone, s, r)
  <2>1. f \in [gone -> r.nodes]
    BY <1>4, <1>5 DEF IsMorphism
  <2>2. ASSUME NEW e \in s.edges, e[1] \in gone
        PROVE  e[3] \in gone /\ Edge(r, f[e[1]], e[2], f[e[3]])
    <3>1. e \in orig.edges
      BY <1>1, <2>2
    <3>2. Edge(type, f[e[1]], e[2], f[e[3]])
      BY <1>4, <2>2, <3>1 DEF IsMorphism
    <3> QED  BY <1>1, <1>5, <2>2, <3>2 DEF Edge
  <2> HIDE DEF gone
  <2> QED  BY <2>1, <2>2 DEF IsMorphism
<1>7. f[s.keys[k]] = r.keys[k]
  BY <1>5, <1>11
<1>8. \A x \in DOMAIN r.keys : x \in DOMAIN s.keys /\ s.keys[x] \in gone /\ r.keys[x] = f[s.keys[x]]
  BY <1>5, <1>11
<1> HIDE DEF gone
<1>9. IsPlaced(s, gone, r, f, t)
  <2>1. k \in DOMAIN r.keys /\ t \in ReplaceNode(s, k, r)
    BY <1>3, <1>5
  <2>2. gone = Reached(s, {s.keys[k]})
    BY <1>1
  <2>3. IsMorphism(f, Reached(s, {s.keys[k]}), s, r)
    BY <1>6, <2>2
  <2>4. \A x \in DOMAIN r.keys :
          x \in DOMAIN s.keys /\ s.keys[x] \in Reached(s, {s.keys[k]}) /\ r.keys[x] = f[s.keys[x]]
    BY <1>8, <2>2
  <2>5. IsPlaced(s, Reached(s, {s.keys[k]}), r, f, t)
    BY <1>10, <1>7, <2>1, <2>3, <2>4, ReplacedIsPlaced
  <2> QED  BY <2>2, <2>5
<1> QED  BY <1>10, <1>5, <1>9 DEF gone, orig

LEMMA PlacedMoves ==
  ASSUME NEW s, IsBuilt(s), NEW r, NEW gone, NEW f, NEW t, IsPlaced(s, gone, r, f, t)
  PROVE  Moves(Moved(s, gone, f), s, t)
<1>1. DOMAIN t.keys = DOMAIN s.keys /\ \A k \in DOMAIN s.keys : t.keys[k] = Moved(s, gone, f)[s.keys[k]]
  BY DEF IsPlaced
<1> QED  BY <1>1, PlacedKeeps DEF Moves

(* What binding keeps: every callsite knows what the formals know. *)
BoundInv ==
  /\ callers \in Seq(Range(callers))
  /\ IsBuilt(callee) /\ IsDeterministic(callee) /\ Formals \subseteq DOMAIN callee.keys
  /\ \A i \in DOMAIN callers : /\ IsBuilt(callers[i]) /\ IsDeterministic(callers[i])
                               /\ Formals \subseteq DOMAIN callers[i].keys
                               /\ FormalsMap(callee, callers[i])

LEMMA RefinedMaps ==
  ASSUME BoundInv, NEW k \in Formals, NEW merge, NEW refine, Refines(merge, refine),
         NEW t \in Refined(k, merge, refine)
  PROVE  /\ \E F : Moves(F, callee, t)
         /\ \A i \in DOMAIN callers : FormalsMap(t, callers[i])
<1> DEFINE orig == SketchOf(callee, k)
           ts == CallsiteTypes(k)
           type == CallSiteType(ts, orig, merge, refine)
           n == Len(callers)
<1>1. n \in Nat /\ DOMAIN callers = 1 .. n
  BY DEF BoundInv
<1>2. /\ IsBuilt(callee) /\ IsDeterministic(callee) /\ k \in DOMAIN callee.keys
      /\ \A i \in 1 .. n : /\ IsBuilt(callers[i]) /\ IsDeterministic(callers[i])
                           /\ k \in DOMAIN callers[i].keys /\ FormalsMap(callee, callers[i])
  BY <1>1 DEF BoundInv
<1>3. IsSketch(orig) /\ IsConnected(orig)
  BY <1>2, SketchOfIs, SketchesAreConnected
<1>4. ts = [i \in 1 .. n |-> SketchOf(callers[i], k)]
  BY <1>1 DEF CallsiteTypes
<1>5. DOMAIN ts = 1 .. n /\ \A i \in 1 .. n : ts[i] = SketchOf(callers[i], k)
  BY <1>4
<1>6. Len(ts) = n
  <2> DEFINE S == {SketchOf(callers[i], k) : i \in 1 .. n}
  <2>1. ts \in [1 .. n -> S]
    BY <1>4
  <2> HIDE DEF S, ts, n
  <2> QED  BY <2>1, <1>1
<1>7. n = 0 <=> ts = <<>>
  <2>1. n = 0 => ts = <<>>
    BY <1>4
  <2>2. ts = <<>> => n = 0
    <3> SUFFICES ASSUME ts = <<>> PROVE n = 0
      OBVIOUS
    <3>1. Len(<<>>) = 0
      OBVIOUS
    <3> HIDE DEF ts, n
    <3> QED  BY <1>6, <3>1
  <2> HIDE DEF ts, n
  <2> QED  BY <2>1, <2>2
<1>8. \A i \in 1 .. n : IsSketch(ts[i])
  BY <1>2, <1>5, SketchOfIs
<1>9. \A i \in 1 .. n : Embeds(orig, ts[i])
  <2> SUFFICES ASSUME NEW i \in 1 .. n PROVE Embeds(orig, SketchOf(callers[i], k))
    BY <1>5
  <2>1. PICK D, h : /\ D \subseteq callee.nodes /\ IsMorphism(h, D, callee, callers[i])
                    /\ \A x \in Formals : callee.keys[x] \in D /\ h[callee.keys[x]] = callers[i].keys[x]
    BY <1>2 DEF FormalsMap
  <2> HIDE DEF n, ts, type
  <2> QED  BY <1>2, <2>1, SketchesEmbed
<1> HIDE DEF orig, ts, n
<1>10. IsSketch(type) /\ Embeds(orig, type) /\ \A i \in 1 .. n : Embeds(type, ts[i])
  BY <1>1, <1>3, <1>5, <1>6, <1>7, <1>8, <1>9, TypeEmbeds
<1> HIDE DEF type
<1>11. PICK r \in LabelDtvs(type, orig) : t \in ReplaceNode(callee, k, r)
  BY DEF Refined, type, ts, orig
<1>12. PICK f : IsMorphism(f, orig.nodes, orig, type) /\ f[Entry(orig)] = Entry(type)
  BY <1>10 DEF Embeds
<1> DEFINE gone == orig.nodes
<1>13. /\ gone = Reached(callee, {callee.keys[k]}) /\ orig.edges = {e \in callee.edges : e[1] \in gone}
       /\ Entry(orig) = callee.keys[k] /\ callee.keys[k] \in gone
       /\ \A e \in callee.edges : e[1] \in gone => e[3] \in gone
  BY <1>2, SketchFields DEF orig
<1>14. /\ IsBuilt(r) /\ r.nodes = type.nodes /\ r.edges = type.edges
       /\ IsPlaced(callee, gone, r, f, t)
  <2>1. /\ IsMorphism(f, SketchOf(callee, k).nodes, SketchOf(callee, k), type)
        /\ f[callee.keys[k]] = Entry(type) /\ r \in LabelDtvs(type, SketchOf(callee, k))
    BY <1>11, <1>12, <1>13 DEF orig
  <2> QED  BY <1>2, <1>10, <1>11, <2>1, LabeledIsPlaced DEF orig
<1>15. Moves(Moved(callee, gone, f), callee, t)
  BY <1>2, <1>14, PlacedMoves
<1>16. ASSUME NEW i \in 1 .. n PROVE FormalsMap(t, callers[i])
  <2>1. PICK D, h : /\ D \subseteq callee.nodes /\ IsMorphism(h, D, callee, callers[i])
                    /\ \A x \in Formals : callee.keys[x] \in D /\ h[callee.keys[x]] = callers[i].keys[x]
    BY <1>2 DEF FormalsMap
  <2>2. PICK z : IsMorphism(z, type.nodes, type, ts[i]) /\ z[Entry(type)] = Entry(ts[i])
    BY <1>10 DEF Embeds
  <2>3. /\ ts[i].nodes \subseteq callers[i].nodes /\ ts[i].edges \subseteq callers[i].edges
        /\ Entry(ts[i]) = callers[i].keys[k]
    <3> DEFINE b == SketchOf(callers[i], k)
    <3>1. /\ b.edges = {e \in callers[i].edges : e[1] \in b.nodes}
          /\ Entry(b) = callers[i].keys[k] /\ b.nodes \subseteq callers[i].nodes
      BY <1>2, SketchFields
    <3>2. ts[i] = b
      BY <1>5
    <3> HIDE DEF b
    <3> QED  BY <3>1, <3>2
  <2>4. IsMorphism(z, r.nodes, r, callers[i])
    <3>1. z \in [r.nodes -> callers[i].nodes]
      BY <1>14, <2>2, <2>3 DEF IsMorphism
    <3>2. \A e \in r.edges : e[1] \in r.nodes => e[3] \in r.nodes /\ Edge(callers[i], z[e[1]], e[2], z[e[3]])
      BY <1>14, <2>2, <2>3 DEF IsMorphism, Edge
    <3> QED  BY <3>1, <3>2 DEF IsMorphism
  <2> DEFINE zf == [m \in gone |-> z[f[m]]]
  <2>5. IsMorphism(f, gone, callee, r)
    BY <1>14 DEF IsPlaced
  <2>6. \A m \in gone : f[m] \in r.nodes
    BY <2>5 DEF IsMorphism
  <2>7. IsMorphism(zf, gone, callee, callers[i])
    BY <2>4, <2>5, <2>6, MorphismsCompose
  <2>8. zf[callee.keys[k]] = h[callee.keys[k]] /\ callee.keys[k] \in gone /\ callee.keys[k] \in D
    <3>1. callee.keys[k] \in D /\ h[callee.keys[k]] = callers[i].keys[k]
      BY <2>1
    <3>2. f[callee.keys[k]] = Entry(type)
      BY <1>12, <1>13
    <3>3. z[Entry(type)] = callers[i].keys[k]
      BY <2>2, <2>3
    <3>4. callee.keys[k] \in gone
      BY <1>13
    <3>5. zf[callee.keys[k]] = z[f[callee.keys[k]]]
      BY <3>4
    <3> HIDE DEF zf, gone
    <3> QED  BY <3>1, <3>2, <3>3, <3>4, <3>5
  <2>9. \A m \in gone : zf[m] = z[f[m]]
    OBVIOUS
  <2> HIDE DEF zf, gone
  <2>10. \A m \in gone : m \in D /\ zf[m] = h[m]
    <3>1. IsBuilt(callee) /\ IsBuilt(callers[i]) /\ IsDeterministic(callers[i])
      BY <1>2
    <3>2. IsMorphism(h, D, callee, callers[i])
      BY <2>1
    <3> DEFINE p == callee.keys[k]
    <3>3. p \in gone /\ p \in D /\ zf[p] = h[p]
      BY <2>8
    <3>4. gone = Reached(callee, {p})
      BY <1>13
    <3> HIDE DEF p
    <3>5. \A m \in Reached(callee, {p}) : m \in gone /\ m \in D /\ zf[m] = h[m]
      BY <2>7, <3>1, <3>2, <3>3, MorphismsAgree
    <3> QED  BY <3>4, <3>5
  <2>11. gone \subseteq D /\ \A m \in gone : z[f[m]] = h[m]
    BY <2>9, <2>10
  <2> DEFINE F == Moved(callee, gone, f)
  <2>12. PICK E, m : /\ E \subseteq t.nodes /\ IsMorphism(m, E, t, callers[i])
                     /\ \A x \in D : F[x] \in E /\ m[F[x]] = h[x]
    <3>1. IsBuilt(callee) /\ IsBuilt(r) /\ IsPlaced(callee, gone, r, f, t)
      BY <1>2, <1>14
    <3>2. D \subseteq callee.nodes /\ IsMorphism(h, D, callee, callers[i])
      BY <2>1
    <3>3. Extends(Moved(callee, gone, f), D, h, t, callers[i])
      BY <2>4, <2>11, <3>1, <3>2, PlacedMaps
    <3> QED  BY <3>3 DEF Extends
  <2> HIDE DEF F
  <2>13. \A x \in Formals : t.keys[x] = F[callee.keys[x]]
    BY <1>15 DEF F, Moves, BoundInv
  <2>14. \A x \in Formals : t.keys[x] \in E /\ m[t.keys[x]] = callers[i].keys[x]
    BY <2>1, <2>12, <2>13
  <2> QED  BY <2>12, <2>14 DEF FormalsMap
<1> QED  BY <1>1, <1>15, <1>16

LEMMA EmbedsWithin ==
  ASSUME NEW s, IsSketch(s), NEW t, IsSketch(t), Embeds(s, t)
  PROVE  Within(s, t)
<1>1. PICK f : IsMorphism(f, s.nodes, s, t) /\ f[Entry(s)] = Entry(t)
  BY DEF Embeds
<1>2. /\ IsBuilt(s) /\ IsDeterministic(s) /\ Entry(s) \in s.nodes
      /\ IsBuilt(t) /\ IsDeterministic(t)
  BY DEF IsSketch, IsBuilt, Entry
<1>3. f \in [s.nodes -> t.nodes] /\ \A n \in t.nodes : n # NoNode
  BY <1>1, <1>2 DEF IsMorphism, IsBuilt
<1> DEFINE I == {p \in Pairs(s, t) : p[1] # NoNode => p[1] \in s.nodes /\ p[2] = f[p[1]]}
<1>4. <<Entry(s), Entry(t)>> \in I
  BY <1>1, <1>2, PairsAreLeast
<1>5. ASSUME NEW p \in I, NEW l \in Alphabet(s, t) PROVE PairStep(s, t, p, l) \in I
  <2> DEFINE q == PairStep(s, t, p, l)
  <2>1. q \in Pairs(s, t)
    BY PairsAreLeast
  <2>2. q[1] = StepBy(s, p[1], l) /\ q[2] = StepBy(t, p[2], l)
    BY DEF PairStep
  <2>3. p[1] # NoNode => p[1] \in s.nodes /\ p[2] = f[p[1]]
    BY <1>5
  <2> HIDE DEF q
  <2>4. ASSUME q[1] # NoNode PROVE q[1] \in s.nodes /\ q[2] = f[q[1]]
    <3> DEFINE n == p[1]
    <3>1. StepBy(s, n, l) # NoNode
      BY <2>2, <2>4
    <3>2. n # NoNode
      BY <1>2, <3>1, StepIsEdge
    <3>3. n \in s.nodes /\ p[2] = f[n]
      BY <2>3, <3>2
    <3> HIDE DEF n
    <3>4. StepBy(s, n, l) \in s.nodes /\ StepBy(t, f[n], l) = f[StepBy(s, n, l)]
      BY <1>1, <1>2, <3>1, <3>3, MorphismSteps
    <3> QED  BY <2>2, <3>3, <3>4 DEF n
  <2>5. q \in I
    BY <2>1, <2>4
  <2> QED  BY <2>5 DEF q
<1> HIDE DEF I
<1>6. Pairs(s, t) \subseteq I
  BY <1>4, <1>5, PairsAreLeast
<1> QED  BY <1>3, <1>6 DEF I, Within

LEMMA MovesKeep ==
  ASSUME NEW s, IsBuilt(s), IsDeterministic(s), NEW t, IsBuilt(t), IsDeterministic(t),
         NEW F, Moves(F, s, t)
  PROVE  /\ \A k \in DOMAIN s.keys : /\ k \in DOMAIN t.keys
                                     /\ Within(SketchOf(s, k), SketchOf(t, k))
         /\ \A k1, k2 \in DOMAIN s.keys : \A l : HasEdge(s, k1, l, k2) => HasEdge(t, k1, l, k2)
<1>1. ASSUME NEW k \in DOMAIN s.keys
      PROVE  k \in DOMAIN t.keys /\ Within(SketchOf(s, k), SketchOf(t, k))
  <2>1. k \in DOMAIN t.keys /\ F[s.keys[k]] = t.keys[k] /\ IsMorphism(F, s.nodes, s, t)
    BY DEF Moves
  <2>2. s.keys[k] \in s.nodes
    BY DEF IsBuilt
  <2>3. Embeds(SketchOf(s, k), SketchOf(t, k))
    BY <2>1, <2>2, SketchesEmbed
  <2>4. IsSketch(SketchOf(s, k)) /\ IsSketch(SketchOf(t, k))
    BY <2>1, SketchOfIs
  <2> QED  BY <2>1, <2>3, <2>4, EmbedsWithin
<1>2. ASSUME NEW k1 \in DOMAIN s.keys, NEW k2 \in DOMAIN s.keys, NEW l, HasEdge(s, k1, l, k2)
      PROVE  HasEdge(t, k1, l, k2)
  <2>1. <<F[s.keys[k1]], l, F[s.keys[k2]]>> \in t.edges
    BY <1>2 DEF HasEdge, Moves
  <2>2. F[s.keys[k1]] = t.keys[k1] /\ F[s.keys[k2]] = t.keys[k2] /\ DOMAIN t.keys = DOMAIN s.keys
    BY DEF Moves
  <2> QED  BY <2>1, <2>2 DEF HasEdge
<1> QED  BY <1>1, <1>2

-----------------------------------------------------------------------------
LEMMA BoundInit == BindInit => BoundInv
<1> SUFFICES ASSUME BindInit PROVE BoundInv
  OBVIOUS
<1>1. callee \in Callees /\ callers = <<>>
  BY DEF BindInit
<1>2. IsBuilt(callee) /\ IsDeterministic(callee) /\ Formals \subseteq DOMAIN callee.keys
  BY <1>1, CalleesAssumption
<1> QED  BY <1>1, <1>2 DEF BoundInv

LEMMA BoundCall ==
  ASSUME BoundInv, NEW extra \in Extras, Call(extra)
  PROVE  BoundInv' /\ callee' = callee
<1> DEFINE c == CallerGraph(callee, extra)
           S == Range(callers) \cup {c}
           n == Len(callers)
           Is(z) == /\ IsBuilt(z) /\ IsDeterministic(z)
                    /\ Formals \subseteq DOMAIN z.keys /\ FormalsMap(callee, z)
<1>1. callee' = callee /\ callers' = Append(callers, c)
  BY DEF Call
<1>2. IsBuilt(callee) /\ IsDeterministic(callee) /\ Formals \subseteq DOMAIN callee.keys
      /\ \A i \in DOMAIN callers : Is(callers[i])
  BY DEF BoundInv
<1>3. Is(c)
  <2>1. IsBuilt(c) /\ IsDeterministic(c) /\ Formals \subseteq DOMAIN c.keys
    BY <1>2, CallerGraphIs
  <2>2. FormalsMap(callee, c)
    BY <1>2, CallerMaps
  <2> QED  BY <2>1, <2>2
<1> HIDE DEF c
<1>4. callers \in Seq(S) /\ c \in S
  BY DEF BoundInv
<1> HIDE DEF S
<1>5. /\ callers' \in Seq(S) /\ Len(callers') = n + 1 /\ n \in Nat
      /\ DOMAIN callers' = 1 .. n+1 /\ DOMAIN callers = 1 .. n
      /\ \A i \in 1 .. n : callers'[i] = callers[i]
      /\ callers'[n+1] = c
  BY <1>1, <1>4, AppendProperties
<1>6. callers' \in Seq(Range(callers'))
  BY <1>5, SeqOfItsRange
<1>7. \A i \in DOMAIN callers' : Is(callers'[i])
  <2> SUFFICES ASSUME NEW i \in DOMAIN callers' PROVE Is(callers'[i])
    OBVIOUS
  <2> HIDE DEF Is
  <2>1. CASE i \in 1 .. n
    <3>1. callers'[i] = callers[i] /\ i \in DOMAIN callers
      BY <1>5, <2>1
    <3> QED  BY <1>2, <3>1
  <2>2. CASE i = n + 1
    BY <1>3, <1>5, <2>2
  <2> QED  BY <1>5, <2>1, <2>2
<1>8. BoundInv'
  BY <1>1, <1>2, <1>6, <1>7 DEF BoundInv
<1> QED  BY <1>1, <1>8

LEMMA BoundRefine ==
  ASSUME BoundInv, NEW k \in Formals, NEW merge, NEW refine, Refines(merge, refine),
         RefineFormal(k, merge, refine)
  PROVE  BoundInv' /\ \E F : Moves(F, callee, callee')
<1>1. callee' \in Refined(k, merge, refine) /\ callers' = callers
  BY DEF RefineFormal
<1>2. /\ IsBuilt(callee) /\ IsDeterministic(callee) /\ callers \in Seq(Range(callers))
      /\ k \in DOMAIN callee.keys /\ Formals \subseteq DOMAIN callee.keys
      /\ \A i \in DOMAIN callers : /\ IsBuilt(callers[i]) /\ IsDeterministic(callers[i])
                                   /\ Formals \subseteq DOMAIN callers[i].keys
                                   /\ k \in DOMAIN callers[i].keys
  BY DEF BoundInv
<1>3. IsBuilt(callee') /\ IsDeterministic(callee')
  BY <1>1, <1>2, RefinedIs
<1>4. /\ \E F : Moves(F, callee, callee')
      /\ \A i \in DOMAIN callers : FormalsMap(callee', callers[i])
  BY <1>1, RefinedMaps
<1>5. Formals \subseteq DOMAIN callee'.keys
  BY <1>2, <1>4 DEF Moves
<1>6. BoundInv'
  BY <1>1, <1>2, <1>3, <1>4, <1>5 DEF BoundInv, Range
<1> QED  BY <1>4, <1>6

LEMMA BoundNext ==
  ASSUME BoundInv, BindNext
  PROVE  BoundInv' /\ (callee' = callee \/ \E F : Moves(F, callee, callee'))
<1>1. CASE \E extra \in Extras : Call(extra)
  BY <1>1, BoundCall
<1>2. CASE \E k \in InParams : RefineFormalIn(k)
  <2>1. PICK k \in InParams : RefineFormal(k, "union", "intersect")
    BY <1>2 DEF RefineFormalIn
  <2>2. k \in Formals /\ Refines("union", "intersect")
    BY DEF Formals, Refines
  <2> QED  BY <2>1, <2>2, BoundRefine
<1>3. CASE \E k \in OutParams : RefineFormalOut(k)
  <2>1. PICK k \in OutParams : RefineFormal(k, "intersect", "union")
    BY <1>3 DEF RefineFormalOut
  <2>2. k \in Formals /\ Refines("intersect", "union")
    BY DEF Formals, Refines
  <2> QED  BY <2>1, <2>2, BoundRefine
<1> QED  BY <1>1, <1>2, <1>3 DEF BindNext

LEMMA BoundKept == BoundInv /\ [BindNext]_bindVars => BoundInv'
<1>1. ASSUME BoundInv, UNCHANGED bindVars PROVE BoundInv'
  BY <1>1 DEF bindVars, BoundInv, Range
<1> QED  BY <1>1, BoundNext

LEMMA BindInvariance == BindSpec => []BoundInv
<1> QED  BY BoundInit, BoundKept, PTL DEF BindSpec

LEMMA BindingKeeps ==
  ASSUME BoundInv, BoundInv', BindNext, callee' # callee
  PROVE  /\ \A k \in DOMAIN callee.keys : /\ k \in DOMAIN callee'.keys
                                          /\ Within(SketchOf(callee, k), SketchOf(callee', k))
         /\ \A k1, k2 \in DOMAIN callee.keys : \A l : HasEdge(callee, k1, l, k2) => HasEdge(callee', k1, l, k2)
<1>1. PICK F : Moves(F, callee, callee')
  BY BoundNext
<1>2. IsBuilt(callee) /\ IsDeterministic(callee) /\ IsBuilt(callee') /\ IsDeterministic(callee')
  BY DEF BoundInv
<1> QED  BY <1>1, <1>2, MovesKeep

(* Refining a formal loses no key of the callee and no word that a key knew: *)
(* what the callsites merge to is refined with the original type.            *)
THEOREM WordsSurviveBinding == BindSpec => WordsSurvive
<1>1. BoundInv /\ BoundInv' /\ [BindNext]_bindVars =>
        [callee' # callee =>
           \A k \in DOMAIN callee.keys :
            /\ k \in DOMAIN callee'.keys
            /\ Within(SketchOf(callee, k), SketchOf(callee', k))]_callee
  <2> SUFFICES ASSUME BoundInv, BoundInv', [BindNext]_bindVars, callee' # callee
               PROVE  \A k \in DOMAIN callee.keys :
                        /\ k \in DOMAIN callee'.keys
                        /\ Within(SketchOf(callee, k), SketchOf(callee', k))
    OBVIOUS
  <2>1. BindNext
    BY DEF bindVars
  <2> QED  BY <2>1, BindingKeeps
<1> QED  BY <1>1, BindInvariance, PTL DEF BindSpec, WordsSurvive

(* Refining a formal puts the keys back where the edges between their nodes  *)
(* say.                                                                      *)
THEOREM KeysStayConnectedBinding == BindSpec => KeysStayConnected
<1>1. BoundInv /\ BoundInv' /\ [BindNext]_bindVars =>
        [callee' # callee =>
           \A k1, k2 \in DOMAIN callee.keys, l \in LabelsIn(callee) :
            HasEdge(callee, k1, l, k2) => HasEdge(callee', k1, l, k2)]_callee
  <2> SUFFICES ASSUME BoundInv, BoundInv', [BindNext]_bindVars, callee' # callee
               PROVE  \A k1, k2 \in DOMAIN callee.keys, l \in LabelsIn(callee) :
                        HasEdge(callee, k1, l, k2) => HasEdge(callee', k1, l, k2)
    OBVIOUS
  <2>1. BindNext
    BY DEF bindVars
  <2> QED  BY <2>1, BindingKeeps
<1> QED  BY <1>1, BindInvariance, PTL DEF BindSpec, KeysStayConnected
=============================================================================
