------------------------- MODULE LatticeTablesProofs -------------------------
(***************************************************************************)
(* Tables computed with any topological order are exact on every lattice,   *)
(* and sound on every order; so are the bounds narrowed with them, in any   *)
(* order.                                                                   *)
(***************************************************************************)
EXTENDS LatticeTables, TLAPS, WellFoundedInduction, FiniteSetTheorems

Relations == SUBSET (Handles \X Handles)

-----------------------------------------------------------------------------
(* Reachability *)

(* An element reaches itself, and what reaches is transitive. *)
LEMMA ReachIsPreorder ==
  ASSUME NEW R, NEW x \in Elements(R)
  PROVE  /\ x \in Reach(R, x)
         /\ Reach(R, x) \subseteq Elements(R)
         /\ \A y \in Reach(R, x) : Reach(R, y) \subseteq Reach(R, x)
  BY DEF Reach

(* A relation and its converse have the same elements.  *)
LEMMA ConverseElements ==
  ASSUME NEW R \in Relations
  PROVE  /\ Converse(R) \in Relations
         /\ Elements(Converse(R)) = Elements(R)
         /\ Elements(R) \subseteq Handles
         /\ \A a, b : <<b, a>> \in Converse(R) <=> <<a, b>> \in R
<1>1. \A r \in R : r = <<r[1], r[2]>> /\ r[1] \in Handles /\ r[2] \in Handles
  BY DEF Relations
<1>2. \A a, b : <<b, a>> \in Converse(R) <=> <<a, b>> \in R
  BY <1>1 DEF Converse
<1>3. Converse(R) \in Relations
  BY <1>1 DEF Converse, Relations
<1>4. Elements(Converse(R)) = Elements(R)
  <2>1. ASSUME NEW r \in R PROVE r[1] \in Elements(Converse(R)) /\ r[2] \in Elements(Converse(R))
    <3>1. <<r[2], r[1]>> \in Converse(R)
      BY DEF Converse
    <3> QED BY <3>1 DEF Elements
  <2>2. ASSUME NEW q \in Converse(R) PROVE q[1] \in Elements(R) /\ q[2] \in Elements(R)
    <3>1. PICK r \in R : q = <<r[2], r[1]>>
      BY DEF Converse
    <3> QED BY <3>1 DEF Elements
  <2> QED BY <2>1, <2>2 DEF Elements
<1>5. Elements(R) \subseteq Handles
  BY <1>1 DEF Elements
<1> QED BY <1>2, <1>3, <1>4, <1>5

(* One direction of the next lemma: cut off what cannot be reached. *)
LEMMA ReachBack ==
  ASSUME NEW R \in Relations, NEW x \in Elements(R), NEW y \in Elements(R),
         y \in Reach(Converse(R), x)
  PROVE  x \in Reach(R, y)
<1> SUFFICES ASSUME NEW S \in SUBSET Elements(R), y \in S, IsClosed(S, R), x \notin S
             PROVE  FALSE
  BY DEF Reach
<1> DEFINE C == Elements(R) \ S
<1>1. C \in SUBSET Elements(Converse(R)) /\ x \in C
  BY ConverseElements
<1>2. IsClosed(C, Converse(R))
  <2> SUFFICES ASSUME NEW r \in Converse(R), r[1] \in C PROVE r[2] \in C
    BY DEF IsClosed
  <2>1. <<r[2], r[1]>> \in R
    <3>1. PICK q \in R : r = <<q[2], q[1]>>
      BY DEF Converse
    <3>2. q = <<q[1], q[2]>>
      BY DEF Relations
    <3> QED BY <3>1, <3>2
  <2>2. r[2] \in Elements(R)
    BY <2>1 DEF Elements
  <2>3. r[2] \in S => r[1] \in S
    BY <2>1 DEF IsClosed
  <2> QED BY <2>2, <2>3
<1>3. y \in C
  BY <1>1, <1>2 DEF Reach
<1> QED BY <1>3

(* Reachability in get_gt_graph is that in get_lt_graph the other way round. *)
LEMMA ReachConverse ==
  ASSUME NEW R \in Relations, NEW x \in Elements(R), NEW y \in Elements(R)
  PROVE  y \in Reach(Converse(R), x) <=> x \in Reach(R, y)
<1>1. Converse(Converse(R)) = R
  <2>1. Converse(R) \in Relations /\ Converse(Converse(R)) \in Relations
    BY ConverseElements
  <2>2. \A a, b : <<a, b>> \in Converse(Converse(R)) <=> <<a, b>> \in R
    BY <2>1, ConverseElements
  <2>3. \A r \in R : r = <<r[1], r[2]>>
    BY DEF Relations
  <2>4. \A r \in Converse(Converse(R)) : r = <<r[1], r[2]>>
    BY <2>1 DEF Relations
  <2> QED BY <2>2, <2>3, <2>4
<1>2. Converse(R) \in Relations /\ Elements(Converse(R)) = Elements(R)
  BY ConverseElements
<1>3. x \in Reach(R, y) => y \in Reach(Converse(R), x)
  BY <1>1, <1>2, ReachBack
<1> QED BY <1>3, ReachBack

-----------------------------------------------------------------------------
(* create_table *)

(* The positions of a topological order grow along the order relation. *)
LEMMA ReachComesLater ==
  ASSUME NEW R \in Relations, NEW s \in Toposorts(R), NEW x \in Elements(R),
         NEW y \in Reach(R, x)
  PROVE  s[x] <= s[y]
<1> DEFINE n == Cardinality(Elements(R))
           S == {u \in Elements(R) : s[x] <= s[u]}
<1>1. s \in [Elements(R) -> 1 .. n] /\ \A r \in R : s[r[1]] < s[r[2]]
  BY DEF Toposorts
<1>2. n \in Nat
  <2>1. IsFiniteSet(Elements(R))
    BY ConverseElements, HandlesAssumption, FS_Subset
  <2> QED BY <2>1, FS_CardinalityType
<1>3. x \in S
  BY <1>1, <1>2
<1>4. IsClosed(S, R)
  <2> SUFFICES ASSUME NEW r \in R, r[1] \in S PROVE r[2] \in S
    BY DEF IsClosed
  <2>1. r[1] \in Elements(R) /\ r[2] \in Elements(R)
    BY DEF Elements
  <2>2. s[r[1]] < s[r[2]] /\ s[x] <= s[r[1]]
    BY <1>1
  <2>3. s[x] \in Nat /\ s[r[1]] \in Nat /\ s[r[2]] \in Nat
    BY <1>1, <1>2, <2>1
  <2> QED BY <2>1, <2>2, <2>3
<1>5. y \in S
  BY <1>3, <1>4 DEF Reach
<1> QED BY <1>5

(* A set of numbers has a least element. *)
LEMMA LeastNumber ==
  ASSUME NEW T \in SUBSET Nat, T # {}
  PROVE  \E k \in T : \A m \in T : k <= m
<1>1. IsWellFoundedOn(OpToRel(<, Nat), Nat)
  BY NatLessThanWellFounded, Zenon
<1>2. PICK k \in T : \A m \in T : ~(<<m, k>> \in OpToRel(<, Nat))
  BY <1>1, WFMin, Zenon
<1>3. \A m \in T : ~(m < k)
  BY <1>2, Zenon DEF OpToRel
<1>4. \A m \in T : k \in Nat /\ m \in Nat
  OBVIOUS
<1> QED BY <1>3, <1>4

(* min_by_key finds the only element that comes first. *)
LEMMA FirstExists ==
  ASSUME NEW R \in Relations, NEW s \in Toposorts(R), NEW S \in SUBSET Elements(R), S # {}
  PROVE  /\ FirstOf(S, s) \in S
         /\ \A z \in S : (\A w \in S : s[z] <= s[w]) => FirstOf(S, s) = z
<1> DEFINE n == Cardinality(Elements(R))
           T == {s[z] : z \in S}
<1>1. /\ s \in [Elements(R) -> 1 .. n]
      /\ \A x, y \in Elements(R) : s[x] = s[y] => x = y
  BY DEF Toposorts
<1>2. \A z \in S : s[z] \in Nat
  BY <1>1
<1>3. T \in SUBSET Nat /\ T # {}
  BY <1>2
<1>4. \E k \in T : \A m \in T : k <= m
  BY <1>3, LeastNumber
<1>5. \E z \in S : \A w \in S : s[z] <= s[w]
  BY <1>4
<1>6. FirstOf(S, s) \in S /\ \A w \in S : s[FirstOf(S, s)] <= s[w]
  BY <1>5 DEF FirstOf
<1>7. ASSUME NEW z \in S, \A w \in S : s[z] <= s[w]
      PROVE  FirstOf(S, s) = z
  <2>1. s[FirstOf(S, s)] <= s[z] /\ s[z] <= s[FirstOf(S, s)]
    BY <1>6, <1>7
  <2>2. s[FirstOf(S, s)] = s[z]
    BY <2>1, <1>2, <1>6
  <2> QED BY <2>2, <1>1, <1>6
<1> QED BY <1>6, <1>7

Common(R, x, y) == Reach(R, x) \cap Reach(R, y)

\* What holds of a table of R: common bounds, and the least where there is one.
IsTable(T, R) ==
  /\ DOMAIN T = Elements(R) \X Elements(R)
  /\ \A x, y \in Elements(R) :
       /\ T[<<x, y>>] \in Common(R, x, y)
       /\ \A l \in Common(R, x, y) :
            Common(R, x, y) \subseteq Reach(R, l) => T[<<x, y>>] = l

(* create_table, with any topological order. *)
LEMMA TableIsTable ==
  ASSUME NEW R \in Relations, HasTable(R, ReachableSets(R)), NEW s \in Toposorts(R)
  PROVE  IsTable(Table(R, ReachableSets(R), s), R)
<1> DEFINE T == Table(R, ReachableSets(R), s)
<1>1. DOMAIN T = Elements(R) \X Elements(R)
  BY DEF Table
<1>2. ASSUME NEW x \in Elements(R), NEW y \in Elements(R)
      PROVE  /\ T[<<x, y>>] = FirstOf(Common(R, x, y), s)
             /\ Common(R, x, y) # {}
             /\ Common(R, x, y) \in SUBSET Elements(R)
  <2>1. Shared(ReachableSets(R), <<x, y>>) = Common(R, x, y)
    BY DEF Shared, ReachableSets, Common
  <2>2. <<x, y>> \in Elements(R) \X Elements(R)
    OBVIOUS
  <2>3. T[<<x, y>>] = FirstOf(Common(R, x, y), s)
    BY <2>1, <2>2 DEF Table
  <2>4. Common(R, x, y) # {}
    BY <2>1, <2>2 DEF HasTable
  <2> QED BY <2>3, <2>4, ReachIsPreorder DEF Common
<1>3. ASSUME NEW x \in Elements(R), NEW y \in Elements(R)
      PROVE  /\ T[<<x, y>>] \in Common(R, x, y)
             /\ \A l \in Common(R, x, y) :
                  Common(R, x, y) \subseteq Reach(R, l) => T[<<x, y>>] = l
  <2>1. T[<<x, y>>] \in Common(R, x, y)
    BY <1>2, FirstExists
  <2>2. ASSUME NEW l \in Common(R, x, y), Common(R, x, y) \subseteq Reach(R, l)
        PROVE  T[<<x, y>>] = l
    <3>1. l \in Elements(R)
      BY <1>2
    <3>2. \A w \in Common(R, x, y) : s[l] <= s[w]
      BY <2>2, <3>1, ReachComesLater
    <3> QED BY <1>2, <3>2, FirstExists
  <2> QED BY <2>1, <2>2
<1> QED BY <1>1, <1>3 DEF IsTable

-----------------------------------------------------------------------------
(* A definition that is a lattice has its tables. *)

\* What toposort needs: no cycles, and no element below itself.
Acyclic(R) ==
  /\ \A x \in Elements(R) : <<x, x>> \notin R
  /\ \A x, y \in Elements(R) : y \in Reach(R, x) /\ x \in Reach(R, y) => x = y

(* Where there are no cycles, there is a topological order: by the number of  *)
(* elements an element is reached from.                                       *)
LEMMA ToposortExists ==
  ASSUME NEW R \in Relations, Acyclic(R)
  PROVE  Toposorts(R) # {}
<1> DEFINE E == Elements(R)
           n == Cardinality(E)
           From(x) == {z \in E : x \in Reach(R, z)}
           h == [x \in E |-> Cardinality(From(x))]
<1>1. IsFiniteSet(E) /\ n \in Nat
  BY ConverseElements, HandlesAssumption, FS_Subset, FS_CardinalityType
<1>2. PICK e : e \in Bijection(1 .. n, E)
  BY <1>1, FS_CardinalityType DEF ExistsBijection
<1>3. \E f \in [E -> 1 .. n] : \A x, y \in E : f[x] = f[y] => x = y
  <2>1. e \in [1 .. n -> E] /\ \A x \in E : \E i \in 1 .. n : e[i] = x
    BY <1>2 DEF Bijection, Injection, Surjection, IsInjective
  <2> DEFINE f == [x \in E |-> CHOOSE i \in 1 .. n : e[i] = x]
  <2>2. \A x \in E : f[x] \in 1 .. n /\ e[f[x]] = x
    BY <2>1
  <2>3. f \in [E -> 1 .. n]
    BY <2>2
  <2>4. \A x, y \in E : f[x] = f[y] => x = y
    BY <2>2, Zenon
  <2> HIDE DEF f
  <2> QED BY <2>3, <2>4
<1>4. PICK f \in [E -> 1 .. n] : \A x, y \in E : f[x] = f[y] => x = y
  BY <1>3
<1>5. \A x \in E : h[x] \in Nat /\ IsFiniteSet(From(x))
  <2> SUFFICES ASSUME NEW x \in E PROVE h[x] \in Nat /\ IsFiniteSet(From(x))
    OBVIOUS
  <2>1. From(x) \in SUBSET E
    OBVIOUS
  <2>2. IsFiniteSet(From(x))
    BY <1>1, <2>1, FS_Subset
  <2> QED BY <2>2, FS_CardinalityType
<1> DEFINE Before(x) == {y \in E : h[y] < h[x] \/ (h[y] = h[x] /\ f[y] <= f[x])}
           s == [x \in E |-> Cardinality(Before(x))]
<1>6. ASSUME NEW x \in E
      PROVE  x \in Before(x) /\ IsFiniteSet(Before(x)) /\ s[x] \in 1 .. n /\ s[x] \in Nat
  <2>1. Before(x) \in SUBSET E
    OBVIOUS
  <2>2. x \in Before(x)
    BY <1>4, <1>5
  <2>3. IsFiniteSet(Before(x)) /\ Cardinality(Before(x)) <= n
    BY <1>1, <2>1, FS_Subset
  <2>4. Cardinality(Before(x)) \in Nat /\ Cardinality(Before(x)) # 0
    BY <2>2, <2>3, FS_CardinalityType, FS_EmptySet
  <2>5. s[x] = Cardinality(Before(x))
    OBVIOUS
  <2> QED BY <1>1, <2>2, <2>3, <2>4, <2>5
<1>7. ASSUME NEW x \in E, NEW y \in E
      PROVE  x \in Before(y) => Before(x) \subseteq Before(y)
  <2>1. f[x] \in Nat /\ f[y] \in Nat /\ h[x] \in Nat /\ h[y] \in Nat
    BY <1>4, <1>5
  <2>2. \A z \in E : f[z] \in Nat /\ h[z] \in Nat
    BY <1>4, <1>5
  <2> HIDE DEF h
  <2> QED BY <2>1, <2>2
<1>8. ASSUME NEW x \in E, NEW y \in E
      PROVE  x \in Before(y) \/ y \in Before(x)
  <2>1. f[x] \in Nat /\ f[y] \in Nat /\ h[x] \in Nat /\ h[y] \in Nat
    BY <1>4, <1>5
  <2> HIDE DEF h
  <2> QED BY <2>1
<1>9. ASSUME NEW x \in E, NEW y \in E, x \in Before(y), y \in Before(x)
      PROVE  x = y
  <2>1. f[x] \in Nat /\ f[y] \in Nat /\ h[x] \in Nat /\ h[y] \in Nat
    BY <1>4, <1>5
  <2>2. f[x] = f[y]
    <3> HIDE DEF h
    <3> QED BY <1>9, <2>1
  <2> QED BY <1>4, <2>2
<1>10. ASSUME NEW x \in E, NEW y \in E, x # y, x \in Before(y)
       PROVE  s[x] < s[y]
  <2>1. Before(x) \in SUBSET Before(y) /\ y \in Before(y) /\ y \notin Before(x)
    BY <1>6, <1>7, <1>9, <1>10
  <2>2. IsFiniteSet(Before(y)) /\ s[x] \in Nat /\ s[y] \in Nat
    BY <1>6
  <2>3. s[x] = Cardinality(Before(x)) /\ s[y] = Cardinality(Before(y))
    OBVIOUS
  <2> HIDE DEF s, Before
  <2>4. Cardinality(Before(x)) <= Cardinality(Before(y)) /\ Cardinality(Before(x)) # Cardinality(Before(y))
    BY <2>1, <2>2, FS_Subset
  <2> QED BY <2>2, <2>3, <2>4
<1>11. ASSUME NEW x \in E, NEW y \in E, s[x] = s[y]
       PROVE  x = y
  <2>1. s[x] \in Nat /\ s[y] \in Nat
    BY <1>6
  <2> HIDE DEF s, Before
  <2> QED BY <1>8, <1>10, <1>11, <2>1
<1>12. ASSUME NEW r \in R
       PROVE  s[r[1]] < s[r[2]]
  <2> DEFINE a == r[1]
             b == r[2]
  <2>1. a \in E /\ b \in E /\ r = <<a, b>> /\ a # b
    BY DEF Relations, Elements, Acyclic
  <2>2. b \in Reach(R, a)
    BY <2>1 DEF Reach, IsClosed
  <2>3. From(a) \in SUBSET From(b)
    BY <2>1, <2>2, ReachIsPreorder
  <2>4. b \in From(b) /\ b \notin From(a)
    BY <2>1, <2>2, ReachIsPreorder DEF Acyclic
  <2>5. h[a] = Cardinality(From(a)) /\ h[b] = Cardinality(From(b)) /\ h[a] \in Nat /\ h[b] \in Nat
    BY <1>5, <2>1
  <2>6. IsFiniteSet(From(b))
    BY <1>5, <2>1
  <2>7. h[a] < h[b]
    <3> HIDE DEF h, From
    <3>1. Cardinality(From(a)) <= Cardinality(From(b)) /\ Cardinality(From(a)) # Cardinality(From(b))
      BY <2>3, <2>4, <2>6, FS_Subset
    <3> QED BY <3>1, <2>5
  <2>8. a \in Before(b)
    BY <2>1, <2>7
  <2> QED BY <2>1, <2>8, <1>10
<1>13. s \in [E -> 1 .. n]
  BY <1>6
<1> HIDE DEF s
<1>14. s \in Toposorts(R)
  BY <1>11, <1>12, <1>13 DEF Toposorts
<1> QED BY <1>14

(* The relation of a lattice and its converse both have a table. *)
LEMMA LatticeHasTables ==
  ASSUME NEW R \in Relations, IsLatticeDefinition(R)
  PROVE  /\ {Top, Bottom} \subseteq Elements(R)
         /\ HasTable(R, ReachableSets(R))
         /\ HasTable(Converse(R), ReachableSets(Converse(R)))
<1> DEFINE E == Elements(R)
           C == Converse(R)
<1>1. /\ C \in Relations /\ Elements(C) = E
      /\ \A a, b : <<b, a>> \in C <=> <<a, b>> \in R
  BY ConverseElements
<1>2. {Top, Bottom} \subseteq E
  BY DEF IsLatticeDefinition
<1>3. \A x, y \in E :
        /\ <<x, x>> \notin R
        /\ Top \in Reach(R, x) /\ x \in Reach(R, Bottom)
        /\ y \in Reach(R, x) /\ x \in Reach(R, y) => x = y
  BY <1>2 DEF IsLatticeDefinition
<1>4. \A x, y \in E : y \in Reach(C, x) <=> x \in Reach(R, y)
  BY ReachConverse
<1>5. Acyclic(R) /\ Acyclic(C)
  BY <1>1, <1>3, <1>4 DEF Acyclic
<1>6. Toposorts(R) # {} /\ Toposorts(C) # {}
  BY <1>1, <1>5, ToposortExists
<1>7. ASSUME NEW p \in E \X E
      PROVE  Shared(ReachableSets(R), p) # {} /\ Shared(ReachableSets(C), p) # {}
  <2>1. p[1] \in E /\ p[2] \in E
    OBVIOUS
  <2>2. Top \in Shared(ReachableSets(R), p)
    BY <1>3, <2>1 DEF Shared, ReachableSets
  <2>3. Bottom \in Shared(ReachableSets(C), p)
    BY <1>1, <1>2, <1>3, <1>4, <2>1 DEF Shared, ReachableSets
  <2> QED BY <2>2, <2>3
<1> QED BY <1>1, <1>2, <1>6, <1>7 DEF HasTable

-----------------------------------------------------------------------------
(* The invariant: the tables are tables of the relation, and every node's    *)
(* bounds are those its constraints give.                                    *)
TablesInv ==
  /\ pc \in {"meets", "sets", "label"} => IsTable(joinTable, relation)
  /\ pc \in {"sets", "label"} => IsTable(meetTable, Converse(relation))
  /\ pc = "label" => lessThan = ReachableSets(relation)

Unlabelled ==
  pc \in {"merge", "meets", "sets"} =>
    /\ bounds = [n \in Nodes |-> Identity]
    /\ uppers = [n \in Nodes |-> {Top}]
    /\ lowers = [n \in Nodes |-> {Bottom}]

AllMentioned(b, U, L) ==
  {b.upper, b.lower} \cup U \cup L \subseteq DOMAIN lessThan

IsLabel(b, U, L) ==
  /\ HandlesMentioned =>
       /\ AllMentioned(b, U, L)
       /\ \A x \in U : Leq(b.upper, x)
       /\ \A x \in L : Leq(x, b.lower)
  /\ IsLattice => IsGlb(b.upper, U) /\ IsLub(b.lower, L)

LabelsInv ==
  pc = "label" => \A n \in DOMAIN bounds : IsLabel(bounds[n], uppers[n], lowers[n])

IInv == TypeOK /\ TablesInv /\ Unlabelled /\ LabelsInv /\ LatticesDoNotPanic

(* What the tables give once they are there. *)
LEMMA TablesGiveBounds ==
  ASSUME relation \in Relations, TablesInv, pc = "label"
  PROVE  /\ DOMAIN lessThan \subseteq Handles
         /\ DOMAIN joinTable = (DOMAIN lessThan) \X (DOMAIN lessThan)
         /\ DOMAIN meetTable = (DOMAIN lessThan) \X (DOMAIN lessThan)
         /\ \A x \in DOMAIN lessThan : Leq(x, x)
         /\ \A x, y, z \in DOMAIN lessThan : Leq(x, y) /\ Leq(y, z) => Leq(x, z)
         /\ \A x, y \in DOMAIN lessThan :
              /\ joinTable[<<x, y>>] \in DOMAIN lessThan
              /\ Leq(x, joinTable[<<x, y>>]) /\ Leq(y, joinTable[<<x, y>>])
              /\ meetTable[<<x, y>>] \in DOMAIN lessThan
              /\ Leq(meetTable[<<x, y>>], x) /\ Leq(meetTable[<<x, y>>], y)
         /\ IsLattice => \A x, y \in DOMAIN lessThan :
              IsLub(joinTable[<<x, y>>], {x, y}) /\ IsGlb(meetTable[<<x, y>>], {x, y})
<1> DEFINE E == DOMAIN lessThan
           R == relation
           C == Converse(relation)
<1>1. /\ IsTable(joinTable, R) /\ IsTable(meetTable, C)
      /\ lessThan = [x \in Elements(R) |-> Reach(R, x)]
  BY DEF TablesInv, ReachableSets
<1>2. E \subseteq Handles /\ Elements(R) = E /\ Elements(C) = E
  BY <1>1, ConverseElements
<1>3. \A x \in E : \A y : Leq(x, y) <=> y \in Reach(R, x)
  BY <1>1, <1>2 DEF Leq
<1>4. \A x \in E : x \in Reach(R, x) /\ Reach(R, x) \subseteq E
  BY <1>2, ReachIsPreorder
<1>5. \A x \in E : \A y \in Reach(R, x) : Reach(R, y) \subseteq Reach(R, x)
  BY <1>2, ReachIsPreorder
<1>6. \A x \in E : Leq(x, x)
  BY <1>3, <1>4
<1>7. \A x, y, z \in E : Leq(x, y) /\ Leq(y, z) => Leq(x, z)
  BY <1>3, <1>5
<1>8. \A x, y \in E : Common(R, x, y) = {z \in E : Leq(x, z) /\ Leq(y, z)}
  BY <1>3, <1>4 DEF Common
<1>9. \A x, y \in E : Common(C, x, y) = {z \in E : Leq(z, x) /\ Leq(z, y)}
  <2>1. \A x, z \in E : z \in Reach(C, x) <=> Leq(z, x)
    BY <1>2, <1>3, ReachConverse
  <2>2. \A x \in E : Reach(C, x) \subseteq E
    BY <1>2, ReachIsPreorder
  <2> QED BY <2>1, <2>2 DEF Common
<1>10. DOMAIN joinTable = E \X E /\ DOMAIN meetTable = E \X E
  BY <1>1, <1>2 DEF IsTable
<1>11. ASSUME NEW x \in E, NEW y \in E
       PROVE  /\ joinTable[<<x, y>>] \in E
              /\ Leq(x, joinTable[<<x, y>>]) /\ Leq(y, joinTable[<<x, y>>])
              /\ meetTable[<<x, y>>] \in E
              /\ Leq(meetTable[<<x, y>>], x) /\ Leq(meetTable[<<x, y>>], y)
  <2>1. joinTable[<<x, y>>] \in Common(R, x, y)
    BY <1>1, <1>2 DEF IsTable
  <2>2. meetTable[<<x, y>>] \in Common(C, x, y)
    BY <1>1, <1>2 DEF IsTable
  <2> QED BY <2>1, <2>2, <1>8, <1>9
<1>12. ASSUME IsLattice, NEW x \in E, NEW y \in E
       PROVE  IsLub(joinTable[<<x, y>>], {x, y}) /\ IsGlb(meetTable[<<x, y>>], {x, y})
  <2>1. PICK l \in E : IsLub(l, {x, y})
    BY <1>2, <1>12 DEF IsLattice
  <2>2. l \in Common(R, x, y) /\ Common(R, x, y) \subseteq Reach(R, l)
    BY <2>1, <1>2, <1>3, <1>8 DEF IsLub
  <2>3. joinTable[<<x, y>>] = l
    BY <2>2, <1>1, <1>2 DEF IsTable
  <2>4. PICK g \in E : IsGlb(g, {x, y})
    BY <1>2, <1>12 DEF IsLattice
  <2>5. g \in Common(C, x, y)
    BY <2>4, <1>9 DEF IsGlb
  <2>6. Common(C, x, y) \subseteq Reach(C, g)
    <3> SUFFICES ASSUME NEW w \in Common(C, x, y) PROVE w \in Reach(C, g)
      OBVIOUS
    <3>1. w \in E /\ Leq(w, g)
      BY <2>4, <1>2, <1>9 DEF IsGlb
    <3>2. g \in Reach(R, w)
      BY <3>1, <1>3
    <3> QED BY <1>2, <3>1, <3>2, ReachConverse
  <2>7. meetTable[<<x, y>>] = g
    BY <2>5, <2>6, <1>1, <1>2 DEF IsTable
  <2> QED BY <2>1, <2>3, <2>4, <2>7
<1>13. IsLattice => \A x, y \in E :
         IsLub(joinTable[<<x, y>>], {x, y}) /\ IsGlb(meetTable[<<x, y>>], {x, y})
  BY <1>12
<1> QED BY <1>2, <1>6, <1>7, <1>10, <1>11, <1>13

(* The meet of the bounds of two sets is a bound of both, and the greatest   *)
(* when they are.                                                            *)
LEMMA MeetBoundsUnion ==
  ASSUME relation \in Relations, TablesInv, pc = "label",
         NEW u \in DOMAIN lessThan, NEW v \in DOMAIN lessThan,
         NEW U \in SUBSET DOMAIN lessThan, NEW V \in SUBSET DOMAIN lessThan
  PROVE  /\ meetTable[<<u, v>>] \in DOMAIN lessThan
         /\ (\A x \in U : Leq(u, x)) /\ (\A x \in V : Leq(v, x))
              => \A x \in U \cup V : Leq(meetTable[<<u, v>>], x)
         /\ IsLattice /\ IsGlb(u, U) /\ IsGlb(v, V) => IsGlb(meetTable[<<u, v>>], U \cup V)
<1> DEFINE D == DOMAIN lessThan
           m == meetTable[<<u, v>>]
<1>1. /\ m \in D /\ Leq(m, u) /\ Leq(m, v)
      /\ \A x, y, z \in D : Leq(x, y) /\ Leq(y, z) => Leq(x, z)
      /\ IsLattice => IsGlb(m, {u, v})
  BY TablesGiveBounds
<1>2. ASSUME \A x \in U : Leq(u, x), \A x \in V : Leq(v, x)
      PROVE  \A x \in U \cup V : Leq(m, x)
  BY <1>1, <1>2
<1>3. ASSUME IsLattice, IsGlb(u, U), IsGlb(v, V)
      PROVE  IsGlb(m, U \cup V)
  <2>1. \A x \in U \cup V : Leq(m, x)
    BY <1>2, <1>3 DEF IsGlb
  <2>2. ASSUME NEW w \in D, \A x \in U \cup V : Leq(w, x)
        PROVE  Leq(w, m)
    <3>1. Leq(w, u) /\ Leq(w, v)
      BY <1>3, <2>2 DEF IsGlb
    <3> QED BY <1>1, <1>3, <3>1 DEF IsGlb
  <2> QED BY <1>1, <2>1, <2>2 DEF IsGlb
<1> QED BY <1>1, <1>2, <1>3

(* The join, likewise. *)
LEMMA JoinBoundsUnion ==
  ASSUME relation \in Relations, TablesInv, pc = "label",
         NEW u \in DOMAIN lessThan, NEW v \in DOMAIN lessThan,
         NEW U \in SUBSET DOMAIN lessThan, NEW V \in SUBSET DOMAIN lessThan
  PROVE  /\ joinTable[<<u, v>>] \in DOMAIN lessThan
         /\ (\A x \in U : Leq(x, u)) /\ (\A x \in V : Leq(x, v))
              => \A x \in U \cup V : Leq(x, joinTable[<<u, v>>])
         /\ IsLattice /\ IsLub(u, U) /\ IsLub(v, V) => IsLub(joinTable[<<u, v>>], U \cup V)
<1> DEFINE D == DOMAIN lessThan
           j == joinTable[<<u, v>>]
<1>1. /\ j \in D /\ Leq(u, j) /\ Leq(v, j)
      /\ \A x, y, z \in D : Leq(x, y) /\ Leq(y, z) => Leq(x, z)
      /\ IsLattice => IsLub(j, {u, v})
  BY TablesGiveBounds
<1>2. ASSUME \A x \in U : Leq(x, u), \A x \in V : Leq(x, v)
      PROVE  \A x \in U \cup V : Leq(x, j)
  BY <1>1, <1>2
<1>3. ASSUME IsLattice, IsLub(u, U), IsLub(v, V)
      PROVE  IsLub(j, U \cup V)
  <2>1. \A x \in U \cup V : Leq(x, j)
    BY <1>2, <1>3 DEF IsLub
  <2>2. ASSUME NEW w \in D, \A x \in U \cup V : Leq(x, w)
        PROVE  Leq(j, w)
    <3>1. Leq(u, w) /\ Leq(v, w)
      BY <1>3, <2>2 DEF IsLub
    <3> QED BY <1>1, <1>3, <3>1 DEF IsLub
  <2> QED BY <1>1, <2>1, <2>2 DEF IsLub
<1> QED BY <1>1, <1>2, <1>3

(* An element is the only bound of itself that matters. *)
LEMMA OwnBound ==
  ASSUME relation \in Relations, TablesInv, pc = "label", NEW x \in DOMAIN lessThan
  PROVE  Leq(x, x) /\ IsGlb(x, {x}) /\ IsLub(x, {x})
<1>1. Leq(x, x)
  BY TablesGiveBounds
<1> QED BY <1>1 DEF IsGlb, IsLub

(* The tables are defined on pairs of elements. *)
LEMMA InTablesMentioned ==
  ASSUME relation \in Relations, TablesInv, pc = "label", NEW x, NEW y, InTables(x, y)
  PROVE  x \in DOMAIN lessThan /\ y \in DOMAIN lessThan
  BY TablesGiveBounds DEF InTables

-----------------------------------------------------------------------------
(* label_by and the union of nodes keep labels exact. *)

(* In a lattice, the tables have an entry for whatever is looked up.  *)
LEMMA LatticeIsInTables ==
  ASSUME relation \in Relations, TablesInv, pc = "label", IsLatticeDefinition(relation),
         NEW b, NEW U, NEW L, IsLabel(b, U, L)
  PROVE  \A x \in Known \cup {b.upper, b.lower} :
           InTables(b.upper, x) /\ InTables(b.lower, x)
<1>1. DOMAIN lessThan = Elements(relation)
  BY DEF TablesInv, ReachableSets
<1>2. {Top, Bottom} \subseteq Elements(relation)
  BY LatticeHasTables
<1>3. Known = DOMAIN lessThan /\ HandlesMentioned
  BY <1>1, <1>2 DEF Known, HandlesMentioned
<1>4. b.upper \in DOMAIN lessThan /\ b.lower \in DOMAIN lessThan
  BY <1>3 DEF IsLabel, AllMentioned
<1>5. DOMAIN joinTable = (DOMAIN lessThan) \X (DOMAIN lessThan)
  BY TablesGiveBounds
<1> QED BY <1>3, <1>4, <1>5 DEF InTables

(* refine_lower *)
LEMMA RefineLowerKeepsLabel ==
  ASSUME relation \in Relations, TablesInv, pc = "label",
         NEW b \in Bounds, NEW U \in SUBSET Handles, NEW L \in SUBSET Handles, NEW x \in Handles,
         IsLabel(b, U, L), InTables(b.lower, x)
  PROVE  /\ RefineLowerBound(b, x) \in Bounds
         /\ IsLabel(RefineLowerBound(b, x), U, L \cup {x})
<1> DEFINE j == joinTable[<<b.lower, x>>]
           c == RefineLowerBound(b, x)
<1>1. b.lower \in DOMAIN lessThan /\ x \in DOMAIN lessThan
  BY InTablesMentioned
<1>2. j \in Handles
  BY <1>1, TablesGiveBounds
<1>3. c \in Bounds /\ c.upper = b.upper /\ c.lower = j
  BY <1>2 DEF RefineLowerBound, Bounds
<1>4. ASSUME HandlesMentioned
      PROVE  /\ AllMentioned(c, U, L \cup {x})
             /\ \A y \in U : Leq(c.upper, y)
             /\ \A y \in L \cup {x} : Leq(y, c.lower)
  <2>1. AllMentioned(b, U, L) /\ L \subseteq DOMAIN lessThan
    BY <1>4 DEF IsLabel, AllMentioned
  <2>2. j \in DOMAIN lessThan /\ \A y \in L \cup {x} : Leq(y, j)
    <3>1. \A y \in L : Leq(y, b.lower)
      BY <1>4 DEF IsLabel
    <3>2. \A y \in {x} : Leq(y, x)
      BY <1>1, OwnBound
    <3>3. L \in SUBSET DOMAIN lessThan /\ {x} \in SUBSET DOMAIN lessThan
      BY <1>1, <2>1
    <3> QED BY <1>1, <3>1, <3>2, <3>3, JoinBoundsUnion
  <2> QED BY <1>1, <1>3, <1>4, <2>1, <2>2 DEF AllMentioned, IsLabel
<1>5. ASSUME IsLattice
      PROVE  IsGlb(c.upper, U) /\ IsLub(c.lower, L \cup {x})
  <2>1. L \subseteq DOMAIN lessThan
    BY <1>5 DEF IsLabel, AllMentioned, IsLattice
  <2>2. IsLub(j, L \cup {x})
    <3>1. IsLub(b.lower, L)
      BY <1>5 DEF IsLabel
    <3>2. IsLub(x, {x})
      BY <1>1, OwnBound
    <3>3. L \in SUBSET DOMAIN lessThan /\ {x} \in SUBSET DOMAIN lessThan
      BY <1>1, <2>1
    <3> QED BY <1>1, <1>5, <3>1, <3>2, <3>3, JoinBoundsUnion
  <2> QED BY <1>3, <1>5, <2>2 DEF IsLabel
<1> QED BY <1>3, <1>4, <1>5 DEF IsLabel

(* refine_upper *)
LEMMA RefineUpperKeepsLabel ==
  ASSUME relation \in Relations, TablesInv, pc = "label",
         NEW b \in Bounds, NEW U \in SUBSET Handles, NEW L \in SUBSET Handles, NEW x \in Handles,
         IsLabel(b, U, L), InTables(b.upper, x)
  PROVE  /\ RefineUpperBound(b, x) \in Bounds
         /\ IsLabel(RefineUpperBound(b, x), U \cup {x}, L)
<1> DEFINE m == meetTable[<<b.upper, x>>]
           c == RefineUpperBound(b, x)
<1>1. b.upper \in DOMAIN lessThan /\ x \in DOMAIN lessThan
  BY InTablesMentioned
<1>2. m \in Handles
  BY <1>1, TablesGiveBounds
<1>3. c \in Bounds /\ c.lower = b.lower /\ c.upper = m
  BY <1>2 DEF RefineUpperBound, Bounds
<1>4. ASSUME HandlesMentioned
      PROVE  /\ AllMentioned(c, U \cup {x}, L)
             /\ \A y \in U \cup {x} : Leq(c.upper, y)
             /\ \A y \in L : Leq(y, c.lower)
  <2>1. AllMentioned(b, U, L) /\ U \subseteq DOMAIN lessThan
    BY <1>4 DEF IsLabel, AllMentioned
  <2>2. m \in DOMAIN lessThan /\ \A y \in U \cup {x} : Leq(m, y)
    <3>1. \A y \in U : Leq(b.upper, y)
      BY <1>4 DEF IsLabel
    <3>2. \A y \in {x} : Leq(x, y)
      BY <1>1, OwnBound
    <3>3. U \in SUBSET DOMAIN lessThan /\ {x} \in SUBSET DOMAIN lessThan
      BY <1>1, <2>1
    <3> QED BY <1>1, <3>1, <3>2, <3>3, MeetBoundsUnion
  <2> QED BY <1>1, <1>3, <1>4, <2>1, <2>2 DEF AllMentioned, IsLabel
<1>5. ASSUME IsLattice
      PROVE  IsGlb(c.upper, U \cup {x}) /\ IsLub(c.lower, L)
  <2>1. U \subseteq DOMAIN lessThan
    BY <1>5 DEF IsLabel, AllMentioned, IsLattice
  <2>2. IsGlb(m, U \cup {x})
    <3>1. IsGlb(b.upper, U)
      BY <1>5 DEF IsLabel
    <3>2. IsGlb(x, {x})
      BY <1>1, OwnBound
    <3>3. U \in SUBSET DOMAIN lessThan /\ {x} \in SUBSET DOMAIN lessThan
      BY <1>1, <2>1
    <3> QED BY <1>1, <1>5, <3>1, <3>2, <3>3, MeetBoundsUnion
  <2> QED BY <1>3, <1>5, <2>2 DEF IsLabel
<1> QED BY <1>3, <1>4, <1>5 DEF IsLabel

(* operate *)
LEMMA OperateKeepsLabel ==
  ASSUME relation \in Relations, TablesInv, pc = "label",
         NEW b \in Bounds, NEW U \in SUBSET Handles, NEW L \in SUBSET Handles,
         NEW c \in Bounds, NEW V \in SUBSET Handles, NEW M \in SUBSET Handles,
         IsLabel(b, U, L), IsLabel(c, V, M),
         InTables(b.upper, c.upper), InTables(b.lower, c.lower)
  PROVE  /\ Operate(b, c) \in Bounds
         /\ IsLabel(Operate(b, c), U \cup V, L \cup M)
<1> DEFINE m == meetTable[<<b.upper, c.upper>>]
           j == joinTable[<<b.lower, c.lower>>]
           d == Operate(b, c)
<1>1. {b.upper, c.upper, b.lower, c.lower} \subseteq DOMAIN lessThan
  BY InTablesMentioned
<1>2. m \in Handles /\ j \in Handles
  BY <1>1, TablesGiveBounds
<1>3. d \in Bounds /\ d.upper = m /\ d.lower = j
  BY <1>2 DEF Operate, Bounds
<1>4. ASSUME HandlesMentioned
      PROVE  /\ AllMentioned(d, U \cup V, L \cup M)
             /\ \A y \in U \cup V : Leq(d.upper, y)
             /\ \A y \in L \cup M : Leq(y, d.lower)
  <2>1. U \cup V \subseteq DOMAIN lessThan /\ L \cup M \subseteq DOMAIN lessThan
    BY <1>4 DEF IsLabel, AllMentioned
  <2>2. m \in DOMAIN lessThan /\ \A y \in U \cup V : Leq(m, y)
    <3>1. (\A y \in U : Leq(b.upper, y)) /\ (\A y \in V : Leq(c.upper, y))
      BY <1>4 DEF IsLabel
    <3>2. b.upper \in DOMAIN lessThan /\ c.upper \in DOMAIN lessThan
      BY <1>1
    <3>3. U \in SUBSET DOMAIN lessThan /\ V \in SUBSET DOMAIN lessThan
      BY <2>1
    <3> QED BY <3>1, <3>2, <3>3, MeetBoundsUnion
  <2>3. j \in DOMAIN lessThan /\ \A y \in L \cup M : Leq(y, j)
    <3>1. (\A y \in L : Leq(y, b.lower)) /\ (\A y \in M : Leq(y, c.lower))
      BY <1>4 DEF IsLabel
    <3> QED BY <1>1, <2>1, <3>1, JoinBoundsUnion
  <2> QED BY <1>3, <2>1, <2>2, <2>3 DEF AllMentioned
<1>5. ASSUME IsLattice
      PROVE  IsGlb(d.upper, U \cup V) /\ IsLub(d.lower, L \cup M)
  <2>1. U \cup V \subseteq DOMAIN lessThan /\ L \cup M \subseteq DOMAIN lessThan
    BY <1>5 DEF IsLabel, AllMentioned, IsLattice
  <2>2. IsGlb(m, U \cup V)
    BY <1>1, <1>5, <2>1, MeetBoundsUnion DEF IsLabel
  <2>3. IsLub(j, L \cup M)
    BY <1>1, <1>5, <2>1, JoinBoundsUnion DEF IsLabel
  <2> QED BY <1>3, <2>2, <2>3
<1> QED BY <1>3, <1>4, <1>5 DEF IsLabel

-----------------------------------------------------------------------------
(* The steps *)

(* Whether the definition is a lattice depends on the relation only. *)
LEMMA PanicCarriesOver ==
  ASSUME relation' = relation, pc' = "panicked" => ~IsLatticeDefinition(relation)
  PROVE  LatticesDoNotPanic'
<1>1. IsLatticeDefinition(relation)' <=> IsLatticeDefinition(relation)
  BY DEF IsLatticeDefinition, Elements, Reach, IsClosed
<1> QED BY <1>1 DEF LatticesDoNotPanic

(* Nothing is labelled while the definitions are merged. *)
LEMMA InitInvariant == Init => IInv
<1> SUFFICES ASSUME Init PROVE IInv
  OBVIOUS
<1> USE HandlesAssumption
<1>1. PICK d \in Definitions : relation = d.relation /\ additional = d.additional
  BY DEF Init
<1>2. relation \in Relations /\ additional \in Seq(Relations)
  BY <1>1 DEF Relations
<1>3. Identity \in Bounds
  BY DEF Identity, Bounds
<1>4. TypeOK
  BY <1>2, <1>3 DEF Init, TypeOK, Relations
<1> QED BY <1>4 DEF Init, IInv, TablesInv, Unlabelled, LabelsInv, LatticesDoNotPanic

(* Merging happens before there are tables. *)
LEMMA MergeInvariant ==
  ASSUME IInv, MergeWithOther
  PROVE  IInv'
<1>1. relation \in Relations /\ additional \in Seq(Relations) /\ additional # <<>>
  BY DEF IInv, TypeOK, MergeWithOther, Relations
<1>2. Head(additional) \in Relations /\ Tail(additional) \in Seq(Relations)
  BY <1>1
<1>3. relation' \in Relations /\ additional' \in Seq(Relations)
  BY <1>1, <1>2 DEF MergeWithOther, Relations
<1>4. TypeOK'
  BY <1>3 DEF IInv, TypeOK, MergeWithOther, labels, Relations
<1> QED BY <1>4 DEF IInv, MergeWithOther, TablesInv, Unlabelled, LabelsInv, LatticesDoNotPanic, labels

(* create_join_table *)
LEMMA JoinTableInvariant ==
  ASSUME IInv, CreateJoinTable
  PROVE  IInv'
<1>1. pc = "merge" /\ relation \in Relations
  BY DEF IInv, TypeOK, CreateJoinTable, Relations
<1>2. UNCHANGED <<relation, additional, meetTable, lessThan, bounds, uppers, lowers>>
  BY DEF CreateJoinTable, labels
<1>3. \/ pc' = "panicked" /\ ~HasTable(relation, ReachableSets(relation))
      \/ pc' = "meets" /\ IsTable(joinTable', relation)
  BY <1>1, TableIsTable DEF CreateJoinTable
<1>4. TypeOK'
  BY <1>2, <1>3 DEF IInv, TypeOK
<1>5. TablesInv'
  BY <1>2, <1>3 DEF TablesInv, IsTable, Common
<1>6. Unlabelled' /\ LabelsInv'
  BY <1>1, <1>2, <1>3 DEF IInv, Unlabelled, LabelsInv
<1>7. LatticesDoNotPanic'
  <2>1. pc' = "panicked" => ~IsLatticeDefinition(relation)
    BY <1>1, <1>3, LatticeHasTables
  <2> QED BY <1>2, <2>1, PanicCarriesOver
<1> QED BY <1>4, <1>5, <1>6, <1>7 DEF IInv

(* create_meet_table *)
LEMMA MeetTableInvariant ==
  ASSUME IInv, CreateMeetTable
  PROVE  IInv'
<1>1. pc = "meets" /\ relation \in Relations /\ IsTable(joinTable, relation)
  BY DEF IInv, TypeOK, CreateMeetTable, TablesInv, Relations
<1>2. UNCHANGED <<relation, additional, joinTable, lessThan, bounds, uppers, lowers>>
  BY DEF CreateMeetTable, labels
<1>3. Converse(relation) \in Relations
  BY <1>1, ConverseElements
<1>4. \/ /\ pc' = "panicked"
         /\ ~HasTable(Converse(relation), ReachableSets(Converse(relation)))
      \/ pc' = "sets" /\ IsTable(meetTable', Converse(relation))
  BY <1>3, TableIsTable DEF CreateMeetTable
<1>5. TypeOK'
  BY <1>2, <1>4 DEF IInv, TypeOK
<1>6. TablesInv'
  BY <1>1, <1>2, <1>4 DEF TablesInv, IsTable, Common
<1>7. Unlabelled' /\ LabelsInv'
  BY <1>1, <1>2, <1>4 DEF IInv, Unlabelled, LabelsInv
<1>8. LatticesDoNotPanic'
  <2>1. pc' = "panicked" => ~IsLatticeDefinition(relation)
    BY <1>1, <1>4, LatticeHasTables
  <2> QED BY <1>2, <2>1, PanicCarriesOver
<1> QED BY <1>5, <1>6, <1>7, <1>8 DEF IInv

(* create_less_than_sets: the bounds every node starts with are exact. *)
LEMMA LessThanSetsInvariant ==
  ASSUME IInv, CreateLessThanSets
  PROVE  IInv'
<1>1. /\ pc = "sets" /\ pc' = "label" /\ relation \in Relations
      /\ UNCHANGED <<relation, additional, joinTable, meetTable, bounds, uppers, lowers>>
  BY DEF IInv, TypeOK, CreateLessThanSets, Relations, labels
<1>2. TypeOK'
  BY <1>1 DEF IInv, TypeOK
<1>3. TablesInv'
  BY <1>1 DEF IInv, TablesInv, CreateLessThanSets
<1>4. LabelsInv'
  <2> SUFFICES ASSUME NEW n \in DOMAIN bounds'
               PROVE  IsLabel(bounds[n], uppers[n], lowers[n])'
    BY DEF LabelsInv
  <2>1. bounds'[n].upper = Top /\ bounds'[n].lower = Bottom /\ uppers'[n] = {Top} /\ lowers'[n] = {Bottom}
    BY <1>1 DEF IInv, Unlabelled, Identity
  <2>2. \A x \in DOMAIN lessThan' : x \in lessThan'[x]
    BY ReachIsPreorder DEF CreateLessThanSets, ReachableSets
  <2>3. ASSUME HandlesMentioned'
        PROVE  /\ AllMentioned(bounds[n], uppers[n], lowers[n])'
               /\ IsGlb(bounds[n].upper, uppers[n])'
               /\ IsLub(bounds[n].lower, lowers[n])'
    <3>1. Top \in DOMAIN lessThan' /\ Bottom \in DOMAIN lessThan'
      BY <2>3 DEF HandlesMentioned
    <3>2. AllMentioned(bounds[n], uppers[n], lowers[n])'
      BY <2>1, <3>1 DEF AllMentioned
    <3>3. IsGlb(bounds[n].upper, uppers[n])'
      BY <2>1, <2>2, <3>1 DEF IsGlb, Leq
    <3>4. IsLub(bounds[n].lower, lowers[n])'
      BY <2>1, <2>2, <3>1 DEF IsLub, Leq
    <3> QED BY <3>2, <3>3, <3>4
  <2> QED BY <2>3 DEF IsLabel, IsLattice, IsGlb, IsLub
<1>5. Unlabelled'
  BY <1>1 DEF Unlabelled
<1> QED BY <1>1, <1>2, <1>3, <1>4, <1>5 DEF IInv, LatticesDoNotPanic

(* Labelling leaves the tables alone. *)
LEMMA TablesUnchanged ==
  ASSUME TablesInv, pc = "label", pc' \in {"label", "panicked"}, UNCHANGED <<relation, tables>>
  PROVE  TablesInv' /\ Unlabelled'
  BY DEF TablesInv, Unlabelled, tables

(* Labels are judged by the sets of lesser elements only. *)
LEMMA LabelsCarryOver ==
  ASSUME lessThan' = lessThan,
         \A n \in DOMAIN bounds' : IsLabel(bounds'[n], uppers'[n], lowers'[n])
  PROVE  LabelsInv'
<1> SUFFICES ASSUME NEW n \in DOMAIN bounds' PROVE IsLabel(bounds[n], uppers[n], lowers[n])'
  BY DEF LabelsInv
<1>1. IsLabel(bounds'[n], uppers'[n], lowers'[n])
  OBVIOUS
<1> QED BY <1>1 DEF IsLabel, AllMentioned, HandlesMentioned, IsLattice, IsGlb, IsLub, Leq

(* label_by, when it panics *)
LEMMA PanicInvariant ==
  ASSUME IInv, pc = "label", pc' = "panicked", UNCHANGED <<relation, additional, tables, labels>>,
         ~IsLatticeDefinition(relation)
  PROVE  IInv'
<1>1. TypeOK'
  BY DEF IInv, TypeOK, labels
<1>2. TablesInv' /\ Unlabelled'
  BY TablesUnchanged DEF IInv
<1>3. LatticesDoNotPanic'
  BY PanicCarriesOver
<1> QED BY <1>1, <1>2, <1>3 DEF IInv, LabelsInv

(* label_by, a lower bound *)
LEMMA LabelLowerInvariant ==
  ASSUME IInv, NEW n \in DOMAIN bounds, NEW x \in Handles, LabelLower(n, x)
  PROVE  IInv'
<1>1. CASE ~InTables(bounds[n].lower, x)
  <2>1. /\ pc = "label" /\ relation \in Relations /\ TablesInv /\ x \in Known
        /\ IsLabel(bounds[n], uppers[n], lowers[n])
    BY DEF IInv, TypeOK, LabelsInv, LabelLower, Relations
  <2>2. ~IsLatticeDefinition(relation)
    BY <1>1, <2>1, LatticeIsInTables
  <2> QED BY <1>1, <2>2, PanicInvariant DEF LabelLower
<1>2. CASE InTables(bounds[n].lower, x)
  <2> DEFINE b == bounds[n]
             c == RefineLowerBound(b, x)
  <2>1. /\ pc = "label" /\ relation \in Relations /\ TablesInv /\ TypeOK
        /\ b \in Bounds /\ uppers[n] \in SUBSET Handles /\ lowers[n] \in SUBSET Handles
        /\ IsLabel(b, uppers[n], lowers[n])
    BY DEF IInv, TypeOK, LabelsInv, LabelLower, Relations
  <2>2. /\ bounds' = [bounds EXCEPT ![n] = c]
        /\ lowers' = [lowers EXCEPT ![n] = lowers[n] \cup {x}]
        /\ UNCHANGED <<uppers, pc, relation, additional, joinTable, meetTable, lessThan>>
    BY <1>2 DEF LabelLower, tables
  <2>3. c \in Bounds /\ IsLabel(c, uppers[n], lowers[n] \cup {x})
    BY <1>2, <2>1, RefineLowerKeepsLabel
  <2>4. TypeOK'
    BY <2>1, <2>2, <2>3 DEF TypeOK
  <2>5. ASSUME NEW k \in DOMAIN bounds'
        PROVE  IsLabel(bounds'[k], uppers'[k], lowers'[k])
    <3>1. CASE k = n
      BY <2>1, <2>2, <2>3, <3>1 DEF TypeOK
    <3>2. CASE k # n
      <4>1. k \in DOMAIN bounds /\ bounds'[k] = bounds[k] /\ lowers'[k] = lowers[k] /\ uppers'[k] = uppers[k]
        BY <2>1, <2>2, <3>2 DEF TypeOK
      <4> QED BY <2>1, <4>1 DEF IInv, LabelsInv
    <3> QED BY <3>1, <3>2
  <2>6. LabelsInv'
    BY <2>2, <2>5, LabelsCarryOver
  <2>7. TablesInv' /\ Unlabelled'
    BY <2>1, <2>2, TablesUnchanged DEF tables
  <2> QED BY <2>1, <2>2, <2>4, <2>6, <2>7 DEF IInv, LatticesDoNotPanic
<1> QED BY <1>1, <1>2

(* label_by, an upper bound *)
LEMMA LabelUpperInvariant ==
  ASSUME IInv, NEW n \in DOMAIN bounds, NEW x \in Handles, LabelUpper(n, x)
  PROVE  IInv'
<1>1. CASE ~InTables(bounds[n].upper, x)
  <2>1. /\ pc = "label" /\ relation \in Relations /\ TablesInv /\ x \in Known
        /\ IsLabel(bounds[n], uppers[n], lowers[n])
    BY DEF IInv, TypeOK, LabelsInv, LabelUpper, Relations
  <2>2. ~IsLatticeDefinition(relation)
    BY <1>1, <2>1, LatticeIsInTables
  <2> QED BY <1>1, <2>2, PanicInvariant DEF LabelUpper
<1>2. CASE InTables(bounds[n].upper, x)
  <2> DEFINE b == bounds[n]
             c == RefineUpperBound(b, x)
  <2>1. /\ pc = "label" /\ relation \in Relations /\ TablesInv /\ TypeOK
        /\ b \in Bounds /\ uppers[n] \in SUBSET Handles /\ lowers[n] \in SUBSET Handles
        /\ IsLabel(b, uppers[n], lowers[n])
    BY DEF IInv, TypeOK, LabelsInv, LabelUpper, Relations
  <2>2. /\ bounds' = [bounds EXCEPT ![n] = c]
        /\ uppers' = [uppers EXCEPT ![n] = uppers[n] \cup {x}]
        /\ UNCHANGED <<lowers, pc, relation, additional, joinTable, meetTable, lessThan>>
    BY <1>2 DEF LabelUpper, tables
  <2>3. c \in Bounds /\ IsLabel(c, uppers[n] \cup {x}, lowers[n])
    BY <1>2, <2>1, RefineUpperKeepsLabel
  <2>4. TypeOK'
    BY <2>1, <2>2, <2>3 DEF TypeOK
  <2>5. ASSUME NEW k \in DOMAIN bounds'
        PROVE  IsLabel(bounds'[k], uppers'[k], lowers'[k])
    <3>1. CASE k = n
      BY <2>1, <2>2, <2>3, <3>1 DEF TypeOK
    <3>2. CASE k # n
      <4>1. k \in DOMAIN bounds /\ bounds'[k] = bounds[k] /\ lowers'[k] = lowers[k] /\ uppers'[k] = uppers[k]
        BY <2>1, <2>2, <3>2 DEF TypeOK
      <4> QED BY <2>1, <4>1 DEF IInv, LabelsInv
    <3> QED BY <3>1, <3>2
  <2>6. LabelsInv'
    BY <2>2, <2>5, LabelsCarryOver
  <2>7. TablesInv' /\ Unlabelled'
    BY <2>1, <2>2, TablesUnchanged DEF tables
  <2> QED BY <2>1, <2>2, <2>4, <2>6, <2>7 DEF IInv, LatticesDoNotPanic
<1> QED BY <1>1, <1>2

(* A union of nodes: the node that stays has the constraints of both. *)
LEMMA UnifyInvariant ==
  ASSUME IInv, NEW m \in DOMAIN bounds, NEW n \in DOMAIN bounds, Unify(m, n)
  PROVE  IInv'
<1> DEFINE ok == InTables(bounds[m].upper, bounds[n].upper) /\ InTables(bounds[m].lower, bounds[n].lower)
           c == Operate(bounds[m], bounds[n])
<1>1. CASE ~ok
  <2>1. /\ pc = "label" /\ relation \in Relations /\ TablesInv
        /\ \A k \in {m, n} : IsLabel(bounds[k], uppers[k], lowers[k])
    BY DEF IInv, TypeOK, LabelsInv, Unify, Relations
  <2>2. ASSUME IsLatticeDefinition(relation) PROVE FALSE
    <3>1. \A k \in {m, n} : {bounds[k].upper, bounds[k].lower} \subseteq DOMAIN lessThan
      <4>1. \A k \in {m, n} : InTables(bounds[k].upper, bounds[k].lower)
        BY <2>1, <2>2, LatticeIsInTables
      <4> QED BY <2>1, <4>1, InTablesMentioned
    <3>2. DOMAIN joinTable = (DOMAIN lessThan) \X (DOMAIN lessThan)
      BY <2>1, TablesGiveBounds
    <3> QED BY <1>1, <3>1, <3>2 DEF InTables
  <2> QED BY <1>1, <2>2, PanicInvariant DEF Unify
<1>2. CASE ok
  <2>1. /\ pc = "label" /\ relation \in Relations /\ TablesInv /\ TypeOK /\ m # n
        /\ \A k \in DOMAIN bounds :
             /\ bounds[k] \in Bounds /\ uppers[k] \in SUBSET Handles /\ lowers[k] \in SUBSET Handles
             /\ IsLabel(bounds[k], uppers[k], lowers[k])
        /\ DOMAIN uppers = DOMAIN bounds /\ DOMAIN lowers = DOMAIN bounds
    BY DEF IInv, TypeOK, LabelsInv, Unify, Relations
  <2>2. /\ bounds' = [k \in DOMAIN bounds \ {m} |-> IF k = n THEN c ELSE bounds[k]]
        /\ uppers' = [k \in DOMAIN uppers \ {m} |-> IF k = n THEN uppers[m] \cup uppers[n] ELSE uppers[k]]
        /\ lowers' = [k \in DOMAIN lowers \ {m} |-> IF k = n THEN lowers[m] \cup lowers[n] ELSE lowers[k]]
        /\ UNCHANGED <<pc, relation, additional, joinTable, meetTable, lessThan>>
    BY <1>2 DEF Unify, tables
  <2>3. c \in Bounds /\ IsLabel(c, uppers[m] \cup uppers[n], lowers[m] \cup lowers[n])
    BY <1>2, <2>1, OperateKeepsLabel
  <2>4. ASSUME NEW k \in DOMAIN bounds'
        PROVE  /\ k \in DOMAIN bounds /\ bounds'[k] \in Bounds
               /\ uppers'[k] \in SUBSET Handles /\ lowers'[k] \in SUBSET Handles
               /\ IsLabel(bounds'[k], uppers'[k], lowers'[k])
    <3>1. CASE k = n
      BY <2>1, <2>2, <2>3, <3>1
    <3>2. CASE k # n
      <4>1. k \in DOMAIN bounds /\ bounds'[k] = bounds[k] /\ lowers'[k] = lowers[k] /\ uppers'[k] = uppers[k]
        BY <2>1, <2>2, <3>2
      <4> QED BY <2>1, <4>1
    <3> QED BY <3>1, <3>2
  <2>5. /\ bounds' \in [DOMAIN bounds' -> Bounds]
        /\ uppers' \in [DOMAIN bounds' -> SUBSET Handles]
        /\ lowers' \in [DOMAIN bounds' -> SUBSET Handles]
    BY <2>1, <2>2, <2>4
  <2>6. TypeOK'
    BY <2>1, <2>2, <2>4, <2>5 DEF TypeOK
  <2>7. LabelsInv'
    BY <2>2, <2>4, LabelsCarryOver
  <2>8. TablesInv' /\ Unlabelled'
    BY <2>1, <2>2, TablesUnchanged DEF tables
  <2> QED BY <2>1, <2>2, <2>6, <2>7, <2>8 DEF IInv, LatticesDoNotPanic
<1> QED BY <1>1, <1>2

(* Every step keeps the invariant. *)
LEMMA NextInvariant == IInv /\ [Next]_vars => IInv'
<1> SUFFICES ASSUME IInv, [Next]_vars PROVE IInv'
  OBVIOUS
<1>1. CASE MergeWithOther
  BY <1>1, MergeInvariant
<1>2. CASE CreateJoinTable
  BY <1>2, JoinTableInvariant
<1>3. CASE CreateMeetTable
  BY <1>3, MeetTableInvariant
<1>4. CASE CreateLessThanSets
  BY <1>4, LessThanSetsInvariant
<1>5. ASSUME NEW n \in DOMAIN bounds, NEW x \in Handles, LabelLower(n, x) \/ LabelUpper(n, x)
      PROVE  IInv'
  BY <1>5, LabelLowerInvariant, LabelUpperInvariant
<1>6. ASSUME NEW m \in DOMAIN bounds, NEW n \in DOMAIN bounds, Unify(m, n)
      PROVE  IInv'
  BY <1>6, UnifyInvariant
<1>7. CASE UNCHANGED vars
  <2>1. UNCHANGED <<relation, additional, joinTable, meetTable, lessThan, bounds, uppers, lowers, pc>>
    BY <1>7 DEF vars
  <2>2. TypeOK' /\ Unlabelled'
    BY <2>1 DEF IInv, TypeOK, Unlabelled
  <2>3. TablesInv'
    BY <2>1 DEF IInv, TablesInv
  <2>4. LabelsInv'
    <3>1. CASE pc = "label"
      <4>1. \A n \in DOMAIN bounds' : IsLabel(bounds'[n], uppers'[n], lowers'[n])
        BY <2>1, <3>1 DEF IInv, LabelsInv
      <4> QED BY <2>1, <4>1, LabelsCarryOver
    <3>2. CASE pc # "label"
      BY <2>1, <3>2 DEF LabelsInv
    <3> QED BY <3>1, <3>2
  <2>5. LatticesDoNotPanic'
    BY <2>1, PanicCarriesOver DEF IInv, LatticesDoNotPanic
  <2> QED BY <2>2, <2>3, <2>4, <2>5 DEF IInv
<1> QED BY <1>1, <1>2, <1>3, <1>4, <1>5, <1>6, <1>7 DEF Next

(* The tables and the labels of every reachable state are as they should be. *)
LEMMA InvariantHolds == Spec => []IInv
  BY InitInvariant, NextInvariant, PTL DEF Spec

-----------------------------------------------------------------------------
(* Type correctness of the lattice's tables and of the labels of a sketch's   *)
(* nodes (type_lattice.rs, type_sketch.rs), for every set of definitions.     *)
THEOREM TypeCorrect == Spec => []TypeOK
<1>1. IInv => TypeOK
  BY DEF IInv
<1> QED BY <1>1, InvariantHolds, PTL

(* The expects of create_table, refine_lower, refine_upper and operate never  *)
(* fail for a definition that is a lattice once it is merged: there is a      *)
(* topological order, and every pair that is looked up is in the tables.      *)
THEOREM LatticesDoNotPanicHolds == Spec => []LatticesDoNotPanic
<1>1. IInv => LatticesDoNotPanic
  BY DEF IInv
<1> QED BY <1>1, InvariantHolds, PTL

(* create_table finds the least upper and the greatest lower bound of every   *)
(* pair, in every finite lattice and whatever order toposort returns.         *)
THEOREM TablesExactHolds == Spec => []TablesAreExact
<1>1. IInv => TablesAreExact
  <2> SUFFICES ASSUME IInv, pc = "label", IsLattice
               PROVE  \A x, y \in DOMAIN lessThan :
                        IsLub(joinTable[<<x, y>>], {x, y}) /\ IsGlb(meetTable[<<x, y>>], {x, y})
    BY DEF TablesAreExact
  <2>1. relation \in Relations /\ TablesInv
    BY DEF IInv, TypeOK, Relations
  <2> QED BY <2>1, TablesGiveBounds
<1> QED BY <1>1, InvariantHolds, PTL

(* refine_lower, refine_upper and operate never lose a bound, not even when   *)
(* the merged definitions form no lattice.                                    *)
THEOREM BoundsSoundHolds == Spec => []BoundsSound
<1>1. IInv => BoundsSound
  BY DEF IInv, LabelsInv, IsLabel, BoundsSound
<1> QED BY <1>1, InvariantHolds, PTL

(* In a lattice a node's bounds are the meet and the join of all that it was  *)
(* labelled with, whatever the order of label_by and of the unions of nodes.  *)
THEOREM BoundsExactHolds == Spec => []BoundsExact
<1>1. IInv => BoundsExact
  BY DEF IInv, LabelsInv, IsLabel, BoundsExact
<1> QED BY <1>1, InvariantHolds, PTL
=============================================================================
