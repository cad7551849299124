---------------------------- MODULE LatticeTables ----------------------------
(***************************************************************************)
(* The type lattice of solver/type_lattice.rs: a definition lists which     *)
(* element is less than which; tables of joins and meets are computed from  *)
(* it with a topological order for each, which depends on hash order.  The  *)
(* bounds of solver/type_sketch.rs are then narrowed with these tables, in  *)
(* the order the constraints and the unions of nodes happen to come in.     *)
(***************************************************************************)
EXTENDS Naturals, Sequences, FiniteSets

CONSTANTS
  Handles,          \* names of lattice elements
  Top, Bottom,      \* top_handle and bottom_handle
  Definitions,      \* the user's definition, and the additional ones
  Nodes,            \* nodes of a sketch graph
  MaxRefinements    \* bound: upper and lower bounds given to a node, its first two included

ASSUME HandlesAssumption ==
  /\ IsFiniteSet(Handles)
  /\ Top \in Handles /\ Bottom \in Handles
  /\ Definitions \subseteq
       [relation : SUBSET (Handles \X Handles), additional : Seq(SUBSET (Handles \X Handles))]

VARIABLES
  relation,      \* less_than_relations_between_handles
  additional,    \* the definitions that are still to be merged
  joinTable,
  meetTable,
  lessThan,      \* orig_relation: what an element is less than
  bounds,        \* LatticeBounds of the nodes
  uppers,        \* history: the upper bounds a node was given
  lowers,        \* history: the lower bounds a node was given
  pc             \* "merge", "meets", "sets", "label" or "panicked"

vars == <<relation, additional, joinTable, meetTable, lessThan, bounds, uppers, lowers, pc>>
tables == <<joinTable, meetTable, lessThan>>
labels == <<bounds, uppers, lowers>>

-----------------------------------------------------------------------------
(* LatticeDefinition *)

\* Nodes of get_lt_graph
Elements(R) == {r[1] : r \in R} \cup {r[2] : r \in R}

\* get_gt_graph
Converse(R) == {<<r[2], r[1]>> : r \in R}

IsClosed(S, R) == \A r \in R : r[1] \in S => r[2] \in S

\* collect_reachable_nds
Reach(R, x) == {y \in Elements(R) : \A S \in SUBSET Elements(R) : x \in S /\ IsClosed(S, R) => y \in S}

\* petgraph::algo::toposort, as positions
Toposorts(R) ==
  {s \in [Elements(R) -> 1 .. Cardinality(Elements(R))] :
     /\ \A x, y \in Elements(R) : s[x] = s[y] => x = y
     /\ \A r \in R : s[r[1]] < s[r[2]]}

\* create_reachable_sets
ReachableSets(R) == [x \in Elements(R) |-> Reach(R, x)]

\* The element of S that comes first
FirstOf(S, s) == CHOOSE z \in S : \A w \in S : s[z] <= s[w]

\* Faulty: an element is not taken to be above itself.
StrictlyShared(reach, p) == (reach[p[1]] \ {p[1]}) \cap (reach[p[2]] \ {p[2]})

\* shared_reachable
Shared(reach, p) == reach[p[1]] \cap reach[p[2]]

\* Faulty: the last common bound in the order.
LastTable(R, reach, s) ==
  [p \in Elements(R) \X Elements(R) |->
     CHOOSE z \in Shared(reach, p) : \A w \in Shared(reach, p) : s[z] >= s[w]]

\* create_table
Table(R, reach, s) == [p \in Elements(R) \X Elements(R) |-> FirstOf(Shared(reach, p), s)]

\* The expects of create_table
HasTable(R, reach) ==
  /\ Toposorts(R) # {}
  /\ \A p \in Elements(R) \X Elements(R) : Shared(reach, p) # {}

-----------------------------------------------------------------------------
(* LatticeBounds *)

\* identity_element
Identity == [upper |-> Top, lower |-> Bottom]

\* "All relations should be defined in table"
InTables(x, y) == <<x, y>> \in DOMAIN joinTable

RefineLowerBound(b, x) == [b EXCEPT !.lower = joinTable[<<b.lower, x>>]]
RefineUpperBound(b, x) == [b EXCEPT !.upper = meetTable[<<b.upper, x>>]]

\* Faulty: the upper bounds of a union are joined.
OperateJoining(right, b) ==
  [upper |-> joinTable[<<right.upper, b.upper>>], lower |-> joinTable[<<right.lower, b.lower>>]]

\* AbstractMagma::operate
Operate(right, b) ==
  [upper |-> meetTable[<<right.upper, b.upper>>], lower |-> joinTable[<<right.lower, b.lower>>]]

-----------------------------------------------------------------------------
Init ==
  /\ \E d \in Definitions : relation = d.relation /\ additional = d.additional
  /\ joinTable = <<>> /\ meetTable = <<>> /\ lessThan = <<>>
  /\ bounds = [n \in Nodes |-> Identity]
  /\ uppers = [n \in Nodes |-> {Top}] /\ lowers = [n \in Nodes |-> {Bottom}]
  /\ pc = "merge"

MergeWithOther ==
  /\ pc = "merge" /\ additional # <<>>
  /\ relation' = relation \cup Head(additional)
  /\ additional' = Tail(additional)
  /\ UNCHANGED <<tables, labels, pc>>

CreateJoinTable ==
  /\ pc = "merge" /\ additional = <<>>
  /\ \E reach \in {ReachableSets(relation)} :
       IF HasTable(relation, reach)
       THEN /\ \E s \in Toposorts(relation) : joinTable' = Table(relation, reach, s)
            /\ pc' = "meets"
       ELSE pc' = "panicked" /\ UNCHANGED joinTable
  /\ UNCHANGED <<relation, additional, meetTable, lessThan, labels>>

\* Faulty: meets are computed with the order of the joins.
MeetTableOfLt ==
  /\ pc = "meets"
  /\ \E gt \in {Converse(relation)} : \E reach \in {ReachableSets(gt)} :
       IF HasTable(gt, reach)
       THEN /\ \E s \in Toposorts(relation) : meetTable' = Table(gt, reach, s)
            /\ pc' = "sets"
       ELSE pc' = "panicked" /\ UNCHANGED meetTable
  /\ UNCHANGED <<relation, additional, joinTable, lessThan, labels>>

CreateMeetTable ==
  /\ pc = "meets"
  /\ \E gt \in {Converse(relation)} : \E reach \in {ReachableSets(gt)} :
       IF HasTable(gt, reach)
       THEN /\ \E s \in Toposorts(gt) : meetTable' = Table(gt, reach, s)
            /\ pc' = "sets"
       ELSE pc' = "panicked" /\ UNCHANGED meetTable
  /\ UNCHANGED <<relation, additional, joinTable, lessThan, labels>>

CreateLessThanSets ==
  /\ pc = "sets"
  /\ lessThan' = ReachableSets(relation)
  /\ pc' = "label"
  /\ UNCHANGED <<relation, additional, joinTable, meetTable, labels>>

\* generate_lattice knows the elements mentioned and the two handles.
Known == Elements(relation) \cup {Top, Bottom}

MayRefine(n) == Cardinality(uppers[n]) + Cardinality(lowers[n]) < MaxRefinements

\* label_by, for a constraint with a lattice element on the left
LabelLower(n, x) ==
  /\ pc = "label" /\ x \in Known /\ MayRefine(n)
  /\ IF InTables(bounds[n].lower, x)
     THEN /\ bounds' = [bounds EXCEPT ![n] = RefineLowerBound(bounds[n], x)]
          /\ lowers' = [lowers EXCEPT ![n] = @ \cup {x}]
          /\ UNCHANGED <<uppers, pc>>
     ELSE pc' = "panicked" /\ UNCHANGED labels
  /\ UNCHANGED <<relation, additional, tables>>

\* label_by, for a constraint with a lattice element on the right
LabelUpper(n, x) ==
  /\ pc = "label" /\ x \in Known /\ MayRefine(n)
  /\ IF InTables(bounds[n].upper, x)
     THEN /\ bounds' = [bounds EXCEPT ![n] = RefineUpperBound(bounds[n], x)]
          /\ uppers' = [uppers EXCEPT ![n] = @ \cup {x}]
          /\ UNCHANGED <<lowers, pc>>
     ELSE pc' = "panicked" /\ UNCHANGED labels
  /\ UNCHANGED <<relation, additional, tables>>

\* The weight of the node two nodes are unified to
Unify(m, n) ==
  /\ pc = "label" /\ m # n
  /\ IF InTables(bounds[m].upper, bounds[n].upper) /\ InTables(bounds[m].lower, bounds[n].lower)
     THEN /\ bounds' = [k \in DOMAIN bounds \ {m} |->
                          IF k = n THEN Operate(bounds[m], bounds[n]) ELSE bounds[k]]
          /\ uppers' = [k \in DOMAIN uppers \ {m} |->
                          IF k = n THEN uppers[m] \cup uppers[n] ELSE uppers[k]]
          /\ lowers' = [k \in DOMAIN lowers \ {m} |->
                          IF k = n THEN lowers[m] \cup lowers[n] ELSE lowers[k]]
          /\ UNCHANGED pc
     ELSE pc' = "panicked" /\ UNCHANGED labels
  /\ UNCHANGED <<relation, additional, tables>>

Next ==
  \/ MergeWithOther
  \/ CreateJoinTable \/ CreateMeetTable \/ CreateLessThanSets
  \/ \E n \in DOMAIN bounds, x \in Handles : LabelLower(n, x) \/ LabelUpper(n, x)
  \/ \E m, n \in DOMAIN bounds : Unify(m, n)

Spec == Init /\ [][Next]_vars

-----------------------------------------------------------------------------
(* What a table and a bound should be. *)

Leq(x, y) == y \in lessThan[x]

IsLub(z, S) ==
  /\ z \in DOMAIN lessThan
  /\ \A x \in S : Leq(x, z)
  /\ \A w \in DOMAIN lessThan : (\A x \in S : Leq(x, w)) => Leq(z, w)

IsGlb(z, S) ==
  /\ z \in DOMAIN lessThan
  /\ \A x \in S : Leq(z, x)
  /\ \A w \in DOMAIN lessThan : (\A x \in S : Leq(w, x)) => Leq(w, z)

HandlesMentioned == {Top, Bottom} \subseteq DOMAIN lessThan

IsLattice ==
  /\ HandlesMentioned
  /\ \A x, y \in DOMAIN lessThan :
       /\ Leq(x, Top) /\ Leq(Bottom, x)
       /\ \E z \in DOMAIN lessThan : IsLub(z, {x, y})
       /\ \E z \in DOMAIN lessThan : IsGlb(z, {x, y})

\* The same of a relation whose tables do not exist.
IsLatticeDefinition(R) ==
  LET E == Elements(R)
      leq == {p \in E \X E : p[2] \in Reach(R, p[1])}
      above(x, y) == {z \in E : <<x, z>> \in leq /\ <<y, z>> \in leq}
      below(x, y) == {z \in E : <<z, x>> \in leq /\ <<z, y>> \in leq}
  IN  /\ {Top, Bottom} \subseteq E
      /\ \A x, y \in E :
           /\ <<x, x>> \notin R
           /\ <<x, Top>> \in leq /\ <<Bottom, x>> \in leq
           /\ <<x, y>> \in leq /\ <<y, x>> \in leq => x = y
           /\ \E z \in above(x, y) : \A w \in above(x, y) : <<z, w>> \in leq
           /\ \E z \in below(x, y) : \A w \in below(x, y) : <<w, z>> \in leq

Bounds == [upper : Handles, lower : Handles]

TypeOK ==
  /\ relation \in SUBSET (Handles \X Handles)
  /\ additional \in Seq(SUBSET (Handles \X Handles))
  /\ DOMAIN bounds \subseteq Nodes
  /\ bounds \in [DOMAIN bounds -> Bounds]
  /\ uppers \in [DOMAIN bounds -> SUBSET Handles]
  /\ lowers \in [DOMAIN bounds -> SUBSET Handles]
  /\ pc \in {"merge", "meets", "sets", "label", "panicked"}

(* No expect on the tables fails for a definition that is a complete lattice  *)
(* once all definitions are merged: not in create_table, nor in a later join  *)
(* or meet.                                                                   *)
LatticesDoNotPanic == pc = "panicked" => ~IsLatticeDefinition(relation)

(* Whatever topological orders create_table was given, its first shared       *)
(* element is the least upper and the greatest lower bound of a pair.         *)
TablesAreExact ==
  pc = "label" /\ IsLattice =>
    \A x, y \in DOMAIN lessThan :
      IsLub(joinTable[<<x, y>>], {x, y}) /\ IsGlb(meetTable[<<x, y>>], {x, y})

(* A node's bounds respect every constraint it was labelled with, also after  *)
(* it was unified with others and when the definition is no lattice.          *)
BoundsSound ==
  pc = "label" /\ HandlesMentioned =>
    \A n \in DOMAIN bounds :
      /\ \A x \in uppers[n] : Leq(bounds[n].upper, x)
      /\ \A x \in lowers[n] : Leq(x, bounds[n].lower)

(* The bounds of a node are the tightest its constraints allow: they do not   *)
(* depend on the order in which label_by and the unions of nodes met them.    *)
BoundsExact ==
  pc = "label" /\ IsLattice =>
    \A n \in DOMAIN bounds :
      IsGlb(bounds[n].upper, uppers[n]) /\ IsLub(bounds[n].lower, lowers[n])
=============================================================================
