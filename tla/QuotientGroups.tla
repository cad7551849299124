--------------------------- MODULE QuotientGroups ---------------------------
(***************************************************************************)
(* generate_quotient_groups of solver/type_sketch.rs: the union-find loop   *)
(* that decides which nodes of a sketch graph become one, on the graph that *)
(* SketchBuilder makes of a constraint set.                                 *)
(*                                                                          *)
(* A node of the fresh graph is the derived type variable it was added for. *)
(* The union-find structure is the set of its groups.  A round of the loop  *)
(* visits the edge implications in the order of a hash set: one whose       *)
(* sources were already grouped when the round began is always consumed,    *)
(* one whose sources are grouped during the round only if it comes later.   *)
(***************************************************************************)
EXTENDS SketchLabels, Naturals, Sequences, FiniteSets

CONSTANTS
  Vars,            \* base type variables
  Labels,          \* field labels
  ConstraintSets   \* the constraint sets sketches are built of

DerivedTypeVars == [base : Vars, path : Seq(Labels)]
SubtypeConstraints == [lhs : DerivedTypeVars, rhs : DerivedTypeVars]

ASSUME QuotientAssumption ==
  \A cons \in ConstraintSets : cons \subseteq SubtypeConstraints

VARIABLES
  nodes, edges,    \* the graph
  unions,          \* initial_unions
  toUnite,         \* those of unions that are still to be applied
  groups,          \* cons, the union-find structure
  prevGroups,      \* prev_labeling
  implications,    \* edge_implications
  pc               \* "unite", "round" or "done"

vars == <<nodes, edges, unions, toUnite, groups, prevGroups, implications, pc>>
grph == <<nodes, edges, unions>>

Result == IF pc = "done" THEN groups ELSE {}
Abs == INSTANCE LeastCongruence WITH groups <- Result, computed <- (pc = "done")

-----------------------------------------------------------------------------
(* insert_dtv: a node per prefix of the path, an edge per label. *)

Prefix(d, k) == [base |-> d.base, path |-> SubSeq(d.path, 1, k)]
DtvNodes(d) == {Prefix(d, k) : k \in 0..Len(d.path)}
DtvEdge(d, k) == [src |-> Prefix(d, k-1), label |-> d.path[k], dst |-> Prefix(d, k)]
DtvEdges(d) == {DtvEdge(d, k) : k \in 1..Len(d.path)}

DtvsOf(cons) == {c.lhs : c \in cons} \cup {c.rhs : c \in cons}
GraphNodes(cons) == UNION {DtvNodes(d) : d \in DtvsOf(cons)}
GraphEdges(cons) == UNION {DtvEdges(d) : d \in DtvsOf(cons)}
InitialUnions(cons) == {<<c.lhs, c.rhs>> : c \in cons}

Singletons(N) == {{n} : n \in N}

InitFrom(cons) ==
  /\ nodes = GraphNodes(cons)
  /\ edges = GraphEdges(cons)
  /\ unions = InitialUnions(cons)
  /\ toUnite = InitialUnions(cons)
  /\ groups = Singletons(GraphNodes(cons))
  /\ prevGroups = Singletons(GraphNodes(cons))
  /\ implications = Abs!Implications(GraphEdges(cons))
  /\ pc = "unite"

Init == \E cons \in ConstraintSets : InitFrom(cons)

-----------------------------------------------------------------------------
\* UnionFind::union
Union(P, a, b) ==
  {A \in P : a \notin A /\ b \notin A} \cup {UNION {A \in P : a \in A \/ b \in A}}

Unite(u) ==
  /\ pc = "unite" /\ u \in toUnite
  /\ groups' = Union(groups, u[1], u[2])
  /\ toUnite' = toUnite \ {u}
  /\ UNCHANGED <<nodes, edges, unions, prevGroups, implications, pc>>

FirstRound ==
  /\ pc = "unite" /\ toUnite = {}
  /\ prevGroups' = groups
  /\ pc' = "round"
  /\ UNCHANGED <<nodes, edges, unions, toUnite, groups, implications>>

\* The implication's sources are equivalent, so its targets must be.
Applies(P, i) == Abs!Same(P, i[1].src, i[2].src)

\* Faulty: drops the implications that do not apply yet.
Drain(i) ==
  /\ pc = "round" /\ i \in implications
  /\ implications' = implications \ {i}
  /\ groups' = IF Applies(groups, i) THEN Union(groups, i[1].dst, i[2].dst) ELSE groups
  /\ UNCHANGED <<nodes, edges, unions, toUnite, prevGroups, pc>>

Consume(i) ==
  /\ pc = "round" /\ i \in implications
  /\ Applies(groups, i)
  /\ implications' = implications \ {i}
  /\ groups' = Union(groups, i[1].dst, i[2].dst)
  /\ UNCHANGED <<nodes, edges, unions, toUnite, prevGroups, pc>>

\* Every implication that applied when the round began has been visited.
RoundOver == pc = "round" /\ \A i \in implications : ~Applies(prevGroups, i)

\* Faulty: compares with the labels before the first round for ever.
NextRoundUnsaved ==
  /\ RoundOver /\ groups # prevGroups
  /\ UNCHANGED vars

NextRound ==
  /\ RoundOver /\ groups # prevGroups
  /\ prevGroups' = groups
  /\ UNCHANGED <<nodes, edges, unions, toUnite, groups, implications, pc>>

Finish ==
  /\ RoundOver /\ groups = prevGroups
  /\ pc' = "done"
  /\ UNCHANGED <<nodes, edges, unions, toUnite, groups, prevGroups, implications>>

Next ==
  \/ \E u \in toUnite : Unite(u)
  \/ FirstRound
  \/ \E i \in implications : Consume(i)
  \/ NextRound
  \/ Finish

Spec == Init /\ [][Next]_vars
FairSpec == Spec /\ WF_vars(Next)

-----------------------------------------------------------------------------
TypeOK ==
  /\ Abs!IsPartition(groups, nodes)
  /\ Abs!IsPartition(prevGroups, nodes)
  /\ toUnite \subseteq unions
  /\ unions \subseteq nodes \X nodes
  /\ \A e \in edges : e.src \in nodes /\ e.dst \in nodes
  /\ implications \subseteq Abs!Implications(edges)
  /\ pc \in {"unite", "round", "done"}

(* The loop may stop when a round changes no label, although implications   *)
(* enabled late in a round were not consumed in it: the groups are then     *)
(* closed under every implication, the consumed and the remaining ones.     *)
ClosedWhenDone == pc = "done" => Abs!Congruent(groups, nodes, edges, unions)

(* At every moment, whatever the order of the hash set, two nodes are in a  *)
(* group only if every congruence that honours the constraints groups them. *)
OnlyForced ==
  \A Q \in Abs!Partitions(nodes) :
    Abs!Congruent(Q, nodes, edges, unions) => Abs!Refines(groups, Q)

(* The loop computes the least congruence in one abstract step. *)
ComputesLeastCongruence == Abs!AbsSpec

(* The loop ends. *)
Terminates == <>(pc = "done")
=============================================================================
