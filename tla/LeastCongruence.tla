-------------------------- MODULE LeastCongruence --------------------------
(***************************************************************************)
(* What generate_quotient_groups promises: given a labelled graph and pairs *)
(* of nodes to unify, the finest grouping of the nodes that unifies the     *)
(* pairs and is a congruence, i.e. groups the targets of edges with the     *)
(* same label (a load and a store count as the same) whenever it groups     *)
(* their sources.                                                           *)
(***************************************************************************)
EXTENDS FiniteSets, FiniteSetsExt

CONSTANTS Load, Store  \* the two labels a pointer's contents are reached by

VARIABLES nodes, edges, unions, groups, computed

absVars == <<nodes, edges, unions, groups, computed>>

-----------------------------------------------------------------------------
\* A grouping is a set of groups.
IsPartition(P, N) ==
  /\ UNION P = N
  /\ \A A, B \in P : A # B => A \cap B = {}
  /\ {} \notin P

Same(P, a, b) == \E A \in P : a \in A /\ b \in A

Refines(P, Q) == \A A \in P : \E B \in Q : A \subseteq B

\* get_edge_set: the pairs of edges that imply each other's unification.
Implications(E) ==
  {i \in E \X E : i[1].label = i[2].label \/ (i[1].label = Load /\ i[2].label = Store)}

\* A congruence on the nodes N of a graph with the edges E that unifies U.
Congruent(P, N, E, U) ==
  /\ IsPartition(P, N)
  /\ \A u \in U : Same(P, u[1], u[2])
  /\ \A i \in Implications(E) :
       Same(P, i[1].src, i[2].src) => Same(P, i[1].dst, i[2].dst)

\* All the groupings of N, one element placed after the other.
Partitions(N) ==
  LET place(n, Ps) ==
        {P \cup {{n}} : P \in Ps}
          \cup UNION {{(P \ {A}) \cup {A \cup {n}} : A \in P} : P \in Ps}
  IN  FoldSet(place, {{}}, N)

IsLeastCongruence(P) ==
  /\ Congruent(P, nodes, edges, unions)
  /\ \A Q \in Partitions(nodes) : Congruent(Q, nodes, edges, unions) => Refines(P, Q)

-----------------------------------------------------------------------------
AbsInit == groups = {} /\ computed = FALSE

Compute ==
  /\ ~computed /\ computed' = TRUE
  /\ IsLeastCongruence(groups')
  /\ UNCHANGED <<nodes, edges, unions>>

AbsSpec == AbsInit /\ [][Compute]_absVars
=============================================================================
