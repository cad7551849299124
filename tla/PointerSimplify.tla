--------------------------- MODULE PointerSimplify ---------------------------
(***************************************************************************)
(* simplify_pointers of solver/type_sketch.rs: x.+40.load.@0 is written     *)
(* x.load.@40, by moving the displacement that leads to a pointer into the  *)
(* fields of what it points to and unifying the pointer with the variables  *)
(* it is displaced from.                                                    *)
(*                                                                          *)
(* A label is a pair of a kind ("add", "field", "load", "store", "in" or    *)
(* "out") and a number: displacement, offset or index; all fields have one  *)
(* size.  The graph is a quotient, as the builder and refine_formals leave  *)
(* it.  The code transforms the qualifying node with the least index; node  *)
(* indices depend on the order of the quotient's groups, so any may be it.  *)
(***************************************************************************)
EXTENDS SketchOps, Integers

CONSTANT Graphs    \* sketch graphs, deterministic, with keys

FieldLabels == {"add", "field", "load", "store", "in", "out"} \X Int

IsSketchGraph(s) ==
  /\ {"nodes", "edges", "weight", "keys"} \subseteq DOMAIN s
  /\ IsFiniteSet(s.nodes) /\ s.nodes \subseteq Nat
  /\ s.edges \subseteq s.nodes \X FieldLabels \X s.nodes
  /\ \A k \in DOMAIN s.keys : s.keys[k] \in s.nodes

ASSUME GraphsAssumption == \A s \in Graphs : IsSketchGraph(s)

VARIABLE g

-----------------------------------------------------------------------------
Kind(e) == e[2][1]
Number(e) == e[2][2]

In(s, n) == {e \in s.edges : e[3] = n}

\* is_pointer
IsPointer(s, n) ==
  /\ EdgesOut(s, n) # {}
  /\ \A e \in EdgesOut(s, n) : Kind(e) \in {"load", "store"}

\* is_structure
IsStructure(s, n) ==
  /\ EdgesOut(s, n) # {}
  /\ \A e \in EdgesOut(s, n) : Kind(e) = "field"

Children(s, n) == {e[3] : e \in EdgesOut(s, n)}

\* source_edges and target_field_edges of node_to_pointer_transform
SourceEdges(s, p) == {e \in In(s, p) : Kind(e) = "add"}
TargetFieldEdges(s, p) == UNION {EdgesOut(s, c) : c \in Children(s, p)}

\* find_pointer_simplification: the nodes it may return.
Simplifiable(s) ==
  {p \in s.nodes : /\ IsPointer(s, p)
                   /\ \A c \in Children(s, p) : IsStructure(s, c)
                   /\ SourceEdges(s, p) # {}}

\* Faulty: the fields keep their offsets.
UnshiftedEdges(s, p) ==
  {<<e[1], <<"field", Number(e)>>, e[3]>> : e \in TargetFieldEdges(s, p)}

RemovedEdges(s, p) == SourceEdges(s, p) \cup TargetFieldEdges(s, p)

\* The new field edges of apply_pointer_transform.
NewEdges(s, p) ==
  {<<x[1][1], <<"field", Number(x[1]) + Number(x[2])>>, x[1][3]>> :
     x \in TargetFieldEdges(s, p) \X SourceEdges(s, p)}

\* init_unions and the quotient: the pointer and its sources become one.
Grouped(s, p) ==
  LET group == {p} \cup {e[1] : e \in SourceEdges(s, p)}
      keep == CHOOSE n \in group : \A m \in group : n <= m
  IN  [n \in s.nodes |-> IF n \in group THEN keep ELSE n]

\* Faulty: the graph it was applied to is not the one that is kept.
TransformedCopy(s, p) == s

\* apply_pointer_transform
Transformed(s, p) ==
  QuotientBy([s EXCEPT !.edges = (@ \ RemovedEdges(s, p)) \cup NewEdges(s, p)],
             Grouped(s, p))

-----------------------------------------------------------------------------
SimplifyInit == g \in Graphs

Transform(p) == p \in Simplifiable(g) /\ g' = Transformed(g, p)

SimplifyNext == \E p \in g.nodes : Transform(p)

SimplifySpec == SimplifyInit /\ [][SimplifyNext]_g /\ WF_g(SimplifyNext)

-----------------------------------------------------------------------------
(* simplify_pointers ends: no transform makes room for more transforms     *)
(* than it uses up.                                                        *)
SimplificationEnds == <>[](Simplifiable(g) = {})

\* Where k leads by at most two displacements, with their sum.
Displaced(s, k) ==
  LET step(D) == D \cup {<<x[2][3], x[1][2] + Number(x[2])>> :
                           x \in {y \in D \X s.edges : y[2][1] = y[1][1] /\ Kind(y[2]) = "add"}}
  IN  step(step({<<s.keys[k], 0>>}))

(* What is at which offset from k, by displacement or in a field: pairs of *)
(* an offset and a key whose value is there.                               *)
Contents(s, k) ==
  UNION {UNION {{<<d[2] + Number(f), other>> : other \in {o \in DOMAIN s.keys : s.keys[o] = f[3]}} :
                  f \in UNION {{f \in EdgesOut(s, e[3]) : Kind(f) = "field"} :
                                 e \in {x \in EdgesOut(s, d[1]) : Kind(x) \in {"load", "store"}}}} :
           d \in Displaced(s, k)}

(* A pointer of which only displacements from somewhere else know, and     *)
(* structures which only it points to.                                     *)
Isolated(s, p) ==
  /\ In(s, p) = SourceEdges(s, p)
  /\ \A c \in Children(s, p) : \A e \in In(s, c) : e[1] = p
  /\ \A k \in DOMAIN s.keys : s.keys[k] \notin {p} \cup Children(s, p)

(* Fields keep their distance from the variables they are displaced from,  *)
(* and no variable loses one, if the pointer is isolated.                  *)
ContentsSurvive ==
  [][\A p \in Simplifiable(g) :
       Isolated(g, p) /\ Transform(p) =>
         \A k \in DOMAIN g.keys : Contents(g, k) \subseteq Contents(g', k)]_g
=============================================================================
