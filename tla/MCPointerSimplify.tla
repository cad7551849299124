------------------------- MODULE MCPointerSimplify -------------------------
(* Variables x (node 1), y (node 5) and the value t (node 4); a pointer 2  *)
(* to a structure 3, perhaps displaced from x, y or both, perhaps loaded   *)
(* through by x or y as well, known by a key p or not.                     *)
EXTENDS PointerSimplify, FiniteSetsExt

CONSTANT MaxEdges

MCLoad == <<"load", 0>>
MCStore == <<"store", 0>>
MCTop == {}

Add(d) == <<"add", d>>
Fld(o) == <<"field", o>>

Candidates ==
  {<<1, Add(8), 2>>, <<1, Add(4), 5>>, <<5, Add(4), 2>>, <<2, Add(4), 2>>,
   <<2, MCLoad, 3>>, <<2, MCStore, 3>>, <<5, MCLoad, 3>>, <<1, MCLoad, 3>>,
   <<3, Fld(0), 4>>, <<3, Fld(4), 4>>, <<3, Fld(8), 5>>, <<3, Fld(0), 2>>,
   <<4, MCLoad, 3>>, <<4, Fld(0), 2>>, <<1, Fld(0), 2>>}

EdgeSets ==
  {E \in UNION {kSubset(n, Candidates) : n \in 3 .. MaxEdges} :
     /\ \A e, f \in E : e[1] = f[1] /\ SameLabel(e[2], f[2]) => e[3] = f[3]
     /\ <<2, MCLoad, 3>> \in E}

SketchGraph(E, keys) ==
  [nodes |-> 1 .. 5, edges |-> E, weight |-> [n \in 1 .. 5 |-> Identity], keys |-> keys]

MCGraphs ==
  {SketchGraph(E, [k \in K |-> CASE k = "x" -> 1 [] k = "y" -> 5 [] k = "t" -> 4 [] k = "p" -> 2]) :
     E \in EdgeSets, K \in {{"x", "t"}, {"x", "y", "t"}, {"x", "y", "t", "p"}}}
=============================================================================
