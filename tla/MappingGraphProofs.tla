------------------------- MODULE MappingGraphProofs -------------------------
(***************************************************************************)
(* Proofs about MappingGraph, for any keys, indices, labels and bounds.    *)
(***************************************************************************)
EXTENDS MappingGraph, TLAPS

USE NoIdxAssumption

IInv == TypeOK /\ Consistent

LEMMA InitIInv == Init => IInv
BY DEF Init, IInv, TypeOK, Consistent, TablesAgree, KeysAreLive, EdgesAreLive,
       FreeIsBlank, Weights, Edges

(* The search from S stays in the indices and contains the live part of S. *)
LEMMA ReachContains ==
  ASSUME NEW E, NEW S
  PROVE  /\ Reach(E, S) \subseteq Idx
         /\ \A n \in Idx : n \in S => n \in Reach(E, S)
BY DEF Reach

LEMMA AddNodeIInv ==
  ASSUME IInv, NEW k \in Keys, NEW w \in Weights, AddNode(k, w)
  PROVE  IInv'
<1>1. CASE AddToExisting(k, w)
  BY <1>1 DEF AddToExisting, IInv, TypeOK, Consistent, TablesAgree, KeysAreLive,
              EdgesAreLive, FreeIsBlank, Weights
<1>2. CASE AddFresh(k, w)
  <2>1. PICK nd \in Idx \ live :
          /\ live' = live \cup {nd}
          /\ weight' = [weight EXCEPT ![nd] = w]
          /\ nodes' = [nodes EXCEPT ![k] = nd]
          /\ reprs' = [reprs EXCEPT ![nd] = @ \cup {k}]
    BY <1>2 DEF AddFresh
  <2>2. nodes[k] = NoIdx /\ edges' = edges
    BY <1>2 DEF AddFresh
  <2>3. TypeOK'
    BY <2>1, <2>2 DEF IInv, TypeOK, Weights
  <2>4. TablesAgree'
    BY <2>1, <2>2 DEF IInv, TypeOK, Consistent, TablesAgree, KeysAreLive
  <2>5. KeysAreLive' /\ EdgesAreLive' /\ FreeIsBlank'
    BY <2>1, <2>2 DEF IInv, TypeOK, Consistent, KeysAreLive, EdgesAreLive, FreeIsBlank
  <2> QED  BY <2>3, <2>4, <2>5 DEF IInv, Consistent
<1> QED  BY <1>1, <1>2 DEF AddNode

LEMMA AddEdgeIInv ==
  ASSUME IInv, NEW a \in Idx, NEW b \in Idx, NEW l \in Labels, AddEdge(a, l, b)
  PROVE  IInv'
BY DEF AddEdge, IInv, TypeOK, Consistent, TablesAgree, KeysAreLive, EdgesAreLive,
       FreeIsBlank, Edges

(* What the copying loops of merge_nodes leave: edges between live nodes   *)
(* other than the two that are removed, or the new node.                   *)
LEMMA MergedEdgesType ==
  ASSUME NEW E \in SUBSET Edges, NEW fst \in Idx, NEW snd \in Idx, NEW new \in Idx
  PROVE  /\ MergedEdges(E, fst, snd, new) \subseteq Edges
         /\ \A e \in MergedEdges(E, fst, snd, new) :
              /\ e[1] \notin {fst, snd} /\ e[3] \notin {fst, snd}
              /\ e[1] = new \/ \E f \in E : f[1] = e[1]
              /\ e[3] = new \/ \E f \in E : f[3] = e[3]
<1>1. \A F \in SUBSET Edges, n \in Idx :
        /\ MoveEdges(F, n, new) \subseteq Edges
        /\ \A e \in MoveEdges(F, n, new) :
             /\ e[1] = new \/ \E f \in F : f[1] = e[1]
             /\ e[3] = new \/ \E f \in F : f[3] = e[3]
  BY DEF MoveEdges, CopyIncoming, CopyOutgoing, Incoming, Outgoing, Edges
<1> DEFINE F == MoveEdges(E, fst, new)
           G == MoveEdges(F, snd, new)
<1>2. F \in SUBSET Edges /\ G \in SUBSET Edges
  BY <1>1
<1>3. \A e \in G :
             /\ e[1] = new \/ \E f \in E : f[1] = e[1]
             /\ e[3] = new \/ \E f \in E : f[3] = e[3]
  BY <1>1, <1>2
<1> QED  BY <1>2, <1>3 DEF MergedEdges, WithoutNodes

LEMMA MergeDistinctIInv ==
  ASSUME IInv, NEW fst \in live, NEW snd \in live, MergeDistinct(fst, snd)
  PROVE  IInv'
<1>1. PICK new \in Idx \ live :
        /\ live' = (live \cup {new}) \ {fst, snd}
        /\ weight' = [weight EXCEPT ![new] = weight[fst] \cup weight[snd],
                                    ![fst] = {}, ![snd] = {}]
        /\ edges' = MergedEdges(edges, fst, snd, new)
        /\ nodes' = MergedNodes(fst, snd, new)
        /\ reprs' = MergedReprs(fst, snd, new)
  BY DEF MergeDistinct
<1>2. fst \in Idx /\ snd \in Idx /\ new \in Idx /\ new # fst /\ new # snd
  BY <1>1 DEF IInv, TypeOK
<1>3. TypeOK'
  <2>1. edges' \subseteq Edges
    BY <1>1, <1>2, MergedEdgesType DEF IInv, TypeOK
  <2>2. weight' \in [Idx -> Weights] /\ live' \subseteq Idx
    BY <1>1, <1>2 DEF IInv, TypeOK, Weights
  <2>3. nodes' \in [Keys -> Idx \cup {NoIdx}]
    BY <1>1, <1>2 DEF IInv, TypeOK, MergedNodes
  <2>4. reprs' \in [Idx -> SUBSET Keys]
    <3>1. \A i \in Idx : MergedReprs(fst, snd, new)[i] \in SUBSET Keys
      BY <1>2 DEF IInv, TypeOK, MergedReprs
    <3> QED  BY <3>1, <1>1 DEF MergedReprs
  <2> QED  BY <2>1, <2>2, <2>3, <2>4 DEF TypeOK
<1>4. TablesAgree'
  <2> SUFFICES ASSUME NEW k \in Keys, NEW i \in Idx
               PROVE  nodes'[k] = i <=> k \in reprs'[i]
    BY DEF TablesAgree
  <2>1. reprs[new] = {}
    BY <1>1, <1>2 DEF IInv, TypeOK, Consistent, TablesAgree, KeysAreLive
  <2>2. nodes'[k] = IF k \in reprs[fst] \cup reprs[snd] THEN new ELSE nodes[k]
    BY <1>1 DEF MergedNodes
  <2>3. reprs'[i] = CASE i = new -> reprs[new] \cup reprs[fst] \cup reprs[snd]
                      [] i \in {fst, snd} -> {}
                      [] OTHER -> reprs[i]
    BY <1>1 DEF MergedReprs
  <2>4. \A j \in Idx : nodes[k] = j <=> k \in reprs[j]
    BY DEF IInv, Consistent, TablesAgree
  <2>5. CASE i = new
    BY <2>1, <2>2, <2>3, <2>4, <2>5, <1>2
  <2>6. CASE i # new /\ i \in {fst, snd}
    BY <2>2, <2>3, <2>4, <2>6, <1>2
  <2>7. CASE i # new /\ i \notin {fst, snd}
    BY <2>2, <2>3, <2>4, <2>7, <1>2
  <2> QED  BY <2>5, <2>6, <2>7
<1>5. KeysAreLive'
  BY <1>1, <1>2 DEF IInv, TypeOK, Consistent, TablesAgree, KeysAreLive, MergedNodes
<1>6. EdgesAreLive'
  BY <1>1, <1>2, MergedEdgesType DEF IInv, TypeOK, Consistent, EdgesAreLive
<1>7. FreeIsBlank'
  BY <1>1, <1>2 DEF IInv, TypeOK, Consistent, FreeIsBlank, Weights
<1> QED  BY <1>3, <1>4, <1>5, <1>6, <1>7 DEF IInv, Consistent

LEMMA MergeNodesIInv ==
  ASSUME IInv, NEW k1 \in Keys, NEW k2 \in Keys, MergeNodes(k1, k2)
  PROVE  IInv'
<1>1. ASSUME NEW k \in Keys, NEW i \in live, nodes[k] = NoIdx, AddToGroup(k, i)
      PROVE  IInv'
  <2>1. i \in Idx /\ graph' = graph
    BY <1>1 DEF AddToGroup, IInv, TypeOK
  <2>2. TypeOK'
    BY <1>1, <2>1 DEF AddToGroup, IInv, TypeOK, graph
  <2>3. TablesAgree'
    BY <1>1, <2>1 DEF AddToGroup, IInv, TypeOK, Consistent, TablesAgree
  <2>4. KeysAreLive' /\ EdgesAreLive' /\ FreeIsBlank'
    BY <1>1, <2>1 DEF AddToGroup, IInv, TypeOK, Consistent, KeysAreLive, EdgesAreLive,
                      FreeIsBlank, graph
  <2> QED  BY <2>2, <2>3, <2>4 DEF IInv, Consistent
<1>2. \A k \in Keys : nodes[k] # NoIdx => nodes[k] \in live
  BY DEF IInv, Consistent, KeysAreLive
<1> QED  BY <1>1, <1>2, MergeDistinctIInv DEF MergeNodes

(* Dropping nodes together with their keys keeps the tables right. *)
LEMMA DropIInv ==
  ASSUME IInv, NEW S \in SUBSET Idx, DropNodes(S), TypeOK',
         TablesAgree', \A k \in Keys : nodes'[k] # NoIdx => nodes'[k] = nodes[k] /\ nodes[k] \notin S
  PROVE  IInv'
BY DEF DropNodes, WithoutNodes, IInv, TypeOK, Consistent, KeysAreLive, EdgesAreLive, FreeIsBlank

LEMMA DropType ==
  ASSUME TypeOK, NEW S \in SUBSET Idx, DropNodes(S)
  PROVE  /\ live' \subseteq Idx
         /\ weight' \in [Idx -> Weights]
         /\ edges' \subseteq Edges
BY DEF DropNodes, WithoutNodes, TypeOK, Weights

LEMMA RemoveNodeByIdxIInv ==
  ASSUME IInv, NEW i \in Idx, RemoveNodeByIdx(i)
  PROVE  IInv'
<1>1. DropNodes({i}) /\ TypeOK
  BY DEF RemoveNodeByIdx, IInv
<1>2. TypeOK'
  BY <1>1, DropType DEF RemoveNodeByIdx, TypeOK
<1>3. TablesAgree'
  BY DEF RemoveNodeByIdx, IInv, TypeOK, Consistent, TablesAgree
<1>4. \A k \in Keys : nodes'[k] # NoIdx => nodes'[k] = nodes[k] /\ nodes[k] \notin {i}
  BY DEF RemoveNodeByIdx, IInv, TypeOK, Consistent, TablesAgree
<1> QED  BY <1>1, <1>2, <1>3, <1>4, DropIInv

LEMMA RemoveNodeIInv ==
  ASSUME IInv, NEW k \in Keys, RemoveNode(k)
  PROVE  IInv'
<1>1. /\ nodes[k] \in live /\ nodes[k] \in Idx
      /\ nodes' = [nodes EXCEPT ![k] = NoIdx]
      /\ reprs' = [reprs EXCEPT ![nodes[k]] = @ \ {k}]
  BY DEF RemoveNode, IInv, TypeOK, Consistent, KeysAreLive
<1>2. TablesAgree'
  BY <1>1 DEF IInv, TypeOK, Consistent, TablesAgree
<1>3. nodes' \in [Keys -> Idx \cup {NoIdx}] /\ reprs' \in [Idx -> SUBSET Keys]
  BY <1>1 DEF IInv, TypeOK
<1>4. CASE reprs[nodes[k]] = {k}
  <2>1. DropNodes({nodes[k]}) /\ TypeOK
    BY <1>4 DEF RemoveNode, IInv
  <2>2. TypeOK'
    BY <2>1, <1>1, <1>3, DropType DEF TypeOK
  <2>3. \A j \in Keys : nodes'[j] # NoIdx => nodes'[j] = nodes[j] /\ nodes[j] \notin {nodes[k]}
    BY <1>1, <1>4 DEF IInv, TypeOK, Consistent, TablesAgree
  <2> QED  BY <1>1, <1>2, <2>1, <2>2, <2>3, DropIInv
<1>5. CASE reprs[nodes[k]] # {k}
  <2>1. graph' = graph
    BY <1>5 DEF RemoveNode
  <2> QED
    BY <1>1, <1>2, <1>3, <2>1 DEF graph, IInv, TypeOK, Consistent, KeysAreLive,
                                  EdgesAreLive, FreeIsBlank
<1> QED  BY <1>4, <1>5

LEMMA RemoveUnreachableIInv ==
  ASSUME IInv, RemoveNodesUnreachableFromLabel
  PROVE  IInv'
<1> DEFINE S == live \ Reach(edges, Labelled)
<1>1. S \in SUBSET Idx /\ DropNodes(S) /\ nodes' = nodes /\ reprs' = reprs /\ TypeOK
  BY DEF RemoveNodesUnreachableFromLabel, tables, IInv, TypeOK
<1>2. \A k \in Keys : nodes[k] # NoIdx => nodes[k] \notin S
  <2> SUFFICES ASSUME NEW k \in Keys, nodes[k] # NoIdx
               PROVE  nodes[k] \in Reach(edges, Labelled)
    OBVIOUS
  <2>1. nodes[k] \in Idx /\ nodes[k] \in Labelled
    BY <1>1 DEF TypeOK, Labelled
  <2> QED  BY <2>1, ReachContains
<1>3. TypeOK' /\ TablesAgree'
  BY <1>1, DropType DEF TypeOK, IInv, Consistent, TablesAgree
<1> QED  BY <1>1, <1>2, <1>3, DropIInv

LEMMA ReachableSubgraphIInv ==
  ASSUME IInv, NEW i \in Idx, GetReachableSubgraph(i)
  PROVE  IInv'
<1> DEFINE R == Reach(edges, {i})
           S == live \ R
<1>1. /\ S \in SUBSET Idx /\ DropNodes(S) /\ TypeOK /\ R \subseteq Idx
      /\ nodes' = [k \in Keys |-> IF nodes[k] \in R THEN nodes[k] ELSE NoIdx]
      /\ reprs' = [j \in Idx |-> IF j \in R THEN reprs[j] ELSE {}]
  BY ReachContains DEF GetReachableSubgraph, IInv, TypeOK
<1>2. TypeOK'
  BY <1>1, DropType DEF TypeOK
<1>3. TablesAgree'
  <2> HIDE DEF R
  <2> QED  BY <1>1 DEF IInv, TypeOK, Consistent, TablesAgree
<1>4. \A k \in Keys : nodes'[k] # NoIdx => nodes'[k] = nodes[k] /\ nodes[k] \notin S
  <2> HIDE DEF R
  <2> QED  BY <1>1
<1> QED  BY <1>1, <1>2, <1>3, <1>4, DropIInv

LEMMA QuotientIInv ==
  ASSUME IInv, NEW rep \in [live -> Idx], QuotientGraph(rep)
  PROVE  IInv'
<1>1. QuotientNodes(rep) \in [Keys -> Idx \cup {NoIdx}]
  BY DEF QuotientNodes, IInv, TypeOK, Consistent, KeysAreLive
<1>2. edges' \subseteq Edges /\ EdgesAreLive'
  BY DEF QuotientGraph, QuotientEdges, IInv, TypeOK, Consistent, EdgesAreLive, Edges
<1>3. weight' \in [Idx -> Weights]
  <2>1. \A j \in Idx : UNION {weight[i] : i \in {n \in live : rep[n] = j}} \in SUBSET Bounds
    BY DEF IInv, TypeOK, Weights
  <2> QED  BY <2>1 DEF QuotientGraph, QuotientWeight, Weights
<1>4. FreeIsBlank'
  BY DEF QuotientGraph, QuotientWeight, FreeIsBlank
<1>5. live' \subseteq Idx
  BY DEF QuotientGraph
<1>6. nodes' \in [Keys -> Idx \cup {NoIdx}] /\ reprs' \in [Idx -> SUBSET Keys] /\ TablesAgree'
  BY <1>1 DEF QuotientGraph, GroupsOf, TablesAgree
<1>7. KeysAreLive'
  BY DEF QuotientGraph, QuotientNodes, IInv, TypeOK, Consistent, KeysAreLive
<1> QED  BY <1>2, <1>3, <1>4, <1>5, <1>6, <1>7 DEF IInv, TypeOK, Consistent

LEMMA RelableIInv ==
  ASSUME IInv, NEW m \in [Keys -> live \cup {NoIdx}], RelableRepresentativeNodes(m)
  PROVE  IInv'
BY DEF RelableRepresentativeNodes, GroupsOf, graph, IInv, TypeOK, Consistent, TablesAgree,
       KeysAreLive, EdgesAreLive, FreeIsBlank

LEMMA NextIInv == IInv /\ [Next]_vars => IInv'
<1> SUFFICES ASSUME IInv, [Next]_vars  PROVE IInv'
  OBVIOUS
<1>1. CASE UNCHANGED vars
  BY <1>1 DEF vars, IInv, TypeOK, Consistent, TablesAgree, KeysAreLive, EdgesAreLive, FreeIsBlank
<1>2. CASE Structural
  BY <1>2, AddNodeIInv, AddEdgeIInv, MergeNodesIInv, RemoveNodeIInv, RemoveNodeByIdxIInv,
     RemoveUnreachableIInv, ReachableSubgraphIInv, QuotientIInv DEF Structural
<1>3. CASE Relable
  BY <1>3, RelableIInv DEF Relable
<1> QED  BY <1>1, <1>2, <1>3 DEF Next

(* Type correctness of the graph and its two tables. *)
THEOREM TypeCorrect == Spec => []TypeOK
<1>1. IInv => TypeOK
  BY DEF IInv
<1> QED  BY <1>1, InitIInv, NextIInv, PTL DEF Spec

(* The key table and the group table stay inverse to each other and name   *)
(* live nodes only, whatever sequence of operations runs and whichever     *)
(* freed index the stable graph hands out again.                           *)
THEOREM ConsistencyHolds == Spec => []Consistent
<1>1. IInv => Consistent
  BY DEF IInv
<1> QED  BY <1>1, InitIInv, NextIInv, PTL DEF Spec

-----------------------------------------------------------------------------
(* The action properties.  KeepsEdges and KeepsBounds are the step formulas *)
(* of EdgesSurvive and BoundsSurvive.                                       *)

KeepsEdges ==
  \A k1, k2 \in Keys, l \in Labels :
    HasEdge(k1, l, k2) /\ nodes'[k1] # NoIdx /\ nodes'[k2] # NoIdx
      => HasEdge(k1, l, k2)'

KeepsBounds ==
  \A k \in Keys : nodes[k] # NoIdx /\ nodes'[k] # NoIdx
                    => weight[nodes[k]] \subseteq weight'[nodes'[k]]

(* merge_nodes takes every edge to its image: the image of an edge under   *)
(* the map that sends the two old nodes to the new one is in the result,   *)
(* self loops and edges between the two included.                          *)
LEMMA MergedEdgesImage ==
  ASSUME NEW E \in SUBSET Edges, NEW fst \in Idx, NEW snd \in Idx, NEW new \in Idx,
         new # fst, new # snd,
         NEW e \in E,
         NEW a \in Idx, NEW b \in Idx,
         a = IF e[1] \in {fst, snd} THEN new ELSE e[1],
         b = IF e[3] \in {fst, snd} THEN new ELSE e[3]
  PROVE  <<a, e[2], b>> \in MergedEdges(E, fst, snd, new)
<1> DEFINE F == MoveEdges(E, fst, new)
           G == MoveEdges(F, snd, new)
           mv(n, x) == IF x = n THEN new ELSE x
<1>1. ASSUME NEW D \in SUBSET Edges, NEW n \in Idx, new # n, NEW f \in D
      PROVE  <<mv(n, f[1]), f[2], mv(n, f[3])>> \in MoveEdges(D, n, new)
  <2>1. f = <<f[1], f[2], f[3]>>
    BY DEF Edges
  <2>2. <<mv(n, f[1]), f[2], f[3]>> \in CopyOutgoing(D, n, new)
    BY <2>1 DEF CopyOutgoing, Outgoing
  <2> DEFINE g == <<mv(n, f[1]), f[2], f[3]>>
  <2>3. CASE f[3] = n
    <3>1. g \in Incoming(CopyOutgoing(D, n, new), n)
      BY <2>2, <2>3 DEF Incoming
    <3>2. <<g[1], g[2], new>> \in CopyIncoming(CopyOutgoing(D, n, new), n, new)
      BY <3>1 DEF CopyIncoming
    <3> QED  BY <3>2, <2>3 DEF MoveEdges
  <2>4. CASE f[3] # n
    BY <2>2, <2>4 DEF MoveEdges, CopyIncoming
  <2> QED  BY <2>3, <2>4
<1>2. ASSUME NEW D \in SUBSET Edges, NEW n \in Idx
      PROVE  MoveEdges(D, n, new) \in SUBSET Edges
  BY DEF MoveEdges, CopyIncoming, CopyOutgoing, Incoming, Outgoing, Edges
<1>3. F \in SUBSET Edges /\ <<mv(fst, e[1]), e[2], mv(fst, e[3])>> \in F
  BY <1>1, <1>2
<1>4. <<mv(snd, mv(fst, e[1])), e[2], mv(snd, mv(fst, e[3]))>> \in G
  <2> DEFINE f == <<mv(fst, e[1]), e[2], mv(fst, e[3])>>
  <2>1. f \in F
    BY <1>3
  <2>2. <<mv(snd, f[1]), f[2], mv(snd, f[3])>> \in G
    <3> HIDE DEF F, f
    <3> QED  BY <1>1, <1>3, <2>1
  <2> QED  BY <2>2
<1>5. mv(snd, mv(fst, e[1])) = a /\ mv(snd, mv(fst, e[3])) = b
  OBVIOUS
<1>6. <<a, e[2], b>> \in G
  BY <1>4, <1>5
<1>7. a \notin {fst, snd} /\ b \notin {fst, snd}
  OBVIOUS
<1> QED  BY <1>6, <1>7 DEF MergedEdges, WithoutNodes

LEMMA MergeKeeps ==
  ASSUME IInv, NEW fst \in live, NEW snd \in live, MergeDistinct(fst, snd)
  PROVE  KeepsEdges /\ KeepsBounds
<1>1. PICK new \in Idx \ live :
        /\ weight' = [weight EXCEPT ![new] = weight[fst] \cup weight[snd],
                                    ![fst] = {}, ![snd] = {}]
        /\ edges' = MergedEdges(edges, fst, snd, new)
        /\ nodes' = MergedNodes(fst, snd, new)
  BY DEF MergeDistinct
<1>2. fst \in Idx /\ snd \in Idx /\ new \in Idx /\ new # fst /\ new # snd
  BY <1>1 DEF IInv, TypeOK
<1>3. \A k \in Keys : nodes'[k] = IF nodes[k] \in {fst, snd} THEN new ELSE nodes[k]
  BY <1>1, <1>2 DEF MergedNodes, IInv, TypeOK, Consistent, TablesAgree
<1>4. KeepsEdges
  <2> SUFFICES ASSUME NEW k1 \in Keys, NEW k2 \in Keys, NEW l \in Labels, HasEdge(k1, l, k2)
               PROVE  HasEdge(k1, l, k2)'
    BY DEF KeepsEdges
  <2>1. /\ nodes[k1] \in Idx /\ nodes[k2] \in Idx
        /\ <<nodes[k1], l, nodes[k2]>> \in edges /\ edges \in SUBSET Edges
    BY DEF HasEdge, IInv, TypeOK
  <2>2. nodes'[k1] \in Idx /\ nodes'[k2] \in Idx
    BY <2>1, <1>2, <1>3
  <2>3. <<nodes'[k1], l, nodes'[k2]>> \in edges'
    BY <1>1, <1>2, <1>3, <2>1, <2>2, MergedEdgesImage
  <2> QED  BY <2>2, <2>3 DEF HasEdge
<1>5. KeepsBounds
  BY <1>1, <1>2, <1>3 DEF KeepsBounds, IInv, TypeOK, Consistent, KeysAreLive
<1> QED  BY <1>4, <1>5

LEMMA DropKeeps ==
  ASSUME IInv, NEW S \in SUBSET Idx, DropNodes(S),
         \A k \in Keys : nodes'[k] # NoIdx => nodes'[k] = nodes[k] /\ nodes[k] \notin S
  PROVE  KeepsEdges /\ KeepsBounds
BY DEF DropNodes, WithoutNodes, IInv, TypeOK, KeepsEdges, KeepsBounds, HasEdge

LEMMA QuotientKeeps ==
  ASSUME IInv, NEW rep \in [live -> Idx], QuotientGraph(rep)
  PROVE  KeepsEdges /\ KeepsBounds
<1>1. KeepsEdges
  <2> SUFFICES ASSUME NEW k1 \in Keys, NEW k2 \in Keys, NEW l \in Labels, HasEdge(k1, l, k2)
               PROVE  HasEdge(k1, l, k2)'
    BY DEF KeepsEdges
  <2>1. /\ nodes[k1] \in live /\ nodes[k2] \in live
        /\ nodes'[k1] = rep[nodes[k1]] /\ nodes'[k2] = rep[nodes[k2]]
    BY DEF HasEdge, QuotientGraph, QuotientNodes, IInv, Consistent, KeysAreLive
  <2>2. <<rep[nodes[k1]], l, rep[nodes[k2]]>> \in edges'
    BY DEF HasEdge, QuotientGraph, QuotientEdges
  <2> QED  BY <2>1, <2>2 DEF HasEdge
<1>2. KeepsBounds
  BY DEF KeepsBounds, QuotientGraph, QuotientNodes, QuotientWeight, IInv, TypeOK,
         Consistent, KeysAreLive
<1> QED  BY <1>1, <1>2

LEMMA NextKeeps ==
  ASSUME IInv, Next
  PROVE  UNCHANGED graph \/ (KeepsEdges /\ KeepsBounds)
<1>1. ASSUME NEW k \in Keys, NEW w \in Weights, AddNode(k, w)
      PROVE  KeepsEdges /\ KeepsBounds
  BY <1>1 DEF AddNode, AddToExisting, AddFresh, KeepsEdges, KeepsBounds, HasEdge, IInv,
              TypeOK, Consistent, KeysAreLive, Weights
<1>2. ASSUME NEW a \in Idx, NEW b \in Idx, NEW l \in Labels, AddEdge(a, l, b)
      PROVE  KeepsEdges /\ KeepsBounds
  BY <1>2 DEF AddEdge, KeepsEdges, KeepsBounds, HasEdge
<1>3. ASSUME NEW k1 \in Keys, NEW k2 \in Keys, MergeNodes(k1, k2)
      PROVE  UNCHANGED graph \/ (KeepsEdges /\ KeepsBounds)
  BY <1>3, MergeKeeps DEF MergeNodes, AddToGroup, IInv, Consistent, KeysAreLive
<1>4. ASSUME NEW k \in Keys, RemoveNode(k)
      PROVE  UNCHANGED graph \/ (KeepsEdges /\ KeepsBounds)
  <2>1. CASE reprs[nodes[k]] = {k}
    <3>1. /\ nodes[k] \in Idx /\ DropNodes({nodes[k]})
          /\ nodes' = [nodes EXCEPT ![k] = NoIdx]
      BY <1>4, <2>1 DEF RemoveNode, IInv, TypeOK
    <3>2. \A j \in Keys : nodes'[j] # NoIdx => nodes'[j] = nodes[j] /\ nodes[j] \notin {nodes[k]}
      BY <3>1, <2>1 DEF IInv, TypeOK, Consistent, TablesAgree
    <3> QED  BY <3>1, <3>2, DropKeeps
  <2>2. CASE reprs[nodes[k]] # {k}
    BY <1>4, <2>2 DEF RemoveNode
  <2> QED  BY <2>1, <2>2
<1>5. ASSUME NEW i \in Idx, RemoveNodeByIdx(i)
      PROVE  KeepsEdges /\ KeepsBounds
  <2>1. \A k \in Keys : nodes'[k] # NoIdx => nodes'[k] = nodes[k] /\ nodes[k] \notin {i}
    BY <1>5 DEF RemoveNodeByIdx, IInv, TypeOK, Consistent, TablesAgree
  <2> QED  BY <1>5, <2>1, DropKeeps DEF RemoveNodeByIdx
<1>6. ASSUME RemoveNodesUnreachableFromLabel
      PROVE  KeepsEdges /\ KeepsBounds
  <2> DEFINE S == live \ Reach(edges, Labelled)
  <2>1. \A k \in Keys : nodes[k] # NoIdx => nodes[k] \in Reach(edges, Labelled)
    BY ReachContains DEF Labelled, IInv, TypeOK
  <2>2. DropNodes(S) /\ nodes' = nodes /\ S \in SUBSET Idx
    BY <1>6 DEF RemoveNodesUnreachableFromLabel, tables, IInv, TypeOK
  <2> QED  BY <2>1, <2>2, DropKeeps
<1>7. ASSUME NEW i \in Idx, GetReachableSubgraph(i)
      PROVE  KeepsEdges /\ KeepsBounds
  <2> DEFINE S == live \ Reach(edges, {i})
  <2>1. DropNodes(S) /\ S \in SUBSET Idx
    BY <1>7 DEF GetReachableSubgraph, IInv, TypeOK
  <2>2. \A k \in Keys : nodes'[k] # NoIdx => nodes'[k] = nodes[k] /\ nodes[k] \notin S
    BY <1>7 DEF GetReachableSubgraph
  <2> QED  BY <2>1, <2>2, DropKeeps
<1>8. ASSUME Relable PROVE UNCHANGED graph
  BY <1>8 DEF Relable, RelableRepresentativeNodes
<1>9. ASSUME NEW rep \in [live -> Idx], QuotientGraph(rep)
      PROVE  KeepsEdges /\ KeepsBounds
  BY <1>9, QuotientKeeps
<1> QED
  BY <1>1, <1>2, <1>3, <1>4, <1>5, <1>6, <1>7, <1>8, <1>9 DEF Next, Structural

(* No operation that changes the graph loses an edge between two keys that *)
(* stay in the table.                                                      *)
THEOREM EdgesSurviveHolds == Spec => EdgesSurvive
<1>1. IInv /\ [Next]_vars => [UNCHANGED graph \/ KeepsEdges]_vars
  BY NextKeeps
<1>2. Spec => [][UNCHANGED graph \/ KeepsEdges]_vars
  BY <1>1, InitIInv, NextIInv, PTL DEF Spec
<1> QED  BY <1>2 DEF EdgesSurvive, KeepsEdges

(* Nor a bound that was merged into a key's node. *)
THEOREM BoundsSurviveHolds == Spec => BoundsSurvive
<1>1. IInv /\ [Next]_vars => [UNCHANGED graph \/ KeepsBounds]_vars
  BY NextKeeps
<1>2. Spec => [][UNCHANGED graph \/ KeepsBounds]_vars
  BY <1>1, InitIInv, NextIInv, PTL DEF Spec
<1> QED  BY <1>2 DEF BoundsSurvive, KeepsBounds

-----------------------------------------------------------------------------
(* Groups.  An operation that changes the graph gives the keys of a group   *)
(* that keep a node one node again.                                         *)

KeepsGroups ==
  \A k1, k2 \in Keys :
    nodes[k1] = nodes[k2] /\ nodes'[k1] # NoIdx /\ nodes'[k2] # NoIdx
      => nodes[k1] = NoIdx \/ nodes'[k1] = nodes'[k2]

LEMMA NextKeepsGroups ==
  ASSUME IInv, Next
  PROVE  UNCHANGED graph \/ KeepsGroups
<1>1. ASSUME NEW k \in Keys, NEW w \in Weights, AddNode(k, w)
      PROVE  KeepsGroups
  BY <1>1 DEF AddNode, AddToExisting, AddFresh, KeepsGroups, IInv, TypeOK
<1>2. ASSUME NEW a \in Idx, NEW b \in Idx, NEW l \in Labels, AddEdge(a, l, b)
      PROVE  KeepsGroups
  BY <1>2 DEF AddEdge, KeepsGroups
<1>3. ASSUME NEW k1 \in Keys, NEW k2 \in Keys, MergeNodes(k1, k2)
      PROVE  UNCHANGED graph \/ KeepsGroups
  <2>1. CASE MergeDistinct(nodes[k1], nodes[k2]) /\ nodes[k1] # NoIdx /\ nodes[k2] # NoIdx
    <3>1. PICK new \in Idx \ live : nodes' = MergedNodes(nodes[k1], nodes[k2], new)
      BY <2>1 DEF MergeDistinct
    <3>2. \A k \in Keys : nodes'[k] = IF nodes[k] \in {nodes[k1], nodes[k2]} THEN new ELSE nodes[k]
      BY <2>1, <3>1 DEF MergedNodes, IInv, TypeOK, Consistent, TablesAgree
    <3> QED  BY <3>2 DEF KeepsGroups
  <2> QED  BY <1>3, <2>1 DEF MergeNodes, AddToGroup
<1>4. ASSUME NEW k \in Keys, RemoveNode(k)
      PROVE  KeepsGroups
  BY <1>4 DEF RemoveNode, KeepsGroups, IInv, TypeOK
<1>5. ASSUME RemoveNodesUnreachableFromLabel \/ (\E i \in Idx : GetReachableSubgraph(i))
      PROVE  KeepsGroups
  BY <1>5 DEF RemoveNodesUnreachableFromLabel, GetReachableSubgraph, tables, KeepsGroups
<1>6. ASSUME Relable PROVE UNCHANGED graph
  BY <1>6 DEF Relable, RelableRepresentativeNodes
<1>7. ASSUME NEW rep \in [live -> Idx], QuotientGraph(rep)
      PROVE  KeepsGroups
  BY <1>7 DEF QuotientGraph, QuotientNodes, KeepsGroups
<1>8. ASSUME NEW i \in Idx, RemoveNodeByIdx(i)
      PROVE  KeepsGroups
  BY <1>8 DEF RemoveNodeByIdx, KeepsGroups
<1> QED
  BY <1>1, <1>2, <1>3, <1>4, <1>5, <1>6, <1>7, <1>8 DEF Next, Structural

(* Keys that merge_nodes unified are never pulled apart: as long as both    *)
(* are in the table, they name one node.                                    *)
THEOREM UnificationSurvivesHolds == Spec => UnificationSurvives
<1>1. IInv /\ [Next]_vars => [UNCHANGED graph \/ KeepsGroups]_vars
  BY NextKeepsGroups
<1>2. Spec => [][UNCHANGED graph \/ KeepsGroups]_vars
  BY <1>1, InitIInv, NextIInv, PTL DEF Spec
<1> QED  BY <1>2 DEF UnificationSurvives, KeepsGroups
=============================================================================
