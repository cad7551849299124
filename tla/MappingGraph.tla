---------------------------- MODULE MappingGraph ----------------------------
(***************************************************************************)
(* The keyed graph of graph_algos/mapping_graph.rs on which every sketch   *)
(* lives: a petgraph StableDiGraph with weighted nodes and labelled edges, *)
(* a lookup table from keys (derived type variables) to node indices, and  *)
(* the inverse table from a node index to the group of keys it represents. *)
(*                                                                         *)
(* A node index is a plain number into the stable graph.  Removing a node  *)
(* frees its index and a later add_node may hand the same index out again, *)
(* so a table entry that outlives its node silently names another node.    *)
(*                                                                         *)
(* A node weight is the set of bounds merged into the node; the magma      *)
(* operator of the code (meet of uppers, join of lowers) becomes union.    *)
(* Parallel edges with one label are not told apart: add_edge refuses      *)
(* them.                                                                   *)
(***************************************************************************)
EXTENDS FiniteSets, Naturals

CONSTANTS
  Keys,      \* the keys N (derived type variables)
  Idx,       \* the node indices petgraph can hand out
  Labels,    \* the edge weights E (field labels)
  Bounds,    \* the atoms of the node weights W
  NoIdx,     \* a key that is not in the table
  MaxEdges   \* bound on the edges AddEdge builds

ASSUME NoIdxAssumption == NoIdx \notin Idx
ASSUME MaxEdgesAssumption == MaxEdges \in Nat

VARIABLES
  live,      \* the indices of the graph's nodes
  weight,    \* node weights ({} for an index that is not live)
  edges,     \* triples <<source, label, target>>
  nodes,     \* key -> index, NoIdx when the key is absent
  reprs      \* index -> group of keys, {} when the entry is absent

vars == <<live, weight, edges, nodes, reprs>>
graph == <<live, weight, edges>>
tables == <<nodes, reprs>>

Weights == SUBSET Bounds
Edges == Idx \X Labels \X Idx

TypeOK ==
  /\ live \subseteq Idx
  /\ weight \in [Idx -> Weights]
  /\ edges \subseteq Edges
  /\ nodes \in [Keys -> Idx \cup {NoIdx}]
  /\ reprs \in [Idx -> SUBSET Keys]

-----------------------------------------------------------------------------
(* The stable graph (petgraph). *)

\* StableDiGraph::remove_node: the node goes with every edge that touches it.
WithoutNodes(E, S) == {e \in E : e[1] \notin S /\ e[3] \notin S}

\* Edge lists of one node, as edges_directed returns them.
Outgoing(E, n) == {e \in E : e[1] = n}
Incoming(E, n) == {e \in E : e[3] = n}

ClosedUnder(E, C) == \A e \in E : e[1] \in C => e[3] \in C

\* Everything a depth-first search visits when it starts from the stack S.
Reach(E, S) ==
  {n \in Idx : \A C \in SUBSET Idx : S \subseteq C /\ ClosedUnder(E, C) => n \in C}

\* The group table that belongs to a key table.
GroupsOf(m) == [i \in Idx |-> {k \in Keys : m[k] = i}]

Labelled == {nodes[k] : k \in Keys} \ {NoIdx}

-----------------------------------------------------------------------------
Init ==
  /\ live = {}
  /\ weight = [i \in Idx |-> {}]
  /\ edges = {}
  /\ nodes = [k \in Keys |-> NoIdx]
  /\ reprs = [i \in Idx |-> {}]

\* Faulty: the new weight replaces the old one.
OverwriteExisting(key, w) ==
  /\ nodes[key] # NoIdx
  /\ weight' = [weight EXCEPT ![nodes[key]] = w]
  /\ UNCHANGED <<live, edges, nodes, reprs>>

(* add_node: merge the weight into the key's node, or make a node for it. *)
AddToExisting(key, w) ==
  /\ nodes[key] # NoIdx
  /\ weight' = [weight EXCEPT ![nodes[key]] = @ \cup w]
  /\ UNCHANGED <<live, edges, nodes, reprs>>

AddFresh(key, w) ==
  /\ nodes[key] = NoIdx
  /\ \E nd \in Idx \ live :
       /\ live' = live \cup {nd}
       /\ weight' = [weight EXCEPT ![nd] = w]
       /\ nodes' = [nodes EXCEPT ![key] = nd]
       /\ reprs' = [reprs EXCEPT ![nd] = @ \cup {key}]
  /\ UNCHANGED edges

AddNode(key, w) == AddToExisting(key, w) \/ AddFresh(key, w)

AddEdge(a, l, b) ==
  /\ a \in live /\ b \in live
  /\ Cardinality(edges) < MaxEdges
  /\ edges' = edges \cup {<<a, l, b>>}
  /\ UNCHANGED <<live, weight, nodes, reprs>>

-----------------------------------------------------------------------------
(* merge_nodes.  The four loops run one after the other and each of them   *)
(* re-reads the edge list of the graph the earlier loops have extended.    *)

CopyOutgoing(E, from, to) == E \cup {<<to, e[2], e[3]>> : e \in Outgoing(E, from)}

CopyIncoming(E, from, to) == E \cup {<<e[1], e[2], to>> : e \in Incoming(E, from)}

\* Faulty: both loops read the edges as they were, so a self loop is lost.
MoveEdgesOfSnapshot(E, n, new) == CopyOutgoing(E, n, new) \cup CopyIncoming(E, n, new)

MoveEdges(E, n, new) == CopyIncoming(CopyOutgoing(E, n, new), n, new)

MergedEdges(E, fst, snd, new) ==
  WithoutNodes(MoveEdges(MoveEdges(E, fst, new), snd, new), {fst, snd})

\* update_all_children_of_idx_to, for both old nodes.
MergedNodes(fst, snd, new) ==
  [k \in Keys |-> IF k \in reprs[fst] \cup reprs[snd] THEN new ELSE nodes[k]]

\* Faulty: the groups of the old nodes stay behind.
MergedReprsKeepingOld(fst, snd, new) ==
  [reprs EXCEPT ![new] = @ \cup reprs[fst] \cup reprs[snd]]

MergedReprs(fst, snd, new) ==
  [i \in Idx |-> CASE i = new -> reprs[new] \cup reprs[fst] \cup reprs[snd]
                   [] i \in {fst, snd} -> {}
                   [] OTHER -> reprs[i]]

\* One key is unknown: it joins the group of the other.
AddToGroup(key, i) ==
  /\ nodes' = [nodes EXCEPT ![key] = i]
  /\ reprs' = [reprs EXCEPT ![i] = @ \cup {key}]
  /\ UNCHANGED graph

MergeDistinct(fst, snd) ==
  \E new \in Idx \ live :
    /\ live' = (live \cup {new}) \ {fst, snd}
    /\ weight' = [weight EXCEPT ![new] = weight[fst] \cup weight[snd],
                                ![fst] = {}, ![snd] = {}]
    /\ edges' = MergedEdges(edges, fst, snd, new)
    /\ nodes' = MergedNodes(fst, snd, new)
    /\ reprs' = MergedReprs(fst, snd, new)

\* Faulty: relabels the two keys and not the rest of their groups.
MergeKeysOnly(key1, key2) ==
  /\ nodes[key1] # NoIdx /\ nodes[key2] # NoIdx /\ nodes[key1] # nodes[key2]
  /\ \E new \in Idx \ live :
       /\ live' = (live \cup {new}) \ {nodes[key1], nodes[key2]}
       /\ weight' = [weight EXCEPT ![new] = weight[nodes[key1]] \cup weight[nodes[key2]],
                                   ![nodes[key1]] = {}, ![nodes[key2]] = {}]
       /\ edges' = MergedEdges(edges, nodes[key1], nodes[key2], new)
       /\ nodes' = [nodes EXCEPT ![key1] = new, ![key2] = new]
       /\ reprs' = MergedReprs(nodes[key1], nodes[key2], new)

MergeNodes(key1, key2) ==
  \/ nodes[key1] = NoIdx /\ nodes[key2] # NoIdx /\ AddToGroup(key1, nodes[key2])
  \/ nodes[key1] # NoIdx /\ nodes[key2] = NoIdx /\ AddToGroup(key2, nodes[key1])
  \/ /\ nodes[key1] # NoIdx /\ nodes[key2] # NoIdx
     /\ nodes[key1] # nodes[key2]
     /\ MergeDistinct(nodes[key1], nodes[key2])

-----------------------------------------------------------------------------
(* Removal. *)

DropNodes(S) ==
  /\ live' = live \ S
  /\ weight' = [i \in Idx |-> IF i \in S THEN {} ELSE weight[i]]
  /\ edges' = WithoutNodes(edges, S)

\* remove_node_by_idx: all the keys of the node's group go with it.
RemoveNodeByIdx(i) ==
  /\ i \in live
  /\ nodes' = [k \in Keys |-> IF k \in reprs[i] THEN NoIdx ELSE nodes[k]]
  /\ reprs' = [reprs EXCEPT ![i] = {}]
  /\ DropNodes({i})

\* remove_node: the key goes, its node only with the last key of the group.
RemoveNode(key) ==
  /\ nodes[key] # NoIdx
  /\ nodes' = [nodes EXCEPT ![key] = NoIdx]
  /\ reprs' = [reprs EXCEPT ![nodes[key]] = @ \ {key}]
  /\ IF reprs[nodes[key]] = {key} THEN DropNodes({nodes[key]}) ELSE UNCHANGED graph

RemoveNodesUnreachableFromLabel ==
  /\ DropNodes(live \ Reach(edges, Labelled))
  /\ UNCHANGED tables

\* get_reachable_subgraph(idx), its result put in the graph's place.
GetReachableSubgraph(i) ==
  LET reachable == Reach(edges, {i}) IN
  /\ i \in live
  /\ DropNodes(live \ reachable)
  /\ nodes' = [k \in Keys |-> IF nodes[k] \in reachable THEN nodes[k] ELSE NoIdx]
  /\ reprs' = [j \in Idx |-> IF j \in reachable THEN reprs[j] ELSE {}]

-----------------------------------------------------------------------------
(* quoetient_graph.  rep sends every node to the new node of its group; the *)
(* new graph numbers its nodes afresh, so any index may come back.          *)

QuotientEdges(rep) == {<<rep[e[1]], e[2], rep[e[3]]>> : e \in edges}
QuotientNodes(rep) ==
  [k \in Keys |-> IF nodes[k] = NoIdx THEN NoIdx ELSE rep[nodes[k]]]
QuotientWeight(rep) ==
  [j \in Idx |-> UNION {weight[i] : i \in {n \in live : rep[n] = j}}]

QuotientGraph(rep) ==
  /\ live' = {rep[i] : i \in live}
  /\ weight' = QuotientWeight(rep)
  /\ edges' = QuotientEdges(rep)
  /\ nodes' = QuotientNodes(rep)
  /\ reprs' = GroupsOf(QuotientNodes(rep))

(* relable_representative_nodes: both tables are rebuilt from a mapping. *)
RelableRepresentativeNodes(mapping) ==
  /\ nodes' = mapping
  /\ reprs' = GroupsOf(mapping)
  /\ UNCHANGED graph

-----------------------------------------------------------------------------
(* Every operation that refines the graph without choosing new labels. *)
Structural ==
  \/ \E k \in Keys, w \in Weights : AddNode(k, w)
  \/ \E a, b \in Idx, l \in Labels : AddEdge(a, l, b)
  \/ \E k1, k2 \in Keys : MergeNodes(k1, k2)
  \/ \E k \in Keys : RemoveNode(k)
  \/ \E i \in Idx : RemoveNodeByIdx(i)
  \/ RemoveNodesUnreachableFromLabel
  \/ \E i \in Idx : GetReachableSubgraph(i)
  \/ \E rep \in [live -> Idx] : QuotientGraph(rep)

Relable == \E m \in [Keys -> live \cup {NoIdx}] : RelableRepresentativeNodes(m)

Next == Structural \/ Relable

Spec == Init /\ [][Next]_vars

-----------------------------------------------------------------------------
(* The two tables are inverse to each other, every key names a node that is *)
(* still in the graph, no edge dangles, and a freed index keeps no weight:  *)
(* what the expects "idx should have group" and "node should have weight"   *)
(* rely on, and what makes handing out a freed index again harmless.        *)
TablesAgree ==
  \A k \in Keys, i \in Idx : nodes[k] = i <=> k \in reprs[i]
KeysAreLive == \A k \in Keys : nodes[k] # NoIdx => nodes[k] \in live
EdgesAreLive == \A e \in edges : e[1] \in live /\ e[3] \in live
FreeIsBlank == \A i \in Idx \ live : weight[i] = {}

Consistent == TablesAgree /\ KeysAreLive /\ EdgesAreLive /\ FreeIsBlank

\* key1 and key2 have nodes and an l edge leads from one to the other.
HasEdge(k1, l, k2) ==
  /\ nodes[k1] # NoIdx /\ nodes[k2] # NoIdx
  /\ <<nodes[k1], l, nodes[k2]>> \in edges

(* No operation that changes the graph loses a field: as long as two keys  *)
(* stay in the table, an edge between their nodes stays, through merges    *)
(* (self loops and edges between the two merged nodes included),           *)
(* quotients, removals and index reuse.                                    *)
EdgesSurvive ==
  [][UNCHANGED graph \/ \A k1, k2 \in Keys, l \in Labels :
       HasEdge(k1, l, k2) /\ nodes'[k1] # NoIdx /\ nodes'[k2] # NoIdx
         => HasEdge(k1, l, k2)']_vars

(* Nor does it lose a bound: a key's node keeps everything that was merged *)
(* into it for as long as the key stays.                                   *)
BoundsSurvive ==
  [][UNCHANGED graph \/ \A k \in Keys :
       nodes[k] # NoIdx /\ nodes'[k] # NoIdx
         => weight[nodes[k]] \subseteq weight'[nodes'[k]]]_vars

(* Two keys that were unified stay unified while both are in the table. *)
UnificationSurvives ==
  [][UNCHANGED graph \/ \A k1, k2 \in Keys :
       nodes[k1] = nodes[k2] /\ nodes'[k1] # NoIdx /\ nodes'[k2] # NoIdx
         => nodes[k1] = NoIdx \/ nodes'[k1] = nodes'[k2]]_vars

=============================================================================
