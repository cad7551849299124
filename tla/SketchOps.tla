----------------------------- MODULE SketchOps -----------------------------
(***************************************************************************)
(* Sketches and the operations on them: the automata of dfa_operations.rs, *)
(* Sketch::binop_sketch with intersect, union and difference, label_dtvs   *)
(* and explore_paths, and MappingGraph::replace_node.                      *)
(*                                                                         *)
(* A graph has nodes (positive numbers), edges <<source, label, target>>,  *)
(* weights (LatticeBounds) and keys, a function from the keys it knows to  *)
(* its nodes.  A sketch is a graph with repr, the key of its entry.  A     *)
(* lattice element is a set of atoms, ordered by inclusion.  Operators     *)
(* whose result depends on the iteration order of a hash table return the  *)
(* set of the possible results.                                            *)
(***************************************************************************)
EXTENDS SketchLabels, Naturals, SequencesExt

CONSTANT Top    \* the top element of the lattice: the set of all atoms

-----------------------------------------------------------------------------
\* The elements of S, each once, in some order.
Enumerated(S) ==
  LET list[c \in [done : Seq(S), left : SUBSET S]] ==
        LET x == CHOOSE y \in c.left : TRUE
        IN  IF c.left = {} THEN c
            ELSE list[[done |-> Append(c.done, x), left |-> c.left \ {x}]]
  IN  list[[done |-> <<>>, left |-> S]].done

(* LatticeBounds *)

MeetBounds(v, w) == [upper |-> v.upper \cap w.upper, lower |-> v.lower \cap w.lower]
JoinBounds(v, w) == [upper |-> v.upper \cup w.upper, lower |-> v.lower \cup w.lower]
OperateBounds(v, w) == [upper |-> v.upper \cap w.upper, lower |-> v.lower \cup w.lower]

\* The bounds W, of which there are some, by one operate after the other.
OperateAll(W) ==
  [upper |-> {x \in Top : \A w \in W : x \in w.upper}, lower |-> UNION {w.lower : w \in W}]

\* identity_element
Identity == [upper |-> Top, lower |-> {}]

-----------------------------------------------------------------------------
(* Walking a graph. *)

NoNode == 0    \* where a missing edge leads: the reject state

LabelsIn(s) == {e[2] : e \in s.edges}
EdgesOut(s, n) == {e \in s.edges : e[1] = n}

StepBy(s, n, l) ==
  LET E == {e \in EdgesOut(s, n) : e[2] = l}
  IN  IF E = {} THEN NoNode ELSE (CHOOSE e \in E : TRUE)[3]

\* find_node
Follow(s, n, word) ==
  LET after[i \in 0 .. Len(word)] == IF i = 0 THEN n ELSE StepBy(s, after[i-1], word[i])
  IN  after[Len(word)]

Onward(s, N) == N \cup {e[3] : e \in {f \in s.edges : f[1] \in N}}

Reached(s, N) ==
  LET reach[M \in SUBSET (N \cup {e[3] : e \in s.edges})] ==
        IF Onward(s, M) = M THEN M ELSE reach[Onward(s, M)]
  IN  reach[N]

\* explore_paths: every node once, with the word of one path to it, in the
\* order of a depth-first search whose stack is visited from its end.
Configurations(s) ==
  [stack : Seq([at : s.nodes, word : Seq(LabelsIn(s))]), seen : SUBSET s.nodes]

Pending(s, top, seen) ==
  {[at |-> e[3], word |-> Append(top.word, e[2])] :
     e \in {f \in EdgesOut(s, top.at) : f[3] \notin seen \cup {top.at}}}

ExplorePaths(s, n) ==
  LET explore[c \in Configurations(s)] ==
        LET top == Last(c.stack)
            below == Front(c.stack)
        IN  IF c.stack = <<>> THEN {<<>>}
            ELSE IF top.at \in c.seen THEN explore[[stack |-> below, seen |-> c.seen]]
            ELSE UNION {{<<top>> \o visits :
                           visits \in explore[[stack |-> below \o order,
                                               seen |-> c.seen \cup {top.at}]]} :
                         order \in SetToSeqs(Pending(s, top, c.seen))}
  IN  explore[[stack |-> <<[at |-> n, word |-> <<>>]>>, seen |-> {}]]

Entry(s) == s.keys[s.repr]

\* What a builder leaves: finitely many nodes, to which edges and keys lead.
IsBuilt(s) ==
  /\ {"nodes", "edges", "weight", "keys"} \subseteq DOMAIN s
  /\ IsFiniteSet(s.nodes) /\ s.nodes \subseteq Nat \ {NoNode}
  /\ IsFiniteSet(s.edges)
  /\ \A e \in s.edges : e[1] \in s.nodes /\ e[3] \in s.nodes
  /\ \A k \in DOMAIN s.keys : s.keys[k] \in s.nodes

\* No two edges of one label leave one node for two.
IsDeterministic(s) ==
  \A e, f \in s.edges : e[1] = f[1] /\ SameLabel(e[2], f[2]) => e[3] = f[3]

IsSketch(s) ==
  IsBuilt(s) /\ IsDeterministic(s) /\ "repr" \in DOMAIN s /\ s.repr \in DOMAIN s.keys

-----------------------------------------------------------------------------
(* Quotients: no two edges with one label, or a load and a store, may leave *)
(* one node for two targets (QuotientGroups shows the loop that decides).   *)

\* The nodes that rep maps to b go to a; both arguments are nodes.
Joined(s, rep, a, b) == [n \in s.nodes |-> IF rep[n] = b THEN a ELSE rep[n]]

\* What two edges from one class lead to, the smaller node first.
Clashes(s, rep) ==
  {<<rep[p[1][3]], rep[p[2][3]]>> :
     p \in {x \in s.edges \X s.edges :
              /\ SameLabel(x[1][2], x[2][2]) /\ rep[x[1][1]] = rep[x[2][1]]
              /\ rep[x[1][3]] < rep[x[2][3]]}}

Resolved(s, rep) ==
  LET clashes == Clashes(s, rep)
      clash == CHOOSE c \in clashes : TRUE
  IN  IF clashes = {} THEN rep ELSE Joined(s, rep, clash[1], clash[2])

\* One clash after the other is resolved.
Unified(s, rep0) ==
  LET unify[rep \in [s.nodes -> s.nodes]] ==
        IF Resolved(s, rep) = rep THEN rep ELSE unify[Resolved(s, rep)]
  IN  unify[rep0]

\* quoetient_graph, the groups being the classes of rep.
QuotientGraph(s, rep) ==
  LET merged(n) == OperateAll({s.weight[m] : m \in {k \in s.nodes : rep[k] = n}})
  IN  [s EXCEPT !.nodes = {rep[n] : n \in s.nodes},
                !.edges = {<<rep[e[1]], e[2], rep[e[3]]>> : e \in s.edges},
                !.weight = [n \in {rep[m] : m \in s.nodes} |-> merged(n)],
                !.keys = [k \in DOMAIN s.keys |-> rep[s.keys[k]]]]

\* The groups are those that the classes of rep0 force.
\* (They are taken from a set, so that TLC computes them once.)
QuotientBy(s, rep0) ==
  CHOOSE q \in {QuotientGraph(s, rep) : rep \in {Unified(s, rep0)}} : TRUE

\* Faulty: takes the graph for deterministic.
Unquotiented(s) == s

Quotient(s) == QuotientBy(s, [n \in s.nodes |-> n])

-----------------------------------------------------------------------------
(* The product construction.  construct_dfa completes a sketch with the     *)
(* reject state NoNode; every other state accepts.                          *)

Alphabet(s, t) == LabelsIn(s) \cup LabelsIn(t)
PairStep(s, t, p, l) == <<StepBy(s, p[1], l), StepBy(t, p[2], l)>>

\* minimize: what the entry pair reaches.
PairsOnward(s, t, P) == P \cup {PairStep(s, t, p, l) : p \in P, l \in Alphabet(s, t)}

Pairs(s, t) ==
  LET reach[P \in SUBSET ((s.nodes \cup {NoNode}) \X (t.nodes \cup {NoNode}))] ==
        IF PairsOnward(s, t, P) = P THEN P ELSE reach[PairsOnward(s, t, P)]
  IN  reach[{<<Entry(s), Entry(t)>>}]

\* The accept states of cartesian_product_internal, for a union and an intersection.
AcceptedByEither(p) == p # <<NoNode, NoNode>>
AcceptedByBoth(p) == p[1] # NoNode /\ p[2] # NoNode

WeightAt(s, n) == IF n = NoNode THEN Identity ELSE s.weight[n]

\* create_graph_from_dfa drops the rejecting states but the entry; the nodes
\* are numbered as they come.
ProductGraph(s, t, accepting) ==
  LET entry == <<Entry(s), Entry(t)>>
      kept == accepting \cup {entry}
      order == Enumerated(kept)
      number(p) == CHOOSE i \in DOMAIN order : order[i] = p
  IN  [nodes |-> DOMAIN order,
       edges |-> {<<number(x[1]), x[2], number(PairStep(s, t, x[1], x[2]))>> :
                    x \in {y \in kept \X Alphabet(s, t) : PairStep(s, t, y[1], y[2]) \in kept}},
       pair |-> order,
       entry |-> number(entry)]

\* binop_sketch, label being the result of its lattice operation for a pair:
\* nodes the entry no longer reaches keep the default label.
BinopSketch(s, t, label, accepting) ==
  LET g == ProductGraph(s, t, accepting)
      reached == Reached(g, {g.entry})
  IN  Quotient([nodes |-> g.nodes,
                edges |-> g.edges,
                weight |-> [n \in g.nodes |->
                              IF n \in reached THEN label[g.pair[n]] ELSE Identity],
                keys |-> [k \in {s.repr} |-> g.entry],
                repr |-> s.repr])

\* A subtype knows more words than its supertypes: the names are about types.
Intersect(s, t) ==
  BinopSketch(s, t,
              [p \in Pairs(s, t) |-> MeetBounds(WeightAt(s, p[1]), WeightAt(t, p[2]))],
              {p \in Pairs(s, t) : AcceptedByEither(p)})

UnionOf(s, t) ==
  BinopSketch(s, t,
              [p \in Pairs(s, t) |-> JoinBounds(WeightAt(s, p[1]), WeightAt(t, p[2]))],
              {p \in Pairs(s, t) : AcceptedByBoth(p)})

\* is_structurally_equal: no word is accepted by one and rejected by the other.
IsStructurallyEqual(s, t) ==
  \A p \in Pairs(s, t) : p[1] = NoNode <=> p[2] = NoNode

-----------------------------------------------------------------------------
\* Faulty: the keys keep their node indices, though the nodes are new.
LabelDtvsByIndex(s, other) ==
  LET known == {k \in DOMAIN other.keys : other.keys[k] \in s.nodes} \cup {other.repr}
  IN  {[s EXCEPT !.keys = [k \in known |->
                             IF k = other.repr THEN Entry(s) ELSE other.keys[k]],
                 !.repr = other.repr]}

\* label_dtvs: the keys of the other sketch, each at a node that is reached by
\* a word that leads to the key there; the last one visited wins.
LabelDtvs(s, other) ==
  LET reachedBy(visit) == Follow(other, Entry(other), visit.word)
      lastFor(visits, k) ==
        LET found == {i \in DOMAIN visits : reachedBy(visits[i]) = other.keys[k]}
        IN  visits[CHOOSE i \in found : \A j \in found : j <= i].at
      known(visits) ==
        {k \in DOMAIN other.keys : \E i \in DOMAIN visits : reachedBy(visits[i]) = other.keys[k]}
  IN  {[s EXCEPT !.keys = [k \in known(visits) |-> lastFor(visits, k)],
                 !.repr = other.repr] : visits \in ExplorePaths(s, Entry(s))}

(* replace_node: the subgraph under key makes room for r, whose nodes get   *)
(* fresh indices.  Keys in it and edges into it move to the node that the   *)
(* word of their path leads to in r.                                        *)
Fresh(g, n) == n + (CHOOSE m \in g.nodes \cup {0} : \A k \in g.nodes : k <= m)

\* The node of r that takes the place of n, a node under key.
Replacement(visits, r, key, n) ==
  LET i == CHOOSE j \in DOMAIN visits : visits[j].at = n
  IN  Follow(r, r.keys[key], visits[i].word)

\* Faulty: the edges that lead into the old subgraph go with it.
NoEdgesInto(g, r, gone, target) == {}

\* edges_outside_subgraph
EdgesInto(g, r, gone, target) ==
  {<<e[1], e[2], Fresh(g, target[e[3]])>> :
     e \in {f \in g.edges : f[1] \notin gone /\ f[3] \in gone /\ target[f[3]] \in r.nodes}}

\* new_labeling: r's keys come before the old ones.
NewLabeling(g, r, gone, target) ==
  LET outer == {k \in DOMAIN g.keys : g.keys[k] \notin gone}
      moved == {k \in DOMAIN g.keys \ outer : target[g.keys[k]] \in r.nodes}
  IN  [k \in outer \cup DOMAIN r.keys \cup moved |->
         IF k \in outer THEN g.keys[k]
         ELSE Fresh(g, IF k \in DOMAIN r.keys THEN r.keys[k] ELSE target[g.keys[k]])]

Replaced(g, key, r, visits) ==
  LET gone == Reached(g, {g.keys[key]})
      target == [n \in gone |-> Replacement(visits, r, key, n)]
      kept == g.nodes \ gone
      offset == Fresh(g, 0)
      nodes == kept \cup {Fresh(g, n) : n \in r.nodes}
  IN  [nodes |-> nodes,
       edges |-> {e \in g.edges : e[1] \in kept /\ e[3] \in kept}
                   \cup {<<Fresh(g, e[1]), e[2], Fresh(g, e[3])>> : e \in r.edges}
                   \cup EdgesInto(g, r, gone, target),
       weight |-> [n \in nodes |->
                     IF n \in kept THEN g.weight[n] ELSE r.weight[n - offset]],
       keys |-> NewLabeling(g, r, gone, target)]

ReplaceNode(g, key, r) ==
  {Replaced(g, key, r, visits) : visits \in ExplorePaths(g, g.keys[key])}

\* get_reachable_subgraph, as the sketch of one of its keys.
SketchOf(g, key) ==
  LET N == Reached(g, {g.keys[key]})
  IN  [nodes |-> N,
       edges |-> {e \in g.edges : e[1] \in N},
       weight |-> [n \in N |-> g.weight[n]],
       keys |-> [k \in {x \in DOMAIN g.keys : g.keys[x] \in N} |-> g.keys[k]],
       repr |-> key]
=============================================================================
