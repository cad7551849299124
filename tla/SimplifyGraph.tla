--------------------------- MODULE SimplifyGraph ---------------------------
(***************************************************************************)
(* FSA::simplify_graph after saturation, and walk_constraints: the automaton *)
(* is cut so that no pop follows a push, pruned, made acyclic by replacing   *)
(* one state per cycle with a fresh loop-breaker variable, pruned again, and  *)
(* its paths are read off as constraints.                                     *)
(*                                                                            *)
(* The graph is a StableDiGraph: a node is an index, and the index of a       *)
(* removed node goes to a free list from which the next node takes it.  mp    *)
(* and cant_pop_nodes map states to indices and are never pruned.  The order  *)
(* of the states, which decides their indices, is the derived Ord; the order  *)
(* in which a pass meets the components is left open.                         *)
(***************************************************************************)
EXTENDS ConstraintFsa, SequencesExt

CONSTANTS
  ConstraintSets,
  Rank            \* the position of variables and labels in their order

\* fresh_loop_breaker counts on from the names it has given: none of them is a
\* variable of the constraints.
ASSUME SimplifyAssumption ==
  /\ \A cons \in ConstraintSets : cons \subseteq SubtypeConstraints /\ IsFiniteSet(cons)
  /\ \A x \in Vars \cup FieldLabels : Rank[x] \in Nat
  /\ (Vars \cup {NoVar}) \cap ({"loop_breaker"} \X Nat) = {}

VARIABLES
  given,        \* the constraints the automaton was built from
  graph,        \* grph with mp, cant_pop_nodes and the free list: see Graphs
  pending,      \* the components the pass of the loop has yet to visit
  removed,      \* removed
  changed,      \* did_change
  breakers,     \* the loop breakers made, as derived type variables they stand for
  history,      \* the states replaced: pairs <<loop breaker's number, state>>
  pc            \* "saturated", "cut", "pass" or "simplified"

vars == <<given, graph, pending, removed, changed, breakers, history, pc>>

-----------------------------------------------------------------------------
(* The order of states and edges. *)

LexBefore(s, t) ==
  \E n \in 1..Len(t) : /\ \A j \in 1..n-1 : j <= Len(s) /\ s[j] = t[j]
                       /\ n > Len(s) \/ s[n] < t[n]

StateKey(s) ==
  IF s = Start THEN <<1>>
  ELSE IF s = End THEN <<2>>
  ELSE <<0, IF s.dir = "U" THEN 1 ELSE 0, Rank[s.tv], IF s.dir = "R" THEN 1 ELSE 0,
         IF s.variance = Co THEN 0 ELSE 1>> \o [i \in 1..Len(s.path) |-> Rank[s.path[i]]]

KindRank == [push |-> 0, pop |-> 1, success |-> 2]

StateBefore(s, t) == LexBefore(StateKey(s), StateKey(t))

\* Edges are ordered by source, then target, then weight.
EdgeBefore(e, f) ==
  IF e.src # f.src THEN StateBefore(e.src, f.src)
  ELSE IF e.dst # f.dst THEN StateBefore(e.dst, f.dst)
  ELSE KindRank[e.kind] < KindRank[f.kind]

\* The members of a finite set in the order of the pairs in before: one after the
\* other is inserted behind those that are before it.
Inserted(s, S, before) ==
  LET x == CHOOSE y \in S \ ToSet(s) : TRUE
  IN  InsertAt(s, 1 + Cardinality({i \in DOMAIN s : <<s[i], x>> \in before}), x)

Insertions(S, before) ==
  LET sorted[n \in Nat] == IF n = 0 THEN <<>> ELSE Inserted(sorted[n-1], S, before)
  IN  sorted

Sorted(S, before) == Insertions(S, before)[Cardinality(S)]

InOrder(E) == Sorted(E, {p \in E \X E : EdgeBefore(p[1], p[2])})

\* The states S in the order in which the pairs of a sequence first name them.
ByFirstUse(S, pairs) ==
  LET named == {x \in (DOMAIN pairs) \X {1, 2} : x[2] \in DOMAIN pairs[x[1]]}
      use == [s \in S |-> Min({2 * x[1] + x[2] : x \in {y \in named : pairs[y[1]][y[2]] = s}})]
  IN  Sorted(S, {p \in S \X S : use[p[1]] < use[p[2]]})

Position(s, x) == CHOOSE i \in 1..Len(s) : s[i] = x

-----------------------------------------------------------------------------
(* The saturated automaton; Saturation shows how the loop arrives at it. *)

\* What one round of the loop makes of the reaching pushes and the edges in prev.
SaturationRound(cons, prev) ==
  << prev[1] \cup (UNION {Carried(prev[1], e) : e \in SuccessEdges(prev[2])})
             \cup (UNION {Mirrored(prev[1], s) : s \in ContraStates(FsaNodes(cons))}),
     prev[2] \cup Linked(prev[1], prev[2]) >>

\* The pushes and edges that n rounds have found.
SaturationRounds(cons) ==
  LET round[n \in Nat] ==
        IF n = 0 THEN <<BasePushes(FsaEdges(cons)), FsaEdges(cons)>>
        ELSE SaturationRound(cons, round[n-1])
  IN  round

\* Every round until the last finds a push or an edge between states.
MostRounds(cons) ==
  LET S == FsaNodes(cons)
      symbols == {e.sym : e \in FsaEdges(cons)} \cup {LabelSymbol(Load), LabelSymbol(Store)}
  IN  Cardinality((S \cup {Not(s) : s \in S}) \X symbols \X S) + Cardinality(S \X S)

SaturationEdges(cons) ==
  LET round == SaturationRounds(cons)
      last == CHOOSE n \in 0..MostRounds(cons) : round[n] = round[n+1]
  IN  {e \in round[last][2] \ FsaEdges(cons) : e.src # e.dst}

\* The edges in the order of their indices.
EdgeOrder(cons) == InOrder(FsaEdges(cons)) \o InOrder(SaturationEdges(cons))

\* insert_edge and get_or_insert_nd number the states by first use.
NodeOrder(cons) ==
  LET order == InOrder(FsaEdges(cons))
  IN  ByFirstUse(FsaNodes(cons),
                 [i \in 1..Len(order) |-> <<order[i].src, order[i].dst>>] \o <<<<Start, End>>>>)

-----------------------------------------------------------------------------
(* Graphs: the weight of every live index, the edges between indices, the   *)
(* two maps from states to indices, and the free list, last freed last.     *)

Graph(weight, mp, copies, edges, free) ==
  [weight |-> weight, mp |-> mp, copies |-> copies, edges |-> edges, free |-> free]

NoIndex == 0
IndexIn(map, s) == IF s \in DOMAIN map THEN map[s] ELSE NoIndex

Live(g) == DOMAIN g.weight
StartIdx(g) == g.mp[Start]
EndIdx(g) == g.copies[End]

\* The states in the given order, and the edges E between them.
Numbered(order, E) ==
  LET at(s) == Position(order, s)
  IN  Graph([i \in 1..Len(order) |-> order[i]],
            [s \in ToSet(order) |-> at(s)],
            <<>>,
            {Edge(at(e.src), e.kind, e.sym, at(e.dst)) : e \in E},
            <<>>)

Saturated(cons) == Numbered(NodeOrder(cons), FsaEdges(cons) \cup SaturationEdges(cons))

Init ==
  /\ given \in ConstraintSets
  /\ graph = Saturated(given)
  /\ pending = {} /\ removed = {} /\ changed = FALSE
  /\ breakers = <<>> /\ history = {}
  /\ pc = "saturated"

-----------------------------------------------------------------------------
\* The states that add_cant_push_node is called for, edge after edge.
CopyOrder(cons) ==
  LET copied(e) == CASE e.kind = "push" -> <<e.dst, e.src>>
                     [] e.kind = "success" -> <<e.src, e.dst>>
                     [] OTHER -> <<>>
      order == EdgeOrder(cons)
  IN  ByFirstUse(EndsOf({e \in FsaEdges(cons) \cup SaturationEdges(cons) : e.kind # "pop"}) \cup {End},
                 [i \in 1..Len(order) |-> copied(order[i])] \o <<<<End>>>>)

\* Faulty: the pushes out of the original are added to it, not redirected.
CutKeepingPushes(g, order) ==
  LET size == Cardinality(Live(g))
      copies == [s \in ToSet(order) |-> size + Position(order, s)]
      copyOf(i) == copies[g.weight[i]]
  IN  [g EXCEPT
        !.weight = [i \in 1..(size + Len(order)) |->
                      IF i <= size THEN @[i] ELSE order[i - size]],
        !.copies = copies,
        !.edges = @ \cup {[e EXCEPT !.src = copyOf(@), !.dst = copyOf(@)] :
                            e \in {f \in @ : f.kind # "pop"}}]

\* Faulty: nothing can be inferred after the first push.
CutAfterPush(g, order) ==
  LET size == Cardinality(Live(g))
      copies == [s \in ToSet(order) |-> size + Position(order, s)]
      copyOf(i) == copies[g.weight[i]]
  IN  [g EXCEPT
        !.weight = [i \in 1..(size + Len(order)) |->
                      IF i <= size THEN @[i] ELSE order[i - size]],
        !.copies = copies,
        !.edges = {e \in @ : e.kind # "push"}
                    \cup {[e EXCEPT !.dst = copyOf(@)] : e \in {f \in @ : f.kind = "push"}}
                    \cup {[e EXCEPT !.src = copyOf(@), !.dst = copyOf(@)] :
                            e \in {f \in @ : f.kind = "push"}}]

\* The graph with a copy of every state in order: pushes lead into the copy,
\* successes are in both, and pops stay in the original.
CutAlong(g, order) ==
  LET size == Cardinality(Live(g))
      copies == [s \in ToSet(order) |-> size + Position(order, s)]
      copyOf(i) == copies[g.weight[i]]
  IN  Graph([i \in 1..(size + Len(order)) |-> IF i <= size THEN g.weight[i] ELSE order[i - size]],
            g.mp,
            copies,
            {e \in g.edges : e.kind # "push"}
              \cup {[e EXCEPT !.dst = copyOf(@)] : e \in {f \in g.edges : f.kind = "push"}}
              \cup {[e EXCEPT !.src = copyOf(@), !.dst = copyOf(@)] :
                       e \in {f \in g.edges : f.kind # "pop"}},
            g.free)

\* intersect_with_pop_push: the states that can follow a push are copied.
Cut(g, cons) == CutAlong(g, CopyOrder(cons))

IntersectWithPopPush ==
  /\ pc = "saturated"
  /\ graph' = Cut(graph, given)
  /\ pc' = "cut"
  /\ UNCHANGED <<given, pending, removed, changed, breakers, history>>

Successors(E, I) == I \cup {e.dst : e \in {f \in E : f.src \in I}}

\* What one, two, and more edges lead to from i.
ForwardSteps(g, i) ==
  LET reach[n \in Nat] == IF n = 0 THEN {i} ELSE Successors(g.edges, reach[n-1])
  IN  reach

Forward(g, i) ==
  LET reach == ForwardSteps(g, i)
  IN  reach[CHOOSE n \in 0..Cardinality(Live(g)) : reach[n] = reach[n+1]]

\* petgraph's Reversed
Reversed(g) ==
  Graph(g.weight, g.mp, g.copies, {[e EXCEPT !.src = e.dst, !.dst = e.src] : e \in g.edges}, g.free)

Backward(g, i) == Forward(Reversed(g), i)

Ascending(I) == Sorted(I, {p \in I \X I : p[1] < p[2]})

\* Faulty: keeps what start does not reach.
PrunedBackward(g) ==
  LET keep == Backward(g, EndIdx(g)) \cup {StartIdx(g), EndIdx(g)}
  IN  [g EXCEPT !.weight = [i \in keep |-> @[i]],
                !.edges = {e \in @ : e.src \in keep /\ e.dst \in keep},
                !.free = @ \o Ascending(Live(g) \ keep)]

Kept(g) == (Forward(g, StartIdx(g)) \cap Backward(g, EndIdx(g))) \cup {StartIdx(g), EndIdx(g)}

\* remove_unreachable: the maps keep the indices of what is removed.
Pruned(g) ==
  LET keep == Kept(g)
  IN  Graph([i \in keep |-> g.weight[i]], g.mp, g.copies,
            {e \in g.edges : e.src \in keep /\ e.dst \in keep},
            g.free \o Ascending(Live(g) \ keep))

Components(g) ==
  {c \in {Forward(g, i) \cap Backward(g, i) : i \in Live(g)} : Cardinality(c) # 1}

RemoveUnreachable ==
  /\ pc = "cut"
  /\ graph' = Pruned(graph)
  /\ pending' = Components(graph')
  /\ pc' = "pass"
  /\ UNCHANGED <<given, removed, changed, breakers, history>>

-----------------------------------------------------------------------------
(* generate_recursive_type_variables *)

BreakerName(n) == <<"loop_breaker", n>>

\* get_entries_to_scc
Entries(g, scc) == {i \in scc : \E e \in g.edges : e.dst = i /\ e.src \notin scc}

RootTypeVar(s) == [base |-> s.tv, path |-> s.path]
IsPrefixOf(d, e) == d # e /\ d.base = e.base /\ IsPrefix(d.path, e.path)

\* select_an_entry_repr: the first entry no other entry is a prefix of.
EntryRepr(g, entries) ==
  LET roots == {RootTypeVar(g.weight[i]) : i \in entries}
  IN  Min({i \in entries : \A d \in roots : ~IsPrefixOf(d, RootTypeVar(g.weight[i]))})

\* Faulty: the copies of the state are forgotten.
OriginalNodeIdxs(g, s) == <<IndexIn(g.mp, Not(s)), IndexIn(g.mp, s), NoIndex, NoIndex>>

\* get_equiv_node_idxs, with NoIndex where a map has no entry.
EquivNodeIdxs(g, s) ==
  <<IndexIn(g.mp, Not(s)), IndexIn(g.mp, s), IndexIn(g.copies, Not(s)), IndexIn(g.copies, s)>>

\* The map f with x for d.
With(f, d, x) == [y \in DOMAIN f \cup {d} |-> IF y = d THEN x ELSE f[y]]

\* StableDiGraph::add_node
NextIndex(g) == IF g.free = <<>> THEN Cardinality(Live(g)) + 1 ELSE Last(g.free)
AddNode(g, s) ==
  Graph(With(g.weight, NextIndex(g), s), g.mp, g.copies, g.edges,
        IF g.free = <<>> THEN <<>> ELSE Front(g.free))

\* What entered i enters the exit, what left i leaves the entry.
Rerouted(e, i, entry, exit) ==
  Edge(IF e.src = i THEN entry ELSE e.src, e.kind, e.sym, IF e.dst = i THEN exit ELSE e.dst)

\* replace_nodes_with_interesting_variable
Replace(g, i, tv) ==
  LET v == g.weight[i].variance
      entryState == State(tv, "L", v, <<>>)
      exitState == State(tv, "R", v, <<>>)
      g1 == AddNode(g, entryState)
      g2 == AddNode(g1, exitState)
      entry == NextIndex(g)
      exit == NextIndex(g1)
  IN  Graph(g2.weight,
            With(g2.mp, entryState, entry),
            With(g2.copies, exitState, exit),
            {Rerouted(e, i, entry, exit) : e \in g2.edges}
              \cup {Pop(StartIdx(g), VarSymbol(entryState), entry),
                    Push(exit, VarSymbol(exitState), EndIdx(g))},
            g2.free)

\* replace_if_exists; noting what is replaced.
ReplaceIfExists(acc, i, n) ==
  IF i \in Live(acc.g)
  THEN [g |-> Replace(acc.g, i, BreakerName(n)),
        replaced |-> acc.replaced \cup {<<n, acc.g.weight[i]>>}]
  ELSE acc

\* For one index after the other.
ReplaceEquivs(g, idxs, n) ==
  LET first == ReplaceIfExists([g |-> g, replaced |-> {}], idxs[1], n)
      second == ReplaceIfExists(first, idxs[2], n)
      third == ReplaceIfExists(second, idxs[3], n)
  IN  ReplaceIfExists(third, idxs[4], n)

\* What breaking a component does: the state chosen, the indices replaced, the
\* graph it leaves, and the states that went.
Broken(g, scc, n) ==
  LET s == g.weight[EntryRepr(g, Entries(g, scc))]
      idxs == EquivNodeIdxs(g, s)
      after == ReplaceEquivs(g, idxs, n)
  IN  [repr |-> s, idxs |-> ToSet(idxs) \ {NoIndex}, g |-> after.g, replaced |-> after.replaced]

VisitRemoved(scc) ==
  /\ pc = "pass" /\ scc \in pending
  /\ scc \cap removed # {}
  /\ pending' = pending \ {scc}
  /\ UNCHANGED <<given, graph, removed, changed, breakers, history, pc>>

BreakLoop(scc) ==
  /\ pc = "pass" /\ scc \in pending
  /\ scc \cap removed = {}
  /\ \E broken \in {Broken(graph, scc, Len(breakers) + 1)} :
       /\ graph' = broken.g
       /\ removed' = removed \cup broken.idxs
       /\ breakers' = Append(breakers, RootTypeVar(broken.repr))
       /\ history' = history \cup broken.replaced
  /\ changed' = TRUE
  /\ pending' = pending \ {scc}
  /\ UNCHANGED <<given, pc>>

NextPass ==
  /\ pc = "pass" /\ pending = {} /\ changed
  /\ pending' = Components(graph)
  /\ changed' = FALSE
  /\ UNCHANGED <<given, graph, removed, breakers, history, pc>>

\* Faulty: one pass is taken to be enough.
OnePassIsEnough ==
  /\ pc = "pass" /\ pending = {}
  /\ graph' = Pruned(graph)
  /\ pc' = "simplified"
  /\ UNCHANGED <<given, pending, removed, changed, breakers, history>>

LoopsBroken ==
  /\ pc = "pass" /\ pending = {} /\ ~changed
  /\ graph' = Pruned(graph)
  /\ pc' = "simplified"
  /\ UNCHANGED <<given, pending, removed, changed, breakers, history>>

Next ==
  \/ IntersectWithPopPush
  \/ RemoveUnreachable
  \/ \E scc \in pending : VisitRemoved(scc) \/ BreakLoop(scc)
  \/ NextPass
  \/ LoopsBroken

Spec == Init /\ [][Next]_vars

-----------------------------------------------------------------------------
(* walk_constraints *)

PathVariance(path) == SuffixVariance(path, 0)

\* A path so far: its first symbol, the labels popped, and those pushed, last
\* pushed first; and the node it has come to.
Beginnings(g) ==
  {[from |-> e.sym, pops |-> <<>>, pushes |-> <<>>, at |-> e.dst] :
     e \in {f \in g.edges : f.src = StartIdx(g)}}

Extended(w, e) ==
  CASE e.kind = "pop" -> [w EXCEPT !.at = e.dst, !.pops = Append(@, e.sym[2])]
    [] e.kind = "push" -> [w EXCEPT !.at = e.dst, !.pushes = <<e.sym[2]>> \o @]
    [] OTHER -> [w EXCEPT !.at = e.dst]

WalkSteps(g) ==
  LET walk[n \in Nat] ==
        IF n = 0 THEN Beginnings(g)
        ELSE LET W == walk[n-1]
             IN  W \cup UNION {{Extended(w, e) : e \in {f \in g.edges : f.src = w.at /\ f.dst # EndIdx(g)}}
                                 : w \in W}
  IN  walk

\* No path without a repeated node has more edges.
Walks(g) == WalkSteps(g)[Cardinality(Live(g))]

\* path_to_constraint, for a walk and the edge that ends it.
Lhs(w) == [base |-> w.from[2], path |-> w.pops]
Rhs(w, e) == [base |-> e.sym[2], path |-> w.pushes]

\* Faulty: the variances of the two ends are not compared.
YieldsAny(w, e) == TRUE

Yields(w, e) ==
  /\ Operate(PathVariance(w.pops), w.from[4]) = Co
  /\ Operate(PathVariance(w.pushes), e.sym[4]) = Co

WalkConstraints(g) ==
  UNION {{[lhs |-> Lhs(w), rhs |-> Rhs(w, e)] :
            e \in {f \in g.edges : f.src = w.at /\ f.dst = EndIdx(g) /\ Yields(w, f)}}
           : w \in Walks(g)}

\* The derived type variable d with the loop breaker at its base, if any, replaced
\* by what that stands for.
Unbroken(d, roots) ==
  IF d.base \in Vars THEN d
  ELSE LET root == roots[d.base[2]]
       IN  [base |-> root.base, path |-> root.path \o d.path]

-----------------------------------------------------------------------------
(* Once the automaton has been intersected, a stack symbol that was pushed  *)
(* is never popped: whatever replaces states later reroutes no edge of the  *)
(* copy back into the original.                                             *)
PopsPrecedePushes ==
  pc # "saturated" =>
    \A e \in graph.edges : e.kind = "push" =>
      \A i \in Forward(graph, e.dst), f \in graph.edges : f.src = i => f.kind # "pop"

(* The loop-breaking pass meets none of its panics: a component it breaks   *)
(* has an entry, all its entries are type variables, one of them has no     *)
(* prefix among the others, and the nodes it replaces for it, looked up in  *)
(* maps that are never pruned, are not the start or the end.                *)
EveryLoopHasAnEntry ==
  pc = "pass" =>
    \A scc \in {c \in pending : c \cap removed = {}} :
      LET roots == {RootTypeVar(graph.weight[i]) : i \in Entries(graph, scc)}
      IN  /\ \A i \in Entries(graph, scc) : IsTv(graph.weight[i])
          /\ \E d \in roots : \A r \in roots : ~IsPrefixOf(r, d)
          /\ \A i \in ToSet(EquivNodeIdxs(graph, graph.weight[EntryRepr(graph, Entries(graph, scc))])) :
               i \in Live(graph) => IsTv(graph.weight[i])

(* When the loop ends no cycle is left but the self loops of reflexive       *)
(* constraints, which neither push nor pop, so that the walk over paths       *)
(* without repeated edges reads what all paths say.                           *)
Acyclic ==
  pc = "simplified" =>
    Components(graph) = {} /\ \A e \in graph.edges : e.src = e.dst => e.kind = "success"

(* A loop breaker only replaces the nodes of its representative and of its  *)
(* opposite (comment on replace_nodes_with_interesting_variable: "exactly   *)
(* equal (name and variance)").                                             *)
ReplacesOnlyEquals ==
  \A h \in history : RootTypeVar(h[2]) = breakers[h[1]]

(* The loop ends: every component broken leaves fewer nodes on cycles, so    *)
(* that `if !did_change { break; }` is reached.                              *)
Looping(g) == UNION Components(g)
LoopsShrink ==
  [][(pc = "pass" /\ breakers' # breakers) =>
       Cardinality(Looping(graph')) < Cardinality(Looping(graph))]_vars
=============================================================================
