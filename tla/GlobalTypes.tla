---------------------------- MODULE GlobalTypes ----------------------------
(***************************************************************************)
(* From the sketch graphs of the components to one graph of all types       *)
(* (SCCSketchsBuilder::build and build_global_type_graph of                 *)
(* solver/type_sketch.rs), after BindFormals has bound the formals:         *)
(* a global variable gets the intersection of its types everywhere, a type  *)
(* of a caller that is equal to the callee's becomes an alias of it, and    *)
(* the graphs are copied into one, callees first, edges to an alias leading *)
(* to what it stands for.                                                   *)
(*                                                                          *)
(* The components are the callee, 0, and its callers, 1, 2, ...  A location *)
(* is a node of a component, <<"scc", i, n>>, or of the sketch of a global, *)
(* <<"global", g, n>>.                                                      *)
(***************************************************************************)
EXTENDS BindFormals, TLC

VARIABLES
  phase,      \* "bind", "collect", "apply", "alias", "extend", "copy" or "done"
  pending,    \* the components the phase has still to visit
  refinedAs,  \* global_sketches, later global_repr: the sketch of each global
  order,      \* the order in which the hash table of global sketches is read
  aliases,    \* parameter_aliases
  index,      \* location_to_index
  types       \* the resulting graph and its labels

globalVars == <<phase, pending, refinedAs, order, aliases, index, types>>

Components == 0 .. Len(callers)
Graph(i) == IF i = 0 THEN callee ELSE callers[i]
GlobalsOf(i) == Globals \cap DOMAIN Graph(i).keys

\* What extending the map g by f leaves.
Over(f, g) == [x \in DOMAIN f \cup DOMAIN g |-> IF x \in DOMAIN f THEN f[x] ELSE g[x]]

NoTypes == [nodes |-> {}, edges |-> {}, keys |-> <<>>]

InitGlobal ==
  /\ BindInit
  /\ phase = "bind" /\ pending = {} /\ refinedAs = <<>> /\ order = <<>>
  /\ aliases = <<>> /\ index = <<>> /\ types = NoTypes

\* The loops of build, one component after the other.
Visit(i, next) ==
  /\ i \in pending
  /\ pending' = IF pending = {i} THEN Components ELSE pending \ {i}
  /\ phase' = IF pending = {i} THEN next ELSE phase

Bind ==
  /\ phase = "bind"
  /\ BindNext
  /\ UNCHANGED globalVars

Bound ==
  /\ phase = "bind" /\ Done
  /\ phase' = "collect" /\ pending' = Components
  /\ UNCHANGED <<bindVars, refinedAs, order, aliases, index, types>>

-----------------------------------------------------------------------------
(* collect_global_instantiations and apply_global_instantiations *)

\* insert_global_sketches; scc_repr is a hash table.
InsertGlobalSketches(i) ==
  /\ phase = "collect"
  /\ Visit(i, "apply")
  /\ refinedAs' = [g \in DOMAIN refinedAs \cup GlobalsOf(i) |->
                     IF g \notin GlobalsOf(i) THEN refinedAs[g]
                     ELSE Intersect(IF g \in DOMAIN refinedAs THEN refinedAs[g]
                                    ELSE SketchOf(Graph(i), g),
                                    SketchOf(Graph(i), g))]
  /\ order' \in IF phase' = phase THEN {order} ELSE SetToSeqs(DOMAIN refinedAs')
  /\ UNCHANGED <<bindVars, aliases, index, types>>

\* maybe_replace_dtv
MaybeReplaced(graph, g) ==
  IF g \in DOMAIN graph.keys THEN ReplaceNode(graph, g, refinedAs[g]) ELSE {graph}

AllMaybeReplaced(G, g) == UNION {MaybeReplaced(graph, g) : graph \in G}

\* The graphs that one replacement after the other can leave.
Instantiated(i) ==
  LET after[j \in 0 .. Len(order)] ==
        IF j = 0 THEN {Graph(i)} ELSE AllMaybeReplaced(after[j-1], order[j])
  IN  after[Len(order)]

ApplyGlobalInstantiations(i) ==
  /\ phase = "apply"
  /\ Visit(i, "alias")
  /\ \E graph \in Instantiated(i) :
       IF i = 0 THEN callee' = graph /\ UNCHANGED callers
       ELSE callers' = [callers EXCEPT ![i] = graph] /\ UNCHANGED callee
  /\ UNCHANGED <<refined, refinedAs, order, aliases, index, types>>

-----------------------------------------------------------------------------
(* find_shared_subgraphs *)

\* The strongly connected component of n.
LoopOf(s, n) == {m \in Reached(s, {n}) : n \in Reached(s, {m})}

WordTo(visits, n) == visits[CHOOSE j \in DOMAIN visits : visits[j].at = n].word

(* The edges of the condensation, made acyclic: of those that lead from one  *)
(* component to another it keeps only the last by index, which the order in  *)
(* which the sketch was put together decides: here, any of them.             *)
CondensedEdges(s) ==
  LET loop == [n \in s.nodes |-> LoopOf(s, n)]
      between == {e \in s.edges : loop[e[1]] # loop[e[3]]}
      parallel == {{f \in between : loop[f[1]] = loop[e[1]] /\ loop[f[3]] = loop[e[3]]} : e \in between}
  IN  {kept \in kSubset(Cardinality(parallel), between) : \A P \in parallel : kept \cap P # {}}

\* sketch_to_scc_map: a word by which each predecessor enters a component.
EntryPaths(kept, visits, loop) ==
  LET entering == {e \in kept : e[3] \in loop}
  IN  IF entering = {} THEN {<<>>} ELSE {Append(WordTo(visits, e[1]), e[2]) : e \in entering}

(* get_subsketch_at_path: the part of s below a word, if there is one.  Its  *)
(* root is looked for as the node that no edge leads to.                     *)
RootsBelow(s, word) ==
  LET n == Follow(s, Entry(s), word)
  IN  IF n = NoNode THEN {} ELSE {m \in {n} : \A e \in s.edges : e[3] = m => e[1] \notin Reached(s, {n})}

Subsketches(s, word) ==
  {[s EXCEPT !.keys = [k \in {s.repr} |-> root]] : root \in RootsBelow(s, word)}

\* Faulty: takes a word both know for equal types.
EquivalentWhenKnown(word, s, t) == Subsketches(s, word) # {} /\ Subsketches(t, word) # {}

\* sketches_have_equivalent_path
EquivalentPath(word, s, t) ==
  \E x \in Subsketches(s, word), y \in Subsketches(t, word) : IsStructurallyEqual(x, y)

\* The search goes on below the components that are not represented in t.
SharedSubgraphs(s, t, visits, kept) ==
  LET paths(n) == EntryPaths(kept, visits, LoopOf(s, n))
      shared == {n \in Reached(s, {Entry(s)}) : \A w \in paths(n) : EquivalentPath(w, s, t)}
      open == [edges |-> {e \in s.edges : e[1] \notin shared}]
  IN  UNION {paths(n) : n \in shared \cap Reached(open, {Entry(s)})}

-----------------------------------------------------------------------------
(* collect_aliases *)

\* The functions within a relation: the maps a loop over it can leave behind.
LastWrites(R) ==
  LET written == {p[1] : p \in R}
      values == {p[2] : p \in R}
      last == {W \in kSubset(Cardinality(written), R) :
                 \A loc \in written : \E v \in values : <<loc, v>> \in W}
  IN  {[loc \in written |-> CHOOSE v \in values : <<loc, v>> \in W] : W \in last}

\* A later alias of a location replaces an earlier one: what one step after the
\* other inserts and none of those that come later[j] overwrites.
Surviving(inserted, later) ==
  UNION {{p \in inserted[j] : \A k \in later[j] : \A q \in inserted[k] : q[1] # p[1]} :
           j \in DOMAIN inserted}

(* collect_aliases_for_formal, for the callsite of i: what may be found, one *)
(* set for each way to explore and condense; find_node may find nothing.     *)
FormalAliases(k, i) ==
  LET s == SketchOf(callers[i], k)
      t == SketchOf(callee, k)
      alias(w) == <<<<"scc", i, Follow(s, Entry(s), w)>>, <<"scc", 0, Follow(t, Entry(t), w)>>>>
      found(words) == {p \in {alias(w) : w \in words} : p[1][3] \in callers[i].nodes /\ p[2][3] \in callee.nodes}
  IN  {found(SharedSubgraphs(s, t, visits, kept)) :
         visits \in ExplorePaths(s, Entry(s)), kept \in CondensedEdges(s)}

\* The ways to choose from every set A[x] one element.
OneOfEach(A) ==
  {f \in [DOMAIN A -> UNION {A[x] : x \in DOMAIN A}] : \A x \in DOMAIN A : f[x] \in A[x]}

AllFormalAliases(k) ==
  {UNION {f[i] : i \in DOMAIN callers} : f \in OneOfEach([i \in DOMAIN callers |-> FormalAliases(k, i)])}

\* What collect_aliases_for_scc adds for globals, after the formals.
GlobalAliases(i) ==
  {<<<<"scc", i, Graph(i).keys[g]>>, <<"global", g, Entry(refinedAs[g])>>>> : g \in GlobalsOf(i)}

(* collect_aliases goes top down: the callers' globals come before the       *)
(* callee's formals, of which found tells what the first, second, ... adds.  *)
Collected(found) ==
  LET last == Len(found) + 1
      inserted == [j \in 0 .. last |->
                     IF j = 0 THEN UNION {GlobalAliases(i) : i \in DOMAIN callers}
                     ELSE IF j = last THEN GlobalAliases(0)
                     ELSE found[j]]
  IN  Surviving(inserted, [j \in 0 .. last |-> j + 1 .. last])

\* The formals come in the order of a hash table.
FormalOrders == {ins \o outs : ins \in SetToSeqs(InParams), outs \in SetToSeqs(OutParams)}

FoundFor(formals) == OneOfEach([j \in DOMAIN formals |-> AllFormalAliases(formals[j])])

CollectAliases ==
  /\ phase = "alias"
  /\ phase' = "extend"
  /\ \E formals \in FormalOrders : \E found \in FoundFor(formals) :
       aliases' \in LastWrites(Collected(found))
  /\ UNCHANGED <<bindVars, pending, refinedAs, order, index, types>>

-----------------------------------------------------------------------------
(* extend_aliasing_relations *)

\* get_subgraph_entries_for_scc_loc: what is entered from outside the subgraph.
SubgraphEntries(s, n) ==
  {m \in Reached(s, {n}) : \E e \in s.edges : e[3] = m /\ e[1] \notin Reached(s, {n})}

\* get_graph_referenced_by_type_loc
GraphAt(loc) == IF loc[1] = "scc" THEN Graph(loc[2]) ELSE refinedAs[loc[2]]

\* find_child_location_by_path
ChildOf(loc, w) == <<loc[1], loc[2], Follow(GraphAt(loc), loc[3], w)>>

\* get_implied_aliasing_relations
Implied(from) ==
  LET s == Graph(from[2])
  IN  {p \in {<<<<"scc", from[2], m>>, ChildOf(aliases[from], WordTo(visits, m))>> :
                m \in SubgraphEntries(s, from[3]), visits \in ExplorePaths(s, from[3])} :
         p[2][3] \in GraphAt(aliases[from]).nodes}

\* The order of the B-tree; a location implies others of its component.
Later(p, q) == p[2] > q[2] \/ (p[2] = q[2] /\ p[3] > q[3])

Extended ==
  Surviving([from \in DOMAIN aliases |-> Implied(from)],
            [from \in DOMAIN aliases |-> {p \in DOMAIN aliases : Later(p, from)}])

ExtendAliases ==
  /\ phase = "extend"
  /\ phase' = "copy"
  /\ aliases' \in {Over(f, aliases) : f \in LastWrites(Extended)}
  /\ UNCHANGED <<bindVars, pending, refinedAs, order, index, types>>

-----------------------------------------------------------------------------
(* build_global_type_graph *)

\* The nodes of s, known by the locations at[n], in the resulting graph.
Numbering(s, at) ==
  LET known == {[loc |-> at[n], idx |-> Fresh(types, Cardinality({m \in s.nodes : m <= n}))] : n \in s.nodes}
  IN  [loc \in {k.loc : k \in known} |-> (CHOOSE k \in known : k.loc = loc).idx]

\* add_globals_to_global_graph, one global at a time.
CopyGlobal(g) ==
  /\ phase = "copy" /\ g \in DOMAIN refinedAs
  /\ <<"global", g>> \notin DOMAIN types.keys
  /\ \E new \in {Numbering(refinedAs[g], [n \in refinedAs[g].nodes |-> <<"global", g, n>>])} :
       /\ index' = Over(new, index)
       /\ types' = [nodes |-> types.nodes \cup {new[l] : l \in DOMAIN new},
                    edges |-> types.edges \cup
                                {<<new[<<"global", g, e[1]>>], e[2], new[<<"global", g, e[3]>>]>> :
                                   e \in refinedAs[g].edges},
                    keys |-> Over([k \in {<<"global", g>>} |-> new[<<"global", g, Entry(refinedAs[g])>>]],
                                  types.keys)]
  /\ UNCHANGED <<bindVars, phase, pending, refinedAs, order, aliases>>

\* Where an edge to a location leads: one step through the aliases.
Destination(loc) == IF loc \in DOMAIN aliases THEN aliases[loc] ELSE loc

\* The base variables of a component: they alone are labelled.
OwnVariables(i) ==
  DOMAIN Graph(i).keys \ (Formals \cup Globals)

\* Faulty: the components come top down.
MayCopyTopDown(i) == \A j \in pending : i = 0 => j = 0

\* The reverse topological order.
MayCopy(i) == 0 \in pending => i = 0

\* copy_built_sketch_into_global
CopyBuiltSketch(i) ==
  /\ phase = "copy"
  /\ \A g \in DOMAIN refinedAs : <<"global", g>> \in DOMAIN types.keys
  /\ MayCopy(i)
  /\ Visit(i, "done")
  /\ \E known \in {Over(Numbering(Graph(i), [n \in Graph(i).nodes |-> <<"scc", i, n>>]), index)} :
       /\ index' = known
       /\ types' = [nodes |-> types.nodes \cup {known[<<"scc", i, n>>] : n \in Graph(i).nodes},
                    edges |-> types.edges \cup
                                {<<known[<<"scc", i, e[1]>>], e[2], known[Destination(<<"scc", i, e[3]>>)]>> :
                                   e \in {f \in Graph(i).edges : Destination(<<"scc", i, f[3]>>) \in DOMAIN known}},
                    keys |-> Over([k \in {<<"scc", i, v>> : v \in OwnVariables(i)} |->
                                     known[<<"scc", i, Graph(i).keys[k[3]]>>]],
                                  types.keys)]
  /\ UNCHANGED <<bindVars, refinedAs, order, aliases>>

NextGlobal ==
  \/ Bind
  \/ Bound
  \/ \E i \in pending : InsertGlobalSketches(i)
  \/ \E i \in pending : ApplyGlobalInstantiations(i)
  \/ CollectAliases
  \/ ExtendAliases
  \/ \E g \in DOMAIN refinedAs : CopyGlobal(g)
  \/ \E i \in pending : CopyBuiltSketch(i)

\* remove_nodes_unreachable_from_label (see MappingGraph) takes no word from a label.
SpecGlobal == InitGlobal /\ [][NextGlobal]_<<bindVars, globalVars>>

-----------------------------------------------------------------------------
(* "preserve invariant that no two equal outgoing edges without merging    *)
(* nodes", the open comment at the end of replace_node, which refines the  *)
(* formals of the callee and puts the globals into every component.        *)
Deterministic == \A i \in Components : IsDeterministic(Graph(i))

(* Until the globals are applied, the callee's in parameters are what its   *)
(* callsites share (see BindFormals).                                        *)
SharedUntilGlobals == phase \in {"bind", "collect"} => InParamsAreShared

(* "Alias targets should be built before alias due to reverse topo order":   *)
(* when a component is copied, every location its edges lead to is known.    *)
AliasTargetsAreBuilt ==
  \A i \in Components :
    (\E n \in Graph(i).nodes : <<"scc", i, n>> \in DOMAIN index) =>
      \A e \in Graph(i).edges : Destination(<<"scc", i, e[3]>>) \in DOMAIN index

\* What n stands for in a graph.
TypeAt(graph, n) ==
  [nodes |-> graph.nodes, edges |-> graph.edges, keys |-> [k \in {0} |-> n], repr |-> 0]

(* An edge that is led to an alias still leads to a type with the same       *)
(* words: every variable of a component, and every global in it, knows the   *)
(* same words in the graph of all types as in the graph of its component.    *)
WordsAreKept ==
  phase = "done" =>
    /\ \A i \in Components : \A v \in OwnVariables(i) :
         IsStructurallyEqual(TypeAt(Graph(i), Graph(i).keys[v]),
                             TypeAt(types, types.keys[<<"scc", i, v>>]))
    /\ \A i \in Components : \A g \in GlobalsOf(i) :
         IsStructurallyEqual(TypeAt(Graph(i), Graph(i).keys[g]),
                             TypeAt(types, types.keys[<<"global", g>>]))
=============================================================================
