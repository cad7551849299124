# TLA+ models of binary_type_inference

binary_type_inference recovers types for a stripped binary. It lifts a program to an
intermediate representation, turns each procedure into subtyping constraints on *derived type
variables* (a variable and a path of field labels, `sub_1.in_0.load.σ4@0`), simplifies the
constraints of every strongly connected component (SCC) of the call graph with a pushdown
automaton, builds *sketches* (regular trees of labels with lattice bounds) from the simplified
constraints, lets callers and callees refine each other's sketches, and lowers the result to C.

This directory models the solver, the part of the system whose correctness is an argument and
not a conversion: the automaton and its saturation, its simplification, the graphs sketches live
on, the unification that makes them deterministic, the inference of pointers from additions, the
way sketches are exchanged between procedures and joined to one graph of all types, the
simplification of displaced pointers, the signatures procedures get along the call graph, the
lattice of primitive types, and the lowering to C. Paths below are relative to the repository's
root.

The program is sequential and deterministic but for the iteration order of its hash tables. What
makes it hard is different: several fixpoint loops whose exit tests compare whole states,
node indices of a stable graph that are kept in tables across removals and reuses, in-place
replacement of subgraphs that other keys share, and results that depend on hash order unless an
argument says they do not.

## Inventory

| Component | Source | State | Operations | What makes it correct |
|---|---|---|---|---|
| Keyed graph | `src/graph_algos/mapping_graph.rs` | a stable graph, key → index, index → group of keys | add, merge, remove, extract, quotient, relabel, replace a subgraph | the tables stay inverse to each other and to the graph; nothing known of a key is lost |
| Graph algorithms | `src/graph_algos/mod.rs` | none | simple paths, one path per node, follow a word | |
| Pushdown automaton | `src/solver/constraint_graph.rs` | graph of control states, `mp`, `cant_pop_nodes` | `FSA::new`, `saturate`, `intersect_with_pop_push`, `remove_unreachable`, `generate_recursive_type_variables`, `walk_constraints` | what it derives is exactly what the deduction rules derive |
| Quotient of sketch graphs | `src/solver/type_sketch.rs` 162–377 | union-find, pending implications | the union-find loop | the least congruence |
| Sketch operations | `src/solver/type_sketch.rs` 1764–2171, `src/solver/dfa_operations.rs` | an automaton with bounds | intersect, union, relabel | meet and join of types |
| Binding of polymorphic types | `src/solver/type_sketch.rs` 601–763, 1095–1291, 1543– | a sketch graph per SCC | build bottom up, refine formals top down | refining one formal does not damage another |
| Aliases and global graph | `src/solver/type_sketch.rs` 765–1093, 1128–1195, 1293–1631 | alias table of node locations, global sketches | find shared subgraphs, collect aliases, assemble one graph | an alias points at an existing location that is built first |
| Pointer simplification | `src/solver/type_sketch.rs` 2175–2390 | a sketch graph | find and apply a transform until none is left | ends in every order; keeps the fields |
| Signatures of SCCs | `src/solver/scc_constraint_generation.rs` 366–732, `src/analysis/callgraph.rs` | SCC → signature | simplify bottom up, instantiate per callsite | callees first; callsites stay apart |
| Pointer inference | `src/solver/scc_constraint_generation.rs` 67–365 | the constraints, labels of a throw-away sketch graph | infer until nothing changes | ends; leaves nothing undecided; monotone |
| Type lattice | `src/solver/type_lattice.rs` | meet and join tables | build from a definition | tables are meet and join |
| Dataflow analyses | `src/analysis/` | abstract states | transfer functions for cwe_checker's engine | |
| Constraint generation | `src/constraint_generation/`, `src/node_context/` | a growing constraint set | translate each instruction | offsets fit their width |
| Lowering | `src/lowering/mod.rs` | types by id, ids by node | schedule the fields of a node, build its type, write the mapping | fields of a structure do not overlap; the mapping says what the sketches say |
| Job and I/O | `src/inference_job/mod.rs`, `src/bin/`, `src/util.rs` | files | run the pipeline | |

How they interact: the job calls constraint generation per SCC in reverse topological order of
the condensed call graph; each SCC's constraints, with its callees' instantiated signatures, go
through pointer inference (which itself builds throw-away sketches) and the automaton; the walk's
constraints are the SCC's signature. A second pass builds one sketch graph per SCC (copying the
reachable subgraphs of the callees' formals, then quotienting), binds polymorphic types top down,
collects aliases, and assembles a global graph that lowering reads. All of these share
`MappingGraph`; its node indices travel between components as plain numbers.

`PROJECT.json` lists under "hazards" every place where this can go wrong in a way a test would
hardly reach, with the properties that cover it, and those no property covers yet.

## Modules

| Module | Models | State and actions |
|---|---|---|
| `MappingGraph` | `mapping_graph.rs`, all operations but `replace_node` | `live`, `weight`, `edges` are the stable graph, `nodes` and `reprs` the two tables. One action per method. petgraph's free list is abstracted to "any index that is not live", so every reuse is explored. The node weight is a set of bounds and the magma operator union. |
| `ConstraintFsa` | `FSA::new` and the three rules of saturation, as operators | A state is a variable, a direction, a variance and a path; edges are records. `Interesting` is the rule context. |
| `Saturation` | `get_saturation_edges`, `saturate` | One action per element a phase handles, so that a phase may handle them in any order; `saved` is the code's `saved_state`. |
| `SubtypeDeduction` | the deduction rules the automaton stands for | Reference definition only: it is not translated from code but from the judgements the constraints mean, and nothing but properties uses it. |
| `InheritedDeduction` | the same rules over the derived type variables that exist | Reference definition for what the walk reads off: fields that subtypes and supertypes inherit from each other, up to a length. |
| `SaturationMeaning` | what saturation promises | The properties that compare `Saturation` with `SubtypeDeduction`. |
| `SimplifyGraph` | `simplify_graph`, `walk_constraints` | `graph` holds weights by index, edges by index, `mp`, `cant_pop_nodes` (`copies`) and the free list. Indices are allocated exactly as petgraph does (last freed first), and nodes are numbered in the order the code inserts them, because the defect below depends on it. The order in which a pass visits components is left open. |
| `QuotientGroups` | `insert_dtv`, `get_edge_set`, `generate_quotient_groups` | `groups` is the union-find structure as a partition; one action per implication consumed. |
| `LeastCongruence` | what `generate_quotient_groups` promises | One step computes the finest congruence. |
| `SketchLabels` | equality of labels in `get_edge_set` | A load and a store are one label to a quotient. |
| `SketchOps` | sketches, `dfa_operations.rs`, `binop_sketch`, `label_dtvs`, `replace_node`, `explore_paths` | Pure operators. One that depends on hash order returns the set of its possible results. |
| `PointerSimplify` | `find_pointer_simplification`, `apply_pointer_transform`, `simplify_pointers` | `g` is one sketch graph; `Transform(p)` rewrites one pointer and takes the quotient. Any qualifying node may be next. |
| `InferPointers` | `infer_pointers`: `InferenceRules`, `get_initial_labeling`, the sketch graph it builds with `SketchBuilder` | `adds` and `cons` are the constraints; a round builds `sg` (`Build`), then adds what its labels decide (`Apply`), until nothing is added. |
| `BindFormals` | `SCCSketchsBuilder`: `build_and_label_scc_sketch` for a callee and its callsites, `refine_formals` | `callee` is the callee's graph, `callers` one graph per callsite. `Call` adds a callsite, `RefineFormalIn` and `RefineFormalOut` are the two refinements in any order the hash map may give. Composes `SketchOps`. |
| `GlobalTypes` | `SCCSketchsBuilder`: `build`, `collect_global_instantiations`, `apply_global_instantiations`, `collect_aliases`, `extend_aliasing_relations`, `build_global_type_graph` | Extends `BindFormals`, whose steps are its first phase; `phase` then follows `build` and `build_global_type_graph`. `refinedAs` is the sketch of each global, `aliases` is `parameter_aliases`, `index` is `location_to_index`, `types` the graph of all types. |
| `FieldSchedule` | `schedule_structures`, `Classroom` | `todo` the fields to visit, `rooms` the heap of classrooms; one `Visit` per field. |
| `Lowering` | `LoweringContext`, `convert_mapping_to_profobuf` | Extends `FieldSchedule`, whose steps share out the fields of the node that is `current`. `types` gives nodes the ids of their types, `ctx` the types by id; `wire` is the mapping that is written. Nodes in any order. |
| `SccSignatures` | `scc_constraint_generation.rs`: `get_signatures`, `get_simplified_constraints`, `simplify_scc`; `callgraph.rs` | `order` is the topological order, `signatures` the state of the first pass, `constraints` the result of the second. `Order` takes any topological order of the condensed call graph; per SCC, `InstantiateCallees` is the first half of `simplify_scc`, `BreakLoop` one loop breaker, `Simplify` the walk and the record. |
| `PolymorphicCalls` | what signatures promise | Reference definition and properties: the program with every call between SCCs expanded in place, each expansion with variables of its own. |
| `LatticeTables` | `type_lattice.rs`; `LatticeBounds`, `label_by` of `type_sketch.rs` | `relation` is the merged definition; `joinTable`, `meetTable` and `lessThan` are built from it, the tables with any topological order. Then nodes are labelled and unified in any order; `uppers` and `lowers` remember what a node was given. |
| `MC*` | instances for TLC | |
| `FixpointLemmas` | | Lemmas about induction and iterated steps that the proofs share. |
| `*Proofs` | theorems about the module they extend | |

Definitions whose comment begins with "Faulty:" are mutated forms of the definition that follows
them. They model plausible mistakes; no specification uses them. `PROJECT.json` pairs each with
the property that notices it.

Some abstractions that hold throughout:

- A label that is not load or store is covariant or contravariant and nothing else; its offset,
  size or parameter number does not matter to the solver. Add labels occur in `PointerSimplify`
  and `Lowering` only; `InferPointers` and `GlobalTypes` are given none.
- A lattice element is a set of atoms, meet is intersection and join union, except in
  `LatticeTables`, where lattices are what the user's definition makes them.
- In `SccSignatures` the automaton is represented by the constraints its walk yields, chains of
  constraints through variables that are not kept; that a walk yields these is what the runs of
  `SimplifyGraph` check on automata. Variables there have no field labels but the parameter of a
  formal, and no constraint adds, so `infer_pointers` returns its input. `fresh` counts the loop
  breakers only, although the code's counter has other users.
- `InferPointers` and `PointerSimplify` take the quotient of a sketch graph in one step
  (`QuotientBy`); how the loop arrives at it is the subject of `QuotientGroups`. In
  `InferPointers` a constraint between a variable and a lattice element unifies the variable
  with the element's node, as `insert_dtv` and the quotient do: all variables bounded by one
  integral type share a node, and one of them that is loaded through makes pointers of all.
- `GlobalTypes` has one level of calls. Its locations and aliases are those of the code, and the
  order in which aliases of one location overwrite each other is any the hash tables allow. Which
  word `explore_paths` finds first and which of several parallel edges the condensation keeps both
  follow the order of edges in a sketch; the model lets them vary independently.
- `Lowering` has the width of the protobuf mapping as a bound, `MaxU32`: a size, an offset, a parameter
  index or an id above it panics (`FitsU32`; "TODO(ian): dont unwrap u32s"), so no mapping is written.
  Its properties are about mappings that were written.
- `Lowering` gives ids to the types one step adds in one order (`SetToSeq`); the code and the
  properties compare ids for equality only, and that later types have greater ids is all the proofs use. `build_structure_types` adds one alias per target rather than per edge.
- In `LatticeTables` the unions of nodes may come before, between and after labels. The code
  labels after the first quotient and unifies again in pointer simplification and when sketches
  are combined; all those orders are among the model's.
- Logging and debug files are left out.
- Saturation's inner maps gain empty entries (`or_insert_with`) that can make the code run one
  round more than the model; the extra round changes nothing else.
- In `BindFormals` a caller's graph always contains what the callee's formals reach, because
  `insert_missed_formals` puts every called formal in the caller's constraints and
  `copy_reachable_subgraph_into` copies its reachable subgraph before the quotient. New nodes get
  fresh indices; reuse is `MappingGraph`'s subject.

## Runs

Every run bounds its instance in its MC module or cfg. Deadlock is not checked where the
modelled computation ends.

**mapping_graph** (`MCMappingGraph`): three keys, four indices, two edges at most (`MaxEdges`;
merges may create more). Three keys are needed for a group of two next to a third key, four
indices so that a merge (which needs a fresh index while both old nodes are still there) has one
to reuse. Keys and indices are symmetric: the code compares them only for equality. Shows
`Consistent`, what the panics in `remove_node` and `quoetient_graph` rely on, and that edges,
bounds and unifications survive each operation.

**saturation** (`MCSaturation`): constraint sets over four variables with paths of up to two
labels, chosen so that pushes meet pops, loads meet stores on both sides, contravariant labels
flip the variance, and recursive constraints close loops. They come twice, once with two
interesting variables and once with none. Checks soundness (`ShortcutsDerivable`: each shortcut is
derivable in `SubtypeDeduction`), mirror symmetry, termination, and, for the sets where no
interesting variable cuts a proof, that every derivable judgement between the automaton's
variables is a path of success edges (`ConsequencesFound`).

**quotient_groups** (`MCQuotientGroups`): constraint sets over three variables with one- and
two-label paths, in which unifying one pair triggers a chain of others, also through load/store
and through cycles. The groups are compared with every partition of the nodes, and the loop is
shown to implement `LeastCongruence`.

**simplify_graph** (`MCSimplifyGraph`): constraint sets with two interesting and two internal
variables, among them recursive ones that need one and several loop breakers, and sets with the reflexive
constraint that a missed formal is given. `PopsPrecedePushes`, `EveryLoopHasAnEntry`, `Acyclic` (no
cycle is left but self loops that neither push nor pop, which only reflexive constraints make) and
`LoopsShrink` are also proved (`SimplifyGraphProofs`), and so is what `WalkSound` checks for short
paths. `WalkSound` and `WalkComplete` compare the constraints read off with `SubtypeDeduction` (loop breakers stand for the variables
they replaced). `WalkComplete` uses the pointer rule only from a mentioned store to
a mentioned load that constraints on internal variables link: a value stored through an
interesting pointer is followed in the caller, and where the constraints mention no load the
automaton has no state to pop it at.

**infer_pointers** (`MCInferPointers`): every choice of up to three of four additions that share
operands (`MaxAdds`) and up to four of nine constraints (`MaxConstraints`) that load, store, bound
by an integral type or leave a variable unknown. Three additions are a chain in which the result
of one is an operand of the next and back, so that what a round infers decides others in the next.
The loop must end (`InferenceEnds`), leave no rule undecided although labels are dropped with their
sketch (`NothingLeftToInfer`), and never forget a pointer (`KnownStaysKnown`).

**global_types** (`MCGlobalTypes`): from the sketch graph of one callee to the graph of all types.
The callee has two in parameters and one out parameter (which may be the first in parameter's
node) and every placement of up to three load edges among them with one per node (`MaxFields`),
which gives shared nodes, cycles and parameters that reach each other, or a global and one load;
up to two callsites (`MaxCallers`) each add one of eleven sets of edges, among them a store the
quotient must unify with a load, fields of a global, and bounds. Two callsites are the fewest
that can disagree. `WordsSurvive` and `KeysStayConnected` are about every change of the callee's
graph, the refinement of formals and the substitution of the one global (with several globals
they need not hold, see below), and `Deterministic` about the graphs of all components through both;
`SharedUntilGlobals` relates the refined in parameters to all callsites; `AliasTargetsAreBuilt`
is what an `expect` of `copy_built_sketch_into_global` relies on, and `WordsAreKept` compares
every variable and global in the resulting graph with its component's graph. Callers that enter a
node by two labels of which the callee knows one are among the instances: the node is aliased or
not, depending on the edge the condensation keeps, and the property must hold for both.

**pointer_simplify** (`MCPointerSimplify`): five nodes with three to five of fifteen edges
(`MaxEdges`): displacements in chains and in a self loop, structures shared by two pointers, and
pointers that are also loaded or are fields, with three choices of keys. `SimplificationEnds` holds for
every order of the qualifying nodes; `ContentsSurvive` says that a pointer to which only
displacements lead, and whose structures nothing else leads to, keeps its fields at their distance.

**lowering** (`MCLowering`): graphs of three nodes with up to three edges of any kind from the
first (`MaxEdges`), one from the second that may close a cycle, one or two procedures, perhaps on
one node; and structures of up to four fields (`MaxFields`) of one, two or four bytes at offsets
up to four (`MaxOffset`): with four fields two structures can each hold two, and offsets and sizes
make fields overlap, nest, touch and leave gaps. `MaxU32` stands for 2^32 - 1: it admits every number
of these graphs, and a structure with a field one byte beyond it is never written. `NoOverlap`, `MinimalPartitioning` and
`FieldsAreKept` are about each scheduling; `SketchesAreLowered` compares the mapping that is
written with the sketches, and `NoTypeContainsItself` says recursive types go through pointers.
Return values beyond those a procedure is known to have are excluded (`ReturnsAreListed`): they
vanish, and nothing is promised for them.

**scc_signatures** (`MCSccSignatures`): four procedures; `h` calls `f` twice with different
arguments and one use of a global or of both results, `f` calls `g` or not, `g` returns, stores
to a global, calls `f` back (a recursive SCC) or calls the extern symbol `e`, for which the user
adds constraints or not; loops of local variables that need a loop breaker in one body of `f`.
All combinations are programs, and every topological order of their condensed call graphs is
taken. Two callsites of one procedure are what polymorphism is about, and a chain of three calls
is the shortest in which a global or an extern's constraint must pass through an intermediate
signature. `NothingLost` and `ApartWithoutLoops` compare both passes' results with the expanded
program. The interesting procedures (`InterestingTids`) are `f` and `g`.

**lattice_tables** (`MCLatticeTables`): nine definitions over six handles: the empty one, a chain
with redundant edges, the two smallest lattices that are not distributive (where an order-
dependent shortcut would show), one with two elements whose join lies two levels up, merges of
two or three definitions that give a lattice, and merges that give a pair two minimal bounds, a
cycle, or an element that is not below the top. Two nodes, each of which can get its two initial
bounds and two more (`MaxRefinements`), and one union: two are enough for the bounds to depend on
the order if they could, since each narrowing combines the current bound with one more element.

Two runs show disagreements between the code and what it says of itself:

- **simplify_stale** — `get_equiv_node_idxs` finds indices in `mp` and `cant_pop_nodes` whose
  nodes `remove_unreachable` removed. `StableDiGraph` gives those indices to loop-breaker nodes,
  so breaking a second loop replaces a node of the first one's loop breaker. The comment on
  `replace_nodes_with_interesting_variable` (`src/solver/constraint_graph.rs:694`) says it
  replaces variables that are exactly equal. The passing run's constraint sets do not reach this
  state; on them walks are sound and complete.
- **signature_loops** — when a callee's constraints have a loop, its signature mentions the loop
  breaker's variable, and `retag_dtv` retags only formals. The callee's instances at two callsites
  then share that variable, and what is passed at one flows to the result of the other. The doc of
  `Signature` (`src/solver/scc_constraint_generation.rs:704`) says signatures have type constants,
  formals and globals as base variables only. The passing run asks for `CallsitesStayApart` as
  long as no loop was broken.

Modelling showed more places where code and comments differ. No run is about them, and the
properties above are stated so that they hold as the code is:

- `intersect` (`src/solver/type_sketch.rs:2143`) is called the greatest lower bound, but a field
  that only one sketch knows is merged with the default label, whose lower bound is bottom.
- `get_subsketch_at_path` (`src/solver/type_sketch.rs:1809`) looks for a root without incoming
  edges, so a sketch whose entry is on a cycle has none, and recursive types are never aliased.
- `find_shared_subgraphs` (`src/solver/type_sketch.rs:1048`) is to compare a component of the caller's
  type for "each entry in the scc". `sketch_to_scc_map` condenses with `make_acyclic` (line 977),
  which keeps one edge from one component to another: of a node that its predecessor both loads
  and stores through, one of the two words is compared and aliased. The model keeps any one of
  them (`CondensedEdges`), and the callee knows only the other or only this one in some states of
  `global_types`; what is aliased is equal along the word that was compared, so `WordsAreKept` holds.
- `collect_aliases` (`src/solver/type_sketch.rs:1464`) extends one map: a formal's alias can replace
  the alias to a global's root, although "globals are pointed to their roots" (line 820).
- `apply_global_instantiations` (`src/solver/type_sketch.rs:1595`) replaces globals one after the
  other by sketches that were all merged before. Suppose one caller keeps `h` in a field of `g` and stores
  its variable `v` through `h`, and another loads through that field of `g` and does not know `h`. Replacing
  `g` unifies the load with the store. Replacing `h` by its own sketch takes the load away again, and if
  `explore_paths` comes to the node of `v` by the load, `v` loses its place in the graph: `find_node`
  follows a path the new sketch does not have, although "we always refine the original type"
  (`src/graph_algos/mapping_graph.rs:124`). `WordsSurvive` and `KeysStayConnected` are checked with one
  global for this reason, and proved of the refinement of formals.
- `find_pointer_simplification` (`src/solver/type_sketch.rs:2292`) takes a node if some incoming edge
  is an add label; its comment says all. This is why `ContentsSurvive` is about pointers that
  nothing but displacements leads to. The result also depends on which of several qualifying nodes
  comes first, which is the order of a hash map's values.
- `superscedes_fld` (`src/lowering/mod.rs:98`) searches from the field's own offset on for a field
  that begins earlier, so it is false for every field; contained fields get structures of their own.

Fairness: the runs with a liveness property use weak fairness of the whole next-state relation.
The modelled loops run in one thread that nothing blocks, so a step that can be taken is taken.
No individual action is assumed fair. This is the fairness of `saturation`, `quotient_groups`,
`infer_pointers` and `pointer_simplify`.

## Proofs

TLAPS checks the following for every value of the constants that satisfies the modules'
assumptions (`PROJECT.json`, "theorems", lists them).

`FixpointLemmas` is what the others rest on. The models write the code's worklists and searches as
recursive functions on the numbers of rounds (`reach[n]`). That such a function exists and obeys
its equation needs induction, and so does that it settles within as many rounds as there are
things to find. The induction theorems of the library take an operator, which the provers cannot
instantiate; here a property is a set of numbers and a step is a function, so that the lemmas are
cited like any other (`NatSetInduction`, `IterationExists`, `ChainSettles`). `SettlingSettles` is the
same for a search that goes on until a step changes nothing, as graphs are explored and clashes
resolved in `SketchOps`.

`MappingGraphProofs`: `TypeOK` and `Consistent` are invariants; `EdgesSurvive`, `BoundsSurvive` and
`UnificationSurvives` hold of every step. `Consistent` together with `TypeOK` is inductive, one step
of the proof per action. The delicate case is `MergeDistinct`, where lemmas say which edges the four
copying loops leave. The action properties follow from the invariant: an edge between two keys'
nodes is found again because the tables name live nodes and every operation maps edges the way it
maps keys, and two keys with one node are mapped alike.

`SaturationProofs`: `TypeOK`, `NoPanic`, `StopsAtFixpoint`, `VarianceAgrees`, `MirrorSymmetric`,
`ShortcutsDerivable` and `ConsequencesFound`. The invariant needs several strengthenings. For
`NoPanic`: the states are closed under `Not`, which is a lemma about `FSA::new` (each rule is
generated in both variances, and the prefixes of a path change variance together). For
`StopsAtFixpoint`: within a round, whatever the phase has already handled is closed relative to
`saved`, so that a round that changes nothing has checked everything. For `VarianceAgrees`: a
recorded push and its definer differ by the variance of the pushed symbol, which the three phases
preserve. `MirrorSymmetric` is not inductive, since the phases make an edge and its mirror image at
different times: when the loop ends, the mirror image of everything found is a set that is closed
under the three rules as well, and what saturation found is the least one. Soundness says of each
recorded push what judgement it stands for, and that every theory (a set of judgements that holds
the given ones and is closed under the rules) has it. Completeness is the converse: where no
variable is interesting, the pairs of states that success edges connect are such a theory, so that
what is derivable is among them. Soundness and completeness together say, for every constraint set,
that the loop computes the deduction rules' consequences and nothing else.

`SimplifyGraphProofs`: `PopsPrecedePushes`, `EveryLoopHasAnEntry`, `Acyclic` and `LoopsShrink`, from
the graph the program starts with (sorted edges, numbered nodes, saturated) to the last prune. The
invariant says of the graph (`IsLoopGraph`): indices in use and the free list share out an initial
segment of the numbers; the two maps, however old their entries, give the index of the start and of
the end to `Start` and `End` alone, which is what makes replacing nodes at stale indices harmless to
them; there is a set of nodes, the copy, that every push leads into and no edge leaves, in which
there is no pop (`IsCopySide`), and the exit of a loop breaker always belongs to it, its entry if the
node it replaces did; and what has an edge to more than the end is reached from the start, so a
component with a cycle is entered from outside. A replaced node, and the two nodes that replace it,
are `IsQuiet`: all that enters them comes from the start or all that leaves them goes to the end.
A quiet node is on no cycle and later replacements keep it quiet, so a pass that skips every
component with a removed node skips none that has a cycle (`Acyclic`). A component not yet visited
stays a component when others are broken (`IsKnot` is about the edges within it only), and the maps
know every node that may be on a cycle (`NodesNamed`), so the representative is among the nodes that
are replaced; no replacement makes a cycle that was not there; hence `LoopsShrink`. The numbers of
loop breakers are assumed to be no variable of the constraints: `fresh_loop_breaker` counts on.

On top of this stands `WalkFollows`, the soundness of the whole of `simplify_graph` and
`walk_constraints` without a bound on paths: as long as breakers replace what they stand for
(`ReplacesOnlyEquals`), every constraint read off the simplified automaton is in every theory of the given
constraints (`IsTheory`: a set of judgements over all derived type variables that holds them and that
the deduction rules do not leave). The invariant (`SoundInv`) gives each node the derived type
variable it stands for, with a breaker standing for its representative (`Meant`), and says what each
edge claims of the two (`Holds`): a success edge a judgement, a label edge that one has a label more, the
start and the end that a symbol names a variable. Saturation adds only such edges
(`SaturationHolds`), cutting and pruning copy or drop them, and a replacement exchanges a node for two
of the same variable and variance. A walk then accumulates one judgement (`WalkHolds`): from its first
variable with the labels popped to its node's with the labels still to be pushed; it never pops
after a push because of `IsCopySide`, and the variances compared at the end put the judgement the right way round.

`SketchProofs` is about the quotient, the operations of `SketchOps`, the two analyses that use them and
the binding of formals and globals.
Of `QuotientGroups` it proves `TypeOK`, `ClosedWhenDone`, `OnlyForced`, and that the loop refines
`LeastCongruence`. `ClosedWhenDone` needs the invariant that an implication that is no longer
pending has its targets grouped, and that one that is pending does not apply to the labels of a
finished round. `OnlyForced` says the groups refine any congruence; with `ClosedWhenDone` this
makes the result the least one.

Of the operations it says what each recursion arrives at: `Reached` is the least set closed under
edges (`ReachedIsLeast`), `Enumerated` a bijection, and `Unified` the least equivalence that contains
the given classes and never takes two edges of one label to two nodes (`UnifiedIsLeast`). From these
follows what the sketch of a constraint set says, whatever the numbers of its nodes (`SketchesAre`,
with `IsSketchOf`): its nodes are the classes of the derived type variables under the least
equivalence the constraints force, and the upper bounds of a node are those of its class.

`NothingLeftToInfer` and `KnownStaysKnown` of `InferPointers` follow. Each rule only updates operands of
unknown type, by a known operand or by the weakest integral type (`RulesDecide`), and the constraint
it adds makes the operand known in the next sketch: it unifies it with the known one
(`UnifiedAlike`) or bounds it (`BoundedIsKnown`). If a round added nothing, the constraints it would
add were there, so no rule can have applied to an unknown operand (`SaturatedRound`). More constraints
give a coarser equivalence, so what was loaded through still is and what was bounded still is
(`MoreIsKnown`). The invariant `InferInv` says that the sketch in use is one of constraints that are
all still known. The proof assumes that the operands of additions are no lattice elements
(`InferenceAssumption`): they are made of registers and fresh variables
(`src/constraint_generation/mod.rs:342`).

For `ContentsSurvive` of `PointerSimplify` a transform is seen as a homomorphism of the relabelled graph
that takes the pointer and the variables it is displaced from to one node (`TransformedIs`). Edges that
are not relabelled are mapped (`EdgesKept`, `Mapped`), so displacements to other nodes stay as they
are, and one that led to the pointer has its last step moved into the fields
(`DisplacementsSurvive`): the sum of the two numbers does not change. The invariant is that the graph
is one (`GraphsStayGraphs`); `GraphsAssumption` says the same of the initial graphs.

`Deterministic` of `GlobalTypes` answers the open comment at the end of `replace_node`. The invariant
`GlobalInv` says that the graph of every component is built (`IsBuilt`: finite, its edges and keys at
its nodes) and deterministic, and that what is known of a global is a sketch (`IsSketch`). The
quotient makes a caller's graph deterministic (`QuotientIs`), and merges and refinements of sketches
are sketches, for each ends in a quotient (`BinopSketchIs`). When a sketch replaces a subgraph, the new
nodes are above the old ones (`FreshIs`), so the edges within the sketch leave no old node; and an edge
from outside into the subgraph keeps its source and its label and moves to the one place that its old
target has in the sketch (`ReplacedIs`), so two edges that agreed still do. A subgraph is closed
under edges, so no edge leaves it for what is kept. `explore_paths` finds nodes only that the graph
has (`ExplorePathsAre`). Merging the callsites one after the other, and replacing one global after the
other, are recursions over sequences, which exist by `RecursionExists` of `FixpointLemmas`.
Assumed is what the constructions that precede guarantee: the callee comes from a quotient and knows its
formals (`CalleesAssumption`), a caller adds finitely many edges and keys (`ExtrasAssumption`), and a
program has finitely many globals (`GlobalsAssumption`).

`AliasTargetsAreBuilt` adds three parts to that invariant (`AliasInv`). Every global of a component has a
sketch once the globals are collected, and still when sketches have replaced subgraphs, because the only
key of a global's sketch is the global (`GlobalsAreKnown`); so the `expect` of `collect_aliases_for_scc` holds
too. An alias leads to a node of a global's sketch or, from a caller, to one of the callee
(`AliasesAreEarlier`): `FormalAliases` leads to the callee, `GlobalAliases` to globals, what extension
implies stays in the graph its alias leads to, and whichever insertion is the last for a location, it
is one of these. And the globals are copied before any component and the callee before any caller
(`CalleesAreFirst`). Nothing is assumed of which subgraphs are found equal, or in which order aliases
overwrite each other.

`WordsSurvive` and `KeysStayConnected` are proved of `BindSpec`, so of any number of callsites and of formals
refined in any order. What the comment in `replace_node` calls refining is a map that keeps edges
(`IsMorphism`); a sketch refines another if there is one that takes entry to entry (`Embeds`). Such a
map takes every word along (`EmbedsWithin`), so the proof is about maps:

- a quotient has a map from what it is made of, and any other map that identifies what has to be identified
  factors through it (`QuotientMaps`); the pairs `Pairs` arrives at are the least set that the words lead
  to (`PairsAreLeast`). So a sketch that both operands refine is refined by their intersection, and a
  union maps to both operands (`IntersectEmbeds`, `UnionEmbeds`, `OperatedEmbeds`). If every callsite
  refines a formal's type, then what `refine_formal` computes refines it too, and every callsite refines
  that (`TypeEmbeds`): the formal learns what all callsites know, or nothing.
- `explore_paths` is handled by one rule (`Explored`): what holds of an empty stack and is kept by its two
  kinds of steps holds of every result. By it each node is visited by a word that leads there, in
  whatever order edges are pushed (`ExplorePathsVisit`). So `label_dtvs` and `replace_node` put keys and
  edges where the map takes them, whichever word they find (`LabeledIsPlaced`, `ReplacedIsPlaced`):
  two words of one node lead to one place in a refinement (`MorphismsAgree`). The old graph then maps
  to the new one as a whole, keys to keys (`PlacedMaps`, `Moves`).
- every callsite refines the formals, but not the whole callee: a caller copies only what is below
  formals and globals. The invariant `BoundInv` says that a part of the callee's graph that holds the formals
  and that no edge leaves maps to each callsite's graph, formals to formals (`FormalsMap`). A call
  establishes it (`CallerMaps`), and a refinement, which takes place within what is below one formal and
  reads callsites that do not change, keeps it although the part has changed (`RefinedMaps`).

This fails for globals at the step from one global to the next: the second one's sketch was merged from
graphs that the first replacement had not yet changed, and nothing maps what is now below it to that sketch.

`SccSignaturesProofs`: `TypeOK`, `NoPanic`, `NothingLost`, `ApartWithoutLoops` and
`FormalsRemembered`. `NoPanic` has three parts. A tag that is left once the tags of the SCC's own
procedures are removed belongs to a call out of the SCC (`TagsAreOutwardCalls`, from the assumption
that only calls leave tags); the topological order puts the callee's SCC behind the caller's
(`CalleesBehind`); and the first pass, which runs from the end, has recorded a signature for
everything behind the SCC it is at (`SignedBehind`). In the second pass every procedure has one.
`NothingLost` and `ApartWithoutLoops` compare results with the expansion of the program, a relation
on variables that are marked with the callsites they were expanded behind. A chain of the
expansion between two variables of an SCC alternates between the SCC's own constraints and stays in
the copy behind one callsite, and can enter and leave a copy at a parameter or a shared variable
only; each stay is a chain of the callee's expansion, which its signature has by the invariant
(`FInv`: a recorded signature is the chains of the expansion, between what is interesting, of its
SCC). The proofs use three more assumptions on programs, which constraint generation guarantees:
procedures' names are neither globals, type constants nor fresh variables (`NamesAssumption`); a
procedure is mentioned by its parameters only, and without a tag only in its own constraints
(`FormalsAssumption`: `create_formal_tvar`, `src/constraint_generation/mod.rs:682`); and one tag
belongs to one callee (`CallSitesAssumption`: the tag is the term of the block that ends in the
call).

`LatticeTablesProofs`: `TypeOK`, `LatticesDoNotPanic`, `TablesAreExact`, `BoundsSound` and
`BoundsExact`, for every finite set of handles and any definitions. A finite relation without cycles
has a topological order (`ToposortExists`: ordered by the number of elements each is reached
from), so that `create_table` finds one for every lattice; positions in it grow along
reachability (`ReachComesLater`), so a common bound from which all others are reachable comes first,
and nothing ties with it (`FirstExists`); reachability in the reversed graph is reachability the
other way round (`ReachConverse`), which makes the meets the same case. The inductive invariant
says that each table is a table of the merged relation and that each node's bounds are bounds of
what it was given, exact ones in a lattice; the step is that the meet of the bounds of two sets
bounds their union (`MeetBoundsUnion`). Antisymmetry is not assumed: a relation with a cycle has no
topological order.

`LoweringProofs`: `NoOverlap`, `MinimalPartitioning` and `FieldsAreKept`, first for the scheduling of
any finite set of fields whose sizes are multiples of bytes, then for `SpecLowering`, which schedules
the fields of one node after another. The invariant `MInv` says that fields are visited by
offset, that the fields of a room follow each other without overlap, and that no field is in two
places. When a field opens a new room, every room is taken at its offset: the room that is free
first is, so all are, and as the last field of each room began no later, it covers the field's
first byte. An injection from the rooms into the fields covering that byte (`RoomsCoverOpening`)
then bounds the number of rooms, and the bound stays because the fields do.

For `SketchesAreLowered` the invariant `LInv` says of every node that has a type what the type
means (`TypeMeans`): it is the primitive type of the node's bound if the node has no edges, and
otherwise a type all of whose parts say something the edges say (`PartMeans`) and one of whose parts
says what each edge says (`AllIsSaid`). A field, pointer or parameter refers to an alias for a node, or
a union of such aliases, and never to the node's type, so a type means the same whatever other nodes
have been built; contexts only grow (`Grows`: what has an id keeps it), so it means the same later. Each
of the builders has a lemma that it grows its context and that what it builds means what it should; the
return structure is the hard one, as its fields are placed by the sizes of all return values but
filled from the edges, or with the default type where there is none. No field is dropped on the way:
the fields of one node that are scheduled and those that are not are together those of the node
(`ScheduleOK`), because `superscedes_fld` searches from the field's own offset on and so never finds
one that starts before it (`NeverSuperseded`). The proof assumes of a graph (`GraphsAssumption`) that it is finite,
that its edges lead between its nodes and carry the labels of `FieldLabel`, that its fields have sizes
in whole bytes and that a procedure's return sizes are a sequence.

`NoTypeContainsItself` also needs that a structure or union is younger than all it holds (part of
`IsContext`). So of types that contain each other for ever the oldest is an alias; the nodes whose
types are among them are then nodes each of which has a field that leads to another of them
(`NodeContainsTarget`), which is what the property supposes there are none of. `Endless` is computed by
removing what leads nowhere as often as there are elements; `EndlessIsGreatest` shows that this gives
the greatest set that leads back into itself.

Only model-checked:

- the liveness properties (`Terminates` of two runs, `SimplificationEnds`, `InferenceEnds`): the prover
  does no liveness; `LoopsShrink` is proved, that a pass comes to its end is not;
- `WalkSound` and `WalkComplete` as they stand, which compare walks with the recursive operators of
  `InheritedDeduction` up to a length of paths. What `WalkSound` means is proved, without that bound
  (`WalkFollows`); `WalkSound` says more only in that the derivation needs no path longer than
  `MaxPath`. That no constraint is missing (`WalkComplete`) is not proved;
- `WordsSurvive` and `KeysStayConnected` where a global is put into the callee's graph (`SpecGlobal`), which
  holds for one global only; the refinement of formals is proved;
- `SharedUntilGlobals` and `WordsAreKept` of `BindFormals` and `GlobalTypes`: the first also needs that the
  callee's refined parameters know no more than the callsites do, the second compares graphs
  through aliases that are found by the order in which paths are explored.

The type invariants, `NoPanic`, `StopsAtFixpoint` and `VarianceAgrees` of `Saturation`, and
`ClosedWhenDone` and `OnlyForced` of `QuotientGroups` are proved and no run repeats them.

## Plan

Done: `MappingGraph`, `ConstraintFsa`, `Saturation`, `QuotientGroups`, `LeastCongruence`,
`SimplifyGraph`, `SketchOps`, `BindFormals`, `SccSignatures`, `LatticeTables`, `FieldSchedule`,
`Lowering`, `PointerSimplify`, `InferPointers`, `GlobalTypes`, in this order: first the graph
everything lives on, then the automaton, then sketches and their exchange, the passes over the
call graph and the lattice below it all, and last what becomes of the sketches.

Next, in order of importance:

1. Components of several procedures in `BindFormals`: the formals of another procedure of a
   recursive component are copied untagged (`src/solver/type_sketch.rs:2437`); and chains of calls in
   `GlobalTypes`, where an alias leads to a node that is itself an alias.
2. `simplify_path` of constraint generation: sums of add labels in 128 bits that must fit 64.
3. The transfer functions of `src/analysis/reaching_definitions.rs`, with the external fixpoint
   engine as a nondeterministic scheduler.

Proofs to add: that every derivation between interesting variables is a walk (`WalkComplete`), the
converse of `WalkFollows`.

## Not modelled

Constraint generation and the dataflow analyses translate one foreign representation instruction
by instruction and run inside an external fixpoint engine; the job, the command line and the
parsers are input and output. `difference` of sketches is called by tests only.
