---------------------------- MODULE BindFormals ----------------------------
(***************************************************************************)
(* Binding polymorphic types: how the sketch graph of a callee gets into   *)
(* the graphs of its callers and how what the callers know comes back      *)
(* (SCCSketchsBuilder of solver/type_sketch.rs).                           *)
(*                                                                         *)
(* build works bottom up: each caller copies what is reachable from the    *)
(* callee's formals, tagged with its callsite, adds its own constraints    *)
(* and quotients.  bind_polymorphic_types then works top down: the callee  *)
(* refines each in parameter with the merge of what all callsites know of  *)
(* it, then each out parameter, replacing the formal's subgraph in place.  *)
(* One callee and its callsites are modelled; a graph stands for one       *)
(* callsite, so the tag of a key is the position of its graph in callers.  *)
(* Without add labels simplify_pointers leaves a graph alone.              *)
(***************************************************************************)
EXTENDS SketchOps

CONSTANTS
  InParams, OutParams,   \* the formals of the callee
  Globals,               \* global variables
  Callees,               \* the sketch graphs build can give the callee
  Extras,                \* what a caller may add: [edges, weight, keys]
  MaxCallers             \* bound on the callsites

ASSUME FormalsAssumption == InParams \cap OutParams = {}

Formals == InParams \cup OutParams

\* What build makes a callee: a quotient, that knows its formals.
ASSUME CalleesAssumption ==
  \A s \in Callees : IsBuilt(s) /\ IsDeterministic(s) /\ Formals \subseteq DOMAIN s.keys

\* A function has finitely many constraints of its own.
ASSUME ExtrasAssumption ==
  \A extra \in Extras :
    /\ IsFiniteSet(extra.edges) /\ IsFiniteSet(DOMAIN extra.keys)
    /\ \A e \in extra.edges : {e[1], e[3]} \subseteq Nat \ {NoNode}
    /\ \A k \in DOMAIN extra.keys : extra.keys[k] \in Nat \ {NoNode}

ASSUME GlobalsAssumption == IsFiniteSet(Globals)

VARIABLES
  callee,    \* the callee's graph: scc_repr of its component
  callers,   \* the callsites' graphs
  refined    \* the formals refine_formals is done with

bindVars == <<callee, callers, refined>>

-----------------------------------------------------------------------------
BindInit ==
  /\ callee \in Callees
  /\ callers = <<>>
  /\ refined = {}

\* copy_reachable_subgraph_into for every formal, insert_dtv and label_by for
\* the caller's own constraints, and the quotient.
FormalsSubgraph(g) == Reached(g, {g.keys[k] : k \in Formals \cup (Globals \cap DOMAIN g.keys)})

CallerGraph(g, extra) ==
  LET own == (UNION {{e[1], e[3]} : e \in extra.edges}) \cup {extra.keys[k] : k \in DOMAIN extra.keys}
      copied == FormalsSubgraph(g)
      tagged == {k \in DOMAIN g.keys : g.keys[k] \in copied}
      weightOf(n) == OperateBounds(IF n \in copied THEN g.weight[n] ELSE Identity,
                                   extra.weight[n])
  IN  Quotient([nodes |-> copied \cup own,
                edges |-> {e \in g.edges : e[1] \in copied} \cup extra.edges,
                weight |-> [n \in copied \cup own |-> weightOf(n)],
                keys |-> [k \in tagged \cup DOMAIN extra.keys |->
                            IF k \in tagged THEN g.keys[k] ELSE extra.keys[k]]])

\* Callsites are told apart by the order in which the graph lists them.
Call(extra) ==
  /\ refined = {}
  /\ Len(callers) < MaxCallers
  /\ callers' = Append(callers, CallerGraph(callee, extra))
  /\ UNCHANGED <<callee, refined>>

-----------------------------------------------------------------------------
\* get_callsite_types_for_dtv
CallsiteTypes(k) == [i \in DOMAIN callers |-> SketchOf(callers[i], k)]

\* The operator refine_formal is called with.
Operate(op, s, t) == IF op = "intersect" THEN Intersect(s, t) ELSE UnionOf(s, t)

\* reduce(type_merge_operator), refinement_operator
Merged(types, merge) ==
  LET merged[i \in DOMAIN types] ==
        IF i = 1 THEN types[1] ELSE Operate(merge, merged[i-1], types[i])
  IN  merged[Len(types)]

CallSiteType(types, orig, merge, refine) ==
  IF types = <<>> THEN orig ELSE Operate(refine, Merged(types, merge), orig)

\* refine_formal
Refined(k, merge, refine) ==
  LET orig == SketchOf(callee, k)
      type == CallSiteType(CallsiteTypes(k), orig, merge, refine)
  IN  UNION {ReplaceNode(callee, k, labeled) : labeled \in LabelDtvs(type, orig)}

RefineFormal(k, merge, refine) ==
  /\ k \in DOMAIN callee.keys
  /\ callee' \in Refined(k, merge, refine)
  /\ refined' = refined \cup {k}
  /\ UNCHANGED callers

RefineFormalIn(k) ==
  /\ k \in InParams \ refined
  /\ RefineFormal(k, "union", "intersect")

\* Faulty: gives the callee whatever some callsite knows.
RefineFormalOutToAny(k) ==
  /\ InParams \subseteq refined
  /\ k \in OutParams \ refined
  /\ RefineFormal(k, "intersect", "intersect")

\* refine_formals lists the out parameters once the in parameters are done.
RefineFormalOut(k) ==
  /\ InParams \subseteq refined
  /\ k \in OutParams \ refined
  /\ RefineFormal(k, "intersect", "union")

BindNext ==
  \/ \E extra \in Extras : Call(extra)
  \/ \E k \in InParams : RefineFormalIn(k)
  \/ \E k \in OutParams : RefineFormalOut(k)

BindSpec == BindInit /\ [][BindNext]_bindVars

Done == refined = Formals

-----------------------------------------------------------------------------
\* Every word of s is a word of t.
Within(s, t) == \A p \in Pairs(s, t) : p[1] # NoNode => p[2] # NoNode

(* "Since we always refine the original type we should be able to follow a *)
(* path from the original tvar in the refined tvar": no key is lost, and   *)
(* each key keeps every word it knew, also keys outside the replaced       *)
(* subgraph whose words run through it.                                    *)
WordsSurvive ==
  [][callee' # callee =>
      \A k \in DOMAIN callee.keys :
       /\ k \in DOMAIN callee'.keys
       /\ Within(SketchOf(callee, k), SketchOf(callee', k))]_callee

\* An l edge leads from k1 to k2.
HasEdge(g, k1, l, k2) ==
  /\ {k1, k2} \subseteq DOMAIN g.keys
  /\ <<g.keys[k1], l, g.keys[k2]>> \in g.edges

(* label_dtvs and replace_node put the keys back where the edges between   *)
(* their nodes say, whatever order the paths are explored in.              *)
KeysStayConnected ==
  [][callee' # callee =>
      \A k1, k2 \in DOMAIN callee.keys, l \in LabelsIn(callee) :
       HasEdge(callee, k1, l, k2) => HasEdge(callee', k1, l, k2)]_callee

(* When all formals are refined an in parameter knows exactly the words    *)
(* that every callsite knows, and is bounded above by what some callsite   *)
(* allows: refining one formal does not undo the refinement of another     *)
(* that shares nodes with it.                                              *)
InParamsAreShared ==
  Done /\ callers # <<>> =>
    \A k \in InParams :
      LET merged == Merged(CallsiteTypes(k), "union")
          bound == SketchOf(callee, k)
      IN  /\ IsStructurallyEqual(bound, merged)
          /\ \A p \in Pairs(bound, merged) : p # <<NoNode, NoNode>> =>
               bound.weight[p[1]].upper = merged.weight[p[2]].upper

=============================================================================
