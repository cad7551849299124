---------------------------- MODULE InferPointers ----------------------------
(***************************************************************************)
(* LatticeInfo::infer_pointers of solver/scc_constraint_generation.rs: which *)
(* operands of an addition are pointers and which are integers.  Each round *)
(* builds a sketch graph of the subtyping constraints known so far, labels   *)
(* its nodes, and adds constraints to the operands that a rule decides.      *)
(*                                                                          *)
(* The sketch graphs are those of SketchOps.  A sketch is built afresh in    *)
(* every round, so what a round learns survives only as a constraint.  The   *)
(* field labels are loads, stores and fields: simplify_pointers, which build *)
(* runs too, changes nothing where no add label occurs.                      *)
(***************************************************************************)
EXTENDS SketchOps, TLC

CONSTANTS
  Element,   \* the lattice element of a type variable that names one
  WeakInt,   \* the variable that names the weakest integral type
  Inputs     \* constraint sets [subty, adds]

(* A derived type variable: the prefixes of its path name the fields it is in. *)
IsDtv(d) ==
  /\ d = [base |-> d.base, path |-> d.path]
  /\ d.path \in Seq({d.path[i] : i \in DOMAIN d.path})

IsElement(d) == d.base \in DOMAIN Element /\ d.path = <<>>

\* The operands of additions are values of the program, not lattice elements.
ASSUME InferenceAssumption ==
  /\ WeakInt \in DOMAIN Element
  /\ \A in \in Inputs :
       /\ IsFiniteSet(in.subty) /\ \A c \in in.subty : IsDtv(c.lhs) /\ IsDtv(c.rhs)
       /\ IsFiniteSet(in.adds)
       /\ \A a \in in.adds : \A d \in {a.lhs, a.rhs, a.res} : IsDtv(d) /\ ~IsElement(d)

VARIABLES
  adds,      \* add_constraints
  cons,      \* the subtyping constraints of next_cs_set
  sg,        \* the sketch graph of the current round
  stage      \* "build", "apply" or "done"

inferVars == <<adds, cons, sg, stage>>

NoSketch == [nodes |-> {}, edges |-> {}, weight |-> <<>>, keys |-> <<>>]

InferInit ==
  /\ \E in \in Inputs : adds = in.adds /\ cons = in.subty
  /\ sg = NoSketch
  /\ stage = "build"

-----------------------------------------------------------------------------
(* build_and_label_constraints *)

PathPrefixes(d) == {[d EXCEPT !.path = SubSeq(d.path, 1, k)] : k \in 0..Len(d.path)}

\* insert_dtv and add_nodes_and_initial_edges
GraphOf(C) ==
  LET dtvs == UNION {PathPrefixes(c.lhs) \cup PathPrefixes(c.rhs) : c \in C}
      order == Enumerated(dtvs)
      number == [d \in dtvs |-> CHOOSE i \in DOMAIN order : order[i] = d]
  IN  [nodes |-> DOMAIN order,
       edges |-> {<<number[[d EXCEPT !.path = Front(d.path)]], Last(d.path), number[d]>> :
                    d \in {e \in dtvs : e.path # <<>>}},
       weight |-> [n \in DOMAIN order |-> Identity],
       keys |-> number]

\* The groups of generate_quotient_groups' initial unions, each by its least node.
UnitedBy(g, C) ==
  LET unions == {<<g.keys[c.lhs], "", g.keys[c.rhs]>> : c \in C}
      either == [edges |-> unions \cup {<<u[3], u[2], u[1]>> : u \in unions}]
      group(n) == Reached(either, {n})
  IN  [n \in g.nodes |-> CHOOSE m \in group(n) : \A k \in group(n) : m <= k]

\* label_by: the lattice elements that bound n; a constraint between two of them
\* bounds the right one from below.
LowerBounds(g, C, n) == {Element[c.lhs.base] : c \in {x \in C : IsElement(x.lhs) /\ g.keys[x.rhs] = n}}
UpperBounds(g, C, n) ==
  {Element[c.rhs.base] :
     c \in {x \in C : ~IsElement(x.lhs) /\ IsElement(x.rhs) /\ g.keys[x.lhs] = n}}

LabelBy(g, C) ==
  [g EXCEPT !.weight = [n \in g.nodes |->
     [upper |-> {x \in g.weight[n].upper : \A v \in UpperBounds(g, C, n) : x \in v},
      lower |-> g.weight[n].lower \cup UNION LowerBounds(g, C, n)]]]

BuildAndLabel(C) ==
  {LabelBy(q, C) : q \in {QuotientBy(g, UnitedBy(g, C)) : g \in {GraphOf(C)}}}

-----------------------------------------------------------------------------
(* TypeLabels: what is known of a node. *)

Integer == "int"
Pointer == "pointer"
Unknown == "unknown"

IsLoadedOrStored(g, n) == \E e \in EdgesOut(g, n) : e[2] \in {Load, Store}

\* Faulty: a bound by an integral type outweighs a load.
IntegersFirst(g) ==
  [n \in g.nodes |-> IF g.weight[n].upper \subseteq Element[WeakInt] THEN Integer
                     ELSE IF IsLoadedOrStored(g, n) THEN Pointer ELSE Unknown]

\* get_initial_labeling
InitialLabeling(g) ==
  [n \in g.nodes |-> IF IsLoadedOrStored(g, n) THEN Pointer
                     ELSE IF g.weight[n].upper \subseteq Element[WeakInt] THEN Integer ELSE Unknown]

\* lookup_label: a variable of no constraint has no node.
Lookup(g, labels, d) == IF d \in DOMAIN g.keys THEN labels[g.keys[d]] ELSE Unknown

\* add_constraint_to_pattern
Pattern(g, labels, add) ==
  <<Lookup(g, labels, add.lhs), Lookup(g, labels, add.rhs), Lookup(g, labels, add.res)>>

(* cons_to_label_update: what each pattern says of the operands, as pairs of *)
(* an operand and the source of its type.                                    *)
weakint == "weakint"

Rule(lhs, rhs, res, updates) == [pattern |-> <<lhs, rhs, res>>, updates |-> updates]

Rules ==
  { Rule(Integer, Integer, Unknown, {<<"res", "lhs">>, <<"res", "rhs">>}),
    Rule(Pointer, Integer, Unknown, {<<"res", "lhs">>}),
    Rule(Integer, Pointer, Unknown, {<<"res", "rhs">>}),
    Rule(Pointer, Unknown, Unknown, {<<"res", "lhs">>, <<"rhs", weakint>>}),
    Rule(Unknown, Integer, Pointer, {<<"lhs", "res">>}),
    Rule(Unknown, Pointer, Unknown, {<<"lhs", weakint>>, <<"res", "rhs">>}),
    Rule(Integer, Unknown, Pointer, {<<"rhs", "res">>}) }

RulesFor(p) == {r \in Rules : r.pattern = p}

\* Faulty: leaves an operand of unknown type to later rounds.
UpdatesWhenTwoAreKnown(p) ==
  UNION {r.updates : r \in {x \in RulesFor(p) : Cardinality({i \in 1..3 : p[i] = Unknown}) = 1}}

ConsToLabelUpdate(p) == UNION {r.updates : r \in RulesFor(p)}

\* get_affecting_type
AffectingType(add, source) ==
  IF source = weakint THEN [base |-> WeakInt, path |-> <<>>] ELSE add[source]

\* apply_label_update; the label it sets is dropped with the sketch.
ConstraintOf(add, update) ==
  [lhs |-> add[update[1]], rhs |-> AffectingType(add, update[2])]

\* apply_add_constraints: every pattern is that of the labels before the round.
ApplyAddConstraints(g, labels) ==
  UNION {{ConstraintOf(a, u) : u \in ConsToLabelUpdate(Pattern(g, labels, a))} : a \in adds}

-----------------------------------------------------------------------------
Build ==
  /\ stage = "build"
  /\ sg' \in BuildAndLabel(cons)
  /\ stage' = "apply"
  /\ UNCHANGED <<adds, cons>>

\* Faulty: what the earlier rounds inferred is forgotten.
Replacing(C, new) ==
  {c \in C : \A a \in adds : c.lhs \notin {a.lhs, a.rhs, a.res}} \cup new

\* curr_set
WithInferred(C, new) == C \cup new

Apply ==
  /\ stage = "apply"
  /\ cons' = WithInferred(cons, ApplyAddConstraints(sg, InitialLabeling(sg)))
  /\ stage' = IF cons' # cons THEN "build" ELSE "done"
  /\ UNCHANGED <<adds, sg>>

InferNext == Build \/ Apply

InferSpec == InferInit /\ [][InferNext]_inferVars
FairInferSpec == InferSpec /\ WF_inferVars(InferNext)

-----------------------------------------------------------------------------
PatternIn(g, a) == Pattern(g, InitialLabeling(g), a)

(* The loop ends, although a constraint it adds may unify nodes and thereby  *)
(* change the labels the next round starts from.                             *)
InferenceEnds == <>(stage = "done")

(* When the loop stops, no rule has anything left to decide: the constraints *)
(* it added do make the operands pointers or integers in the sketch graph    *)
(* that is built of them, though every label was dropped with its sketch.    *)
NothingLeftToInfer ==
  stage = "done" => \A a \in adds : RulesFor(PatternIn(sg, a)) = {}

(* An operand that is known stays known, and what is a pointer stays one,    *)
(* also when its node is unified with that of an integer in a later round.   *)
KnownStaysKnown ==
  [][\A a \in adds, i \in 1..3 :
       /\ PatternIn(sg, a)[i] # Unknown => PatternIn(sg', a)[i] # Unknown
       /\ PatternIn(sg, a)[i] = Pointer => PatternIn(sg', a)[i] = Pointer]_sg
=============================================================================
