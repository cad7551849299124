---------------------------- MODULE ConstraintFsa ----------------------------
(***************************************************************************)
(* The finite automaton that solver/constraint_graph.rs builds from a set  *)
(* of subtyping constraints (FSA::new): its states, its edges and the      *)
(* mirror symmetry that saturation relies on.                              *)
(*                                                                         *)
(* A derived type variable is a base variable with a path of field labels. *)
(* Whether a variable is interesting is decided on its callee; here        *)
(* Interesting holds every variable for which that test succeeds.          *)
(***************************************************************************)
EXTENDS Naturals, Sequences, FiniteSets

CONSTANTS
  Vars,          \* the type variables
  Interesting,   \* those the rule context calls interesting
  NoVar,         \* stands for the missing variable of Start and End
  CoLabels,      \* field labels other than load that are covariant
  ContraLabels   \* field labels other than store that are contravariant

Load == "load"
Store == "store"
FieldLabels == {Load, Store} \cup CoLabels \cup ContraLabels

ASSUME VarsAssumption == NoVar \notin Vars /\ Interesting \subseteq Vars
ASSUME LabelsAssumption ==
  /\ CoLabels \cap (ContraLabels \cup {Store}) = {}
  /\ Load \notin ContraLabels

-----------------------------------------------------------------------------
(* Variance: the sign monoid of constraints.rs. *)

Co == "co"
Contra == "contra"
Variances == {Co, Contra}

Flip(v) == IF v = Co THEN Contra ELSE Co
Operate(v, w) == IF v = w THEN Co ELSE Contra

LabelVariance(l) == IF l \in {Store} \cup ContraLabels THEN Contra ELSE Co

\* The variance of the labels of path after the first k (path_variance of
\* what is still on the stack): an even number of sign changes cancels out.
SuffixVariance(path, k) ==
  IF Cardinality({i \in k+1..Len(path) : LabelVariance(path[i]) = Contra}) % 2 = 0
  THEN Co ELSE Contra

-----------------------------------------------------------------------------
(* Control states.  Direction U marks an uninteresting variable.  Start and *)
(* End are given the directions and variances that make Not exchange them.  *)

Dirs == {"L", "R", "U"}
Paths == Seq(FieldLabels)
DerivedTypeVars == [base : Vars, path : Paths]
SubtypeConstraints == [lhs : DerivedTypeVars, rhs : DerivedTypeVars]
States == [tv : Vars \cup {NoVar}, dir : Dirs, variance : Variances, path : Paths]

State(tv, dir, variance, path) ==
  [tv |-> tv, dir |-> dir, variance |-> variance, path |-> path]

Start == State(NoVar, "L", Co, <<>>)
End == State(NoVar, "R", Contra, <<>>)

IsTv(s) == s.tv # NoVar

NotDir(d) == CASE d = "L" -> "R" [] d = "R" -> "L" [] OTHER -> d

\* FiniteState::not
Not(s) == State(s.tv, NotDir(s.dir), Flip(s.variance), s.path)

\* RuleContext::lhs and RuleContext::rhs
VHatDir(tv, dir) == IF tv \in Interesting THEN dir ELSE "U"

-----------------------------------------------------------------------------
(* Edges.  A stack symbol is a field label or an interesting variable with  *)
(* its direction and variance.                                              *)

LabelSymbol(l) == <<"label", l>>
VarSymbol(s) == <<"var", s.tv, s.dir, s.variance>>
NoSymbol == <<"none">>

Edge(src, kind, sym, dst) == [src |-> src, kind |-> kind, sym |-> sym, dst |-> dst]
Success(src, dst) == Edge(src, "success", NoSymbol, dst)
Push(src, sym, dst) == Edge(src, "push", sym, dst)
Pop(src, sym, dst) == Edge(src, "pop", sym, dst)

Ends(e) == {e.src, e.dst}
EndsOf(E) == UNION {Ends(e) : e \in E}

\* sub_type_edge for one rule: sub <= super, seen with the given variance.
SubTypeEdge(sub, super, v) ==
  Success(State(sub.base, VHatDir(sub.base, "L"), v, sub.path),
          State(super.base, VHatDir(super.base, "R"), v, super.path))

\* generate_constraint_based_rules: the covariant and the contravariant rule.
DirectEdges(cons) ==
  {SubTypeEdge(c.lhs, c.rhs, Co) : c \in cons}
    \cup {SubTypeEdge(c.rhs, c.lhs, Contra) : c \in cons}

\* The state of s after all but the first k labels of its path are pushed.
PrefixState(s, k) ==
  State(s.tv, s.dir, Operate(s.variance, SuffixVariance(s.path, k)),
        SubSeq(s.path, 1, k))

\* generate_push_pop_edges: one push edge per label, and the same edge flipped.
PushPopEdges(s) ==
  {Push(PrefixState(s, k), LabelSymbol(s.path[k]), PrefixState(s, k-1)) : k \in 1..Len(s.path)}
    \cup {Pop(PrefixState(s, k-1), LabelSymbol(s.path[k]), PrefixState(s, k)) : k \in 1..Len(s.path)}

\* create_finite_state_from_itv
BareState(s) == State(s.tv, s.dir, s.variance, <<>>)

\* generate_start_and_stop_edges_for_state
StartStopEdges(s) ==
  CASE s.dir = "L" -> {Pop(Start, VarSymbol(s), BareState(s))}
    [] s.dir = "R" -> {Push(BareState(s), VarSymbol(s), End)}
    [] OTHER -> {}

RuleEdges(cons) ==
  DirectEdges(cons) \cup UNION {PushPopEdges(s) : s \in EndsOf(DirectEdges(cons))}

FsaEdges(cons) ==
  RuleEdges(cons) \cup UNION {StartStopEdges(s) : s \in EndsOf(RuleEdges(cons))}

\* The nodes FSA::new inserts; Start and End are always there.
FsaNodes(cons) == EndsOf(FsaEdges(cons)) \cup {Start, End}

-----------------------------------------------------------------------------
(* The rules of get_saturation_edges: P holds the reaching pushes as triples *)
(* <<state, symbol, definer>>, E the edges, S the states.                    *)

IsSuccess(e) == e.kind = "success"
SuccessEdges(E) == {e \in E : IsSuccess(e)}

\* The entries the push edges of the automaton give at the start.
BasePushes(E) == {<<e.dst, e.sym, e.src>> : e \in {f \in E : f.kind = "push"}}

ContraStates(S) == {s \in S : IsTv(s) /\ s.variance = Contra}

\* Faulty: carries entries against the direction of the edge.
CarriedBackward(P, e) == {<<e.src, p[2], p[3]>> : p \in {q \in P : q[1] = e.dst}}

\* What reaches the source of a success edge reaches its target.
Carried(P, e) == {<<e.dst, p[2], p[3]>> : p \in {q \in P : q[1] = e.src}}

\* A pop of the symbol that was pushed: a shortcut from the push's source.
LinkedPop(P, e) == {Success(p[3], e.dst) : p \in {q \in P : q[1] = e.src /\ q[2] = e.sym}}
Linked(P, E) == UNION {LinkedPop(P, e) : e \in {f \in E : f.kind = "pop"}}

\* Faulty: stores are mirrored as loads and not the other way round.
MirroredStores(P, s) ==
  {<<Not(s), LabelSymbol(Load), p[3]>> : p \in {q \in P : q[1] = s /\ q[2] = LabelSymbol(Store)}}

\* The pointer rule at a contravariant state: its store pushes become load
\* pushes of the opposite state, and its load pushes store pushes.
Mirrored(P, s) ==
  {<<Not(s), LabelSymbol(Load), p[3]>> : p \in {q \in P : q[1] = s /\ q[2] = LabelSymbol(Store)}}
    \cup
  {<<Not(s), LabelSymbol(Store), p[3]>> : p \in {q \in P : q[1] = s /\ q[2] = LabelSymbol(Load)}}

\* The three phases have nothing left to add.
Closed(P, E, S) ==
  /\ \A e \in SuccessEdges(E) : Carried(P, e) \subseteq P
  /\ Linked(P, E) \subseteq E
  /\ \A s \in ContraStates(S) : Mirrored(P, s) \subseteq P
=============================================================================
