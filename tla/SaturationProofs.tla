-------------------------- MODULE SaturationProofs --------------------------
(***************************************************************************)
(* Proofs about ConstraintFsa and Saturation, for every set of variables,  *)
(* labels and constraints.                                                 *)
(***************************************************************************)
EXTENDS SaturationMeaning, FixpointLemmas

-----------------------------------------------------------------------------
(* The automaton is closed under Not. *)

NotClosed(S) == \A s \in S : Not(s) \in S

LEMMA DirectEndsTyped ==
  ASSUME NEW cons \in SUBSET SubtypeConstraints
  PROVE  /\ EndsOf(DirectEdges(cons)) \subseteq States
         /\ \A s \in EndsOf(DirectEdges(cons)) : IsTv(s)
BY VarsAssumption
   DEF EndsOf, Ends, DirectEdges, SubTypeEdge, Success, Edge, State, States, VHatDir, Dirs,
       Variances, Co, Contra, SubtypeConstraints, DerivedTypeVars, IsTv

LEMMA DirectEndsClosed ==
  ASSUME NEW cons \in SUBSET SubtypeConstraints
  PROVE  NotClosed(EndsOf(DirectEdges(cons)))
<1> DEFINE Lo(c, v) == State(c.lhs.base, VHatDir(c.lhs.base, IF v = Co THEN "L" ELSE "R"), v, c.lhs.path)
           Hi(c, v) == State(c.rhs.base, VHatDir(c.rhs.base, IF v = Co THEN "R" ELSE "L"), v, c.rhs.path)
<1>1. \A n : n \in EndsOf(DirectEdges(cons)) <=>
              \E c \in cons, v \in Variances : n = Lo(c, v) \/ n = Hi(c, v)
  <2>1. Co # Contra /\ Variances = {Co, Contra}
    BY DEF Co, Contra, Variances
  <2>2. \A e : e \in DirectEdges(cons) <=>
                \E c \in cons : \/ e = SubTypeEdge(c.lhs, c.rhs, Co)
                                \/ e = SubTypeEdge(c.rhs, c.lhs, Contra)
    BY DEF DirectEdges
  <2>3. \A n : n \in EndsOf(DirectEdges(cons)) <=> \E e \in DirectEdges(cons) : n \in Ends(e)
    BY DEF EndsOf
  <2>4. \A c \in cons : /\ Ends(SubTypeEdge(c.lhs, c.rhs, Co)) = {Lo(c, Co), Hi(c, Co)}
                        /\ Ends(SubTypeEdge(c.rhs, c.lhs, Contra)) = {Lo(c, Contra), Hi(c, Contra)}
    BY <2>1 DEF Ends, SubTypeEdge, Success, Edge
  <2> HIDE DEF Lo, Hi
  <2>5. ASSUME NEW n
        PROVE  (\E e \in DirectEdges(cons) : n \in Ends(e)) <=>
                 \E c \in cons : n \in {Lo(c, Co), Hi(c, Co)} \/ n \in {Lo(c, Contra), Hi(c, Contra)}
    <3>1. (\E e \in DirectEdges(cons) : n \in Ends(e)) <=>
            \E c \in cons : \/ n \in Ends(SubTypeEdge(c.lhs, c.rhs, Co))
                            \/ n \in Ends(SubTypeEdge(c.rhs, c.lhs, Contra))
      BY <2>2, Zenon
    <3> QED  BY <3>1, <2>4, Zenon
  <2> QED  BY <2>1, <2>3, <2>5
<1>2. \A c \in cons, v \in Variances : /\ Not(Lo(c, v)) = Lo(c, Flip(v))
                                       /\ Not(Hi(c, v)) = Hi(c, Flip(v))
                                       /\ Flip(v) \in Variances
  BY DEF Not, State, VHatDir, NotDir, Flip, Variances, Co, Contra
<1> HIDE DEF Lo, Hi
<1> QED  BY <1>1, <1>2 DEF NotClosed

LEMMA NotPrefix ==
  ASSUME NEW s \in States, NEW k \in Nat
  PROVE  Not(PrefixState(s, k)) = PrefixState(Not(s), k)
BY DEF Not, PrefixState, State, States, Flip, Operate, Variances, Co, Contra, SuffixVariance

LEMMA NotTyped ==
  ASSUME NEW s \in States
  PROVE  Not(s) \in States /\ Not(s).path = s.path /\ (IsTv(s) => IsTv(Not(s)))
BY DEF Not, State, States, NotDir, Dirs, Flip, Variances, Co, Contra, IsTv

LEMMA PushPopEnds ==
  ASSUME NEW s \in States
  PROVE  EndsOf(PushPopEdges(s)) =
           IF s.path = <<>> THEN {} ELSE {PrefixState(s, k) : k \in 0..Len(s.path)}
<1>1. s.path \in Seq(FieldLabels) /\ Len(s.path) \in Nat
  BY DEF States, Paths
<1>2. EndsOf(PushPopEdges(s)) =
        {PrefixState(s, k) : k \in 1..Len(s.path)} \cup {PrefixState(s, k-1) : k \in 1..Len(s.path)}
  <2>1. ASSUME NEW n
        PROVE  n \in EndsOf(PushPopEdges(s)) <=>
                 \E k \in 1..Len(s.path) : n = PrefixState(s, k) \/ n = PrefixState(s, k-1)
    <3> DEFINE P(k) == Push(PrefixState(s, k), LabelSymbol(s.path[k]), PrefixState(s, k-1))
               Q(k) == Pop(PrefixState(s, k-1), LabelSymbol(s.path[k]), PrefixState(s, k))
    <3>1. \A k : /\ Ends(P(k)) = {PrefixState(s, k), PrefixState(s, k-1)}
                 /\ Ends(Q(k)) = {PrefixState(s, k-1), PrefixState(s, k)}
      BY DEF Ends, Push, Pop, Edge
    <3>2. PushPopEdges(s) = {P(k) : k \in 1..Len(s.path)} \cup {Q(k) : k \in 1..Len(s.path)}
      BY DEF PushPopEdges
    <3> HIDE DEF P, Q
    <3>3. n \in EndsOf(PushPopEdges(s)) <=>
            \E k \in 1..Len(s.path) : n \in Ends(P(k)) \/ n \in Ends(Q(k))
      BY <3>2 DEF EndsOf
    <3> QED  BY <3>1, <3>3
  <2> QED  BY <2>1
<1>3. CASE s.path = <<>>
  BY <1>2, <1>3
<1>4. CASE s.path # <<>>
  <2>1. Len(s.path) >= 1
    BY <1>1, <1>4
  <2>2. 0..Len(s.path) = 1..Len(s.path) \cup {k-1 : k \in 1..Len(s.path)}
    <3>1. \A j \in 0..Len(s.path) : j \in 1..Len(s.path) \/ (j = 0 /\ 1 \in 1..Len(s.path))
      BY <2>1, <1>1
    <3> QED  BY <3>1, <1>1
  <2>3. \A j \in 0..Len(s.path) : j \in 1..Len(s.path) \/ \E k \in 1..Len(s.path) : j = k-1
    BY <2>2
  <2>4. \A k \in 1..Len(s.path) : k \in 0..Len(s.path) /\ k-1 \in 0..Len(s.path)
    BY <1>1
  <2> QED  BY <1>2, <1>4, <2>3, <2>4
<1> QED  BY <1>3, <1>4

LEMMA PrefixTyped ==
  ASSUME NEW s \in States, NEW k \in 0..Len(s.path)
  PROVE  PrefixState(s, k) \in States /\ PrefixState(s, k).tv = s.tv
<1>1. s.path \in Seq(FieldLabels) /\ Len(s.path) \in Nat
  BY DEF States, Paths
<1>2. SubSeq(s.path, 1, k) \in Seq(FieldLabels)
  BY <1>1
<1> QED  BY <1>2 DEF PrefixState, State, States, Operate, Variances, Co, Contra, Paths

\* The ends of the rule edges: those of the direct edges and their prefixes.
LEMMA RuleEnds ==
  ASSUME NEW cons
  PROVE  EndsOf(RuleEdges(cons)) =
           EndsOf(DirectEdges(cons))
             \cup UNION {EndsOf(PushPopEdges(s)) : s \in EndsOf(DirectEdges(cons))}
BY DEF EndsOf, RuleEdges

LEMMA RuleEndsTyped ==
  ASSUME NEW cons \in SUBSET SubtypeConstraints
  PROVE  /\ EndsOf(RuleEdges(cons)) \subseteq States
         /\ \A s \in EndsOf(RuleEdges(cons)) : IsTv(s)
<1>1. ASSUME NEW s \in EndsOf(DirectEdges(cons)), NEW t \in EndsOf(PushPopEdges(s))
      PROVE  t \in States /\ IsTv(t)
  <2>1. s \in States /\ IsTv(s)
    BY DirectEndsTyped
  <2>2. PICK k \in 0..Len(s.path) : t = PrefixState(s, k)
    BY <1>1, <2>1, PushPopEnds
  <2> QED  BY <2>1, <2>2, PrefixTyped DEF IsTv
<1> QED  BY <1>1, DirectEndsTyped, RuleEnds

LEMMA RuleEndsClosed ==
  ASSUME NEW cons \in SUBSET SubtypeConstraints
  PROVE  NotClosed(EndsOf(RuleEdges(cons)))
<1>1. ASSUME NEW s \in EndsOf(DirectEdges(cons)), NEW t \in EndsOf(PushPopEdges(s))
      PROVE  Not(t) \in EndsOf(PushPopEdges(Not(s))) /\ Not(s) \in EndsOf(DirectEdges(cons))
  <2>1. s \in States /\ Not(s) \in EndsOf(DirectEdges(cons))
    BY DirectEndsTyped, DirectEndsClosed DEF NotClosed
  <2>2. Not(s) \in States /\ Not(s).path = s.path
    BY <2>1, NotTyped
  <2>3. PICK k \in 0..Len(s.path) : t = PrefixState(s, k)
    BY <1>1, <2>1, PushPopEnds
  <2>4. s.path # <<>>
    BY <1>1, <2>1, PushPopEnds
  <2>5. k \in Nat
    BY <2>1 DEF States, Paths
  <2>6. Not(t) = PrefixState(Not(s), k)
    BY <2>1, <2>3, <2>5, NotPrefix
  <2> QED  BY <2>1, <2>2, <2>3, <2>4, <2>6, PushPopEnds
<1> QED  BY <1>1, DirectEndsClosed, RuleEnds DEF NotClosed

LEMMA FsaNodesAre ==
  ASSUME NEW cons
  PROVE  FsaNodes(cons) = EndsOf(RuleEdges(cons)) \cup {Start, End}
           \cup {BareState(s) : s \in {t \in EndsOf(RuleEdges(cons)) : t.dir \in {"L", "R"}}}
<1>1. FsaNodes(cons) = EndsOf(RuleEdges(cons)) \cup {Start, End}
        \cup UNION {EndsOf(StartStopEdges(s)) : s \in EndsOf(RuleEdges(cons))}
  BY DEF FsaNodes, FsaEdges, EndsOf
<1>2. \A s : EndsOf(StartStopEdges(s)) =
               CASE s.dir = "L" -> {Start, BareState(s)}
                 [] s.dir = "R" -> {BareState(s), End}
                 [] OTHER -> {}
  <2> TAKE s
  <2>1. CASE s.dir = "L"
    BY <2>1 DEF EndsOf, Ends, StartStopEdges, Pop, Edge
  <2>2. CASE s.dir = "R"
    BY <2>2 DEF EndsOf, Ends, StartStopEdges, Push, Edge
  <2>3. CASE s.dir \notin {"L", "R"}
    BY <2>3 DEF EndsOf, StartStopEdges
  <2> QED  BY <2>1, <2>2, <2>3
<1>3. \A s : EndsOf(StartStopEdges(s)) \subseteq {Start, End, BareState(s)}
  BY <1>2
<1>4. \A s : s.dir \in {"L", "R"} => BareState(s) \in EndsOf(StartStopEdges(s))
  BY <1>2
<1>5. \A s : s.dir \notin {"L", "R"} => EndsOf(StartStopEdges(s)) = {}
  BY <1>2
<1> QED  BY <1>1, <1>3, <1>4, <1>5

(* FSA::new: the nodes of the automaton are closed under Not, because every *)
(* constraint gives a covariant and a contravariant rule.                   *)
LEMMA FsaNodesClosed ==
  ASSUME NEW cons \in SUBSET SubtypeConstraints
  PROVE  NotClosed(FsaNodes(cons))
<1>1. Not(Start) = End /\ Not(End) = Start
  BY DEF Not, Start, End, State, NotDir, Flip, Co, Contra
<1>2. ASSUME NEW s \in EndsOf(RuleEdges(cons)), s.dir \in {"L", "R"}
      PROVE  /\ Not(BareState(s)) = BareState(Not(s))
             /\ Not(s) \in EndsOf(RuleEdges(cons))
             /\ Not(s).dir \in {"L", "R"}
  BY <1>2, RuleEndsClosed DEF NotClosed, Not, BareState, State, NotDir
<1> QED  BY <1>1, <1>2, FsaNodesAre, RuleEndsClosed DEF NotClosed

LEMMA FsaNodesTyped ==
  ASSUME NEW cons \in SUBSET SubtypeConstraints
  PROVE  FsaNodes(cons) \subseteq States
<1>1. Start \in States /\ End \in States
  BY DEF Start, End, State, States, Dirs, Variances, Co, Contra, Paths
<1>2. \A s \in States : BareState(s) \in States
  BY DEF BareState, State, States, Paths
<1> QED  BY <1>1, <1>2, FsaNodesAre, RuleEndsTyped
-----------------------------------------------------------------------------
(* The inductive invariant.  The rounds compare with saved, so what a round *)
(* has handled so far is stated of saved: everything saved makes necessary  *)
(* and that the round has come to is present.                               *)

SavedIsOld ==
  /\ saved = <<saved[1], saved[2]>>
  /\ saved[1] \subseteq pushes /\ saved[2] \subseteq allEdges
  /\ pc = "propagate" => saved[2] = allEdges
  /\ pc = "mirror" => todoEdges = {}

EdgesHandled ==
  \A e \in SuccessEdges(saved[2]) : e \in todoEdges \/ Carried(saved[1], e) \subseteq pushes

PopsHandled ==
  pc = "mirror" => Linked(saved[1], saved[2]) \subseteq allEdges

StatesHandled ==
  pc = "mirror" =>
    \A s \in ContraStates(states) : s \in todoStates \/ Mirrored(saved[1], s) \subseteq pushes

IInv ==
  /\ TypeOK
  /\ NoPanic
  /\ states \subseteq States /\ NotClosed(states)
  /\ SavedIsOld
  /\ EdgesHandled
  /\ PopsHandled
  /\ StatesHandled
  /\ StopsAtFixpoint

LEMMA CarriedMonotone ==
  ASSUME NEW P, NEW Q, P \subseteq Q, NEW e
  PROVE  Carried(P, e) \subseteq Carried(Q, e)
BY DEF Carried

LEMMA LinkedMonotone ==
  ASSUME NEW P, NEW Q, P \subseteq Q, NEW E, NEW F, E \subseteq F
  PROVE  Linked(P, E) \subseteq Linked(Q, F)
<1>1. \A e : LinkedPop(P, e) \subseteq LinkedPop(Q, e)
  BY DEF LinkedPop
<1> QED  BY <1>1 DEF Linked

LEMMA MirroredMonotone ==
  ASSUME NEW P, NEW Q, P \subseteq Q, NEW s
  PROVE  Mirrored(P, s) \subseteq Mirrored(Q, s)
BY DEF Mirrored

\* A shortcut is a success edge from a definer to the target of a pop.
LEMMA LinkedEdges ==
  ASSUME NEW P, NEW E, NEW f \in Linked(P, E)
  PROVE  /\ f.kind = "success" /\ f.src \in {p[3] : p \in P} /\ Ends(f) = {f.src, f.dst}
         /\ \E e \in E, p \in P : /\ e.kind = "pop" /\ p[1] = e.src /\ p[2] = e.sym
                                  /\ f = Success(p[3], e.dst)
<1>1. PICK e \in E, p \in P : /\ e.kind = "pop" /\ p[1] = e.src /\ p[2] = e.sym
                              /\ f = Success(p[3], e.dst)
  BY DEF Linked, LinkedPop
<1> QED  BY <1>1 DEF Success, Edge, Ends

LEMMA EndsOfMember ==
  ASSUME NEW E, NEW e \in E
  PROVE  e.src \in EndsOf(E) /\ e.dst \in EndsOf(E)
BY DEF EndsOf, Ends

LEMMA InitInvariant == Init => IInv
<1> SUFFICES ASSUME NEW cons \in ConstraintSets, InitFrom(cons)
             PROVE  IInv
  BY DEF Init
<1>1. cons \in SUBSET SubtypeConstraints
  BY ConstraintSetsAssumption
<1>2. states \subseteq States /\ NotClosed(states)
  BY <1>1, FsaNodesClosed, FsaNodesTyped DEF InitFrom
<1>3. \A e \in FsaEdges(cons) : e.src \in states /\ e.dst \in states
  BY EndsOfMember DEF InitFrom, FsaNodes
<1>4. \A p \in pushes : p[1] \in states /\ p[3] \in states
  BY <1>3 DEF InitFrom, BasePushes
<1>5. TypeOK
  BY <1>3, <1>4 DEF InitFrom, TypeOK, Ends
<1> QED  BY <1>2, <1>5 DEF InitFrom, IInv, NoPanic, SavedIsOld, EdgesHandled, PopsHandled,
                          StatesHandled, StopsAtFixpoint

LEMMA PropagateInvariant ==
  ASSUME IInv, NEW e \in todoEdges, Propagate(e)
  PROVE  IInv'
<1> USE DEF IInv
<1>1. pc = "propagate" /\ pc' = pc /\ pushes' = pushes \cup Carried(pushes, e)
      /\ UNCHANGED <<grph, states, allEdges, newEdges, todoStates, saved>>
      /\ todoEdges' = todoEdges \ {e}
  BY DEF Propagate
<1>2. e.dst \in states
  BY DEF TypeOK, SuccessEdges, Ends
<1>3. \A p \in Carried(pushes, e) : p[1] \in states /\ p[3] \in states
  BY <1>2 DEF Carried, TypeOK
<1>4. TypeOK'
  BY <1>1, <1>3 DEF TypeOK
<1>5. EdgesHandled'
  BY <1>1, CarriedMonotone DEF EdgesHandled, SavedIsOld
<1>6. SavedIsOld'
  BY <1>1 DEF SavedIsOld
<1> QED  BY <1>1, <1>4, <1>5, <1>6
            DEF NoPanic, PopsHandled, StatesHandled, StopsAtFixpoint, NotClosed

LEMMA LinkPopsInvariant ==
  ASSUME IInv, LinkPops
  PROVE  IInv'
<1> USE DEF IInv
<1> DEFINE L == Linked(pushes, allEdges)
<1>1. /\ pc = "propagate" /\ todoEdges = {} /\ pc' = "mirror"
      /\ newEdges' = newEdges \cup L /\ allEdges' = allEdges \cup L
      /\ todoStates' = ContraStates(states)
      /\ UNCHANGED <<grph, states, pushes, todoEdges, saved>>
  BY DEF LinkPops
<1>2. \A f \in L : Ends(f) \subseteq states
  BY LinkedEdges DEF TypeOK, Ends, Success, Edge
<1> HIDE DEF L
<1>3. TypeOK'
  BY <1>1, <1>2 DEF TypeOK, SuccessEdges
<1>4. SavedIsOld' /\ EdgesHandled'
  BY <1>1 DEF SavedIsOld, EdgesHandled
<1>5. PopsHandled'
  <2>1. Linked(saved[1], saved[2]) \subseteq L
    BY LinkedMonotone DEF SavedIsOld, L
  <2> QED  BY <1>1, <2>1 DEF PopsHandled
<1>6. StatesHandled'
  BY <1>1 DEF StatesHandled
<1> QED  BY <1>1, <1>3, <1>4, <1>5, <1>6 DEF NoPanic, StopsAtFixpoint, NotClosed

LEMMA MirrorInvariant ==
  ASSUME IInv, NEW s \in todoStates, Mirror(s)
  PROVE  IInv'
<1> USE DEF IInv
<1>1. Not(s) \in states /\ s \in states
  BY DEF TypeOK, ContraStates, NotClosed
<1>2. /\ pc = "mirror" /\ pc' = pc /\ pushes' = pushes \cup Mirrored(pushes, s)
      /\ todoStates' = todoStates \ {s}
      /\ UNCHANGED <<grph, states, allEdges, newEdges, todoEdges, saved>>
  BY <1>1 DEF Mirror, MirrorFinds
<1>3. \A p \in Mirrored(pushes, s) : p[1] \in states /\ p[3] \in states
  BY <1>1 DEF Mirrored, TypeOK
<1>4. TypeOK'
  BY <1>2, <1>3 DEF TypeOK
<1>5. SavedIsOld' /\ EdgesHandled' /\ PopsHandled'
  BY <1>2 DEF SavedIsOld, EdgesHandled, PopsHandled
<1>6. StatesHandled'
  BY <1>2, MirroredMonotone DEF StatesHandled, SavedIsOld
<1> QED  BY <1>2, <1>4, <1>5, <1>6 DEF NoPanic, StopsAtFixpoint, NotClosed

LEMMA RepeatInvariant ==
  ASSUME IInv, Repeat
  PROVE  IInv'
<1>1. TypeOK'
  BY DEF IInv, Repeat, TypeOK
<1>2. SavedIsOld' /\ EdgesHandled'
  BY DEF IInv, Repeat, SavedIsOld, EdgesHandled
<1> QED  BY <1>1, <1>2 DEF IInv, Repeat, NoPanic, PopsHandled, StatesHandled, StopsAtFixpoint, NotClosed

LEMMA FixpointInvariant ==
  ASSUME IInv, FixpointReached
  PROVE  IInv'
<1>1. TypeOK' /\ SavedIsOld' /\ EdgesHandled'
  BY DEF IInv, FixpointReached, TypeOK, SavedIsOld, EdgesHandled
<1>2. Closed(pushes, allEdges, states)
  <2>1. saved[1] = pushes /\ saved[2] = allEdges /\ todoEdges = {} /\ todoStates = {} /\ pc = "mirror"
    BY DEF IInv, FixpointReached, SavedIsOld
  <2> QED  BY <2>1 DEF IInv, Closed, EdgesHandled, PopsHandled, StatesHandled
<1>3. StopsAtFixpoint'
  BY <1>2 DEF StopsAtFixpoint, FixpointReached, Closed
<1> QED  BY <1>1, <1>3 DEF IInv, FixpointReached, NoPanic, PopsHandled, StatesHandled, NotClosed

LEMMA SaturateInvariant ==
  ASSUME IInv, Saturate
  PROVE  IInv'
<1>1. EndsOf(SaturationEdges) \subseteq states
  BY DEF IInv, TypeOK, SaturationEdges, EndsOf
<1>2. states' = states
  BY <1>1 DEF Saturate
<1>3. TypeOK' /\ SavedIsOld' /\ EdgesHandled'
  BY <1>2 DEF IInv, Saturate, TypeOK, SavedIsOld, EdgesHandled
<1>4. StopsAtFixpoint'
  BY <1>2 DEF IInv, Saturate, StopsAtFixpoint, Closed
<1> QED  BY <1>2, <1>3, <1>4 DEF IInv, Saturate, NoPanic, PopsHandled, StatesHandled, NotClosed

LEMMA Invariance == Spec => []IInv
<1>1. ASSUME IInv, UNCHANGED vars
      PROVE  IInv'
  BY <1>1 DEF vars, IInv, TypeOK, NoPanic, NotClosed, SavedIsOld, EdgesHandled, PopsHandled,
             StatesHandled, StopsAtFixpoint, Closed
<1>2. IInv /\ [Next]_vars => IInv'
  BY <1>1, PropagateInvariant, LinkPopsInvariant, MirrorInvariant, RepeatInvariant,
     FixpointInvariant, SaturateInvariant DEF Next
<1> QED  BY InitInvariant, <1>2, PTL DEF Spec

(* get_saturation_edges and saturate only ever name states of the automaton. *)
THEOREM TypeCorrect == Spec => []TypeOK
<1>1. IInv => TypeOK
  BY DEF IInv
<1> QED  BY <1>1, Invariance, PTL

(* The unwrap of the opposite state's entry in the pointer phase never fails. *)
THEOREM NoPanicHolds == Spec => []NoPanic
<1>1. IInv => NoPanic
  BY DEF IInv
<1> QED  BY <1>1, Invariance, PTL

(* When the do-while loop of get_saturation_edges exits, no phase has work  *)
(* left: the comparison with saved_state is a sufficient test.              *)
THEOREM FixpointHolds == Spec => []StopsAtFixpoint
<1>1. IInv => StopsAtFixpoint
  BY DEF IInv
<1> QED  BY <1>1, Invariance, PTL
-----------------------------------------------------------------------------
(* Variance.  A label on the stack remembers by how much the variance of    *)
(* the state that pushed it differs from that of the state it reaches.      *)

LEMMA SuffixVarianceStep ==
  ASSUME NEW path \in Paths, NEW k \in 1..Len(path)
  PROVE  SuffixVariance(path, k-1) = Operate(SuffixVariance(path, k), LabelVariance(path[k]))
<1> DEFINE Above(j) == {i \in j+1..Len(path) : LabelVariance(path[i]) = Contra}
<1>1. Len(path) \in Nat /\ k \in Nat /\ k-1 \in Nat /\ (k-1)+1 = k
  BY DEF Paths
<1>2. IsFiniteSet(Above(k)) /\ Cardinality(Above(k)) \in Nat /\ k \notin Above(k)
  <2>1. IsFiniteSet(k+1..Len(path))
    BY <1>1, FS_Interval
  <2> QED  BY <2>1, <1>1, FS_Subset, FS_CardinalityType
<1>3. CASE LabelVariance(path[k]) = Contra
  <2>1. Above(k-1) = Above(k) \cup {k}
    BY <1>1, <1>3
  <2>2. Cardinality(Above(k-1)) = Cardinality(Above(k)) + 1
    BY <2>1, <1>2, FS_AddElement
  <2> HIDE DEF Above
  <2>3. \A n \in Nat : (n % 2 = 0) <=> ~((n+1) % 2 = 0)
    OBVIOUS
  <2>4. (Cardinality(Above(k)) % 2 = 0) <=> ~(Cardinality(Above(k-1)) % 2 = 0)
    BY <1>2, <2>2, <2>3
  <2> QED  BY <2>4, <1>3 DEF SuffixVariance, Operate, Co, Contra, Above
<1>4. CASE LabelVariance(path[k]) # Contra
  <2>1. Above(k-1) = Above(k)
    BY <1>1, <1>4
  <2> QED  BY <2>1, <1>4 DEF SuffixVariance, Operate, LabelVariance, Co, Contra
<1> QED  BY <1>3, <1>4

LEMMA PrefixVariance ==
  ASSUME NEW s \in States, NEW k \in 1..Len(s.path)
  PROVE  /\ Operate(PrefixState(s, k).variance, LabelVariance(s.path[k])) = PrefixState(s, k-1).variance
         /\ s.path[k] \in FieldLabels
<1>1. s.path \in Paths /\ s.variance \in {Co, Contra}
  BY DEF States, Variances
<1>2. SuffixVariance(s.path, k-1) = Operate(SuffixVariance(s.path, k), LabelVariance(s.path[k]))
  BY <1>1, SuffixVarianceStep
<1>3. SuffixVariance(s.path, k) \in {Co, Contra} /\ LabelVariance(s.path[k]) \in {Co, Contra}
  BY DEF SuffixVariance, LabelVariance
<1>4. s.path[k] \in FieldLabels
  BY <1>1 DEF Paths
<1> QED  BY <1>1, <1>2, <1>3, <1>4 DEF PrefixState, State, Operate, Co, Contra

SuccessAgrees(e) == IsTv(e.src) /\ IsTv(e.dst) /\ e.src.variance = e.dst.variance

PopAgrees(e) ==
  /\ IsTv(e.dst)
  /\ \/ \E t : e.sym = VarSymbol(t) /\ e.src = Start
     \/ \E l \in FieldLabels : /\ IsTv(e.src) /\ e.sym = LabelSymbol(l)
                               /\ Operate(e.dst.variance, LabelVariance(l)) = e.src.variance

EntryAgrees(p) ==
  /\ IsTv(p[3])
  /\ \/ p[1] = End /\ \E t : p[2] = VarSymbol(t)
     \/ \E l \in FieldLabels : /\ p[2] = LabelSymbol(l)
                               /\ Operate(p[3].variance, LabelVariance(l)) = p[1].variance

SignsAgree ==
  /\ \A e \in allEdges : /\ e.kind = "success" => SuccessAgrees(e)
                         /\ e.kind = "pop" => PopAgrees(e)
  /\ \A p \in pushes : EntryAgrees(p)
  /\ \A e \in newEdges : e.kind = "success"

LEMMA FsaEdgesAgree ==
  ASSUME NEW cons \in SUBSET SubtypeConstraints, NEW e \in FsaEdges(cons)
  PROVE  /\ e.kind = "success" => SuccessAgrees(e)
         /\ e.kind = "pop" => PopAgrees(e)
         /\ e.kind = "push" => EntryAgrees(<<e.dst, e.sym, e.src>>)
<1>1. CASE e \in DirectEdges(cons)
  <2>1. e.kind = "success" /\ e.src.variance = e.dst.variance
    BY <1>1 DEF DirectEdges, SubTypeEdge, Success, Edge, State
  <2>2. e.src \in EndsOf(DirectEdges(cons)) /\ e.dst \in EndsOf(DirectEdges(cons))
    BY <1>1, EndsOfMember
  <2> QED  BY <2>1, <2>2, DirectEndsTyped DEF SuccessAgrees
<1>2. ASSUME NEW s \in EndsOf(DirectEdges(cons)), e \in PushPopEdges(s)
      PROVE  /\ e.kind # "success"
             /\ e.kind = "pop" => PopAgrees(e)
             /\ e.kind = "push" => EntryAgrees(<<e.dst, e.sym, e.src>>)
  <2>1. s \in States /\ IsTv(s) /\ Len(s.path) \in Nat
    BY DirectEndsTyped DEF States, Paths
  <2>2. PICK k \in 1..Len(s.path) :
          \/ e = Push(PrefixState(s, k), LabelSymbol(s.path[k]), PrefixState(s, k-1))
          \/ e = Pop(PrefixState(s, k-1), LabelSymbol(s.path[k]), PrefixState(s, k))
    BY <1>2 DEF PushPopEdges
  <2>3. k \in 0..Len(s.path) /\ k-1 \in 0..Len(s.path)
    BY <2>1
  <2>4. IsTv(PrefixState(s, k)) /\ IsTv(PrefixState(s, k-1))
    BY <2>1, <2>3, PrefixTyped DEF IsTv
  <2>5. /\ Operate(PrefixState(s, k).variance, LabelVariance(s.path[k])) = PrefixState(s, k-1).variance
        /\ s.path[k] \in FieldLabels
    BY <2>1, PrefixVariance
  <2> QED  BY <2>2, <2>4, <2>5 DEF PopAgrees, EntryAgrees, Push, Pop, Edge
<1>3. ASSUME NEW s \in EndsOf(RuleEdges(cons)), e \in StartStopEdges(s)
      PROVE  /\ e.kind # "success"
             /\ e.kind = "pop" => PopAgrees(e)
             /\ e.kind = "push" => EntryAgrees(<<e.dst, e.sym, e.src>>)
  <2>1. IsTv(BareState(s))
    BY RuleEndsTyped DEF IsTv, BareState, State
  <2>2. e = Pop(Start, VarSymbol(s), BareState(s)) \/ e = Push(BareState(s), VarSymbol(s), End)
    <3>1. CASE s.dir = "L"
      BY <1>3, <3>1 DEF StartStopEdges
    <3>2. CASE s.dir = "R"
      BY <1>3, <3>2 DEF StartStopEdges
    <3>3. CASE s.dir \notin {"L", "R"}
      BY <1>3, <3>3 DEF StartStopEdges
    <3> QED  BY <3>1, <3>2, <3>3
  <2> QED  BY <2>1, <2>2 DEF PopAgrees, EntryAgrees, Push, Pop, Edge
<1>4. \/ e \in DirectEdges(cons)
      \/ \E s \in EndsOf(DirectEdges(cons)) : e \in PushPopEdges(s)
      \/ \E s \in EndsOf(RuleEdges(cons)) : e \in StartStopEdges(s)
  BY DEF FsaEdges, RuleEdges
<1> QED  BY <1>1, <1>2, <1>3, <1>4

LEMMA InitSigns == Init => SignsAgree
<1> SUFFICES ASSUME NEW cons \in ConstraintSets, InitFrom(cons)
             PROVE  SignsAgree
  BY DEF Init
<1>1. cons \in SUBSET SubtypeConstraints
  BY ConstraintSetsAssumption
<1>2. \A p \in pushes : \E e \in FsaEdges(cons) : e.kind = "push" /\ p = <<e.dst, e.sym, e.src>>
  BY DEF InitFrom, BasePushes
<1> QED  BY <1>1, <1>2, FsaEdgesAgree DEF InitFrom, SignsAgree

LEMMA SymbolsDiffer ==
  /\ \A l, t : LabelSymbol(l) # VarSymbol(t)
  /\ \A l, m : LabelSymbol(l) = LabelSymbol(m) => l = m
BY DEF LabelSymbol, VarSymbol

LEMMA PropagateSigns ==
  ASSUME IInv, SignsAgree, NEW e \in todoEdges, Propagate(e)
  PROVE  SignsAgree'
<1>1. SuccessAgrees(e)
  BY DEF IInv, TypeOK, SuccessEdges, IsSuccess, SignsAgree
<1>2. ASSUME NEW p \in Carried(pushes, e)
      PROVE  EntryAgrees(p)
  <2>1. PICK q \in pushes : q[1] = e.src /\ p = <<e.dst, q[2], q[3]>>
    BY <1>2 DEF Carried
  <2>2. EntryAgrees(q) /\ q[1] # End
    BY <1>1, <2>1 DEF SignsAgree, SuccessAgrees, IsTv, End, State
  <2> QED  BY <1>1, <2>1, <2>2 DEF EntryAgrees, SuccessAgrees
<1> QED  BY <1>2 DEF Propagate, SignsAgree

LEMMA LinkPopsSigns ==
  ASSUME IInv, SignsAgree, LinkPops
  PROVE  SignsAgree'
<1>1. ASSUME NEW f \in Linked(pushes, allEdges)
      PROVE  f.kind = "success" /\ SuccessAgrees(f)
  <2>1. PICK e \in allEdges, p \in pushes :
          e.kind = "pop" /\ p[1] = e.src /\ p[2] = e.sym /\ f = Success(p[3], e.dst)
    BY <1>1, LinkedEdges
  <2>2. PopAgrees(e) /\ EntryAgrees(p)
    BY <2>1 DEF SignsAgree
  <2>3. Start # End /\ ~IsTv(End)
    BY DEF Start, End, State, IsTv
  <2>4. PICK l \in FieldLabels : /\ p[2] = LabelSymbol(l)
                                 /\ Operate(p[3].variance, LabelVariance(l)) = p[1].variance
                                 /\ Operate(e.dst.variance, LabelVariance(l)) = p[1].variance
    BY <2>1, <2>2, <2>3, SymbolsDiffer DEF PopAgrees, EntryAgrees
  <2>5. p[3] \in States /\ e.dst \in States
    BY <2>1 DEF IInv, TypeOK, Ends
  <2>6. p[3].variance = e.dst.variance
    BY <2>4, <2>5 DEF States, Variances, Operate, LabelVariance, Co, Contra
  <2> QED  BY <2>1, <2>2, <2>6 DEF Success, Edge, SuccessAgrees, PopAgrees, EntryAgrees
<1> QED  BY <1>1 DEF LinkPops, SignsAgree

LEMMA MirrorSigns ==
  ASSUME IInv, SignsAgree, NEW s \in todoStates, Mirror(s)
  PROVE  SignsAgree'
<1>1. s \in states /\ s \in States /\ IsTv(s) /\ s.variance = Contra
  BY DEF IInv, TypeOK, ContraStates
<1>2. Not(s).variance = Co
  BY <1>1 DEF Not, State, Flip, Co, Contra
<1>3. LabelVariance(Store) = Contra /\ LabelVariance(Load) = Co /\ {Load, Store} \subseteq FieldLabels
  BY LabelsAssumption DEF LabelVariance, Load, Store, Co, Contra, FieldLabels
<1>4. ASSUME NEW p \in Mirrored(pushes, s)
      PROVE  EntryAgrees(p)
  <2>1. PICK q \in pushes :
          /\ q[1] = s
          /\ \/ q[2] = LabelSymbol(Store) /\ p = <<Not(s), LabelSymbol(Load), q[3]>>
             \/ q[2] = LabelSymbol(Load) /\ p = <<Not(s), LabelSymbol(Store), q[3]>>
    BY <1>4 DEF Mirrored
  <2>2. EntryAgrees(q) /\ IsTv(q[3]) /\ q[3] \in States
    BY <2>1 DEF SignsAgree, EntryAgrees, IInv, TypeOK
  <2>3. PICK l \in {Load, Store} : /\ q[2] = LabelSymbol(l)
                                   /\ Operate(q[3].variance, LabelVariance(l)) = Contra
    BY <1>1, <2>1, <2>2, SymbolsDiffer DEF EntryAgrees
  <2>4. q[3].variance \in {Co, Contra}
    BY <2>2 DEF States, Variances
  <2>5. CASE q[2] = LabelSymbol(Store)
    <3>1. l = Store /\ Load # Store
      BY <2>3, <2>5, SymbolsDiffer DEF Load, Store
    <3>2. Operate(q[3].variance, LabelVariance(Load)) = Co
      BY <1>3, <2>3, <2>4, <3>1 DEF Operate, Co, Contra
    <3>3. p = <<Not(s), LabelSymbol(Load), q[3]>>
      BY <2>1, <2>5, <3>1, SymbolsDiffer
    <3> QED  BY <1>2, <1>3, <2>2, <3>2, <3>3 DEF EntryAgrees
  <2>6. CASE q[2] = LabelSymbol(Load)
    <3>1. l = Load /\ Load # Store
      BY <2>3, <2>6, SymbolsDiffer DEF Load, Store
    <3>2. Operate(q[3].variance, LabelVariance(Store)) = Co
      BY <1>3, <2>3, <2>4, <3>1 DEF Operate, Co, Contra
    <3>3. p = <<Not(s), LabelSymbol(Store), q[3]>>
      BY <2>1, <2>6, <3>1, SymbolsDiffer
    <3> QED  BY <1>2, <1>3, <2>2, <3>2, <3>3 DEF EntryAgrees
  <2> QED  BY <2>1, <2>5, <2>6
<1>5. /\ UNCHANGED <<allEdges, newEdges>>
      /\ pushes' \subseteq pushes \cup Mirrored(pushes, s)
  BY DEF Mirror
<1> QED  BY <1>4, <1>5 DEF SignsAgree

LEMMA SignsInvariance == Spec => []SignsAgree
<1>1. ASSUME SignsAgree, \/ Repeat \/ FixpointReached \/ Saturate \/ UNCHANGED vars
      PROVE  SignsAgree'
  BY <1>1 DEF Repeat, FixpointReached, Saturate, vars, SignsAgree
<1>2. IInv /\ SignsAgree /\ [Next]_vars => SignsAgree'
  BY <1>1, PropagateSigns, LinkPopsSigns, MirrorSigns DEF Next
<1> QED  BY InitSigns, Invariance, <1>2, PTL DEF Spec

(* A shortcut never changes the variance of the stack: the shortcuts that   *)
(* get_saturation_edges returns join states of the same variance.           *)
THEOREM VarianceHolds == Spec => []VarianceAgrees
<1>1. IInv /\ SignsAgree => VarianceAgrees
  BY DEF IInv, TypeOK, SignsAgree, SuccessAgrees, VarianceAgrees
<1> QED  BY <1>1, Invariance, SignsInvariance, PTL
-----------------------------------------------------------------------------
(* Mirror images.  The automaton is its own mirror image, and so is every   *)
(* fixpoint of the three phases; what the loop adds on its way is contained *)
(* in every fixpoint, and so are its mirror images.                         *)

LEMMA NotNot ==
  ASSUME NEW s \in States
  PROVE  Not(Not(s)) = s
BY DEF Not, State, States, NotDir, Dirs, Flip, Variances, Co, Contra

\* The covariant rule of a constraint is the mirror image of the contravariant one.
LEMMA DirectEdgesMirrored ==
  ASSUME NEW cons \in SUBSET SubtypeConstraints, NEW e \in DirectEdges(cons)
  PROVE  Success(Not(e.dst), Not(e.src)) \in DirectEdges(cons)
<1>1. ASSUME NEW c \in cons, e = SubTypeEdge(c.lhs, c.rhs, Co)
      PROVE  Success(Not(e.dst), Not(e.src)) = SubTypeEdge(c.rhs, c.lhs, Contra)
  BY <1>1 DEF SubTypeEdge, Success, Edge, Not, State, VHatDir, NotDir, Flip, Co, Contra
<1>2. ASSUME NEW c \in cons, e = SubTypeEdge(c.rhs, c.lhs, Contra)
      PROVE  Success(Not(e.dst), Not(e.src)) = SubTypeEdge(c.lhs, c.rhs, Co)
  BY <1>2 DEF SubTypeEdge, Success, Edge, Not, State, VHatDir, NotDir, Flip, Co, Contra
<1> QED  BY <1>1, <1>2 DEF DirectEdges

\* Where the edges of the automaton come from.
LEMMA FsaEdgeKinds ==
  ASSUME NEW cons \in SUBSET SubtypeConstraints, NEW e \in FsaEdges(cons)
  PROVE  /\ IsSuccess(e) => e \in DirectEdges(cons)
         /\ \A l : e.sym = LabelSymbol(l) =>
              \E s \in EndsOf(DirectEdges(cons)) : \E k \in 1..Len(s.path) :
                \/ e = Push(PrefixState(s, k), LabelSymbol(s.path[k]), PrefixState(s, k-1))
                \/ e = Pop(PrefixState(s, k-1), LabelSymbol(s.path[k]), PrefixState(s, k))
<1>1. ASSUME NEW s \in EndsOf(DirectEdges(cons)), e \in PushPopEdges(s)
      PROVE  /\ ~IsSuccess(e)
             /\ \E k \in 1..Len(s.path) :
                  \/ e = Push(PrefixState(s, k), LabelSymbol(s.path[k]), PrefixState(s, k-1))
                  \/ e = Pop(PrefixState(s, k-1), LabelSymbol(s.path[k]), PrefixState(s, k))
  BY <1>1 DEF PushPopEdges, IsSuccess, Push, Pop, Edge
<1>2. ASSUME NEW s \in EndsOf(RuleEdges(cons)), e \in StartStopEdges(s)
      PROVE  ~IsSuccess(e) /\ \A l : e.sym # LabelSymbol(l)
  <2>1. e = Pop(Start, VarSymbol(s), BareState(s)) \/ e = Push(BareState(s), VarSymbol(s), End)
    <3>1. CASE s.dir = "L"
      BY <1>2, <3>1 DEF StartStopEdges
    <3>2. CASE s.dir = "R"
      BY <1>2, <3>2 DEF StartStopEdges
    <3>3. CASE s.dir \notin {"L", "R"}
      BY <1>2, <3>3 DEF StartStopEdges
    <3> QED  BY <3>1, <3>2, <3>3
  <2>2. e.sym = VarSymbol(s) /\ e.kind \in {"push", "pop"}
    BY <2>1 DEF Push, Pop, Edge
  <2> QED  BY <2>2, SymbolsDiffer DEF IsSuccess
<1>3. ASSUME e \in DirectEdges(cons)
      PROVE  \A l : e.sym # LabelSymbol(l)
  <2>1. e.sym = NoSymbol
    BY <1>3 DEF DirectEdges, SubTypeEdge, Success, Edge
  <2> QED  BY <2>1 DEF NoSymbol, LabelSymbol
<1>4. \/ e \in DirectEdges(cons)
      \/ \E s \in EndsOf(DirectEdges(cons)) : e \in PushPopEdges(s)
      \/ \E s \in EndsOf(RuleEdges(cons)) : e \in StartStopEdges(s)
  BY DEF FsaEdges, RuleEdges
<1> QED  BY <1>1, <1>2, <1>3, <1>4

\* Both edges of a label, in both variances.
LEMMA LabelEdges ==
  ASSUME NEW cons \in SUBSET SubtypeConstraints, NEW s \in EndsOf(DirectEdges(cons)),
         NEW k \in 1..Len(s.path)
  PROVE  /\ Push(PrefixState(s, k), LabelSymbol(s.path[k]), PrefixState(s, k-1)) \in FsaEdges(cons)
         /\ Pop(PrefixState(s, k-1), LabelSymbol(s.path[k]), PrefixState(s, k)) \in FsaEdges(cons)
         /\ Push(Not(PrefixState(s, k)), LabelSymbol(s.path[k]), Not(PrefixState(s, k-1))) \in FsaEdges(cons)
         /\ Pop(Not(PrefixState(s, k-1)), LabelSymbol(s.path[k]), Not(PrefixState(s, k))) \in FsaEdges(cons)
<1>1. s \in States /\ Not(s) \in EndsOf(DirectEdges(cons)) /\ Not(s).path = s.path
  BY DirectEndsTyped, DirectEndsClosed, NotTyped DEF NotClosed
<1>2. k \in Nat /\ k-1 \in Nat
  BY <1>1 DEF States, Paths
<1>3. /\ Not(PrefixState(s, k)) = PrefixState(Not(s), k)
      /\ Not(PrefixState(s, k-1)) = PrefixState(Not(s), k-1)
  BY <1>1, <1>2, NotPrefix
<1>4. PushPopEdges(s) \subseteq FsaEdges(cons) /\ PushPopEdges(Not(s)) \subseteq FsaEdges(cons)
  BY <1>1 DEF FsaEdges, RuleEdges
<1>5. k \in 1..Len(Not(s).path) /\ Not(s).path[k] = s.path[k]
  BY <1>1
<1> QED  BY <1>3, <1>4, <1>5 DEF PushPopEdges

LEMMA LabelEdgesMirrored ==
  ASSUME NEW cons \in SUBSET SubtypeConstraints, NEW e \in FsaEdges(cons), NEW l,
         e.sym = LabelSymbol(l)
  PROVE  /\ e.kind = "pop" => /\ Push(e.dst, e.sym, e.src) \in FsaEdges(cons)
                              /\ Push(Not(e.dst), e.sym, Not(e.src)) \in FsaEdges(cons)
         /\ e.kind = "push" => /\ Pop(e.dst, e.sym, e.src) \in FsaEdges(cons)
                               /\ Pop(Not(e.dst), e.sym, Not(e.src)) \in FsaEdges(cons)
<1>1. PICK s \in EndsOf(DirectEdges(cons)) : \E k \in 1..Len(s.path) :
                \/ e = Push(PrefixState(s, k), LabelSymbol(s.path[k]), PrefixState(s, k-1))
                \/ e = Pop(PrefixState(s, k-1), LabelSymbol(s.path[k]), PrefixState(s, k))
  BY FsaEdgeKinds
<1> PICK k \in 1..Len(s.path) :
                \/ e = Push(PrefixState(s, k), LabelSymbol(s.path[k]), PrefixState(s, k-1))
                \/ e = Pop(PrefixState(s, k-1), LabelSymbol(s.path[k]), PrefixState(s, k))
  BY <1>1
<1>2. CASE e = Push(PrefixState(s, k), LabelSymbol(s.path[k]), PrefixState(s, k-1))
  <2>1. /\ e.kind = "push" /\ e.sym = LabelSymbol(s.path[k])
        /\ e.src = PrefixState(s, k) /\ e.dst = PrefixState(s, k-1)
    BY <1>2 DEF Push, Edge
  <2> QED  BY <2>1, LabelEdges
<1>3. CASE e = Pop(PrefixState(s, k-1), LabelSymbol(s.path[k]), PrefixState(s, k))
  <2>1. /\ e.kind = "pop" /\ e.sym = LabelSymbol(s.path[k])
        /\ e.src = PrefixState(s, k-1) /\ e.dst = PrefixState(s, k)
    BY <1>3 DEF Pop, Edge
  <2> QED  BY <2>1, LabelEdges
<1> QED  BY <1>2, <1>3

\* The automaton as it was built, which the loop extends.
BaseKept ==
  pc # "saturated" =>
    /\ \E cons \in ConstraintSets : grph = FsaEdges(cons) /\ states = FsaNodes(cons)
    /\ grph \subseteq allEdges /\ BasePushes(grph) \subseteq pushes
    /\ allEdges = grph \cup newEdges

\* Whatever the three phases would add no more to.
IsFixpoint(P, E) == grph \subseteq E /\ BasePushes(grph) \subseteq P /\ Closed(P, E, states)

Image(e) == Success(Not(e.dst), Not(e.src))

(* A definer and a push that meets it in mirror image are linked in every   *)
(* fixpoint, and the mirror image of every success edge is in it.           *)
PushImages(P, E) ==
  \A p \in pushes : \A l, m :
    p[2] = LabelSymbol(l) /\ <<Not(p[1]), p[2], m>> \in P => Success(m, Not(p[3])) \in E
EdgeImages(E) == \A e \in SuccessEdges(allEdges) : Image(e) \in E

ImagesForced ==
  pc # "saturated" => \A P, E : IsFixpoint(P, E) => PushImages(P, E) /\ EdgeImages(E)

MirrorInv == BaseKept /\ ImagesForced /\ MirrorSymmetric

LEMMA InitMirror == Init => MirrorInv
<1> SUFFICES ASSUME NEW cons \in ConstraintSets, InitFrom(cons)
             PROVE  MirrorInv
  BY DEF Init
<1>1. cons \in SUBSET SubtypeConstraints
  BY ConstraintSetsAssumption
<1>2. /\ grph = FsaEdges(cons) /\ states = FsaNodes(cons) /\ allEdges = grph /\ newEdges = {}
      /\ pushes = BasePushes(grph) /\ pc = "propagate"
  BY DEF InitFrom
<1>3. BaseKept
  BY <1>2 DEF BaseKept
<1>4. ASSUME NEW P, NEW E, IsFixpoint(P, E)
      PROVE  PushImages(P, E)
  <2> SUFFICES ASSUME NEW p \in pushes, NEW l, NEW m,
                      p[2] = LabelSymbol(l), <<Not(p[1]), p[2], m>> \in P
               PROVE  Success(m, Not(p[3])) \in E
    BY DEF PushImages
  <2>1. PICK e \in grph : e.kind = "push" /\ p = <<e.dst, e.sym, e.src>>
    BY <1>2 DEF BasePushes
  <2>2. Pop(Not(e.dst), e.sym, Not(e.src)) \in grph
    BY <1>1, <1>2, <2>1, LabelEdgesMirrored
  <2> DEFINE f == Pop(Not(e.dst), e.sym, Not(e.src))
  <2>3. f \in E /\ f.kind = "pop" /\ f.src = Not(e.dst) /\ f.sym = e.sym /\ f.dst = Not(e.src)
    BY <2>2, <1>4 DEF IsFixpoint, Pop, Edge
  <2>4. Success(m, Not(p[3])) \in LinkedPop(P, f)
    BY <2>1, <2>3 DEF LinkedPop
  <2> QED  BY <2>3, <2>4, <1>4 DEF IsFixpoint, Closed, Linked
<1>5. ASSUME NEW P, NEW E, IsFixpoint(P, E)
      PROVE  EdgeImages(E)
  BY <1>1, <1>2, <1>5, FsaEdgeKinds, DirectEdgesMirrored
     DEF EdgeImages, Image, SuccessEdges, IsFixpoint, FsaEdges, RuleEdges
<1>6. MirrorSymmetric
  BY <1>2 DEF MirrorSymmetric
<1> QED  BY <1>3, <1>4, <1>5, <1>6 DEF MirrorInv, ImagesForced

\* A push carried along a success edge can be carried back along its image.
LEMMA PropagateMirror ==
  ASSUME IInv, MirrorInv, NEW e \in todoEdges, Propagate(e)
  PROVE  MirrorInv'
<1>1. /\ pc = "propagate" /\ pc' = pc /\ pushes' = pushes \cup Carried(pushes, e)
      /\ UNCHANGED <<grph, states, allEdges, newEdges>>
  BY DEF Propagate
<1>2. e \in SuccessEdges(allEdges)
  BY DEF IInv, TypeOK
<1>3. BaseKept'
  BY <1>1 DEF MirrorInv, BaseKept
<1>4. ASSUME NEW P, NEW E, IsFixpoint(P, E)'
      PROVE  PushImages(P, E)' /\ EdgeImages(E)'
  <2>1. IsFixpoint(P, E) /\ PushImages(P, E) /\ EdgeImages(E)
    BY <1>1, <1>4 DEF MirrorInv, ImagesForced, IsFixpoint
  <2>2. ASSUME NEW p \in Carried(pushes, e), NEW l, NEW m,
               p[2] = LabelSymbol(l), <<Not(p[1]), p[2], m>> \in P
        PROVE  Success(m, Not(p[3])) \in E
    <3>1. PICK q \in pushes : q[1] = e.src /\ p = <<e.dst, q[2], q[3]>>
      BY <2>2 DEF Carried
    <3>2. /\ Image(e) \in SuccessEdges(E)
          /\ Image(e).src = Not(e.dst) /\ Image(e).dst = Not(e.src)
      BY <1>2, <2>1 DEF EdgeImages, Image, Success, Edge, SuccessEdges, IsSuccess
    <3>3. <<Not(e.src), q[2], m>> \in Carried(P, Image(e))
      BY <2>2, <3>1, <3>2 DEF Carried
    <3>4. <<Not(q[1]), q[2], m>> \in P
      BY <2>1, <3>1, <3>2, <3>3 DEF IsFixpoint, Closed
    <3> QED  BY <2>1, <2>2, <3>1, <3>4 DEF PushImages
  <2> QED  BY <1>1, <2>1, <2>2 DEF PushImages, EdgeImages
<1> QED  BY <1>1, <1>3, <1>4 DEF MirrorInv, ImagesForced, MirrorSymmetric

\* The image of a shortcut is forced by the image of its push and its pop.
LEMMA LinkPopsMirror ==
  ASSUME IInv, SignsAgree, MirrorInv, LinkPops
  PROVE  MirrorInv'
<1>1. /\ pc = "propagate" /\ pc' = "mirror"
      /\ newEdges' = newEdges \cup Linked(pushes, allEdges)
      /\ allEdges' = allEdges \cup Linked(pushes, allEdges)
      /\ UNCHANGED <<grph, states, pushes>>
  BY DEF LinkPops
<1>2. BaseKept'
  BY <1>1 DEF MirrorInv, BaseKept
<1>3. PICK cons \in ConstraintSets : grph = FsaEdges(cons) /\ states = FsaNodes(cons)
  BY <1>1 DEF MirrorInv, BaseKept
<1>4. ASSUME NEW P, NEW E, IsFixpoint(P, E)'
      PROVE  PushImages(P, E)' /\ EdgeImages(E)'
  <2>1. IsFixpoint(P, E) /\ PushImages(P, E) /\ EdgeImages(E)
    BY <1>1, <1>4 DEF MirrorInv, ImagesForced, IsFixpoint
  <2>2. ASSUME NEW f \in Linked(pushes, allEdges)
        PROVE  Image(f) \in E
    <3>1. PICK e \in allEdges, p \in pushes :
            e.kind = "pop" /\ p[1] = e.src /\ p[2] = e.sym /\ f = Success(p[3], e.dst)
      BY <2>2, LinkedEdges
    <3>2. PICK l : e.sym = LabelSymbol(l)
      <4>1. PopAgrees(e) /\ EntryAgrees(p) /\ Start # End
        BY <3>1 DEF SignsAgree, Start, End, State
      <4> QED  BY <3>1, <4>1 DEF PopAgrees, EntryAgrees
    <3>3. e \in grph
      BY <1>1, <3>1 DEF MirrorInv, BaseKept, SignsAgree
    <3>4. Push(Not(e.dst), e.sym, Not(e.src)) \in grph
      BY <1>3, <3>1, <3>2, <3>3, LabelEdgesMirrored, ConstraintSetsAssumption
    <3>5. <<Not(e.src), e.sym, Not(e.dst)>> \in P
      <4> DEFINE g == Push(Not(e.dst), e.sym, Not(e.src))
      <4>1. g.kind = "push" /\ g.dst = Not(e.src) /\ g.sym = e.sym /\ g.src = Not(e.dst)
        BY DEF Push, Edge
      <4>2. <<g.dst, g.sym, g.src>> \in BasePushes(grph)
        BY <3>4, <4>1 DEF BasePushes
      <4> QED  BY <2>1, <4>1, <4>2 DEF IsFixpoint
    <3>6. Success(Not(e.dst), Not(p[3])) \in E
      BY <2>1, <3>1, <3>2, <3>5 DEF PushImages
    <3> QED  BY <3>1, <3>6 DEF Image, Success, Edge
  <2> QED  BY <1>1, <2>1, <2>2 DEF PushImages, EdgeImages, SuccessEdges
<1> QED  BY <1>1, <1>2, <1>4 DEF MirrorInv, ImagesForced, MirrorSymmetric

\* The pointer rule at a state undoes itself at its opposite.
LEMMA MirrorMirror ==
  ASSUME IInv, MirrorInv, NEW s \in todoStates, Mirror(s)
  PROVE  MirrorInv'
<1>1. s \in ContraStates(states) /\ Not(s) \in states /\ s \in States
  BY DEF IInv, TypeOK, ContraStates, NotClosed
<1>2. /\ pc = "mirror" /\ pc' = pc /\ pushes' = pushes \cup Mirrored(pushes, s)
      /\ UNCHANGED <<grph, states, allEdges, newEdges>>
  BY <1>1 DEF Mirror, MirrorFinds
<1>3. BaseKept'
  BY <1>2 DEF MirrorInv, BaseKept
<1>4. ASSUME NEW P, NEW E, IsFixpoint(P, E)'
      PROVE  PushImages(P, E)' /\ EdgeImages(E)'
  <2>1. IsFixpoint(P, E) /\ PushImages(P, E) /\ EdgeImages(E)
    BY <1>2, <1>4 DEF MirrorInv, ImagesForced, IsFixpoint
  <2>2. ASSUME NEW p \in Mirrored(pushes, s), NEW m, <<Not(p[1]), p[2], m>> \in P
        PROVE  Success(m, Not(p[3])) \in E
    <3>1. Not(Not(s)) = s
      BY <1>1, NotNot
    <3>2. \A r \in Mirrored(P, s) : r \in P
      BY <1>1, <2>1 DEF IsFixpoint, Closed
    <3>3. ASSUME NEW q \in pushes, q[1] = s, q[2] = LabelSymbol(Store),
                 p = <<Not(s), LabelSymbol(Load), q[3]>>
          PROVE  Success(m, Not(p[3])) \in E
      <4>1. <<s, LabelSymbol(Load), m>> \in P
        BY <2>2, <3>1, <3>3
      <4>2. <<Not(q[1]), q[2], m>> \in P
        BY <4>1, <3>2, <3>3 DEF Mirrored
      <4> QED  BY <2>1, <3>3, <4>2 DEF PushImages
    <3>4. ASSUME NEW q \in pushes, q[1] = s, q[2] = LabelSymbol(Load),
                 p = <<Not(s), LabelSymbol(Store), q[3]>>
          PROVE  Success(m, Not(p[3])) \in E
      <4>1. <<s, LabelSymbol(Store), m>> \in P
        BY <2>2, <3>1, <3>4
      <4>2. <<Not(q[1]), q[2], m>> \in P
        BY <4>1, <3>2, <3>4 DEF Mirrored
      <4> QED  BY <2>1, <3>4, <4>2 DEF PushImages
    <3> QED  BY <2>2, <3>3, <3>4 DEF Mirrored
  <2> QED  BY <1>2, <2>1, <2>2 DEF PushImages, EdgeImages
<1> QED  BY <1>2, <1>3, <1>4 DEF MirrorInv, ImagesForced, MirrorSymmetric

\* What the loop ends with is a fixpoint, so it contains its own images.
LEMMA FixpointMirror ==
  ASSUME IInv, MirrorInv, FixpointReached
  PROVE  MirrorInv'
<1>1. /\ pc = "mirror" /\ pc' = "done"
      /\ UNCHANGED <<grph, states, pushes, allEdges, newEdges>>
  BY DEF FixpointReached
<1>2. Closed(pushes, allEdges, states)
  BY <1>1, FixpointInvariant DEF IInv, StopsAtFixpoint, Closed
<1>3. IsFixpoint(pushes, allEdges)
  BY <1>1, <1>2 DEF MirrorInv, BaseKept, IsFixpoint
<1>4. EdgeImages(allEdges)
  BY <1>1, <1>3 DEF MirrorInv, ImagesForced
<1>5. MirrorSymmetric'
  BY <1>1, <1>4 DEF MirrorSymmetric, EdgeImages, Image
<1>6. BaseKept' /\ ImagesForced'
  BY <1>1 DEF MirrorInv, BaseKept, ImagesForced, IsFixpoint, PushImages, EdgeImages
<1> QED  BY <1>5, <1>6 DEF MirrorInv

LEMMA OtherMirror ==
  ASSUME MirrorInv, Repeat \/ Saturate \/ UNCHANGED vars
  PROVE  MirrorInv'
<1>1. CASE Repeat \/ UNCHANGED vars
  <2>1. UNCHANGED <<grph, states, pushes, allEdges, newEdges>> /\ (pc' = pc \/ pc' = "propagate")
    BY <1>1 DEF Repeat, vars
  <2>2. pc # "saturated" \/ pc' = pc
    BY <1>1 DEF Repeat, vars
  <2> QED  BY <2>1, <2>2 DEF MirrorInv, BaseKept, ImagesForced, IsFixpoint, PushImages, EdgeImages,
                            MirrorSymmetric
<1>2. CASE Saturate
  BY <1>2 DEF Saturate, MirrorInv, BaseKept, ImagesForced, MirrorSymmetric
<1> QED  BY <1>1, <1>2

LEMMA MirrorInvariance == Spec => []MirrorInv
<1>1. IInv /\ SignsAgree /\ MirrorInv /\ [Next]_vars => MirrorInv'
  BY PropagateMirror, LinkPopsMirror, MirrorMirror, FixpointMirror, OtherMirror DEF Next
<1> QED  BY InitMirror, Invariance, SignsInvariance, <1>1, PTL DEF Spec

(* What is proved of two states covariantly is proved contravariantly of    *)
(* their opposites: the shortcuts get_saturation_edges returns come with    *)
(* their mirror images, pointer rule included.                              *)
THEOREM MirrorHolds == Spec => []MirrorSymmetric
<1>1. MirrorInv => MirrorSymmetric
  BY DEF MirrorInv
<1> QED  BY <1>1, MirrorInvariance, PTL
-----------------------------------------------------------------------------
(* The automaton is finite. *)

LEMMA EndsFinite ==
  ASSUME NEW E, IsFiniteSet(E)
  PROVE  IsFiniteSet(EndsOf(E))
<1> DEFINE src == [e \in E |-> e.src]
           dst == [e \in E |-> e.dst]
<1>1. EndsOf(E) = {src[e] : e \in E} \cup {dst[e] : e \in E}
  BY DEF EndsOf, Ends
<1> HIDE DEF src, dst
<1>2. IsFiniteSet({src[e] : e \in E})
  BY ImageFinite
<1>3. IsFiniteSet({dst[e] : e \in E})
  BY ImageFinite
<1> QED  BY <1>1, <1>2, <1>3, FS_Union

LEMMA FsaNodesFinite ==
  ASSUME NEW cons \in SUBSET SubtypeConstraints, IsFiniteSet(cons)
  PROVE  IsFiniteSet(FsaNodes(cons))
<1> DEFINE DE == EndsOf(DirectEdges(cons))
           RE == EndsOf(RuleEdges(cons))
<1>1. IsFiniteSet(DE)
  <2> DEFINE co == [c \in cons |-> SubTypeEdge(c.lhs, c.rhs, Co)]
             contra == [c \in cons |-> SubTypeEdge(c.rhs, c.lhs, Contra)]
  <2>1. DirectEdges(cons) = {co[c] : c \in cons} \cup {contra[c] : c \in cons}
    BY DEF DirectEdges
  <2> HIDE DEF co, contra
  <2>2. IsFiniteSet({co[c] : c \in cons})
    BY ImageFinite
  <2>3. IsFiniteSet({contra[c] : c \in cons})
    BY ImageFinite
  <2> QED  BY <2>1, <2>2, <2>3, FS_Union, EndsFinite
<1>2. ASSUME NEW s \in DE
      PROVE  IsFiniteSet(EndsOf(PushPopEdges(s)))
  <2>1. s \in States /\ Len(s.path) \in Nat
    BY DirectEndsTyped DEF States, Paths
  <2> DEFINE pre == [k \in 0..Len(s.path) |-> PrefixState(s, k)]
  <2>2. EndsOf(PushPopEdges(s)) = {} \/ EndsOf(PushPopEdges(s)) = {pre[k] : k \in 0..Len(s.path)}
    BY <2>1, PushPopEnds
  <2> HIDE DEF pre
  <2>3. IsFiniteSet(0..Len(s.path))
    BY <2>1, FS_Interval
  <2>4. IsFiniteSet({pre[k] : k \in 0..Len(s.path)})
    BY <2>3, ImageFinite
  <2> QED  BY <2>2, <2>4, FS_EmptySet
<1>3. IsFiniteSet(RE)
  <2> DEFINE ends == [s \in DE |-> EndsOf(PushPopEdges(s))]
  <2>1. IsFiniteSet({ends[s] : s \in DE})
    <3> HIDE DEF ends, DE
    <3> QED  BY <1>1, ImageFinite
  <2>2. \A T \in {ends[s] : s \in DE} : IsFiniteSet(T)
    BY <1>2
  <2>3. IsFiniteSet(UNION {ends[s] : s \in DE})
    <3> HIDE DEF ends, DE
    <3> QED  BY <2>1, <2>2, FS_UNION
  <2>4. RE = DE \cup UNION {ends[s] : s \in DE}
    BY RuleEnds
  <2> HIDE DEF DE, RE, ends
  <2> QED  BY <1>1, <2>3, <2>4, FS_Union
<1>4. IsFiniteSet({BareState(s) : s \in {t \in RE : t.dir \in {"L", "R"}}})
  <2> DEFINE B == {t \in RE : t.dir \in {"L", "R"}}
             bare == [s \in B |-> BareState(s)]
  <2>1. IsFiniteSet(B)
    BY <1>3, FS_Subset
  <2>2. IsFiniteSet({bare[s] : s \in B})
    <3> HIDE DEF B, bare
    <3> QED  BY <2>1, ImageFinite
  <2>3. {BareState(s) : s \in B} = {bare[s] : s \in B}
    OBVIOUS
  <2> QED  BY <2>2, <2>3
<1>5. IsFiniteSet({Start, End})
  <2>1. {Start, End} = {Start} \cup {End}
    OBVIOUS
  <2>2. IsFiniteSet({Start}) /\ IsFiniteSet({End})
    BY FS_Singleton
  <2> QED  BY <2>1, <2>2, FS_Union
<1> QED  BY <1>3, <1>4, <1>5, FsaNodesAre, FS_Union

-----------------------------------------------------------------------------
(* Deduction among D: Derivable is the least theory of its constraints. *)

IsTheory(R, cons, D) == Axioms(cons, D) \subseteq R /\ DeductionRound(R, D) \subseteq R

LEMMA DeductionRoundsAre ==
  ASSUME NEW cons, NEW D, Axioms(cons, D) \subseteq D \X D
  PROVE  /\ DeductionRounds(cons, D)[0] = Axioms(cons, D)
         /\ \A n \in Nat : /\ DeductionRounds(cons, D)[n] \subseteq D \X D
                           /\ DeductionRounds(cons, D)[n+1] = DeductionRound(DeductionRounds(cons, D)[n], D)
<1> DEFINE S == SUBSET (D \X D)
           A == Axioms(cons, D)
           step == [R \in S |-> DeductionRound(R, D)]
           Eq(f) == f = [n \in Nat |-> IF n = 0 THEN A ELSE DeductionRound(f[n-1], D)]
<1>1. A \in S /\ step \in [S -> S]
  <2>1. \A R \in S : DeductionRound(R, D) \in S
    BY DEF DeductionRound
  <2> QED  BY <2>1
<1>2. PICK g \in [Nat -> S] : IsIteration(g, A, step)
  <2> HIDE DEF S, A, step
  <2> QED  BY <1>1, IterationExists
<1>3. \E f : Eq(f)
  <2>1. \A n \in Nat : n # 0 => n-1 \in Nat /\ (n-1)+1 = n
    OBVIOUS
  <2>2. \A n \in Nat : g[n] = IF n = 0 THEN A ELSE DeductionRound(g[n-1], D)
    <3> HIDE DEF A, S
    <3> QED  BY <1>2, <2>1 DEF IsIteration
  <2> HIDE DEF A
  <2>3. g = [n \in Nat |-> g[n]]
    BY <1>2
  <2> QED  BY <2>2, <2>3
<1> DEFINE h == DeductionRounds(cons, D)
<1>4. h = CHOOSE f : Eq(f)
  BY DEF DeductionRounds
<1>5. Eq(h)
  <2> HIDE DEF Eq, h
  <2> QED  BY <1>3, <1>4
<1>6. h[0] = A /\ \A n \in Nat : h[n+1] = DeductionRound(h[n], D)
  <2> HIDE DEF h, A
  <2>1. \A n \in Nat : h[n] = IF n = 0 THEN A ELSE DeductionRound(h[n-1], D)
    BY <1>5
  <2>2. \A n \in Nat : n+1 \in Nat /\ n+1 # 0 /\ (n+1)-1 = n
    OBVIOUS
  <2> QED  BY <2>1, <2>2
<1>7. \A n \in Nat : h[n] \in S
  <2> DEFINE T == {n \in Nat : h[n] \in S}
  <2>1. 0 \in T
    BY <1>1, <1>6
  <2>2. \A n \in Nat : n \in T => n+1 \in T
    <3>1. \A R \in S : DeductionRound(R, D) \in S
      BY DEF DeductionRound
    <3> HIDE DEF h, S
    <3> QED  BY <1>6, <3>1
  <2>3. \A n \in Nat : n \in T
    <3> HIDE DEF T
    <3> QED  BY <2>1, <2>2, NatSetInduction
  <2> QED  BY <2>3
<1> QED  BY <1>6, <1>7

LEMMA DerivableIsLeast ==
  ASSUME NEW cons, NEW D, IsFiniteSet(D), Axioms(cons, D) \subseteq D \X D
  PROVE  /\ IsTheory(Derivable(cons, D), cons, D)
         /\ \A Q : IsTheory(Q, cons, D) => Derivable(cons, D) \subseteq Q
<1> DEFINE h == DeductionRounds(cons, D)
           U == D \X D
<1>1. /\ h[0] = Axioms(cons, D)
      /\ \A n \in Nat : h[n] \subseteq U /\ h[n+1] = DeductionRound(h[n], D)
  BY DeductionRoundsAre
<1>2. IsFiniteSet(U) /\ Cardinality(U) \in Nat
  BY FS_Product, FS_CardinalityType
<1>3. \A R : R \subseteq DeductionRound(R, D)
  BY DEF DeductionRound
<1> HIDE DEF U
<1>4. \E n \in 0..Cardinality(U) : h[n] = h[n+1]
  <2> HIDE DEF h
  <2> QED  BY <1>1, <1>2, <1>3, ChainSettles
<1> DEFINE k == CHOOSE n \in 0..Cardinality(U) : h[n] = h[n+1]
<1>5. k \in Nat /\ h[k] = h[k+1] /\ Derivable(cons, D) = h[k]
  <2>1. k \in 0..Cardinality(U) /\ h[k] = h[k+1]
    <3> HIDE DEF h
    <3> QED  BY <1>4
  <2>2. Derivable(cons, D) = h[k]
    BY DEF Derivable, U
  <2> QED  BY <1>2, <2>1, <2>2
<1> HIDE DEF k, h
<1>6. \A n \in Nat : Axioms(cons, D) \subseteq h[n]
  <2> DEFINE T == {n \in Nat : Axioms(cons, D) \subseteq h[n]}
  <2>1. 0 \in T /\ \A n \in Nat : n \in T => n+1 \in T
    BY <1>1, <1>3
  <2>2. \A n \in Nat : n \in T
    <3> HIDE DEF T
    <3> QED  BY <2>1, NatSetInduction
  <2> QED  BY <2>2
<1>7. IsTheory(Derivable(cons, D), cons, D)
  BY <1>1, <1>5, <1>6 DEF IsTheory
<1>8. ASSUME NEW Q, IsTheory(Q, cons, D)
      PROVE  Derivable(cons, D) \subseteq Q
  <2> DEFINE T == {n \in Nat : h[n] \subseteq Q}
  <2>1. \A R : R \subseteq Q => DeductionRound(R, D) \subseteq DeductionRound(Q, D)
    BY DEF DeductionRound
  <2>2. 0 \in T /\ \A n \in Nat : n \in T => n+1 \in T
    BY <1>1, <1>8, <2>1 DEF IsTheory
  <2>3. \A n \in Nat : n \in T
    <3> HIDE DEF T
    <3> QED  BY <2>2, NatSetInduction
  <2> QED  BY <1>5, <2>3
<1> QED  BY <1>7, <1>8

LEMMA TheoryRules ==
  ASSUME NEW R, NEW cons, NEW D, IsTheory(R, cons, D)
  PROVE  /\ \A c \in cons : <<c.lhs, c.rhs>> \in R
         /\ \A d \in D : <<d, d>> \in R
         /\ \A d \in D : Extend(d, Store) \in D /\ Extend(d, Load) \in D =>
              <<Extend(d, Store), Extend(d, Load)>> \in R
         /\ \A a, b, c : <<a, b>> \in R /\ <<b, c>> \in R => <<a, c>> \in R
         /\ \A a, b : \A l \in FieldLabels :
              <<a, b>> \in R /\ Extend(a, l) \in D /\ Extend(b, l) \in D =>
                IF LabelVariance(l) = Co THEN <<Extend(a, l), Extend(b, l)>> \in R
                                         ELSE <<Extend(b, l), Extend(a, l)>> \in R
<1>1. Axioms(cons, D) \subseteq R /\ DeductionRound(R, D) \subseteq R
  BY DEF IsTheory
<1>2. Itself(D) \subseteq Axioms(cons, D) /\ \A c \in cons : <<c.lhs, c.rhs>> \in Axioms(cons, D)
  BY DEF Axioms, AxiomsAt
<1>3. ASSUME NEW d \in D, Extend(d, Store) \in D, Extend(d, Load) \in D
      PROVE  <<Extend(d, Store), Extend(d, Load)>> \in R
  <2> DEFINE r == <<d, d>>
  <2>1. r \in {x \in Itself(D) : Extend(x[2], Store) \in D /\ Extend(x[1], Load) \in D}
    BY <1>3 DEF Itself
  <2> QED  BY <1>1, <2>1 DEF Axioms, AxiomsAt
<1>4. ASSUME NEW a, NEW b, NEW c, <<a, b>> \in R, <<b, c>> \in R
      PROVE  <<a, c>> \in R
  <2> DEFINE r == <<a, b>>
             q == <<b, c>>
  <2>1. q \in {p \in R : p[1] = r[2]} /\ <<r[1], q[2]>> = <<a, c>>
    BY <1>4
  <2> QED  BY <1>1, <1>4, <2>1 DEF DeductionRound
<1>5. ASSUME NEW a, NEW b, NEW l \in FieldLabels,
             <<a, b>> \in R, Extend(a, l) \in D, Extend(b, l) \in D
      PROVE  IF LabelVariance(l) = Co THEN <<Extend(a, l), Extend(b, l)>> \in R
                                      ELSE <<Extend(b, l), Extend(a, l)>> \in R
  <2>1. ByField(<<a, b>>, l) \in R
    <3>1. ByField(<<a, b>>, l) \in D \X D
      BY <1>5 DEF ByField
    <3> QED  BY <1>1, <1>5, <3>1 DEF DeductionRound
  <2> QED  BY <2>1 DEF ByField
<1>6. \A d \in D : <<d, d>> \in R
  BY <1>1, <1>2 DEF Itself
<1> QED  BY <1>1, <1>2, <1>3, <1>4, <1>5, <1>6

-----------------------------------------------------------------------------
(* Soundness.  What an edge or an entry claims is read in the direction its *)
(* variance gives; every theory of the given constraints holds the claims.  *)

Upto(v, a, b) == IF v = Co THEN <<a, b>> ELSE <<b, a>>

Dtvs == WithExtensions(DtvsOf(states))

\* d pushed l and p[1] is above what was left; or, for a label of pointers,
\* d itself is below what popping l at p[1] would give.
EntrySound(R, p) ==
  \A l \in FieldLabels : p[2] = LabelSymbol(l) =>
    \/ \E x \in DtvsOf(states) : /\ DtvOf(p[3]) = Extend(x, l)
                                 /\ Upto(p[1].variance, x, DtvOf(p[1])) \in R
    \/ l \in {Load, Store} /\ Upto(p[3].variance, DtvOf(p[3]), Extend(DtvOf(p[1]), l)) \in R

EdgeSound(R, e) == Judgement(e) \in R

Sound(R) ==
  /\ \A e \in SuccessEdges(allEdges) : EdgeSound(R, e)
  /\ \A p \in pushes : EntrySound(R, p)

SoundInv == pc # "saturated" => \A R : IsTheory(R, Given, Dtvs) => Sound(R)

LEMMA UptoTransitive ==
  ASSUME NEW R, NEW cons, NEW D, IsTheory(R, cons, D), NEW v, NEW a, NEW b, NEW c,
         Upto(v, a, b) \in R, Upto(v, b, c) \in R
  PROVE  Upto(v, a, c) \in R
BY TheoryRules DEF Upto

LEMMA UptoField ==
  ASSUME NEW R, NEW cons, NEW D, IsTheory(R, cons, D), NEW l \in FieldLabels,
         NEW v \in Variances, NEW w \in Variances, Operate(w, LabelVariance(l)) = v,
         NEW a, NEW b, Upto(v, a, b) \in R, Extend(a, l) \in D, Extend(b, l) \in D
  PROVE  Upto(w, Extend(a, l), Extend(b, l)) \in R
<1>1. <<a, b>> \in R =>
        IF LabelVariance(l) = Co THEN <<Extend(a, l), Extend(b, l)>> \in R
                                 ELSE <<Extend(b, l), Extend(a, l)>> \in R
  BY TheoryRules
<1>2. <<b, a>> \in R =>
        IF LabelVariance(l) = Co THEN <<Extend(b, l), Extend(a, l)>> \in R
                                 ELSE <<Extend(a, l), Extend(b, l)>> \in R
  BY TheoryRules
<1>3. LabelVariance(l) \in {Co, Contra}
  BY DEF LabelVariance
<1> QED  BY <1>1, <1>2, <1>3 DEF Upto, Operate, Variances, Co, Contra

LEMMA DtvsHold ==
  ASSUME NEW s \in states, IsTv(s)
  PROVE  /\ DtvOf(s) \in DtvsOf(states) /\ DtvOf(s) \in Dtvs
         /\ \A l \in {Load, Store} : Extend(DtvOf(s), l) \in Dtvs
BY DEF Dtvs, DtvsOf, WithExtensions

LEMMA JudgementUpto ==
  ASSUME NEW e, SuccessAgrees(e)
  PROVE  Judgement(e) = Upto(e.dst.variance, DtvOf(e.src), DtvOf(e.dst))
BY DEF Judgement, Upto, SuccessAgrees

\* A label edge adds the label to the derived type variable.
LEMMA PrefixExtends ==
  ASSUME NEW s \in States, NEW k \in 1..Len(s.path)
  PROVE  DtvOf(PrefixState(s, k)) = Extend(DtvOf(PrefixState(s, k-1)), s.path[k])
<1>1. s.path \in Seq(FieldLabels) /\ k \in Nat /\ k-1 \in Nat
  BY DEF States, Paths
<1>2. SubSeq(s.path, 1, k) = Append(SubSeq(s.path, 1, k-1), s.path[k])
  BY <1>1
<1> QED  BY <1>2 DEF DtvOf, PrefixState, State, Extend

LEMMA LabelEdgesExtend ==
  ASSUME NEW cons \in SUBSET SubtypeConstraints, NEW e \in FsaEdges(cons), NEW l,
         e.sym = LabelSymbol(l)
  PROVE  /\ e.kind = "pop" => DtvOf(e.dst) = Extend(DtvOf(e.src), l)
         /\ e.kind = "push" => DtvOf(e.src) = Extend(DtvOf(e.dst), l) /\ IsTv(e.dst)
<1>1. PICK s \in EndsOf(DirectEdges(cons)) : \E k \in 1..Len(s.path) :
                \/ e = Push(PrefixState(s, k), LabelSymbol(s.path[k]), PrefixState(s, k-1))
                \/ e = Pop(PrefixState(s, k-1), LabelSymbol(s.path[k]), PrefixState(s, k))
  BY FsaEdgeKinds
<1> PICK k \in 1..Len(s.path) :
                \/ e = Push(PrefixState(s, k), LabelSymbol(s.path[k]), PrefixState(s, k-1))
                \/ e = Pop(PrefixState(s, k-1), LabelSymbol(s.path[k]), PrefixState(s, k))
  BY <1>1
<1>2. s \in States /\ IsTv(s) /\ k-1 \in 0..Len(s.path)
  BY DirectEndsTyped DEF States, Paths
<1>3. DtvOf(PrefixState(s, k)) = Extend(DtvOf(PrefixState(s, k-1)), s.path[k])
  BY <1>2, PrefixExtends
<1>4. IsTv(PrefixState(s, k-1))
  BY <1>2, PrefixTyped DEF IsTv
<1>5. s.path[k] = l
  BY SymbolsDiffer DEF Push, Pop, Edge
<1> QED  BY <1>3, <1>4, <1>5 DEF Push, Pop, Edge

\* Until it is saturated the automaton is the one that was built.
LEMMA PopsExtend ==
  ASSUME SignsAgree, BaseKept, pc # "saturated", NEW e \in allEdges, e.kind = "pop",
         NEW l, e.sym = LabelSymbol(l)
  PROVE  DtvOf(e.dst) = Extend(DtvOf(e.src), l)
<1>1. e \in grph
  BY DEF BaseKept, SignsAgree
<1> QED  BY <1>1, LabelEdgesExtend, ConstraintSetsAssumption DEF BaseKept

LEMMA InitSound == Init => SoundInv
<1> SUFFICES ASSUME NEW cons \in ConstraintSets, InitFrom(cons),
                    NEW R, IsTheory(R, Given, Dtvs)
             PROVE  Sound(R)
  BY DEF Init, SoundInv
<1>1. cons \in SUBSET SubtypeConstraints /\ grph = FsaEdges(cons) /\ allEdges = grph
  BY ConstraintSetsAssumption DEF InitFrom
<1>2. ASSUME NEW e \in SuccessEdges(allEdges)
      PROVE  EdgeSound(R, e)
  <2> DEFINE c == [lhs |-> Judgement(e)[1], rhs |-> Judgement(e)[2]]
  <2>1. c \in Given
    BY <1>1, <1>2 DEF Given
  <2>2. <<c.lhs, c.rhs>> \in R
    <3> HIDE DEF c
    <3> QED  BY <2>1, TheoryRules
  <2>3. <<c.lhs, c.rhs>> = Judgement(e)
    BY DEF Judgement
  <2> QED  BY <2>2, <2>3 DEF EdgeSound
<1>3. ASSUME NEW p \in pushes, NEW l \in FieldLabels, p[2] = LabelSymbol(l)
      PROVE  \E x \in DtvsOf(states) : /\ DtvOf(p[3]) = Extend(x, l)
                                       /\ Upto(p[1].variance, x, DtvOf(p[1])) \in R
  <2>1. PICK e \in grph : e.kind = "push" /\ p = <<e.dst, e.sym, e.src>>
    BY <1>1, <1>3 DEF InitFrom, BasePushes
  <2>2. DtvOf(e.src) = Extend(DtvOf(e.dst), l) /\ IsTv(e.dst)
    BY <1>1, <1>3, <2>1, LabelEdgesExtend
  <2>3. e.dst \in states
    BY <1>1, <2>1, EndsOfMember DEF InitFrom, FsaNodes
  <2>4. DtvOf(e.dst) \in DtvsOf(states) /\ DtvOf(e.dst) \in Dtvs
    BY <2>2, <2>3, DtvsHold
  <2>5. <<DtvOf(e.dst), DtvOf(e.dst)>> \in R
    BY <2>4, TheoryRules
  <2> QED  BY <2>1, <2>2, <2>4, <2>5 DEF Upto
<1> QED  BY <1>2, <1>3 DEF Sound, EntrySound

LEMMA PropagateSound ==
  ASSUME IInv, SignsAgree, SoundInv, NEW e \in todoEdges, Propagate(e)
  PROVE  SoundInv'
<1>1. /\ pc # "saturated" /\ pushes' = pushes \cup Carried(pushes, e)
      /\ UNCHANGED <<grph, states, allEdges>>
  BY DEF Propagate
<1> SUFFICES ASSUME NEW R, IsTheory(R, Given, Dtvs) PROVE Sound(R)'
  BY <1>1 DEF SoundInv, Given, Dtvs
<1>2. Sound(R)
  BY <1>1 DEF SoundInv
<1>3. /\ e \in SuccessEdges(allEdges) /\ SuccessAgrees(e)
      /\ e.src \in states /\ e.dst \in states /\ e.src \in States /\ e.dst \in States
  BY DEF IInv, TypeOK, Ends, SuccessEdges, IsSuccess, SignsAgree
<1>4. Upto(e.dst.variance, DtvOf(e.src), DtvOf(e.dst)) \in R
  BY <1>2, <1>3, JudgementUpto DEF Sound, EdgeSound
<1>5. ASSUME NEW p \in Carried(pushes, e), NEW l \in FieldLabels, p[2] = LabelSymbol(l)
      PROVE  \/ \E x \in DtvsOf(states) : /\ DtvOf(p[3]) = Extend(x, l)
                                          /\ Upto(p[1].variance, x, DtvOf(p[1])) \in R
             \/ l \in {Load, Store} /\ Upto(p[3].variance, DtvOf(p[3]), Extend(DtvOf(p[1]), l)) \in R
  <2>1. PICK q \in pushes : q[1] = e.src /\ p = <<e.dst, q[2], q[3]>>
    BY <1>5 DEF Carried
  <2>2. EntrySound(R, q) /\ EntryAgrees(q) /\ q[3] \in States
    BY <1>2, <2>1 DEF Sound, SignsAgree, IInv, TypeOK
  <2>3. CASE \E x \in DtvsOf(states) : /\ DtvOf(q[3]) = Extend(x, l)
                                       /\ Upto(q[1].variance, x, DtvOf(q[1])) \in R
    <3>1. PICK x \in DtvsOf(states) : /\ DtvOf(q[3]) = Extend(x, l)
                                      /\ Upto(e.dst.variance, x, DtvOf(e.src)) \in R
      BY <1>3, <2>1, <2>3 DEF SuccessAgrees
    <3>2. Upto(e.dst.variance, x, DtvOf(e.dst)) \in R
      BY <1>4, <3>1, UptoTransitive
    <3> QED  BY <2>1, <3>1, <3>2
  <2>4. CASE l \in {Load, Store} /\ Upto(q[3].variance, DtvOf(q[3]), Extend(DtvOf(q[1]), l)) \in R
    <3>1. Operate(q[3].variance, LabelVariance(l)) = e.dst.variance
      BY <1>3, <1>5, <2>1, <2>2, SymbolsDiffer DEF EntryAgrees, SuccessAgrees, IsTv, End, State
    <3>2. q[3].variance \in Variances /\ e.dst.variance \in Variances
      BY <1>3, <2>2 DEF States
    <3>3. Extend(DtvOf(e.src), l) \in Dtvs /\ Extend(DtvOf(e.dst), l) \in Dtvs
      BY <1>3, <2>4, DtvsHold DEF SuccessAgrees
    <3>4. Upto(q[3].variance, Extend(DtvOf(e.src), l), Extend(DtvOf(e.dst), l)) \in R
      BY <1>4, <3>1, <3>2, <3>3, UptoField
    <3>5. Upto(q[3].variance, DtvOf(q[3]), Extend(DtvOf(e.dst), l)) \in R
      BY <2>1, <2>4, <3>4, UptoTransitive
    <3> QED  BY <2>1, <2>4, <3>5
  <2> QED  BY <1>5, <2>1, <2>2, <2>3, <2>4 DEF EntrySound
<1>6. \A p \in Carried(pushes, e) : EntrySound(R, p)
  BY <1>5 DEF EntrySound
<1> QED  BY <1>1, <1>2, <1>6 DEF Sound, EntrySound

\* The pop adds the label that was pushed: the field rule.
LEMMA LinkPopsSound ==
  ASSUME IInv, SignsAgree, SignsAgree', BaseKept, SoundInv, LinkPops
  PROVE  SoundInv'
<1>1. /\ pc # "saturated" /\ allEdges' = allEdges \cup Linked(pushes, allEdges)
      /\ UNCHANGED <<grph, states, pushes>>
  BY DEF LinkPops
<1> SUFFICES ASSUME NEW R, IsTheory(R, Given, Dtvs) PROVE Sound(R)'
  BY <1>1 DEF SoundInv, Given, Dtvs
<1>2. Sound(R)
  BY <1>1 DEF SoundInv
<1>3. ASSUME NEW f \in Linked(pushes, allEdges)
      PROVE  EdgeSound(R, f)
  <2>1. PICK e \in allEdges, p \in pushes :
          e.kind = "pop" /\ p[1] = e.src /\ p[2] = e.sym /\ f = Success(p[3], e.dst)
    BY <1>3, LinkedEdges
  <2>2. f \in allEdges' /\ f.kind = "success" /\ f.src = p[3] /\ f.dst = e.dst
    BY <1>1, <1>3, <2>1 DEF Success, Edge
  <2>3. SuccessAgrees(f)
    BY <2>2 DEF SignsAgree
  <2>4. PopAgrees(e) /\ EntryAgrees(p) /\ EntrySound(R, p)
    BY <1>2, <2>1 DEF SignsAgree, Sound
  <2>5. Start # End /\ ~IsTv(End)
    BY DEF Start, End, State, IsTv
  <2>6. PICK l \in FieldLabels : /\ p[2] = LabelSymbol(l) /\ IsTv(e.src)
                                 /\ Operate(p[3].variance, LabelVariance(l)) = p[1].variance
    BY <2>1, <2>4, <2>5, SymbolsDiffer DEF PopAgrees, EntryAgrees
  <2>7. DtvOf(e.dst) = Extend(DtvOf(e.src), l)
    BY <1>1, <2>1, <2>6, PopsExtend
  <2>8. /\ p[3] \in states /\ p[3] \in States /\ IsTv(p[3])
        /\ e.src \in states /\ e.src \in States /\ e.dst \in states /\ IsTv(e.dst)
    BY <2>1, <2>2, <2>3 DEF IInv, TypeOK, Ends, SuccessAgrees
  <2>9. CASE \E x \in DtvsOf(states) : /\ DtvOf(p[3]) = Extend(x, l)
                                       /\ Upto(p[1].variance, x, DtvOf(p[1])) \in R
    <3>1. PICK x \in DtvsOf(states) : /\ DtvOf(p[3]) = Extend(x, l)
                                      /\ Upto(p[1].variance, x, DtvOf(p[1])) \in R
      BY <2>9
    <3>2. Extend(x, l) \in Dtvs /\ Extend(DtvOf(e.src), l) \in Dtvs
      BY <2>7, <2>8, <3>1, DtvsHold
    <3>3. p[3].variance \in Variances /\ p[1].variance \in Variances
      BY <2>1, <2>8 DEF States
    <3>4. Upto(p[3].variance, Extend(x, l), Extend(DtvOf(e.src), l)) \in R
      BY <2>1, <2>6, <3>1, <3>2, <3>3, UptoField
    <3> QED  BY <2>2, <2>3, <2>7, <3>1, <3>4, JudgementUpto DEF EdgeSound, SuccessAgrees
  <2>10. CASE Upto(p[3].variance, DtvOf(p[3]), Extend(DtvOf(p[1]), l)) \in R
    BY <2>1, <2>2, <2>3, <2>7, <2>10, JudgementUpto DEF EdgeSound, SuccessAgrees
  <2> QED  BY <2>4, <2>6, <2>9, <2>10 DEF EntrySound
<1>4. \A f \in SuccessEdges(allEdges)' : EdgeSound(R, f)
  BY <1>1, <1>2, <1>3 DEF Sound, SuccessEdges
<1>5. \A p \in pushes' : EntrySound(R, p)
  BY <1>1, <1>2 DEF Sound
<1> QED  BY <1>1, <1>4, <1>5 DEF Sound, EntrySound, EdgeSound

\* What is pushed as a store is popped as a load: the pointer rule.
LEMMA MirrorSound ==
  ASSUME IInv, SignsAgree, SoundInv, NEW s \in todoStates, Mirror(s)
  PROVE  SoundInv'
<1>1. /\ pc # "saturated" /\ pushes' \subseteq pushes \cup Mirrored(pushes, s)
      /\ UNCHANGED <<grph, states, allEdges>>
  BY DEF Mirror
<1> SUFFICES ASSUME NEW R, IsTheory(R, Given, Dtvs) PROVE Sound(R)'
  BY <1>1 DEF SoundInv, Given, Dtvs
<1>2. Sound(R)
  BY <1>1 DEF SoundInv
<1>3. s \in states /\ s \in States /\ IsTv(s) /\ s.variance = Contra
  BY DEF IInv, TypeOK, ContraStates
<1>4. DtvOf(Not(s)) = DtvOf(s)
  BY DEF DtvOf, Not, State
<1>5. <<Extend(DtvOf(s), Store), Extend(DtvOf(s), Load)>> \in R
  BY <1>3, DtvsHold, TheoryRules
<1>6. /\ LabelVariance(Store) = Contra /\ LabelVariance(Load) = Co
      /\ {Load, Store} \subseteq FieldLabels /\ Load # Store
  BY LabelsAssumption DEF LabelVariance, Load, Store, Co, Contra, FieldLabels
<1>7. ASSUME NEW p \in Mirrored(pushes, s), NEW m \in FieldLabels, p[2] = LabelSymbol(m)
      PROVE  m \in {Load, Store} /\ Upto(p[3].variance, DtvOf(p[3]), Extend(DtvOf(p[1]), m)) \in R
  <2>1. PICK q \in pushes :
          /\ q[1] = s
          /\ \/ q[2] = LabelSymbol(Store) /\ p = <<Not(s), LabelSymbol(Load), q[3]>>
             \/ q[2] = LabelSymbol(Load) /\ p = <<Not(s), LabelSymbol(Store), q[3]>>
    BY <1>7 DEF Mirrored
  <2>2. PICK l \in {Load, Store} :
          /\ q[2] = LabelSymbol(l)
          /\ l = Store => p = <<Not(s), LabelSymbol(Load), q[3]>> /\ m = Load
          /\ l = Load => p = <<Not(s), LabelSymbol(Store), q[3]>> /\ m = Store
    BY <1>6, <1>7, <2>1, SymbolsDiffer
  <2>3. EntrySound(R, q) /\ EntryAgrees(q) /\ q[3] \in states /\ q[3] \in States
    BY <1>2, <2>1 DEF Sound, SignsAgree, IInv, TypeOK
  <2>4. Operate(q[3].variance, LabelVariance(l)) = Contra /\ IsTv(q[3])
    BY <1>3, <2>1, <2>2, <2>3, SymbolsDiffer DEF EntryAgrees
  <2>5. q[3].variance \in Variances /\ Contra \in Variances
    BY <2>3 DEF States, Variances
  <2>6. Upto(q[3].variance, DtvOf(q[3]), Extend(DtvOf(s), l)) \in R
    <3>1. CASE \E x \in DtvsOf(states) : /\ DtvOf(q[3]) = Extend(x, l)
                                         /\ Upto(q[1].variance, x, DtvOf(q[1])) \in R
      <4>1. PICK x \in DtvsOf(states) : /\ DtvOf(q[3]) = Extend(x, l)
                                        /\ Upto(Contra, x, DtvOf(s)) \in R
        BY <1>3, <2>1, <3>1
      <4>2. Extend(x, l) \in Dtvs /\ Extend(DtvOf(s), l) \in Dtvs
        BY <1>3, <2>3, <2>4, <4>1, DtvsHold
      <4>3. l \in FieldLabels
        BY <1>6
      <4> QED  BY <2>4, <2>5, <4>1, <4>2, <4>3, UptoField
    <3>2. CASE Upto(q[3].variance, DtvOf(q[3]), Extend(DtvOf(q[1]), l)) \in R
      BY <2>1, <3>2
    <3> QED  BY <1>6, <2>2, <2>3, <3>1, <3>2 DEF EntrySound
  <2>7. CASE l = Store
    <3>1. q[3].variance = Co
      BY <1>6, <2>4, <2>5, <2>7 DEF Operate, Variances, Co, Contra
    <3>2. <<DtvOf(q[3]), Extend(DtvOf(s), Load)>> \in R
      BY <1>5, <2>6, <2>7, <3>1, TheoryRules DEF Upto
    <3> QED  BY <1>4, <2>2, <2>7, <3>1, <3>2 DEF Upto
  <2>8. CASE l = Load
    <3>1. q[3].variance = Contra /\ Contra # Co
      BY <1>6, <2>4, <2>5, <2>8 DEF Operate, Variances, Co, Contra
    <3>2. <<Extend(DtvOf(s), Store), DtvOf(q[3])>> \in R
      BY <1>5, <2>6, <2>8, <3>1, TheoryRules DEF Upto
    <3> QED  BY <1>4, <2>2, <2>8, <3>1, <3>2 DEF Upto
  <2> QED  BY <2>7, <2>8
<1>8. \A p \in Mirrored(pushes, s) : EntrySound(R, p)
  BY <1>7 DEF EntrySound
<1> QED  BY <1>1, <1>2, <1>8 DEF Sound, EntrySound, EdgeSound

LEMMA OtherSound ==
  ASSUME SoundInv, Repeat \/ FixpointReached \/ Saturate \/ UNCHANGED vars
  PROVE  SoundInv'
<1>1. pc' = "saturated" \/ (pc # "saturated" /\ UNCHANGED <<grph, states, pushes, allEdges>>)
  BY DEF Repeat, FixpointReached, Saturate, SoundInv, vars
<1> QED  BY <1>1 DEF SoundInv, Sound, Given, Dtvs, EntrySound, EdgeSound

LEMMA SoundInvariance == Spec => []SoundInv
<1>1. BaseKept /\ IInv /\ SignsAgree /\ SignsAgree' /\ SoundInv /\ [Next]_vars => SoundInv'
  BY PropagateSound, LinkPopsSound, MirrorSound, OtherSound DEF Next
<1>2. MirrorInv => BaseKept
  BY DEF MirrorInv
<1> QED  BY InitSound, Invariance, SignsInvariance, MirrorInvariance, <1>1, <1>2, PTL DEF Spec

LEMMA StatesFinite ==
  ASSUME BaseKept, pc # "saturated"
  PROVE  IsFiniteSet(states)
BY FsaNodesFinite, ConstraintSetsAssumption DEF BaseKept

LEMMA DtvsFinite ==
  ASSUME NEW S, IsFiniteSet(S)
  PROVE  IsFiniteSet(DtvsOf(S)) /\ IsFiniteSet(WithExtensions(DtvsOf(S)))
<1> DEFINE T == {t \in S : IsTv(t)}
           dtv == [s \in T |-> DtvOf(s)]
           D == DtvsOf(S)
           load == [d \in D |-> Extend(d, Load)]
           store == [d \in D |-> Extend(d, Store)]
<1>1. IsFiniteSet(T)
  BY FS_Subset
<1>2. D = {dtv[s] : s \in T}
  BY DEF DtvsOf
<1>3. IsFiniteSet({dtv[s] : s \in T})
  <2> HIDE DEF T, dtv
  <2> QED  BY <1>1, ImageFinite
<1>4. IsFiniteSet(D)
  <2> HIDE DEF D, T, dtv
  <2> QED  BY <1>2, <1>3
<1>5. WithExtensions(D) = D \cup {load[d] : d \in D} \cup {store[d] : d \in D}
  <2> HIDE DEF D
  <2> QED  BY DEF WithExtensions
<1> HIDE DEF D, load, store
<1>6. IsFiniteSet({load[d] : d \in D})
  BY <1>4, ImageFinite
<1>7. IsFiniteSet({store[d] : d \in D})
  BY <1>4, ImageFinite
<1>8. IsFiniteSet(WithExtensions(D))
  BY <1>4, <1>5, <1>6, <1>7, FS_Union
<1> QED  BY <1>4, <1>8 DEF D

\* The given judgements are among the derived type variables of the automaton.
LEMMA GivenTyped ==
  ASSUME IInv, SignsAgree, BaseKept, pc # "saturated", NEW c \in Given
  PROVE  c.lhs \in DtvsOf(states) /\ c.rhs \in DtvsOf(states)
<1>1. PICK e \in SuccessEdges(grph) : c = [lhs |-> Judgement(e)[1], rhs |-> Judgement(e)[2]]
  BY DEF Given
<1>2. e \in allEdges /\ e.kind = "success"
  BY <1>1 DEF BaseKept, SuccessEdges, IsSuccess
<1>3. SuccessAgrees(e) /\ e.src \in states /\ e.dst \in states
  BY <1>2 DEF SignsAgree, IInv, TypeOK, Ends
<1>4. DtvOf(e.src) \in DtvsOf(states) /\ DtvOf(e.dst) \in DtvsOf(states)
  BY <1>3, DtvsHold DEF SuccessAgrees
<1> QED  BY <1>1, <1>4 DEF Judgement

(* Every shortcut get_saturation_edges returns is a consequence of the      *)
(* constraints: what its two states claim is derived from them by           *)
(* reflexivity, transitivity, the field rule and the pointer rule.          *)
THEOREM SoundnessHolds == Spec => []ShortcutsDerivable
<1>1. ASSUME IInv, SignsAgree, BaseKept, SoundInv
      PROVE  ShortcutsDerivable
  <2> SUFFICES ASSUME pc = "done", NEW e \in SaturationEdges
               PROVE  Judgement(e) \in Derivable(Given, Dtvs)
    BY DEF ShortcutsDerivable, Dtvs
  <2>1. IsFiniteSet(Dtvs)
    BY <1>1, StatesFinite, DtvsFinite DEF Dtvs
  <2>2. DtvsOf(states) \subseteq Dtvs
    BY DEF Dtvs, WithExtensions
  <2>3. \A c \in Given : c.lhs \in Dtvs /\ c.rhs \in Dtvs
    BY <1>1, <2>2, GivenTyped
  <2>4. Axioms(Given, Dtvs) \subseteq Dtvs \X Dtvs
    BY <2>3 DEF Axioms, AxiomsAt, Itself
  <2>5. IsTheory(Derivable(Given, Dtvs), Given, Dtvs)
    BY <2>1, <2>4, DerivableIsLeast
  <2>6. e \in SuccessEdges(allEdges)
    BY <1>1 DEF SaturationEdges, IInv, TypeOK, SignsAgree, SuccessEdges, IsSuccess
  <2> QED  BY <1>1, <2>5, <2>6 DEF SoundInv, Sound, EdgeSound
<1>2. MirrorInv => BaseKept
  BY DEF MirrorInv
<1> QED  BY <1>1, <1>2, Invariance, SignsInvariance, MirrorInvariance, SoundInvariance, PTL

-----------------------------------------------------------------------------
(* What is reached along success edges: the least set with its start that   *)
(* the edges do not leave.                                                  *)

LEMMA OnwardStepsAre ==
  ASSUME IInv, NEW s \in states
  PROVE  /\ OnwardSteps(s)[0] = {s}
         /\ \A n \in Nat : /\ OnwardSteps(s)[n] \subseteq states
                           /\ OnwardSteps(s)[n+1] = Onward(OnwardSteps(s)[n])
<1> DEFINE S == SUBSET states
           A == {s}
           step == [X \in S |-> Onward(X)]
           Eq(f) == f = [n \in Nat |-> IF n = 0 THEN A ELSE Onward(f[n-1])]
<1>1. A \in S /\ step \in [S -> S] /\ \A X \in S : Onward(X) \in S
  BY DEF Onward, SuccessEdges, IInv, TypeOK, Ends
<1>2. PICK g \in [Nat -> S] : IsIteration(g, A, step)
  <2> HIDE DEF S, A, step
  <2> QED  BY <1>1, IterationExists
<1>3. \E f : Eq(f)
  <2>1. \A n \in Nat : n # 0 => n-1 \in Nat /\ (n-1)+1 = n
    OBVIOUS
  <2>2. \A n \in Nat : g[n] = IF n = 0 THEN A ELSE Onward(g[n-1])
    <3> HIDE DEF A, S
    <3> QED  BY <1>2, <2>1 DEF IsIteration
  <2> HIDE DEF A
  <2>3. g = [n \in Nat |-> g[n]]
    BY <1>2
  <2> QED  BY <2>2, <2>3
<1> DEFINE h == OnwardSteps(s)
<1>4. h = CHOOSE f : Eq(f)
  BY DEF OnwardSteps
<1>5. Eq(h)
  <2> HIDE DEF Eq, h
  <2> QED  BY <1>3, <1>4
<1>6. h[0] = A /\ \A n \in Nat : h[n+1] = Onward(h[n])
  <2> HIDE DEF h, A
  <2>1. \A n \in Nat : h[n] = IF n = 0 THEN A ELSE Onward(h[n-1])
    BY <1>5
  <2>2. \A n \in Nat : n+1 \in Nat /\ n+1 # 0 /\ (n+1)-1 = n
    OBVIOUS
  <2> QED  BY <2>1, <2>2
<1>7. \A n \in Nat : h[n] \in S
  <2> DEFINE T == {n \in Nat : h[n] \in S}
  <2>1. 0 \in T
    BY <1>1, <1>6
  <2>2. \A n \in Nat : n \in T => n+1 \in T
    <3> HIDE DEF h, S
    <3> QED  BY <1>1, <1>6
  <2>3. \A n \in Nat : n \in T
    <3> HIDE DEF T
    <3> QED  BY <2>1, <2>2, NatSetInduction
  <2> QED  BY <2>3
<1> QED  BY <1>6, <1>7

LEMMA ReachIsLeast ==
  ASSUME IInv, IsFiniteSet(states), NEW s \in states
  PROVE  /\ s \in SuccessReach(s) /\ SuccessReach(s) \subseteq states
         /\ Onward(SuccessReach(s)) = SuccessReach(s)
         /\ \A Q : s \in Q /\ Onward(Q) \subseteq Q => SuccessReach(s) \subseteq Q
<1> DEFINE h == OnwardSteps(s)
<1>1. /\ h[0] = {s}
      /\ \A n \in Nat : h[n] \subseteq states /\ h[n+1] = Onward(h[n])
  BY OnwardStepsAre
<1>2. Cardinality(states) \in Nat
  BY FS_CardinalityType
<1>3. \A X : X \subseteq Onward(X)
  BY DEF Onward
<1>4. \E n \in 0..Cardinality(states) : h[n] = h[n+1]
  <2> HIDE DEF h
  <2> QED  BY <1>1, <1>3, ChainSettles
<1> DEFINE k == CHOOSE n \in 0..Cardinality(states) : h[n] = h[n+1]
<1>5. k \in Nat /\ h[k] = h[k+1] /\ SuccessReach(s) = h[k]
  <2>1. k \in 0..Cardinality(states) /\ h[k] = h[k+1]
    <3> HIDE DEF h
    <3> QED  BY <1>4
  <2>2. SuccessReach(s) = h[k]
    BY DEF SuccessReach
  <2> QED  BY <1>2, <2>1, <2>2
<1> HIDE DEF k, h
<1>6. \A n \in Nat : s \in h[n]
  <2> DEFINE T == {n \in Nat : s \in h[n]}
  <2>1. 0 \in T /\ \A n \in Nat : n \in T => n+1 \in T
    BY <1>1, <1>3
  <2>2. \A n \in Nat : n \in T
    <3> HIDE DEF T
    <3> QED  BY <2>1, NatSetInduction
  <2> QED  BY <2>2
<1>7. ASSUME NEW Q, s \in Q, Onward(Q) \subseteq Q
      PROVE  SuccessReach(s) \subseteq Q
  <2> DEFINE T == {n \in Nat : h[n] \subseteq Q}
  <2>1. \A X : X \subseteq Q => Onward(X) \subseteq Onward(Q)
    BY DEF Onward
  <2>2. 0 \in T /\ \A n \in Nat : n \in T => n+1 \in T
    BY <1>1, <1>7, <2>1
  <2>3. \A n \in Nat : n \in T
    <3> HIDE DEF T
    <3> QED  BY <2>2, NatSetInduction
  <2> QED  BY <1>5, <2>3
<1> QED  BY <1>1, <1>5, <1>6, <1>7

LEMMA ReachTransitive ==
  ASSUME IInv, IsFiniteSet(states), NEW s \in states, NEW t \in SuccessReach(s)
  PROVE  t \in states /\ SuccessReach(t) \subseteq SuccessReach(s)
<1>1. t \in states /\ Onward(SuccessReach(s)) \subseteq SuccessReach(s)
  BY ReachIsLeast
<1> QED  BY <1>1, ReachIsLeast

LEMMA ReachEdge ==
  ASSUME IInv, IsFiniteSet(states), NEW e \in SuccessEdges(allEdges)
  PROVE  e.dst \in SuccessReach(e.src) /\ e.src \in states /\ e.dst \in states
<1>1. e.src \in states /\ e.dst \in states
  BY DEF IInv, TypeOK, Ends, SuccessEdges
<1>2. e.src \in SuccessReach(e.src) /\ Onward(SuccessReach(e.src)) = SuccessReach(e.src)
  BY <1>1, ReachIsLeast
<1>3. e.dst \in Onward(SuccessReach(e.src))
  BY <1>2 DEF Onward
<1> QED  BY <1>1, <1>2, <1>3

\* At a fixpoint a push is known wherever success edges lead.
LEMMA ReachCarries ==
  ASSUME IInv, IsFiniteSet(states), Closed(pushes, allEdges, states),
         NEW y, NEW d, NEW s \in states, <<s, y, d>> \in pushes, NEW t \in SuccessReach(s)
  PROVE  <<t, y, d>> \in pushes
<1> DEFINE Q == {u \in states : <<u, y, d>> \in pushes}
<1>1. ASSUME NEW e \in SuccessEdges(allEdges), e.src \in Q
      PROVE  e.dst \in Q
  <2>1. <<e.dst, y, d>> \in Carried(pushes, e)
    <3> DEFINE q == <<e.src, y, d>>
    <3>1. q \in {p \in pushes : p[1] = e.src}
      BY <1>1
    <3> QED  BY <3>1 DEF Carried
  <2> QED  BY <2>1, ReachEdge DEF Closed
<1>2. Onward(Q) \subseteq Q
  <2> HIDE DEF Q
  <2> QED  BY <1>1 DEF Onward
<1>3. s \in Q
  OBVIOUS
<1>4. SuccessReach(s) \subseteq Q
  <2> HIDE DEF Q
  <2> QED  BY <1>2, <1>3, ReachIsLeast
<1> QED  BY <1>4

\* Success edges lead back between the opposites.
LEMMA ReachMirrored ==
  ASSUME IInv, IsFiniteSet(states), pc = "done", MirrorSymmetric,
         NEW s \in states, NEW t \in SuccessReach(s)
  PROVE  Not(s) \in SuccessReach(Not(t))
<1> DEFINE Q == {u \in states : Not(s) \in SuccessReach(Not(u))}
<1>1. NotClosed(states)
  BY DEF IInv
<1>2. ASSUME NEW e \in SuccessEdges(allEdges), e.src \in Q
      PROVE  e.dst \in Q
  <2>1. e.dst \in states /\ Not(e.dst) \in states
    BY <1>1, ReachEdge DEF NotClosed
  <2> DEFINE f == Success(Not(e.dst), Not(e.src))
  <2>2. f \in SuccessEdges(allEdges) /\ f.src = Not(e.dst) /\ f.dst = Not(e.src)
    BY DEF MirrorSymmetric, SuccessEdges, IsSuccess, Success, Edge
  <2>3. Not(e.src) \in SuccessReach(Not(e.dst))
    <3> HIDE DEF f
    <3> QED  BY <2>2, ReachEdge
  <2>4. SuccessReach(Not(e.src)) \subseteq SuccessReach(Not(e.dst))
    BY <2>1, <2>3, ReachTransitive
  <2> QED  BY <1>2, <2>1, <2>4
<1>3. Onward(Q) \subseteq Q
  <2> HIDE DEF Q
  <2> QED  BY <1>2 DEF Onward
<1>4. s \in Q
  BY <1>1, ReachIsLeast DEF NotClosed
<1>5. SuccessReach(s) \subseteq Q
  <2> HIDE DEF Q
  <2> QED  BY <1>3, <1>4, ReachIsLeast
<1> QED  BY <1>5

-----------------------------------------------------------------------------
(* Completeness, where no variable is interesting: the success edges that   *)
(* are there in the end are closed under every rule of deduction.           *)

Plain(S) == \A s \in S : s.tv \notin Interesting

LEMMA ExtendInjective ==
  ASSUME NEW a \in DerivedTypeVars, NEW b \in DerivedTypeVars, NEW l \in FieldLabels, NEW m \in FieldLabels,
         Extend(a, l) = Extend(b, m)
  PROVE  a = b /\ l = m
<1>1. a.path \in Seq(FieldLabels) /\ b.path \in Seq(FieldLabels)
  BY DEF DerivedTypeVars, Paths
<1>2. a.base = b.base /\ Append(a.path, l) = Append(b.path, m)
  BY DEF Extend
<1>3. /\ Len(Append(a.path, l)) = Len(a.path) + 1 /\ Len(Append(b.path, m)) = Len(b.path) + 1
      /\ Len(a.path) \in Nat /\ Len(b.path) \in Nat
  BY <1>1
<1>4. Len(a.path) = Len(b.path)
  BY <1>2, <1>3
<1>5. \A i \in 1..Len(a.path) : /\ Append(a.path, l)[i] = a.path[i]
                                /\ Append(b.path, m)[i] = b.path[i]
  BY <1>1, <1>4
<1>6. a.path = b.path
  BY <1>1, <1>2, <1>4, <1>5
<1>7. Append(a.path, l)[Len(a.path) + 1] = l /\ Append(b.path, m)[Len(b.path) + 1] = m
  BY <1>1
<1>8. l = m
  BY <1>2, <1>4, <1>7
<1> QED  BY <1>2, <1>6, <1>8 DEF DerivedTypeVars

LEMMA DtvTyped ==
  ASSUME NEW s \in States, IsTv(s)
  PROVE  DtvOf(s) \in DerivedTypeVars
BY DEF States, IsTv, DtvOf, DerivedTypeVars

\* Without interesting variables the directions are all the same.
LEMMA Undirected ==
  ASSUME NEW cons \in SUBSET SubtypeConstraints, Plain(FsaNodes(cons)),
         NEW s \in FsaNodes(cons), IsTv(s)
  PROVE  s.dir = "U" /\ s \in EndsOf(RuleEdges(cons))
<1>1. ASSUME NEW d \in EndsOf(DirectEdges(cons))
      PROVE  d.dir = "U" /\ d \in States
  <2>1. d.dir = VHatDir(d.tv, "L") \/ d.dir = VHatDir(d.tv, "R")
    BY <1>1 DEF EndsOf, Ends, DirectEdges, SubTypeEdge, Success, Edge, State
  <2>2. d \in FsaNodes(cons)
    BY RuleEnds DEF FsaNodes, FsaEdges, EndsOf
  <2> QED  BY <2>1, <2>2, DirectEndsTyped DEF Plain, VHatDir
<1>2. ASSUME NEW d \in EndsOf(DirectEdges(cons)), NEW u \in EndsOf(PushPopEdges(d))
      PROVE  u.dir = "U"
  <2>1. PICK k \in 0..Len(d.path) : u = PrefixState(d, k)
    BY <1>1, <1>2, PushPopEnds
  <2> QED  BY <1>1, <2>1 DEF PrefixState, State
<1>3. \A u \in EndsOf(RuleEdges(cons)) : u.dir = "U"
  BY <1>1, <1>2, RuleEnds
<1>4. ~IsTv(Start) /\ ~IsTv(End)
  BY DEF IsTv, Start, End, State
<1> QED  BY <1>3, <1>4, FsaNodesAre

LEMMA WholePath ==
  ASSUME NEW s \in States
  PROVE  PrefixState(s, Len(s.path)) = s
<1>1. s.path \in Seq(FieldLabels) /\ Len(s.path) \in Nat
  BY DEF States, Paths
<1>2. SubSeq(s.path, 1, Len(s.path)) = s.path
  BY <1>1
<1>3. SuffixVariance(s.path, Len(s.path)) = Co
  <2>1. {i \in Len(s.path)+1..Len(s.path) : LabelVariance(s.path[i]) = Contra} = {}
    BY <1>1
  <2>2. Cardinality({i \in Len(s.path)+1..Len(s.path) : LabelVariance(s.path[i]) = Contra}) = 0
    BY <2>1, FS_EmptySet, Zenon
  <2>3. 0 % 2 = 0
    OBVIOUS
  <2> QED  BY <2>2, <2>3, Zenon DEF SuffixVariance
<1> QED  BY <1>2, <1>3 DEF PrefixState, State, States, Operate, Variances, Co, Contra

\* The push and the pop edge of the last label of a state.
LEMMA LastLabel ==
  ASSUME NEW cons \in SUBSET SubtypeConstraints, NEW w \in EndsOf(RuleEdges(cons)),
         NEW d \in DerivedTypeVars, NEW l \in FieldLabels, DtvOf(w) = Extend(d, l)
  PROVE  \E u \in States :
           /\ IsTv(u) /\ DtvOf(u) = d /\ Operate(w.variance, LabelVariance(l)) = u.variance
           /\ Push(w, LabelSymbol(l), u) \in FsaEdges(cons)
           /\ Pop(u, LabelSymbol(l), w) \in FsaEdges(cons)
<1>1. w.path = Append(d.path, l) /\ d.path \in Seq(FieldLabels)
  BY DEF DtvOf, Extend, DerivedTypeVars, Paths
<1>2. Len(w.path) \in Nat /\ Len(w.path) >= 1
  BY <1>1
<1>3. PICK s \in EndsOf(DirectEdges(cons)) : \E k \in 1..Len(s.path) : w = PrefixState(s, k)
  <2>1. CASE w \in EndsOf(DirectEdges(cons))
    <3>1. w \in States
      BY <2>1, DirectEndsTyped
    <3>2. w = PrefixState(w, Len(w.path)) /\ Len(w.path) \in 1..Len(w.path)
      BY <1>2, <3>1, WholePath
    <3> QED  BY <2>1, <3>2
  <2>2. ASSUME NEW s \in EndsOf(DirectEdges(cons)), w \in EndsOf(PushPopEdges(s))
        PROVE  \E k \in 1..Len(s.path) : w = PrefixState(s, k)
    <3>1. s \in States /\ s.path \in Seq(FieldLabels)
      BY DirectEndsTyped DEF States, Paths
    <3>2. PICK k \in 0..Len(s.path) : w = PrefixState(s, k)
      BY <2>2, <3>1, PushPopEnds
    <3>3. w.path = SubSeq(s.path, 1, k)
      BY <3>2 DEF PrefixState, State
    <3>4. k # 0
      BY <1>2, <3>1, <3>3
    <3> QED  BY <3>1, <3>2, <3>4
  <2> QED  BY <2>1, <2>2, RuleEnds
<1>4. PICK k \in 1..Len(s.path) : w = PrefixState(s, k)
  BY <1>3
<1>5. s \in States /\ IsTv(s) /\ k-1 \in 0..Len(s.path)
  BY DirectEndsTyped DEF States, Paths
<1> DEFINE u == PrefixState(s, k-1)
<1>6. u \in States /\ IsTv(u)
  BY <1>5, PrefixTyped DEF IsTv
<1>7. DtvOf(w) = Extend(DtvOf(u), s.path[k]) /\ s.path[k] \in FieldLabels
      /\ Operate(w.variance, LabelVariance(s.path[k])) = u.variance
  BY <1>4, <1>5, PrefixExtends, PrefixVariance
<1>8. DtvOf(u) \in DerivedTypeVars
  BY <1>6, DtvTyped
<1>9. DtvOf(u) = d /\ s.path[k] = l
  <2> DEFINE m == s.path[k]
             b == DtvOf(u)
  <2>1. m \in FieldLabels /\ b \in DerivedTypeVars /\ Extend(b, m) = Extend(d, l)
    BY <1>7, <1>8
  <2> HIDE DEF m, b
  <2>2. b = d /\ m = l
    BY <2>1, ExtendInjective
  <2> QED  BY <2>2 DEF m, b
<1>10. /\ Push(w, LabelSymbol(l), u) \in FsaEdges(cons)
       /\ Pop(u, LabelSymbol(l), w) \in FsaEdges(cons)
  BY <1>4, <1>9, LabelEdges
<1> QED  BY <1>6, <1>7, <1>9, <1>10

\* What holds once the loop has ended.
Settled ==
  /\ IInv /\ SignsAgree /\ BaseKept /\ MirrorSymmetric
  /\ pc = "done" /\ IsFiniteSet(states) /\ Plain(states)

CoStates == {w \in states : IsTv(w) /\ w.variance = Co}

Reached == {<<DtvOf(p[1]), DtvOf(p[2])>> : p \in {q \in CoStates \X CoStates : q[2] \in SuccessReach(q[1])}}

LEMMA ReachedMembers ==
  ASSUME NEW s \in CoStates, NEW t \in CoStates, t \in SuccessReach(s)
  PROVE  <<DtvOf(s), DtvOf(t)>> \in Reached
<1> DEFINE q == <<s, t>>
<1>1. q \in {p \in CoStates \X CoStates : p[2] \in SuccessReach(p[1])}
  OBVIOUS
<1> QED  BY <1>1 DEF Reached

LEMMA StateTyped ==
  ASSUME Settled, NEW s \in states
  PROVE  /\ s \in States /\ s.variance \in {Co, Contra}
         /\ Not(s) \in states /\ Not(Not(s)) = s /\ DtvOf(Not(s)) = DtvOf(s)
         /\ IsTv(Not(s)) <=> IsTv(s)
         /\ Not(s).variance = Flip(s.variance)
<1>1. s \in States /\ Not(s) \in states
  BY DEF Settled, IInv, NotClosed
<1> QED  BY <1>1, NotNot DEF States, Variances, Not, State, DtvOf, IsTv

\* A state is its derived type variable and its variance.
LEMMA SameState ==
  ASSUME Settled, NEW s \in states, NEW t \in States, IsTv(s), IsTv(t), t \in states,
         DtvOf(s) = DtvOf(t), s.variance = t.variance
  PROVE  s = t
<1>1. PICK cons \in ConstraintSets : grph = FsaEdges(cons) /\ states = FsaNodes(cons)
  BY DEF Settled, BaseKept
<1>2. s.dir = "U" /\ t.dir = "U"
  BY <1>1, Undirected, ConstraintSetsAssumption DEF Settled
<1>3. s \in States /\ s.tv = t.tv /\ s.path = t.path
  BY StateTyped DEF DtvOf
<1> QED  BY <1>2, <1>3 DEF States

LEMMA CoStateOf ==
  ASSUME Settled, NEW d \in DtvsOf(states)
  PROVE  d \in DerivedTypeVars /\ \E s \in CoStates : DtvOf(s) = d
<1>1. PICK s \in states : IsTv(s) /\ DtvOf(s) = d
  BY DEF DtvsOf
<1>2. CASE s.variance = Co
  BY <1>1, <1>2, StateTyped, DtvTyped DEF CoStates
<1>3. CASE s.variance # Co
  <2>1. Not(s) \in CoStates
    BY <1>1, <1>3, StateTyped DEF CoStates, Flip
  <2> QED  BY <1>1, <2>1, StateTyped, DtvTyped
<1> QED  BY <1>2, <1>3

\* A covariant state whose last label is l: the state without it, the push
\* that reaches it and the pop that leaves it.
LEMMA LabelOf ==
  ASSUME Settled, NEW w \in CoStates, NEW d \in DerivedTypeVars, NEW l \in FieldLabels,
         DtvOf(w) = Extend(d, l)
  PROVE  \E u \in states :
           /\ IsTv(u) /\ DtvOf(u) = d /\ u.variance = LabelVariance(l)
           /\ <<u, LabelSymbol(l), w>> \in pushes
           /\ Pop(u, LabelSymbol(l), w) \in allEdges
<1>1. PICK cons \in ConstraintSets : grph = FsaEdges(cons) /\ states = FsaNodes(cons)
  BY DEF Settled, BaseKept
<1>2. cons \in SUBSET SubtypeConstraints /\ w \in EndsOf(RuleEdges(cons))
  BY <1>1, Undirected, ConstraintSetsAssumption DEF Settled, CoStates
<1>3. PICK u \in States :
           /\ IsTv(u) /\ DtvOf(u) = d /\ Operate(w.variance, LabelVariance(l)) = u.variance
           /\ Push(w, LabelSymbol(l), u) \in grph
           /\ Pop(u, LabelSymbol(l), w) \in grph
  BY <1>1, <1>2, LastLabel
<1> DEFINE e == Push(w, LabelSymbol(l), u)
<1>4. e.kind = "push" /\ e.src = w /\ e.sym = LabelSymbol(l) /\ e.dst = u
  BY DEF Push, Edge
<1>5. <<u, LabelSymbol(l), w>> \in BasePushes(grph)
  <2>1. e \in {f \in grph : f.kind = "push"}
    BY <1>3, <1>4
  <2> HIDE DEF e
  <2> QED  BY <1>4, <2>1 DEF BasePushes
<1>6. u \in states
  <2> HIDE DEF e
  <2> QED  BY <1>1, <1>3, <1>4, EndsOfMember DEF e, FsaNodes
<1>7. u.variance = LabelVariance(l)
  BY <1>3 DEF CoStates, Operate, LabelVariance, Co, Contra
<1> QED  BY <1>3, <1>5, <1>6, <1>7 DEF Settled, BaseKept

\* A push and a pop that meet: a shortcut.
LEMMA Shortcut ==
  ASSUME Settled, NEW s \in CoStates, NEW t \in CoStates, NEW u, NEW y,
         <<u, y, s>> \in pushes, Pop(u, y, t) \in allEdges
  PROVE  <<DtvOf(s), DtvOf(t)>> \in Reached
<1>1. Closed(pushes, allEdges, states)
  BY DEF Settled, IInv, StopsAtFixpoint
<1> DEFINE e == Pop(u, y, t)
           p == <<u, y, s>>
           f == Success(s, t)
<1>2. e \in {g \in allEdges : g.kind = "pop"} /\ e.src = u /\ e.sym = y /\ e.dst = t
  BY DEF Pop, Edge
<1>3. p \in {q \in pushes : q[1] = e.src /\ q[2] = e.sym}
  BY <1>2
<1>4. Success(p[3], e.dst) \in Linked(pushes, allEdges)
  <2> HIDE DEF e, p
  <2> QED  BY <1>2, <1>3 DEF Linked, LinkedPop
<1>5. f \in SuccessEdges(allEdges) /\ f.src = s /\ f.dst = t
  BY <1>1, <1>2, <1>4 DEF Closed, SuccessEdges, IsSuccess, Success, Edge
<1>6. t \in SuccessReach(s)
  <2> HIDE DEF f
  <2> QED  BY <1>5, ReachEdge DEF Settled
<1> QED  BY <1>6, ReachedMembers

LEMMA GivenReached ==
  ASSUME Settled, NEW c \in Given
  PROVE  <<c.lhs, c.rhs>> \in Reached
<1>1. PICK e \in SuccessEdges(grph) : c = [lhs |-> Judgement(e)[1], rhs |-> Judgement(e)[2]]
  BY DEF Given
<1>2. e \in SuccessEdges(allEdges)
  BY <1>1 DEF Settled, BaseKept, SuccessEdges
<1>3. SuccessAgrees(e) /\ e.dst \in SuccessReach(e.src) /\ e.src \in states /\ e.dst \in states
  BY <1>2, ReachEdge DEF Settled, SignsAgree, SuccessEdges, IsSuccess
<1>4. <<c.lhs, c.rhs>> = Judgement(e)
  BY <1>1 DEF Judgement
<1>5. CASE e.src.variance = Co
  <2>1. e.src \in CoStates /\ e.dst \in CoStates
    BY <1>3, <1>5 DEF SuccessAgrees, CoStates
  <2> QED  BY <1>3, <1>4, <1>5, <2>1, ReachedMembers DEF Judgement
<1>6. CASE e.src.variance # Co
  <2>1. Not(e.src) \in CoStates /\ Not(e.dst) \in CoStates
    BY <1>3, <1>6, StateTyped DEF SuccessAgrees, CoStates, Flip
  <2>2. Not(e.src) \in SuccessReach(Not(e.dst))
    BY <1>3, ReachMirrored DEF Settled
  <2>3. <<DtvOf(Not(e.dst)), DtvOf(Not(e.src))>> \in Reached
    BY <2>1, <2>2, ReachedMembers
  <2> QED  BY <1>3, <1>4, <1>6, <2>3, StateTyped DEF Judgement
<1> QED  BY <1>5, <1>6

LEMMA ItselfReached ==
  ASSUME Settled, NEW d \in DtvsOf(states)
  PROVE  <<d, d>> \in Reached
<1>1. PICK s \in CoStates : DtvOf(s) = d
  BY CoStateOf
<1>2. s \in states /\ s \in SuccessReach(s)
  BY ReachIsLeast DEF CoStates, Settled
<1> QED  BY <1>1, <1>2, ReachedMembers

\* The pointer rule, at the opposite of the state that is stored through.
LEMMA PointersReached ==
  ASSUME Settled, NEW d \in DtvsOf(states),
         Extend(d, Store) \in DtvsOf(states), Extend(d, Load) \in DtvsOf(states)
  PROVE  <<Extend(d, Store), Extend(d, Load)>> \in Reached
<1>1. /\ LabelVariance(Store) = Contra /\ LabelVariance(Load) = Co
      /\ Store \in FieldLabels /\ Load \in FieldLabels
  BY LabelsAssumption DEF LabelVariance, Load, Store, Co, Contra, FieldLabels
<1>2. d \in DerivedTypeVars
  BY CoStateOf
<1>3. PICK a \in CoStates : DtvOf(a) = Extend(d, Store)
  BY CoStateOf
<1>4. PICK b \in CoStates : DtvOf(b) = Extend(d, Load)
  BY CoStateOf
<1>5. PICK u \in states : /\ IsTv(u) /\ DtvOf(u) = d /\ u.variance = Contra
                          /\ <<u, LabelSymbol(Store), a>> \in pushes
  BY <1>1, <1>2, <1>3, LabelOf
<1>6. PICK v \in states : /\ IsTv(v) /\ DtvOf(v) = d /\ v.variance = Co
                          /\ Pop(v, LabelSymbol(Load), b) \in allEdges
  BY <1>1, <1>2, <1>4, LabelOf
<1>7. v = Not(u)
  BY <1>5, <1>6, StateTyped, SameState DEF Flip
<1>8. <<Not(u), LabelSymbol(Load), a>> \in pushes
  <2>1. u \in ContraStates(states)
    BY <1>5 DEF ContraStates
  <2>2. Mirrored(pushes, u) \subseteq pushes
    BY <2>1 DEF Settled, IInv, StopsAtFixpoint, Closed
  <2> DEFINE p == <<u, LabelSymbol(Store), a>>
  <2>3. p \in {q \in pushes : q[1] = u /\ q[2] = LabelSymbol(Store)} /\ p[3] = a
    BY <1>5
  <2>4. <<Not(u), LabelSymbol(Load), p[3]>> \in Mirrored(pushes, u)
    <3> HIDE DEF p
    <3> QED  BY <2>3 DEF Mirrored
  <2> QED  BY <2>2, <2>4
<1> QED  BY <1>3, <1>4, <1>6, <1>7, <1>8, Shortcut

LEMMA TransitiveReached ==
  ASSUME Settled, NEW r \in Reached, NEW q \in Reached, r[2] = q[1]
  PROVE  <<r[1], q[2]>> \in Reached
<1>1. PICK s \in CoStates, t \in CoStates :
        t \in SuccessReach(s) /\ r = <<DtvOf(s), DtvOf(t)>>
  BY DEF Reached
<1>2. PICK u \in CoStates, w \in CoStates :
        w \in SuccessReach(u) /\ q = <<DtvOf(u), DtvOf(w)>>
  BY DEF Reached
<1>3. t = u
  BY <1>1, <1>2, SameState, StateTyped DEF CoStates
<1>4. w \in SuccessReach(s)
  BY <1>1, <1>2, <1>3, ReachTransitive DEF CoStates, Settled
<1> QED  BY <1>1, <1>2, <1>4, ReachedMembers

LEMMA FieldReached ==
  ASSUME Settled, NEW j \in Reached, NEW l \in FieldLabels,
         Extend(j[1], l) \in DtvsOf(states), Extend(j[2], l) \in DtvsOf(states)
  PROVE  ByField(j, l) \in Reached
<1>1. PICK s \in CoStates, t \in CoStates :
        t \in SuccessReach(s) /\ j = <<DtvOf(s), DtvOf(t)>>
  BY DEF Reached
<1>2. /\ s \in states /\ t \in states /\ IsTv(s) /\ IsTv(t) /\ s.variance = Co /\ t.variance = Co
      /\ DtvOf(s) \in DerivedTypeVars /\ DtvOf(t) \in DerivedTypeVars
  BY StateTyped, DtvTyped DEF CoStates
<1>3. PICK a \in CoStates : DtvOf(a) = Extend(DtvOf(s), l)
  BY <1>1, CoStateOf
<1>4. PICK b \in CoStates : DtvOf(b) = Extend(DtvOf(t), l)
  BY <1>1, CoStateOf
<1>5. PICK u \in states : /\ IsTv(u) /\ DtvOf(u) = DtvOf(s) /\ u.variance = LabelVariance(l)
                          /\ <<u, LabelSymbol(l), a>> \in pushes
                          /\ Pop(u, LabelSymbol(l), a) \in allEdges
  BY <1>2, <1>3, LabelOf
<1>6. PICK v \in states : /\ IsTv(v) /\ DtvOf(v) = DtvOf(t) /\ v.variance = LabelVariance(l)
                          /\ <<v, LabelSymbol(l), b>> \in pushes
                          /\ Pop(v, LabelSymbol(l), b) \in allEdges
  BY <1>2, <1>4, LabelOf
<1>7. IsFiniteSet(states) /\ IInv /\ Closed(pushes, allEdges, states)
  BY DEF Settled, IInv, StopsAtFixpoint
<1>8. CASE LabelVariance(l) = Co
  <2>1. u = s /\ v = t
    BY <1>2, <1>5, <1>6, <1>8, SameState, StateTyped
  <2>2. <<t, LabelSymbol(l), a>> \in pushes
    BY <1>1, <1>2, <1>5, <1>7, <2>1, ReachCarries
  <2>3. <<DtvOf(a), DtvOf(b)>> \in Reached
    BY <1>6, <2>1, <2>2, Shortcut
  <2> QED  BY <1>1, <1>3, <1>4, <1>8, <2>3 DEF ByField
<1>9. CASE LabelVariance(l) # Co
  <2>1. u = Not(s) /\ v = Not(t)
    <3>1. LabelVariance(l) = Contra
      BY <1>9 DEF LabelVariance
    <3> QED  BY <1>2, <1>5, <1>6, <3>1, SameState, StateTyped DEF Flip
  <2>2. u \in SuccessReach(v)
    BY <1>1, <1>2, <2>1, ReachMirrored DEF Settled
  <2>3. <<u, LabelSymbol(l), b>> \in pushes
    BY <1>6, <1>7, <2>2, ReachCarries
  <2>4. <<DtvOf(b), DtvOf(a)>> \in Reached
    BY <1>5, <2>3, Shortcut
  <2> QED  BY <1>1, <1>3, <1>4, <1>9, <2>4 DEF ByField
<1> QED  BY <1>8, <1>9

LEMMA ReachedIsTheory ==
  ASSUME Settled
  PROVE  IsTheory(Reached, Given, DtvsOf(states))
<1> DEFINE D == DtvsOf(states)
<1>1. ASSUME NEW p \in Axioms(Given, D)
      PROVE  p \in Reached
  <2>1. CASE \E c \in Given : p = <<c.lhs, c.rhs>>
    BY <2>1, GivenReached
  <2>2. CASE p \in Itself(D)
    BY <2>2, ItselfReached DEF Itself
  <2>3. CASE \E r \in Itself(D) : /\ Extend(r[2], Store) \in D /\ Extend(r[1], Load) \in D
                                  /\ p = <<Extend(r[2], Store), Extend(r[1], Load)>>
    BY <2>3, PointersReached DEF Itself
  <2> QED  BY <1>1, <2>1, <2>2, <2>3 DEF Axioms, AxiomsAt
<1>2. ASSUME NEW p \in DeductionRound(Reached, D)
      PROVE  p \in Reached
  <2>1. CASE \E j \in Reached : \E l \in FieldLabels : p = ByField(j, l) /\ p \in D \X D
    <3>1. PICK j \in Reached, l \in FieldLabels : p = ByField(j, l) /\ p \in D \X D
      BY <2>1
    <3>2. Extend(j[1], l) \in D /\ Extend(j[2], l) \in D
      BY <3>1 DEF ByField
    <3> QED  BY <3>1, <3>2, FieldReached
  <2>2. CASE \E r \in Reached : \E q \in Reached : q[1] = r[2] /\ p = <<r[1], q[2]>>
    BY <2>2, TransitiveReached
  <2> QED  BY <1>2, <2>1, <2>2 DEF DeductionRound
<1> QED  BY <1>1, <1>2 DEF IsTheory

(* Where no variable is interesting, every consequence of the constraints   *)
(* among the derived type variables of the automaton shows as a path of     *)
(* success edges when get_saturation_edges returns: no judgement is missed. *)
THEOREM CompletenessHolds == Spec => []ConsequencesFound
<1>1. ASSUME IInv, SignsAgree, BaseKept, MirrorSymmetric
      PROVE  ConsequencesFound
  <2> DEFINE D == DtvsOf(states)
  <2> SUFFICES ASSUME pc = "done", Plain(states), NEW s \in CoStates, NEW t \in CoStates,
                      <<DtvOf(s), DtvOf(t)>> \in Derivable(Given, D)
               PROVE  t \in SuccessReach(s)
    BY DEF ConsequencesFound, Plain, CoStates
  <2>1. Settled
    BY <1>1, StatesFinite DEF Settled
  <2>2. IsFiniteSet(D)
    BY <2>1, DtvsFinite DEF Settled
  <2>3. \A c \in Given : c.lhs \in D /\ c.rhs \in D
    BY <1>1, GivenTyped
  <2>4. Axioms(Given, D) \subseteq D \X D
    BY <2>3 DEF Axioms, AxiomsAt, Itself
  <2>5. Derivable(Given, D) \subseteq Reached
    BY <2>1, <2>2, <2>4, DerivableIsLeast, ReachedIsTheory
  <2>6. PICK u \in CoStates, v \in CoStates :
          v \in SuccessReach(u) /\ <<DtvOf(s), DtvOf(t)>> = <<DtvOf(u), DtvOf(v)>>
    BY <2>5 DEF Reached
  <2>7. s = u /\ t = v
    BY <2>1, <2>6, SameState, StateTyped DEF CoStates
  <2> QED  BY <2>6, <2>7
<1>2. MirrorInv => BaseKept /\ MirrorSymmetric
  BY DEF MirrorInv
<1> QED  BY <1>1, <1>2, Invariance, SignsInvariance, MirrorInvariance, PTL
=============================================================================
