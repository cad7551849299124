------------------------- MODULE SccSignaturesProofs -------------------------
(***************************************************************************)
(* Three results about the two passes, for every program.                   *)
(*                                                                         *)
(* instantiate_callee_signatures finds the signature of every callee: the   *)
(* tags left in the constraints of an SCC name procedures of other SCCs     *)
(* that it calls; the topological order puts those behind it; and the first *)
(* pass has handled what is behind.                                         *)
(*                                                                         *)
(* Signatures lose nothing, and as long as no loop is broken they relate    *)
(* nothing that the program with its calls expanded keeps apart: a chain of *)
(* the expansion between two variables of an SCC alternates between the     *)
(* SCC's own constraints and stays inside the copy behind one callsite, and *)
(* each stay enters and leaves at a parameter or a shared variable, where   *)
(* the callee's signature has it.                                           *)
(***************************************************************************)
EXTENDS PolymorphicCalls, FixpointLemmas

\* What has a signature when left SCCs of the first pass are still to come.
SignedBehind ==
  \A i \in left + 1 .. Len(order) : order[i] \subseteq DOMAIN signatures

OrderFixed == pc # "order" => order \in Orderings

\* The passes go over all the SCCs.
PassesProceed ==
  /\ pc = "order" => pass = "signatures" /\ order = <<>> /\ left = 0
  /\ pc = "simplify" => left > 0
  /\ pass = "signatures" => SignedBehind
  /\ pass = "constraints" => Procs \subseteq DOMAIN signatures /\ pc # "order"

IInv == TypeOK /\ OrderFixed /\ PassesProceed /\ NoPanic

-----------------------------------------------------------------------------
(* The call graph's condensation: every procedure is in an SCC, and there    *)
(* are finitely many.                                                        *)
LEMMA SccsCover ==
  /\ \A p \in Procs : p \in SccOf(p) /\ SccOf(p) \in Sccs
  /\ Sccs \subseteq SUBSET Procs
  /\ Cardinality(Sccs) \in Nat
<1>1. \A p \in Procs : p \in SccOf(p) /\ SccOf(p) \in Sccs
  BY DEF SccOf, Sccs
<1>2. Sccs \subseteq SUBSET Procs
  BY DEF SccOf, Sccs
<1>3. IsFiniteSet(SUBSET Procs)
  BY ProcsAssumption, FS_SUBSET
<1>4. IsFiniteSet(Sccs)
  BY <1>2, <1>3, FS_Subset
<1>5. Cardinality(Sccs) \in Nat
  BY <1>4, FS_CardinalityType
<1> QED BY <1>1, <1>2, <1>5

(* An ordering is a sequence of all the SCCs in which callers come first.    *)
LEMMA OrderingsAreSequences ==
  ASSUME NEW s \in Orderings
  PROVE  /\ s \in Seq(SUBSET Procs)
         /\ Len(s) \in Nat
         /\ IsTopoOrder(s)
         /\ \A p \in Procs : \E i \in 1 .. Len(s) : p \in s[i]
<1> DEFINE n == Cardinality(Sccs)
<1>1. n \in Nat /\ Sccs \subseteq SUBSET Procs
  BY SccsCover
<1>2. /\ s \in [1 .. n -> Sccs]
      /\ {s[i] : i \in 1 .. n} = Sccs
      /\ IsTopoOrder(s)
  BY DEF Orderings
<1>3. s \in Seq(SUBSET Procs) /\ Len(s) = n
  BY <1>1, <1>2
<1>4. \A p \in Procs : \E i \in 1 .. n : p \in s[i]
  BY <1>2, SccsCover
<1> QED BY <1>1, <1>2, <1>3, <1>4

(* A tag that is left after remove_cs_tags_for_tids_in_constraint belongs to *)
(* a call from the SCC to a procedure outside.                               *)
LEMMA TagsAreOutwardCalls ==
  ASSUME program \in Programs, NEW scc \in SUBSET Procs,
         NEW f \in CalledFormals(BasicCons(scc))
  PROVE  /\ f[1] \in Procs /\ f[1] \notin scc
         /\ \E p \in scc : <<p, f[1]>> \in Calls(program)
<1>1. PICK v \in Mentioned(BasicCons(scc)) : v.tag # NoTag /\ f = <<v.name, v.tag>>
  BY DEF CalledFormals
<1>2. PICK w \in Mentioned(GeneratedCons(scc)) : v = RemoveTag(w, scc)
  BY DEF Mentioned, BasicCons
<1>3. PICK p \in scc : w \in Mentioned(program.code[p])
  BY <1>2 DEF Mentioned, GeneratedCons
<1>4. program.code[p] \in SUBSET (TypeVars \X TypeVars)
  BY <1>3, ProgramAssumption DEF ProgramType
<1>5. w \in TypeVars
  BY <1>3, <1>4 DEF Mentioned
<1>6. ~(w.tag # NoTag /\ w.name \in scc)
  <2> SUFFICES ASSUME w.tag # NoTag, w.name \in scc PROVE FALSE
    OBVIOUS
  <2>1. v = [w EXCEPT !.tag = NoTag]
    BY <1>2 DEF RemoveTag
  <2>2. v.tag = NoTag
    BY <2>1, <1>5 DEF TypeVars
  <2> QED BY <2>2, <1>1
<1>7. v = w
  BY <1>2, <1>6 DEF RemoveTag
<1>8. <<p, v.name>> \in Calls(program)
  BY <1>1, <1>3, <1>7, ProgramAssumption
<1>9. Calls(program) \subseteq Procs \X Procs
  BY ProgramAssumption DEF ProgramType, Calls
<1> QED BY <1>1, <1>3, <1>6, <1>7, <1>8, <1>9

(* The callees of an SCC come behind it.                                     *)
LEMMA CalleesBehind ==
  ASSUME program \in Programs, NEW s \in Orderings, NEW i \in 1 .. Len(s),
         NEW f \in CalledFormals(BasicCons(s[i]))
  PROVE  \E j \in i + 1 .. Len(s) : f[1] \in s[j]
<1>1. /\ s \in Seq(SUBSET Procs) /\ Len(s) \in Nat
      /\ IsTopoOrder(s)
      /\ \A p \in Procs : \E k \in 1 .. Len(s) : p \in s[k]
  BY OrderingsAreSequences
<1>2. s[i] \in SUBSET Procs
  BY <1>1
<1>3. /\ f[1] \in Procs /\ f[1] \notin s[i]
      /\ \E p \in s[i] : <<p, f[1]>> \in Calls(program)
  BY <1>2, TagsAreOutwardCalls
<1>4. PICK j \in 1 .. Len(s) : f[1] \in s[j]
  BY <1>1, <1>3
<1>5. CallsInto(s[i], s[j])
  BY <1>3, <1>4 DEF CallsInto
<1>6. ~(j < i)
  BY <1>1, <1>5 DEF IsTopoOrder
<1>7. j # i
  BY <1>3, <1>4
<1> QED BY <1>1, <1>4, <1>6, <1>7

-----------------------------------------------------------------------------
(* The invariant. *)
LEMMA OrderLength ==
  ASSUME IInv
  PROVE  /\ Len(order) \in Nat
         /\ \A i \in 1 .. Len(order) : order[i] \in SUBSET Procs
<1>1. CASE pc = "order"
  BY <1>1 DEF IInv, PassesProceed
<1>2. CASE pc # "order"
  <2>1. order \in Orderings
    BY <1>2 DEF IInv, OrderFixed
  <2> QED BY <2>1, OrderingsAreSequences
<1> QED BY <1>1, <1>2

(* The SCC that is handled next is one of the order's; in the first pass it  *)
(* is the one before those that have signatures.                             *)
LEMMA CurrentIsInOrder ==
  ASSUME IInv, left > 0
  PROVE  /\ CurrentScc \in SUBSET Procs
         /\ pass = "signatures" => left \in 1 .. Len(order) /\ CurrentScc = order[left]
         /\ pass = "constraints" => Len(order) + 1 - left \in 1 .. Len(order)
<1>1. /\ Len(order) \in Nat /\ left \in 1 .. Len(order)
      /\ \A i \in 1 .. Len(order) : order[i] \in SUBSET Procs
  BY OrderLength DEF IInv, TypeOK
<1> QED BY <1>1 DEF CurrentScc, IInv, TypeOK

(* The orderings depend on the program alone, which no step changes. *)
LEMMA OrderStaysFixed ==
  ASSUME OrderFixed, program' = program, order' = order, pc # "order"
  PROVE  OrderFixed'
<1>1. Orderings' = Orderings
  BY DEF Orderings, Sccs, SccOf, Calls, IsTopoOrder, CallsInto
<1> QED BY <1>1 DEF OrderFixed

(* At the start nothing is ordered and nothing has a signature. *)
LEMMA InitInvariant == Init => IInv
<1> SUFFICES ASSUME Init PROVE IInv
  OBVIOUS
<1>1. Len(order) = 0 /\ DOMAIN signatures = {} /\ DOMAIN constraints = {}
  BY DEF Init
<1> QED BY <1>1 DEF Init, IInv, TypeOK, OrderFixed, PassesProceed, SignedBehind, NoPanic

(* The order taken is one of all the SCCs; none has a signature yet. *)
LEMMA OrderPreserves ==
  ASSUME IInv, Order
  PROVE  IInv'
<1>1. program \in Programs /\ order' \in Orderings /\ left' = Len(order')
  BY DEF Order, IInv, TypeOK
<1>2. Orderings' = Orderings
  BY DEF Order, Orderings, Sccs, SccOf, Calls, IsTopoOrder, CallsInto
<1>3. /\ order' \in Seq(SUBSET Procs) /\ Len(order') \in Nat
  BY <1>1, OrderingsAreSequences
<1>4. TypeOK'
  <2>1. \A i \in 1 .. Len(order') : order'[i] \in SUBSET Procs
    BY <1>3
  <2>2. left' \in 0 .. Len(order')
    BY <1>1, <1>3
  <2>3. /\ UNCHANGED <<program, signatures, constraints, fresh, pass>>
        /\ pc' = "instantiate"
    BY DEF Order, results
  <2> QED BY <2>1, <2>2, <2>3 DEF IInv, TypeOK
<1>5. OrderFixed'
  BY <1>1, <1>2 DEF OrderFixed
<1>6. PassesProceed'
  <2>1. pass' = "signatures" /\ pc' = "instantiate"
    BY DEF Order, IInv, PassesProceed
  <2>2. left' + 1 .. Len(order') = {}
    BY <1>1, <1>3
  <2> QED BY <2>1, <2>2 DEF PassesProceed, SignedBehind
<1>7. NoPanic'
  BY DEF Order, NoPanic
<1> QED BY <1>4, <1>5, <1>6, <1>7 DEF IInv

(* The step the theorem is about: in the first pass the callees are behind   *)
(* the current SCC, in the second everything has a signature.                *)
LEMMA CalleesAreSigned ==
  ASSUME IInv, pc = "instantiate", left > 0
  PROVE  CalleesSigned
<1> SUFFICES ASSUME NEW f \in CalledFormals(BasicCons(CurrentScc))
             PROVE  f[1] \in DOMAIN signatures
  BY DEF CalleesSigned
<1>1. program \in Programs /\ order \in Orderings
  BY DEF IInv, TypeOK, OrderFixed
<1>2. CASE pass = "signatures"
  <2>1. left \in 1 .. Len(order) /\ CurrentScc = order[left]
    BY <1>2, CurrentIsInOrder
  <2>2. \E j \in left + 1 .. Len(order) : f[1] \in order[j]
    BY <1>1, <2>1, CalleesBehind
  <2> QED BY <1>2, <2>2 DEF IInv, PassesProceed, SignedBehind
<1>3. CASE pass = "constraints"
  <2>1. CurrentScc \in SUBSET Procs
    BY CurrentIsInOrder
  <2>2. f[1] \in Procs
    BY <1>1, <2>1, TagsAreOutwardCalls
  <2> QED BY <1>3, <2>2 DEF IInv, PassesProceed
<1> QED BY <1>2, <1>3 DEF IInv, TypeOK

(* With the callees signed, instantiating signatures does not panic. *)
LEMMA InstantiatePreserves ==
  ASSUME IInv, InstantiateCallees
  PROVE  IInv'
<1>1. CalleesSigned
  BY CalleesAreSigned DEF InstantiateCallees
<1>2. pc' = "simplify" /\ UNCHANGED <<program, order, signatures, constraints, left, fresh, pass>>
  BY <1>1 DEF InstantiateCallees, results
<1>3. TypeOK'
  BY <1>2 DEF IInv, TypeOK
<1>4. OrderFixed'
  BY <1>2, OrderStaysFixed DEF InstantiateCallees, IInv
<1>5. PassesProceed'
  BY <1>2 DEF InstantiateCallees, IInv, PassesProceed, SignedBehind
<1>6. NoPanic'
  BY <1>2 DEF NoPanic
<1> QED BY <1>3, <1>4, <1>5, <1>6 DEF IInv

(* Breaking a loop touches the constraints of the current SCC only. *)
LEMMA BreakLoopPreserves ==
  ASSUME IInv, BreakLoop
  PROVE  IInv'
<1>1. UNCHANGED <<program, order, signatures, constraints, left, pass, pc>> /\ fresh' = fresh + 1
  BY DEF BreakLoop, results
<1>2. TypeOK'
  BY <1>1 DEF IInv, TypeOK
<1>3. OrderFixed'
  BY <1>1, OrderStaysFixed DEF BreakLoop, IInv
<1>4. PassesProceed'
  BY <1>1 DEF IInv, PassesProceed, SignedBehind
<1>5. NoPanic'
  BY <1>1 DEF IInv, NoPanic
<1> QED BY <1>2, <1>3, <1>4, <1>5 DEF IInv

(* The first pass records a signature for the SCC it steps over. *)
LEMMA SimplifyPreserves ==
  ASSUME IInv, Simplify
  PROVE  IInv'
<1>1. /\ pc = "simplify" /\ pc' = "instantiate" /\ left' = left - 1
      /\ UNCHANGED <<program, order, fresh, pass>>
  BY DEF Simplify
<1>2. left > 0 /\ left' \in 0 .. Len(order)
  <2>1. left > 0 /\ left \in 0 .. Len(order) /\ Len(order) \in Nat
    BY <1>1, OrderLength DEF IInv, PassesProceed, TypeOK
  <2> QED BY <1>1, <2>1
<1>3. CurrentScc \in SUBSET Procs
  BY <1>2, CurrentIsInOrder
<1>4. CASE pass = "signatures"
  <2>1. DOMAIN signatures' = CurrentScc \cup DOMAIN signatures /\ constraints' = constraints
    BY <1>4 DEF Simplify, Recorded
  <2>2. TypeOK'
    BY <1>1, <1>2, <1>3, <2>1 DEF IInv, TypeOK
  <2>3. CurrentScc = order[left] /\ left \in 1 .. Len(order)
    BY <1>2, <1>4, CurrentIsInOrder
  <2>4. SignedBehind'
    <3> SUFFICES ASSUME NEW i \in left' + 1 .. Len(order')
                 PROVE  order'[i] \subseteq DOMAIN signatures'
      BY DEF SignedBehind
    <3>1. Len(order) \in Nat
      BY OrderLength
    <3>2. i = left \/ i \in left + 1 .. Len(order)
      BY <1>1, <2>3, <3>1
    <3>3. SignedBehind
      BY <1>4 DEF IInv, PassesProceed
    <3> QED BY <1>1, <2>1, <2>3, <3>2, <3>3 DEF SignedBehind
  <2>5. PassesProceed'
    BY <1>1, <1>4, <2>4 DEF PassesProceed
  <2> QED BY <1>1, <2>2, <2>5, OrderStaysFixed DEF IInv, NoPanic
<1>5. CASE pass = "constraints"
  <2>1. DOMAIN constraints' = CurrentScc \cup DOMAIN constraints /\ signatures' = signatures
    BY <1>5 DEF Simplify, Recorded
  <2>2. TypeOK'
    BY <1>1, <1>2, <1>3, <2>1 DEF IInv, TypeOK
  <2>3. PassesProceed'
    BY <1>1, <1>5, <2>1 DEF IInv, PassesProceed
  <2> QED BY <1>1, <2>2, <2>3, OrderStaysFixed DEF IInv, NoPanic
<1> QED BY <1>4, <1>5 DEF IInv, TypeOK

(* When the first pass is over every procedure has a signature. *)
LEMMA StartConstraintsPreserves ==
  ASSUME IInv, StartConstraints
  PROVE  IInv'
<1>1. /\ pc = "instantiate" /\ pc' = pc /\ left = 0 /\ pass = "signatures"
      /\ left' = Len(order) /\ pass' = "constraints"
      /\ UNCHANGED <<program, order, signatures, constraints, fresh>>
  BY DEF StartConstraints, results
<1>2. order \in Orderings /\ Len(order) \in Nat
  BY <1>1, OrderLength DEF IInv, OrderFixed
<1>3. Procs \subseteq DOMAIN signatures
  <2> SUFFICES ASSUME NEW p \in Procs PROVE p \in DOMAIN signatures
    OBVIOUS
  <2>1. PICK i \in 1 .. Len(order) : p \in order[i]
    BY <1>2, OrderingsAreSequences
  <2>2. order[i] \subseteq DOMAIN signatures
    BY <1>1 DEF IInv, PassesProceed, SignedBehind
  <2> QED BY <2>1, <2>2
<1>4. TypeOK'
  BY <1>1, <1>2 DEF IInv, TypeOK
<1>5. PassesProceed'
  BY <1>1, <1>3 DEF PassesProceed
<1> QED BY <1>1, <1>4, <1>5, OrderStaysFixed DEF IInv, NoPanic

(* The end of the second pass changes no result. *)
LEMMA FinishPreserves ==
  ASSUME IInv, Finish
  PROVE  IInv'
<1>1. /\ pass = "constraints" /\ pc' = "done" /\ pc # "order"
      /\ UNCHANGED <<program, order, signatures, constraints, left, fresh, pass>>
  BY DEF Finish, results
<1>2. TypeOK'
  BY <1>1 DEF IInv, TypeOK
<1>3. PassesProceed'
  BY <1>1 DEF IInv, PassesProceed
<1> QED BY <1>1, <1>2, <1>3, OrderStaysFixed DEF IInv, NoPanic

(* Nothing depends on anything but the variables. *)
LEMMA StutterPreserves ==
  ASSUME IInv, UNCHANGED vars
  PROVE  IInv'
<1>1. UNCHANGED <<program, order, signatures, constraints, left, fresh, pass, pc>>
  BY DEF vars
<1>2. TypeOK'
  BY <1>1 DEF IInv, TypeOK
<1>3. PassesProceed'
  BY <1>1 DEF IInv, PassesProceed, SignedBehind
<1>4. OrderFixed'
  BY <1>1, OrderStaysFixed DEF IInv, OrderFixed
<1> QED BY <1>1, <1>2, <1>3, <1>4 DEF IInv, NoPanic

(* Every step of the two passes preserves the invariant. *)
LEMMA InductiveInvariant == Spec => []IInv
<1>1. Init => IInv
  BY InitInvariant
<1>2. IInv /\ [Next]_vars => IInv'
  BY OrderPreserves, InstantiatePreserves, BreakLoopPreserves, SimplifyPreserves,
     StartConstraintsPreserves, FinishPreserves, StutterPreserves DEF Next
<1> QED BY <1>1, <1>2, PTL DEF Spec

(* The phases, the passes and the tables keep their types; results are only  *)
(* ever recorded for procedures.                                             *)
THEOREM TypesCorrect == Spec => []TypeOK
<1>1. IInv => TypeOK
  BY DEF IInv
<1> QED BY <1>1, InductiveInvariant, PTL

(* For every call graph and every topological order of its condensation,     *)
(* "A callee should have a sig" never fails.                                 *)
THEOREM CalleesHaveSignatures == Spec => []NoPanic
<1>1. IInv => NoPanic
  BY DEF IInv
<1> QED BY <1>1, InductiveInvariant, PTL

-----------------------------------------------------------------------------
(* Through and Closure *)

\* What is closed under a step of R from an element of V.
GoesOn(T, R, V) == \A a, b, c : <<a, b>> \in T /\ b \in V /\ <<b, c>> \in R => <<a, c>> \in T

LongerChains(X, R, V) ==
  UNION {{c} \cup (IF c[2] \in V THEN {c[1]} \X OutOf(c[2], R) ELSE {}) : c \in X}

(* OutOf is the successors in the relation. *)
LEMMA OutOfAre ==
  ASSUME NEW U, NEW R \in SUBSET (U \X U), NEW v
  PROVE  \A w : w \in OutOf(v, R) <=> <<v, w>> \in R
<1>1. \A r \in R : r = <<r[1], r[2]>>
  OBVIOUS
<1> QED BY <1>1 DEF OutOf

(* A round of chains: those there are, and their extensions. *)
LEMMA LongerChainsAre ==
  ASSUME NEW U, NEW R \in SUBSET (U \X U), NEW V, NEW X \in SUBSET (U \X U)
  PROVE  /\ LongerChains(X, R, V) \in SUBSET (U \X U)
         /\ X \subseteq LongerChains(X, R, V)
         /\ \A a, c : <<a, c>> \in LongerChains(X, R, V) <=>
              \/ <<a, c>> \in X
              \/ \E b \in V : <<a, b>> \in X /\ <<b, c>> \in R
<1> DEFINE Part(c) == {c} \cup (IF c[2] \in V THEN {c[1]} \X OutOf(c[2], R) ELSE {})
           L == LongerChains(X, R, V)
<1>1. L = UNION {Part(c) : c \in X}
  BY DEF LongerChains
<1>2. \A z : z \in L <=> \E c \in X : z \in Part(c)
  BY <1>1
<1>3. \A c \in X : c = <<c[1], c[2]>> /\ c[1] \in U /\ c[2] \in U
  OBVIOUS
<1>4. \A v, w : w \in OutOf(v, R) <=> <<v, w>> \in R
  BY OutOfAre
<1>5. \A c \in X : \A z : z \in Part(c) <=>
        z = c \/ (c[2] \in V /\ \E w : <<c[2], w>> \in R /\ z = <<c[1], w>>)
  <2> SUFFICES ASSUME NEW c \in X, NEW z
               PROVE  z \in Part(c) <=>
                        z = c \/ (c[2] \in V /\ \E w : <<c[2], w>> \in R /\ z = <<c[1], w>>)
    OBVIOUS
  <2>1. z \in {c[1]} \X OutOf(c[2], R) <=> \E w : w \in OutOf(c[2], R) /\ z = <<c[1], w>>
    OBVIOUS
  <2> QED BY <1>4, <2>1
<1> HIDE DEF Part, L
<1>6. \A a, c : <<a, c>> \in L <=>
              \/ <<a, c>> \in X
              \/ \E b \in V : <<a, b>> \in X /\ <<b, c>> \in R
  <2> SUFFICES ASSUME NEW a, NEW c
               PROVE  <<a, c>> \in L <=>
                        \/ <<a, c>> \in X
                        \/ \E b \in V : <<a, b>> \in X /\ <<b, c>> \in R
    OBVIOUS
  <2>1. ASSUME <<a, c>> \in L
        PROVE  <<a, c>> \in X \/ \E b \in V : <<a, b>> \in X /\ <<b, c>> \in R
    <3>1. PICK x \in X : <<a, c>> \in Part(x)
      BY <1>2, <2>1
    <3>2. \/ <<a, c>> = x
          \/ x[2] \in V /\ \E w : <<x[2], w>> \in R /\ <<a, c>> = <<x[1], w>>
      BY <1>5, <3>1
    <3> QED BY <1>3, <3>2
  <2>2. ASSUME <<a, c>> \in X PROVE <<a, c>> \in L
    BY <1>2, <1>5, <2>2
  <2>3. ASSUME NEW b \in V, <<a, b>> \in X, <<b, c>> \in R PROVE <<a, c>> \in L
    <3>1. <<a, c>> \in Part(<<a, b>>)
      BY <1>5, <2>3
    <3> QED BY <1>2, <2>3, <3>1
  <2> QED BY <2>1, <2>2, <2>3
<1>7. X \subseteq L
  BY <1>2, <1>5
<1>8. \A z \in L : z \in U \X U
  <2> SUFFICES ASSUME NEW z \in L PROVE z \in U \X U
    OBVIOUS
  <2>1. PICK x \in X : z \in Part(x)
    BY <1>2
  <2>2. \/ z = x
        \/ \E w : <<x[2], w>> \in R /\ z = <<x[1], w>>
    BY <1>5, <2>1
  <2>3. \A v, w : <<v, w>> \in R => w \in U
    OBVIOUS
  <2>4. x \in U \X U /\ x[1] \in U
    BY <1>3
  <2>5. CASE z = x
    BY <2>4, <2>5
  <2>6. ASSUME NEW w, <<x[2], w>> \in R, z = <<x[1], w>> PROVE z \in U \X U
    BY <2>3, <2>4, <2>6
  <2> QED BY <2>2, <2>5, <2>6
<1> QED BY <1>6, <1>7, <1>8 DEF L

AreChains(h, R, V, U) ==
  /\ h[0] = R
  /\ \A n \in Nat : h[n] \in SUBSET (U \X U) /\ h[n+1] = LongerChains(h[n], R, V)

(* The chains that Through computes. *)
LEMMA ChainsExist ==
  ASSUME NEW U, NEW R \in SUBSET (U \X U), NEW V
  PROVE  \E h : AreChains(h, R, V, U) /\ Through(R, V) = h[Cardinality(V)]
<1> DEFINE S == SUBSET (U \X U)
           step == [X \in S |-> LongerChains(X, R, V)]
           Eq(f) == f = [n \in Nat |-> IF n = 0 THEN R ELSE LongerChains(f[n-1], R, V)]
           h == CHOOSE f : Eq(f)
<1>1. R \in S /\ step \in [S -> S]
  BY LongerChainsAre
<1>2. PICK g \in [Nat -> S] : IsIteration(g, R, step)
  <2> HIDE DEF S, step
  <2> QED BY <1>1, IterationExists
<1>3. \E f : Eq(f)
  <2>1. \A n \in Nat : n # 0 => n-1 \in Nat /\ (n-1)+1 = n
    OBVIOUS
  <2>2. \A n \in Nat : g[n] = IF n = 0 THEN R ELSE LongerChains(g[n-1], R, V)
    <3> HIDE DEF S
    <3> QED BY <1>2, <2>1 DEF IsIteration
  <2>3. g = [n \in Nat |-> g[n]]
    BY <1>2
  <2> QED BY <2>2, <2>3
<1>4. Eq(h)
  <2> HIDE DEF Eq
  <2> QED BY <1>3
<1>5. h[0] = R /\ \A n \in Nat : h[n+1] = LongerChains(h[n], R, V)
  <2> HIDE DEF h
  <2>1. \A n \in Nat : h[n] = IF n = 0 THEN R ELSE LongerChains(h[n-1], R, V)
    BY <1>4
  <2>2. \A n \in Nat : n+1 \in Nat /\ n+1 # 0 /\ (n+1)-1 = n
    OBVIOUS
  <2> QED BY <2>1, <2>2
<1>6. \A n \in Nat : h[n] \in S
  <2> DEFINE T == {n \in Nat : h[n] \in S}
  <2>1. 0 \in T
    BY <1>5
  <2>2. \A n \in Nat : n \in T => n+1 \in T
    <3>1. \A X \in S : LongerChains(X, R, V) \in S
      BY LongerChainsAre
    <3> HIDE DEF h, S
    <3> QED BY <1>5, <3>1
  <2>3. \A n \in Nat : n \in T
    <3> HIDE DEF T
    <3> QED BY <2>1, <2>2, NatSetInduction
  <2> QED BY <2>3
<1>7. Through(R, V) = h[Cardinality(V)]
  BY DEF Through, LongerChains
<1>8. AreChains(h, R, V, U)
  <2> HIDE DEF h
  <2> QED BY <1>5, <1>6 DEF AreChains
<1> QED BY <1>7, <1>8

(* The chains from one element settle: as soon as a round reaches no new      *)
(* element of V, the next one adds nothing.                                   *)
LEMMA ChainsSettle ==
  ASSUME NEW U, NEW R \in SUBSET (U \X U), NEW V, IsFiniteSet(V), NEW h,
         AreChains(h, R, V, U)
  PROVE  GoesOn(h[Cardinality(V)], R, V)
<1> DEFINE N == Cardinality(V)
           Next1(n, a, c) == <<a, c>> \in h[n] \/ \E b \in V : <<a, b>> \in h[n] /\ <<b, c>> \in R
<1>1. N \in Nat
  BY FS_CardinalityType
<1>2. ASSUME NEW n \in Nat
      PROVE  h[n] \subseteq h[n+1] /\ \A a, c : <<a, c>> \in h[n+1] <=> Next1(n, a, c)
  <2> DEFINE X == h[n]
             Y == h[n+1]
  <2>1. X \in SUBSET (U \X U) /\ Y = LongerChains(X, R, V)
    BY DEF AreChains
  <2> HIDE DEF X, Y
  <2>2. X \subseteq Y /\ \A a, c : <<a, c>> \in Y <=> <<a, c>> \in X \/ \E b \in V : <<a, b>> \in X /\ <<b, c>> \in R
    BY <2>1, LongerChainsAre
  <2> QED BY <2>2 DEF X, Y
<1>3. \A n \in Nat : h[n] \subseteq h[n+1]
  BY <1>2
<1>4. \A n \in Nat, m \in Nat : h[n] \subseteq h[n+m]
  <2> SUFFICES ASSUME NEW n \in Nat PROVE \A m \in Nat : h[n] \subseteq h[n+m]
    OBVIOUS
  <2> DEFINE T == {m \in Nat : h[n] \subseteq h[n+m]}
  <2>1. 0 \in T
    OBVIOUS
  <2>2. \A m \in Nat : m \in T => m+1 \in T
    <3>1. \A m \in Nat : n+m \in Nat /\ n+(m+1) = (n+m)+1
      OBVIOUS
    <3> QED BY <1>3, <3>1
  <2> HIDE DEF T
  <2>3. \A m \in Nat : m \in T
    BY <2>1, <2>2, NatSetInduction
  <2> QED BY <2>3 DEF T
<1>5. ASSUME NEW a PROVE \A c : <<a, c>> \in h[N+1] => <<a, c>> \in h[N]
  <2> DEFINE W == [n \in Nat |-> {b \in V : <<a, b>> \in h[n]}]
  <2>1. \A n \in Nat : W[n] \subseteq V /\ W[n] \subseteq W[n+1]
    BY <1>3
  <2>2. \A n \in Nat : W[n] = W[n+1] => \A c : <<a, c>> \in h[n+2] => <<a, c>> \in h[n+1]
    <3> SUFFICES ASSUME NEW n \in Nat, W[n] = W[n+1], NEW c, <<a, c>> \in h[n+2]
                 PROVE  <<a, c>> \in h[n+1]
      OBVIOUS
    <3>1. n+1 \in Nat /\ (n+1)+1 = n+2
      OBVIOUS
    <3>2. <<a, c>> \in h[n+1] \/ \E b \in V : <<a, b>> \in h[n+1] /\ <<b, c>> \in R
      BY <1>2, <3>1
    <3>3. \A b \in V : <<a, b>> \in h[n+1] => <<a, b>> \in h[n]
      BY <3>1
    <3> QED BY <1>2, <3>2, <3>3
  <2>3. CASE W[0] = {}
    <3> DEFINE T == {n \in Nat : \A c : <<a, c>> \in h[n] => <<a, c>> \in h[0]}
    <3>1. 0 \in T
      OBVIOUS
    <3>2. \A n \in Nat : n \in T => n+1 \in T
      <4> SUFFICES ASSUME NEW n \in Nat, n \in T, NEW c, <<a, c>> \in h[n+1]
                   PROVE  <<a, c>> \in h[0]
        OBVIOUS
      <4>1. \A b \in V : ~(<<a, b>> \in h[n])
        BY <2>3
      <4> QED BY <1>2, <4>1
    <3> HIDE DEF T
    <3>3. \A n \in Nat : n \in T
      BY <3>1, <3>2, NatSetInduction
    <3>4. N+1 \in T
      BY <1>1, <3>3
    <3>5. h[0] \subseteq h[N]
      <4>1. h[0] \subseteq h[0 + N]
        BY <1>1, <1>4
      <4> QED BY <1>1, <4>1
    <3> QED BY <3>4, <3>5 DEF T
  <2>4. CASE W[0] # {}
    <3>1. PICK w \in V : <<a, w>> \in h[0]
      BY <2>4
    <3> DEFINE X == V \ {w}
               g == [n \in Nat |-> W[n] \ {w}]
    <3>2. IsFiniteSet(X) /\ Cardinality(X) = N - 1
      BY <3>1, FS_RemoveElement
    <3>3. \A n \in Nat : g[n] \subseteq X /\ g[n] \subseteq g[n+1]
      <4>1. \A n \in Nat : n+1 \in Nat /\ g[n] = W[n] \ {w} /\ g[n+1] = W[n+1] \ {w}
        BY Zenon, SMT
      <4> SUFFICES ASSUME NEW n \in Nat PROVE g[n] \subseteq X /\ g[n] \subseteq g[n+1]
        OBVIOUS
      <4>2. g[n] = W[n] \ {w} /\ g[n+1] = W[n+1] \ {w} /\ W[n] \subseteq V /\ W[n] \subseteq W[n+1]
        BY <2>1, <4>1
      <4> HIDE DEF W, g
      <4> QED BY <4>2
    <3>4. \E n \in 0 .. Cardinality(X) : g[n] = g[n+1]
      <4> HIDE DEF g, X
      <4> QED BY <3>2, <3>3, ChainSettles
    <3>5. PICK n \in 0 .. N-1 : g[n] = g[n+1]
      BY <3>2, <3>4
    <3>6. n \in Nat /\ \A m \in Nat : w \in W[m]
      <4>1. \A m \in Nat : h[0] \subseteq h[0+m]
        BY <1>4
      <4>2. \A m \in Nat : 0+m = m
        OBVIOUS
      <4>3. n \in Nat
        BY <1>1
      <4> QED BY <3>1, <4>1, <4>2, <4>3
    <3>7. W[n] = W[n+1]
      <4>1. n+1 \in Nat /\ w \in W[n] /\ w \in W[n+1]
        BY <3>6
      <4>2. g[n] = W[n] \ {w} /\ g[n+1] = W[n+1] \ {w}
        BY <3>6, <4>1
      <4> HIDE DEF W, g
      <4>3. W[n] \ {w} = W[n+1] \ {w}
        BY <3>5, <4>2
      <4>4. \A b : b \in W[n] <=> b \in W[n+1]
        BY <4>1, <4>3
      <4> QED BY <4>4
    <3>8. \A k \in Nat : W[n+k] = W[n]
      <4> DEFINE T == {k \in Nat : W[n+k] = W[n]}
      <4>1. 0 \in T
        BY <3>6
      <4>2. \A k \in Nat : k \in T => k+1 \in T
        <5> SUFFICES ASSUME NEW k \in Nat, W[n+k] = W[n] PROVE W[n+(k+1)] = W[n]
          <6> HIDE DEF W
          <6> QED OBVIOUS
        <5>1. n+k \in Nat /\ n+(k+1) = (n+k)+1 /\ n+1 \in Nat
          BY <3>6
        <5>2. W[(n+k)+1] = W[n+1]
          <6>1. ASSUME NEW b \in V
                PROVE  <<a, b>> \in h[(n+k)+1] <=> <<a, b>> \in h[n+1]
            <7>1. \A d \in V : <<a, d>> \in h[n+k] <=> <<a, d>> \in h[n]
              BY <5>1, <3>6
            <7> QED BY <1>2, <3>6, <5>1, <7>1
          <6> QED BY <5>1, <6>1
        <5> QED BY <3>7, <5>1, <5>2
      <4> HIDE DEF T
      <4>3. \A k \in Nat : k \in T
        BY <4>1, <4>2, NatSetInduction
      <4> QED BY <4>3 DEF T
    <3>9. W[N-1] = W[N]
      <4>1. N-1 = n + ((N-1)-n) /\ N = n + (N-n) /\ (N-1)-n \in Nat /\ N-n \in Nat
        BY <1>1, <3>5, <3>6
      <4> HIDE DEF W, N
      <4> QED BY <3>8, <4>1
    <3>10. N-1 \in Nat /\ (N-1)+1 = N /\ (N-1)+2 = N+1
      BY <1>1, <3>5
    <3> HIDE DEF W, N
    <3> QED BY <2>2, <3>9, <3>10
  <2> QED BY <2>3, <2>4
<1> HIDE DEF N
<1>6. ASSUME NEW a, NEW b \in V, NEW c, <<a, b>> \in h[N], <<b, c>> \in R
      PROVE  <<a, c>> \in h[N]
  BY <1>1, <1>2, <1>5, <1>6
<1> QED BY <1>6 DEF GoesOn, N

(* Through is the least relation that contains R and goes on through V.       *)
LEMMA ThroughIsLeast ==
  ASSUME NEW U, NEW R \in SUBSET (U \X U), NEW V, IsFiniteSet(V)
  PROVE  /\ Through(R, V) \in SUBSET (U \X U)
         /\ R \subseteq Through(R, V)
         /\ GoesOn(Through(R, V), R, V)
         /\ \A T : R \subseteq T /\ GoesOn(T, R, V) => Through(R, V) \subseteq T
<1> DEFINE N == Cardinality(V)
<1>1. N \in Nat
  BY FS_CardinalityType
<1>2. PICK h : AreChains(h, R, V, U) /\ Through(R, V) = h[N]
  BY ChainsExist
<1>3. h[0] = R /\ \A n \in Nat : h[n] \in SUBSET (U \X U) /\ h[n+1] = LongerChains(h[n], R, V)
  BY <1>2 DEF AreChains
<1>4. GoesOn(h[N], R, V)
  BY <1>2, ChainsSettle
<1>5. R \subseteq h[N]
  <2> DEFINE T == {n \in Nat : R \subseteq h[n]}
  <2>1. 0 \in T
    BY <1>3
  <2>2. \A n \in Nat : n \in T => n+1 \in T
    <3> SUFFICES ASSUME NEW n \in Nat, R \subseteq h[n] PROVE R \subseteq h[n+1]
      OBVIOUS
    <3> DEFINE X == h[n]
    <3>1. X \in SUBSET (U \X U) /\ h[n+1] = LongerChains(X, R, V)
      BY <1>3
    <3> HIDE DEF X
    <3>2. X \subseteq LongerChains(X, R, V)
      BY <3>1, LongerChainsAre
    <3> QED BY <3>1, <3>2 DEF X
  <2> HIDE DEF T
  <2>3. \A n \in Nat : n \in T
    BY <2>1, <2>2, NatSetInduction
  <2> QED BY <1>1, <2>3 DEF T
<1>6. ASSUME NEW Q, R \subseteq Q, GoesOn(Q, R, V)
      PROVE  h[N] \subseteq Q
  <2> DEFINE T == {n \in Nat : h[n] \subseteq Q}
  <2>1. 0 \in T
    BY <1>3, <1>6
  <2>2. \A n \in Nat : n \in T => n+1 \in T
    <3> SUFFICES ASSUME NEW n \in Nat, h[n] \subseteq Q, NEW z \in h[n+1] PROVE z \in Q
      OBVIOUS
    <3>1. h[n+1] \in SUBSET (U \X U) /\ h[n+1] = LongerChains(h[n], R, V) /\ h[n] \in SUBSET (U \X U)
      BY <1>3
    <3>2. PICK a, c : z = <<a, c>>
      BY <3>1
    <3>3. <<a, c>> \in h[n] \/ \E b \in V : <<a, b>> \in h[n] /\ <<b, c>> \in R
      <4> DEFINE X == h[n]
      <4>1. X \in SUBSET (U \X U) /\ <<a, c>> \in LongerChains(X, R, V)
        BY <3>1, <3>2
      <4> HIDE DEF X
      <4>2. <<a, c>> \in X \/ \E b \in V : <<a, b>> \in X /\ <<b, c>> \in R
        BY <4>1, LongerChainsAre
      <4> QED BY <4>2 DEF X
    <3> QED BY <1>6, <3>2, <3>3 DEF GoesOn
  <2> HIDE DEF T
  <2>3. \A n \in Nat : n \in T
    BY <2>1, <2>2, NatSetInduction
  <2> QED BY <1>1, <2>3 DEF T
<1>7. h[N] \in SUBSET (U \X U)
  BY <1>1, <1>3
<1> HIDE DEF N
<1> QED BY <1>2, <1>4, <1>5, <1>6, <1>7

IsTransitive(T) == \A a, b, c : <<a, b>> \in T /\ <<b, c>> \in T => <<a, c>> \in T

(* What a finite relation mentions is finite. *)
LEMMA MentionedFinite ==
  ASSUME NEW R, IsFiniteSet(R)
  PROVE  IsFiniteSet(Mentioned(R))
<1> DEFINE first == [r \in R |-> r[1]]
           second == [r \in R |-> r[2]]
<1>1. IsFiniteSet({first[r] : r \in R})
  BY ImageFinite
<1>2. IsFiniteSet({second[r] : r \in R})
  BY ImageFinite
<1>3. Mentioned(R) = {first[r] : r \in R} \cup {second[r] : r \in R}
  BY DEF Mentioned
<1> QED BY <1>1, <1>2, <1>3, FS_Union

(* Closure is the transitive closure of a finite relation. *)
LEMMA ClosureIsLeast ==
  ASSUME NEW U, NEW R \in SUBSET (U \X U), IsFiniteSet(Mentioned(R))
  PROVE  /\ Closure(R) \in SUBSET (U \X U)
         /\ R \subseteq Closure(R)
         /\ IsTransitive(Closure(R))
         /\ \A a, b : <<a, b>> \in Closure(R) => a \in Mentioned(R) /\ b \in Mentioned(R)
         /\ \A T : R \subseteq T /\ (\A a, b, c : <<a, b>> \in T /\ <<b, c>> \in R => <<a, c>> \in T)
                     => Closure(R) \subseteq T
<1> DEFINE V == Mentioned(R)
           C == Closure(R)
<1>1. /\ C \in SUBSET (U \X U)
      /\ R \subseteq C
      /\ GoesOn(C, R, V)
      /\ \A T : R \subseteq T /\ GoesOn(T, R, V) => C \subseteq T
  BY ThroughIsLeast DEF Closure
<1> HIDE DEF C
<1>2. \A a, b : <<a, b>> \in R => a \in V /\ b \in V
  BY DEF Mentioned
<1>3. ASSUME NEW T, R \subseteq T, \A a, b, c : <<a, b>> \in T /\ <<b, c>> \in R => <<a, c>> \in T
      PROVE  C \subseteq T
  <2>1. GoesOn(T, R, V)
    BY <1>3 DEF GoesOn
  <2> QED BY <1>1, <1>3, <2>1
<1>4. \A a, b : <<a, b>> \in C => a \in V /\ b \in V
  <2>1. R \subseteq V \X V
    <3> SUFFICES ASSUME NEW r \in R PROVE r \in V \X V
      OBVIOUS
    <3>1. r = <<r[1], r[2]>>
      OBVIOUS
    <3> QED BY <1>2, <3>1
  <2>2. C \subseteq V \X V
    <3>1. \A a, b, c : <<a, b>> \in V \X V /\ <<b, c>> \in R => <<a, c>> \in V \X V
      BY <1>2
    <3> HIDE DEF V
    <3> QED BY <1>3, <2>1, <3>1
  <2> QED BY <2>2
<1>5. IsTransitive(C)
  <2> DEFINE T == {z \in C : \A a : <<a, z[1]>> \in C => <<a, z[2]>> \in C}
  <2>1. \A b, c : <<b, c>> \in T <=> <<b, c>> \in C /\ \A a : <<a, b>> \in C => <<a, c>> \in C
    OBVIOUS
  <2>2. R \subseteq T
    <3> SUFFICES ASSUME NEW r \in R PROVE r \in T
      OBVIOUS
    <3>1. r = <<r[1], r[2]>> /\ r \in C
      BY <1>1
    <3>2. \A a : <<a, r[1]>> \in C => <<a, r[2]>> \in C
      BY <1>1, <1>2, <3>1 DEF GoesOn
    <3> QED BY <3>1, <3>2
  <2>3. \A a, b, c : <<a, b>> \in T /\ <<b, c>> \in R => <<a, c>> \in T
    BY <1>1, <1>2, <2>1 DEF GoesOn
  <2> HIDE DEF T
  <2>4. C \subseteq T
    BY <1>3, <2>2, <2>3
  <2> QED BY <2>1, <2>4 DEF IsTransitive
<1> QED BY <1>1, <1>3, <1>4, <1>5 DEF C

-----------------------------------------------------------------------------
(* The expansion is a matter of the program, which no step changes. *)
LEMMA ExpandedStays ==
  ASSUME program' = program, NEW CONSTANT scc
  PROVE  Expanded(scc)' = Expanded(scc)
<1>1. \A A : CallSites(A)' = CallSites(A)
  BY DEF CallSites, BasicCons, GeneratedCons
<1>2. \A p : SccOf(p)' = SccOf(p)
  BY DEF SccOf, Calls
<1>3. Sccs' = Sccs
  BY <1>2 DEF Sccs
<1> QED BY DEF Expanded, CopyCons, Copies, Sccs, SccOf, Calls, CallSites, BasicCons, GeneratedCons

-----------------------------------------------------------------------------
(* The strongly connected components of the call graph *)

(* Reachability between procedures is transitive. *)
LEMMA CallsReach ==
  ASSUME program \in Programs
  PROVE  IsTransitive(Closure(Calls(program)))
<1> DEFINE R == Calls(program)
<1>1. R \in SUBSET (Procs \X Procs)
  BY ProgramAssumption DEF ProgramType, Calls
<1>2. Mentioned(R) \in SUBSET Procs
  BY <1>1 DEF Mentioned
<1>3. IsFiniteSet(Mentioned(R))
  BY <1>2, ProcsAssumption, FS_Subset
<1> HIDE DEF R
<1> QED BY <1>1, <1>3, ClosureIsLeast DEF R

(* Every member of an SCC has it as its own. *)
LEMMA SccPartition ==
  ASSUME program \in Programs, NEW q \in Procs, NEW p \in SccOf(q)
  PROVE  SccOf(p) = SccOf(q)
<1> DEFINE C == Closure(Calls(program))
           Same(a, b) == b = a \/ (<<a, b>> \in C /\ <<b, a>> \in C)
<1>1. \A a, b, c : <<a, b>> \in C /\ <<b, c>> \in C => <<a, c>> \in C
  BY CallsReach DEF IsTransitive
<1>2. \A a : SccOf(a) = {b \in Procs : Same(a, b)}
  BY DEF SccOf
<1> HIDE DEF C
<1>3. Same(q, p)
  BY <1>2
<1>4. \A b : Same(p, b) <=> Same(q, b)
  BY <1>1, <1>3
<1> HIDE DEF Same
<1> QED BY <1>2, <1>4

(* An ordering lists SCCs, which are sets of procedures. *)
LEMMA MemberOfScc ==
  ASSUME program \in Programs, NEW scc \in Sccs
  PROVE  scc \in SUBSET Procs /\ \A p \in scc : SccOf(p) = scc
<1>1. PICK q \in Procs : scc = SccOf(q)
  BY DEF Sccs
<1> QED BY <1>1, SccsCover, SccPartition

-----------------------------------------------------------------------------
(* The variables of constraints *)

(* What a set of pairs mentions. *)
LEMMA MentionedAre ==
  ASSUME NEW R
  PROVE  \A v : v \in Mentioned(R) <=> \E r \in R : v = r[1] \/ v = r[2]
  BY DEF Mentioned

IsShared(v) == IsGlobal(v) \/ v.name \in LatticeElements

\* Type variables, and the loop breakers.
Names == Procs \cup Globals \cup LatticeElements \cup Locals \cup Nat
Variables == [name : Names, tag : Tags \cup {NoTag}, port : Ports \cup {NoPort}]

\* What the constraints of an SCC may mention, its callees' parameters included.
MayMention(v, scc) ==
  /\ v \in Variables
  /\ v.name \in Procs <=> v.port # NoPort
  /\ v.name \in Procs /\ v.tag = NoTag => v.name \in scc
  /\ v.tag # NoTag => \E f : <<f, v.tag>> \in CallSites(scc) /\ v.name \in SccOf(f)

(* The constraints generated for an SCC: tags that are left are callsites out *)
(* of it.                                                                     *)
LEMMA BasicVariables ==
  ASSUME program \in Programs, NEW scc \in SUBSET Procs
  PROVE  /\ BasicCons(scc) \in SUBSET (TypeVars \X TypeVars)
         /\ \A v \in Mentioned(BasicCons(scc)) :
              /\ v \in TypeVars
              /\ v.name \in Procs <=> v.port # NoPort
              /\ v.name \in Procs /\ v.tag = NoTag => v.name \in scc
              /\ v.tag # NoTag =>
                   /\ v.name \in Procs \ scc /\ <<v.name, v.tag>> \in CallSites(scc)
                   /\ \E p \in scc : v \in Mentioned(program.code[p])
<1>1. ASSUME NEW w \in Mentioned(GeneratedCons(scc)), NEW v, v = RemoveTag(w, scc)
      PROVE  /\ v \in TypeVars
             /\ v.name \in Procs <=> v.port # NoPort
             /\ v.name \in Procs /\ v.tag = NoTag => v.name \in scc
             /\ v.tag # NoTag => v.name \in Procs \ scc /\ v = w
  <2>1. PICK p \in scc : w \in Mentioned(program.code[p])
    BY DEF Mentioned, GeneratedCons
  <2>2. program.code[p] \in SUBSET (TypeVars \X TypeVars)
    BY <2>1, ProgramAssumption DEF ProgramType
  <2>3. w \in TypeVars
    BY <2>1, <2>2 DEF Mentioned
  <2>4. w \in Mentioned(program.code[p] \cup program.additional[p])
    BY <2>1 DEF Mentioned
  <2>5. /\ w.name \in Procs <=> w.port # NoPort
        /\ w.name \in Procs /\ w.tag = NoTag => w.name = p
    BY <2>1, <2>4, FormalsAssumption
  <2>6. w.tag # NoTag => w.name \in Procs
    <3>1. w.tag # NoTag => <<p, w.name>> \in Calls(program)
      BY <2>1, ProgramAssumption
    <3>2. Calls(program) \subseteq Procs \X Procs
      BY ProgramAssumption DEF ProgramType, Calls
    <3> QED BY <3>1, <3>2
  <2>7. CASE w.tag # NoTag /\ w.name \in scc
    <3>1. v = [w EXCEPT !.tag = NoTag]
      BY <1>1, <2>7 DEF RemoveTag
    <3>2. v \in TypeVars /\ v.name = w.name /\ v.port = w.port /\ v.tag = NoTag
      BY <2>3, <3>1 DEF TypeVars
    <3> QED BY <2>5, <2>7, <3>2
  <2>8. CASE ~(w.tag # NoTag /\ w.name \in scc)
    <3>1. v = w
      BY <1>1, <2>8 DEF RemoveTag
    <3> QED BY <2>1, <2>3, <2>5, <2>6, <2>8, <3>1
  <2> QED BY <2>7, <2>8
<1>2. ASSUME NEW c \in BasicCons(scc)
      PROVE  /\ c \in TypeVars \X TypeVars
             /\ \E w \in Mentioned(GeneratedCons(scc)) : c[1] = RemoveTag(w, scc)
             /\ \E w \in Mentioned(GeneratedCons(scc)) : c[2] = RemoveTag(w, scc)
  <2>1. PICK g \in GeneratedCons(scc) : c = <<RemoveTag(g[1], scc), RemoveTag(g[2], scc)>>
    BY DEF BasicCons
  <2>2. g[1] \in Mentioned(GeneratedCons(scc)) /\ g[2] \in Mentioned(GeneratedCons(scc))
    BY DEF Mentioned
  <2>3. RemoveTag(g[1], scc) \in TypeVars /\ RemoveTag(g[2], scc) \in TypeVars
    BY <1>1, <2>2
  <2> QED BY <2>1, <2>2, <2>3
<1>3. ASSUME NEW v \in Mentioned(BasicCons(scc))
      PROVE  \E w \in Mentioned(GeneratedCons(scc)) : v = RemoveTag(w, scc)
  BY <1>2, MentionedAre
<1>4. ASSUME NEW v \in Mentioned(BasicCons(scc)), v.tag # NoTag
      PROVE  /\ <<v.name, v.tag>> \in CallSites(scc)
             /\ \E p \in scc : v \in Mentioned(program.code[p])
  <2>1. <<v.name, v.tag>> \in CallSites(scc)
    BY <1>4 DEF CallSites, CalledFormals
  <2>2. v \in Mentioned(GeneratedCons(scc))
    BY <1>1, <1>3, <1>4
  <2> QED BY <2>1, <2>2 DEF Mentioned, GeneratedCons
<1> QED BY <1>1, <1>2, <1>3, <1>4

(* A callsite out of an SCC, and the procedure called. *)
LEMMA CallSitesAre ==
  ASSUME program \in Programs, NEW scc \in SUBSET Procs
  PROVE  /\ \A s \in CallSites(scc) :
              /\ s = <<s[1], s[2]>> /\ s[1] \in Procs \ scc /\ s[2] \in Tags /\ s[2] # NoTag
              /\ \E p \in scc : \E v \in Mentioned(program.code[p]) : v.name = s[1] /\ v.tag = s[2]
         /\ \A f, g, t : <<f, t>> \in CallSites(scc) /\ <<g, t>> \in CallSites(scc) => f = g
<1>1. ASSUME NEW s \in CallSites(scc)
      PROVE  /\ s = <<s[1], s[2]>> /\ s[1] \in Procs \ scc /\ s[2] \in Tags /\ s[2] # NoTag
             /\ \E p \in scc : \E v \in Mentioned(program.code[p]) : v.name = s[1] /\ v.tag = s[2]
  <2>1. PICK v \in Mentioned(BasicCons(scc)) : v.tag # NoTag /\ s = <<v.name, v.tag>>
    BY DEF CallSites, CalledFormals
  <2>2. v \in TypeVars /\ v.name \in Procs \ scc /\ \E p \in scc : v \in Mentioned(program.code[p])
    BY <2>1, BasicVariables
  <2>3. v.tag \in Tags
    BY <2>1, <2>2 DEF TypeVars
  <2> QED BY <2>1, <2>2, <2>3
<1>2. ASSUME NEW f, NEW g, NEW t, <<f, t>> \in CallSites(scc), <<g, t>> \in CallSites(scc)
      PROVE  f = g
  <2>1. PICK p \in scc : \E v \in Mentioned(program.code[p]) : v.name = f /\ v.tag = t
    BY <1>1, <1>2
  <2>2. PICK q \in scc : \E v \in Mentioned(program.code[q]) : v.name = g /\ v.tag = t
    BY <1>1, <1>2
  <2>3. t # NoTag
    BY <1>1, <1>2
  <2> QED BY <2>1, <2>2, <2>3, CallSitesAssumption
<1> QED BY <1>1, <1>2

(* Constraint sets are finite, as programs are. *)
LEMMA BasicConsFinite ==
  ASSUME program \in Programs, NEW scc \in SUBSET Procs
  PROVE  /\ IsFiniteSet(BasicCons(scc))
         /\ IsFiniteSet(UNION {program.additional[p] : p \in scc})
         /\ IsFiniteSet(CallSites(scc))
<1>1. IsFiniteSet(scc)
  BY ProcsAssumption, FS_Subset
<1>2. IsFiniteSet(GeneratedCons(scc))
  <2> DEFINE of == [p \in scc |-> program.code[p]]
  <2>1. IsFiniteSet({of[p] : p \in scc})
    BY <1>1, ImageFinite
  <2>2. \A X \in {of[p] : p \in scc} : IsFiniteSet(X)
    <3> SUFFICES ASSUME NEW X \in {of[p] : p \in scc} PROVE IsFiniteSet(X)
      OBVIOUS
    <3>1. PICK p \in scc : X = program.code[p]
      OBVIOUS
    <3> QED BY <3>1, FormalsAssumption
  <2>3. IsFiniteSet(UNION {of[p] : p \in scc})
    <3> HIDE DEF of
    <3> QED BY <2>1, <2>2, FS_UNION
  <2>4. GeneratedCons(scc) = UNION {of[p] : p \in scc}
    BY DEF GeneratedCons
  <2> QED BY <2>3, <2>4
<1>3. IsFiniteSet(BasicCons(scc))
  <2> DEFINE G == GeneratedCons(scc)
             of == [c \in G |-> <<RemoveTag(c[1], scc), RemoveTag(c[2], scc)>>]
  <2>1. IsFiniteSet({of[c] : c \in G})
    BY <1>2, ImageFinite
  <2>2. BasicCons(scc) = {of[c] : c \in G}
    BY DEF BasicCons
  <2> QED BY <2>1, <2>2
<1>4. IsFiniteSet(UNION {program.additional[p] : p \in scc})
  <2> DEFINE of == [p \in scc |-> program.additional[p]]
  <2>1. IsFiniteSet({of[p] : p \in scc})
    BY <1>1, ImageFinite
  <2>2. \A X \in {of[p] : p \in scc} : IsFiniteSet(X)
    <3> SUFFICES ASSUME NEW X \in {of[p] : p \in scc} PROVE IsFiniteSet(X)
      OBVIOUS
    <3>1. PICK p \in scc : X = program.additional[p]
      OBVIOUS
    <3> QED BY <3>1, FormalsAssumption
  <2>3. IsFiniteSet(UNION {of[p] : p \in scc})
    <3> HIDE DEF of
    <3> QED BY <2>1, <2>2, FS_UNION
  <2>4. {program.additional[p] : p \in scc} = {of[p] : p \in scc}
    OBVIOUS
  <2> QED BY <2>3, <2>4
<1>5. IsFiniteSet(CallSites(scc))
  <2> DEFINE V == {x \in Mentioned(BasicCons(scc)) : x.tag # NoTag}
             of == [v \in V |-> <<v.name, v.tag>>]
  <2>1. IsFiniteSet(Mentioned(BasicCons(scc)))
    BY <1>3, MentionedFinite
  <2>2. IsFiniteSet(V)
    BY <2>1, FS_Subset
  <2>3. IsFiniteSet({of[v] : v \in V})
    <3> HIDE DEF V
    <3> QED BY <2>2, ImageFinite
  <2>4. CallSites(scc) = {of[v] : v \in V}
    BY DEF CallSites, CalledFormals
  <2> QED BY <2>3, <2>4
<1> QED BY <1>3, <1>4, <1>5

-----------------------------------------------------------------------------
(* The copies of an expansion *)

Contexts == Seq(Tags)

\* The copies one call deeper than X.
Deeper(X) ==
  UNION {{<<Append(c[1], s[2]), SccOf(s[1])>> : s \in CallSites(c[2])} : c \in X}

(* Which those are. *)
LEMMA DeeperAre ==
  ASSUME program \in Programs, NEW X \in SUBSET (Contexts \X SUBSET Procs)
  PROVE  /\ Deeper(X) \in SUBSET (Contexts \X SUBSET Procs)
         /\ \A z : z \in Deeper(X) <=>
              \E c \in X : \E s \in CallSites(c[2]) : z = <<Append(c[1], s[2]), SccOf(s[1])>>
<1>1. \A z : z \in Deeper(X) <=>
        \E c \in X : \E s \in CallSites(c[2]) : z = <<Append(c[1], s[2]), SccOf(s[1])>>
  BY DEF Deeper
<1>2. ASSUME NEW c \in X, NEW s \in CallSites(c[2])
      PROVE  <<Append(c[1], s[2]), SccOf(s[1])>> \in Contexts \X SUBSET Procs
  <2>1. c[1] \in Seq(Tags) /\ c[2] \in SUBSET Procs
    BY DEF Contexts
  <2>2. s[2] \in Tags /\ s[1] \in Procs
    BY <2>1, CallSitesAre
  <2>3. SccOf(s[1]) \in SUBSET Procs
    BY DEF SccOf
  <2>4. Append(c[1], s[2]) \in Seq(Tags)
    BY <2>1, <2>2
  <2> QED BY <2>3, <2>4 DEF Contexts
<1> QED BY <1>1, <1>2

AreCopies(h, root) ==
  /\ h[0] = {<<<<>>, root>>}
  /\ \A k \in Nat : h[k] \in SUBSET (Contexts \X SUBSET Procs) /\ h[k+1] = Deeper(h[k])

(* The copies at each depth exist. *)
LEMMA CopiesExist ==
  ASSUME program \in Programs, NEW root \in SUBSET Procs
  PROVE  \E h : AreCopies(h, root) /\ \A n : Copies(root, n) = UNION {h[k] : k \in 0 .. n}
<1> DEFINE S == SUBSET (Contexts \X SUBSET Procs)
           base == {<<<<>>, root>>}
           step == [X \in S |-> Deeper(X)]
           Eq(f) == f = [k \in Nat |-> IF k = 0 THEN base ELSE Deeper(f[k-1])]
           h == CHOOSE f : Eq(f)
<1>1. base \in S /\ step \in [S -> S]
  <2>1. <<>> \in Contexts
    BY DEF Contexts
  <2>2. \A X \in S : Deeper(X) \in S
    BY DeeperAre
  <2> QED BY <2>1, <2>2
<1>2. PICK g \in [Nat -> S] : IsIteration(g, base, step)
  <2> HIDE DEF S, step, base
  <2> QED BY <1>1, IterationExists
<1>3. \E f : Eq(f)
  <2>1. \A n \in Nat : n # 0 => n-1 \in Nat /\ (n-1)+1 = n
    OBVIOUS
  <2>2. \A n \in Nat : g[n] = IF n = 0 THEN base ELSE Deeper(g[n-1])
    <3> HIDE DEF S, base
    <3> QED BY <1>2, <2>1 DEF IsIteration
  <2>3. g = [n \in Nat |-> g[n]]
    BY <1>2
  <2> HIDE DEF base
  <2> QED BY <2>2, <2>3
<1>4. Eq(h)
  <2> HIDE DEF Eq
  <2> QED BY <1>3
<1>5. h[0] = base /\ \A n \in Nat : h[n+1] = Deeper(h[n])
  <2> HIDE DEF h, base
  <2>1. \A n \in Nat : h[n] = IF n = 0 THEN base ELSE Deeper(h[n-1])
    BY <1>4
  <2>2. \A n \in Nat : n+1 \in Nat /\ n+1 # 0 /\ (n+1)-1 = n
    OBVIOUS
  <2> QED BY <2>1, <2>2
<1>6. \A n \in Nat : h[n] \in S
  <2> DEFINE T == {n \in Nat : h[n] \in S}
  <2>1. 0 \in T
    BY <1>1, <1>5
  <2>2. \A n \in Nat : n \in T => n+1 \in T
    <3>1. \A X \in S : Deeper(X) \in S
      BY DeeperAre
    <3> HIDE DEF h, S
    <3> QED BY <1>5, <3>1
  <2>3. \A n \in Nat : n \in T
    <3> HIDE DEF T
    <3> QED BY <2>1, <2>2, NatSetInduction
  <2> QED BY <2>3
<1>7. \A n : Copies(root, n) = UNION {h[k] : k \in 0 .. n}
  BY DEF Copies, Deeper
<1>8. AreCopies(h, root)
  <2> HIDE DEF h
  <2> QED BY <1>5, <1>6 DEF AreCopies
<1> QED BY <1>7, <1>8

(* A copy is deeper than its caller's in any topological order: there are no  *)
(* copies deeper than there are SCCs.                                         *)
LEMMA CopiesEnd ==
  ASSUME program \in Programs, NEW order0 \in Orderings, NEW root \in Sccs,
         NEW h, AreCopies(h, root)
  PROVE  \A k \in Nat : h[k] # {} => k < Cardinality(Sccs)
<1> DEFINE N == Cardinality(Sccs)
           T == {k \in Nat : \A c \in h[k] : \E j \in k+1 .. N : c[2] = order0[j]}
<1>1. /\ N \in Nat
      /\ order0 \in [1 .. N -> Sccs]
      /\ {order0[i] : i \in 1 .. N} = Sccs
      /\ Len(order0) = N
  <2>1. N \in Nat
    BY SccsCover
  <2>2. order0 \in [1 .. N -> Sccs] /\ {order0[i] : i \in 1 .. N} = Sccs
    BY DEF Orderings
  <2> QED BY <2>1, <2>2
<1>2. \A k \in Nat : h[k] \in SUBSET (Contexts \X SUBSET Procs) /\ h[k+1] = Deeper(h[k])
  BY DEF AreCopies
<1> HIDE DEF N
<1>3. 0 \in T
  <2>1. \E j \in 1 .. N : order0[j] = root
    BY <1>1
  <2>2. \A c \in h[0] : c[2] = root
    BY DEF AreCopies
  <2> QED BY <2>1, <2>2
<1>4. ASSUME NEW k \in Nat, k \in T PROVE k+1 \in T
  <2> SUFFICES ASSUME NEW d \in h[k+1] PROVE \E j \in (k+1)+1 .. N : d[2] = order0[j]
    OBVIOUS
  <2> DEFINE X == h[k]
  <2>1. X \in SUBSET (Contexts \X SUBSET Procs) /\ d \in Deeper(X)
    BY <1>2
  <2> HIDE DEF X
  <2>2. PICK c \in X : \E s \in CallSites(c[2]) : d = <<Append(c[1], s[2]), SccOf(s[1])>>
    BY <2>1, DeeperAre
  <2>3. PICK s \in CallSites(c[2]) : d = <<Append(c[1], s[2]), SccOf(s[1])>>
    BY <2>2
  <2>4. PICK i \in k+1 .. N : c[2] = order0[i]
    BY <1>4 DEF X
  <2>5. i \in 1 .. Len(order0) /\ i \in Nat
    BY <1>1, <2>4
  <2>6. s \in CalledFormals(BasicCons(order0[i]))
    BY <2>3, <2>4 DEF CallSites
  <2>7. PICK j \in i+1 .. N : s[1] \in order0[j]
    BY <1>1, <2>5, <2>6, CalleesBehind
  <2>8. order0[j] \in Sccs
    BY <1>1, <2>5, <2>7
  <2>9. d[2] = order0[j]
    BY <2>3, <2>7, <2>8, MemberOfScc
  <2> QED BY <1>1, <2>4, <2>5, <2>7, <2>9
<1>5. \A k \in Nat : k \in T
  <2> HIDE DEF T
  <2> QED BY <1>3, <1>4, NatSetInduction
<1>6. ASSUME NEW k \in Nat, NEW c \in h[k] PROVE k < N
  BY <1>1, <1>5
<1> QED BY <1>6 DEF N

(* The copies of an expansion, seen from its outermost calls. *)
LEMMA CopiesSplit ==
  ASSUME program \in Programs, Orderings # {}, NEW root \in Sccs
  PROVE  /\ Copies(root, Cardinality(Sccs)) \in SUBSET (Contexts \X SUBSET Procs)
         /\ \A z : z \in Copies(root, Cardinality(Sccs)) <=>
              \/ z = <<<<>>, root>>
              \/ \E s \in CallSites(root) : \E c \in Copies(SccOf(s[1]), Cardinality(Sccs)) :
                   z = <<<<s[2]>> \o c[1], c[2]>>
<1> DEFINE N == Cardinality(Sccs)
           S == SUBSET (Contexts \X SUBSET Procs)
           Sub(f) == CHOOSE g : AreCopies(g, SccOf(f)) /\ \A n : Copies(SccOf(f), n) = UNION {g[k] : k \in 0 .. n}
<1>1. N \in Nat
  BY SccsCover
<1>2. root \in SUBSET Procs
  BY MemberOfScc
<1>3. PICK h : AreCopies(h, root) /\ \A n : Copies(root, n) = UNION {h[k] : k \in 0 .. n}
  BY <1>2, CopiesExist
<1>4. \A s \in CallSites(root) : s[1] \in Procs /\ s[2] \in Tags /\ SccOf(s[1]) \in SUBSET Procs /\ SccOf(s[1]) \in Sccs
  BY <1>2, CallSitesAre, SccsCover
<1>5. \A s \in CallSites(root) :
        /\ AreCopies(Sub(s[1]), SccOf(s[1]))
        /\ \A n : Copies(SccOf(s[1]), n) = UNION {Sub(s[1])[k] : k \in 0 .. n}
  <2> SUFFICES ASSUME NEW s \in CallSites(root)
               PROVE  /\ AreCopies(Sub(s[1]), SccOf(s[1]))
                      /\ \A n : Copies(SccOf(s[1]), n) = UNION {Sub(s[1])[k] : k \in 0 .. n}
    OBVIOUS
  <2> DEFINE A == SccOf(s[1])
             Good(g) == AreCopies(g, A) /\ \A n : Copies(A, n) = UNION {g[k] : k \in 0 .. n}
  <2>1. A \in SUBSET Procs
    BY <1>4
  <2>2. \E g : Good(g)
    <3> HIDE DEF A
    <3> QED BY <2>1, CopiesExist
  <2>3. Sub(s[1]) = CHOOSE g : Good(g)
    OBVIOUS
  <2> HIDE DEF Good, Sub
  <2>4. Good(Sub(s[1]))
    BY <2>2, <2>3
  <2> QED BY <2>4 DEF Good
<1> HIDE DEF Sub
<1>6. h[0] = {<<<<>>, root>>} /\ \A k \in Nat : h[k] \in S /\ h[k+1] = Deeper(h[k])
  BY <1>3 DEF AreCopies
<1>7. \A s \in CallSites(root) :
        /\ Sub(s[1])[0] = {<<<<>>, SccOf(s[1])>>}
        /\ \A k \in Nat : Sub(s[1])[k] \in S /\ Sub(s[1])[k+1] = Deeper(Sub(s[1])[k])
  BY <1>5 DEF AreCopies
<1> DEFINE Below(k, z) == \E s \in CallSites(root) : \E c \in Sub(s[1])[k] : z = <<<<s[2]>> \o c[1], c[2]>>
           T == {k \in Nat : \A z : z \in h[k+1] <=> Below(k, z)}
<1>8. 0 \in T
  <2> SUFFICES ASSUME NEW z PROVE z \in h[0+1] <=> Below(0, z)
    OBVIOUS
  <2> DEFINE X == h[0]
  <2>1. X = {<<<<>>, root>>} /\ X \in SUBSET (Contexts \X SUBSET Procs) /\ h[0+1] = Deeper(X)
    BY <1>6
  <2> HIDE DEF X
  <2>2. z \in Deeper(X) <=> \E c \in X : \E s \in CallSites(c[2]) : z = <<Append(c[1], s[2]), SccOf(s[1])>>
    <3>1. X \in SUBSET (Contexts \X SUBSET Procs)
      BY <2>1
    <3>2. \A y : y \in Deeper(X) <=>
            \E c \in X : \E s \in CallSites(c[2]) : y = <<Append(c[1], s[2]), SccOf(s[1])>>
      BY <3>1, DeeperAre
    <3> QED BY <3>2
  <2>3. z \in Deeper(X) <=> \E s \in CallSites(root) : z = <<Append(<<>>, s[2]), SccOf(s[1])>>
    BY <2>1, <2>2
  <2>4. \A s \in CallSites(root) : Append(<<>>, s[2]) = <<s[2]>> \o <<>>
    BY <1>4
  <2>5. Below(0, z) <=> \E s \in CallSites(root) : z = <<<<s[2]>> \o <<>>, SccOf(s[1])>>
    <3>1. \A s \in CallSites(root) :
            (\E c \in Sub(s[1])[0] : z = <<<<s[2]>> \o c[1], c[2]>>)
              <=> z = <<<<s[2]>> \o <<>>, SccOf(s[1])>>
      <4> SUFFICES ASSUME NEW s \in CallSites(root)
                   PROVE  (\E c \in Sub(s[1])[0] : z = <<<<s[2]>> \o c[1], c[2]>>)
                            <=> z = <<<<s[2]>> \o <<>>, SccOf(s[1])>>
        OBVIOUS
      <4> DEFINE Y == Sub(s[1])[0]
      <4>1. Y = {<<<<>>, SccOf(s[1])>>}
        BY <1>7
      <4> HIDE DEF Y
      <4>2. (\E c \in Y : z = <<<<s[2]>> \o c[1], c[2]>>) <=> z = <<<<s[2]>> \o <<>>, SccOf(s[1])>>
        BY <4>1
      <4> QED BY <4>2 DEF Y
    <3> QED BY <3>1
  <2> QED BY <2>1, <2>3, <2>4, <2>5
<1>9. ASSUME NEW k \in Nat, k \in T PROVE k+1 \in T
  <2> SUFFICES \A z : z \in h[(k+1)+1] <=> Below(k+1, z)
    <3> HIDE DEF Below
    <3> QED OBVIOUS
  <2> SUFFICES ASSUME NEW z PROVE z \in h[(k+1)+1] <=> Below(k+1, z)
    <3> HIDE DEF Below
    <3> QED OBVIOUS
  <2> DEFINE X == h[k+1]
  <2>1. X \in SUBSET (Contexts \X SUBSET Procs) /\ h[(k+1)+1] = Deeper(X)
    BY <1>6
  <2>2. \A y : y \in X <=> Below(k, y)
    <3> HIDE DEF Below
    <3> QED BY <1>9
  <2> HIDE DEF X
  <2>3. z \in Deeper(X) <=> \E d \in X : \E r \in CallSites(d[2]) : z = <<Append(d[1], r[2]), SccOf(r[1])>>
    BY <2>1, DeeperAre
  <2>4. ASSUME NEW s \in CallSites(root), NEW c \in Sub(s[1])[k], NEW r \in CallSites(c[2])
        PROVE  Append(<<s[2]>> \o c[1], r[2]) = <<s[2]>> \o Append(c[1], r[2])
    <3>1. c \in Contexts \X SUBSET Procs
      BY <1>7
    <3>2. c[1] \in Seq(Tags) /\ c[2] \in SUBSET Procs
      BY <3>1 DEF Contexts
    <3>3. r[2] \in Tags /\ s[2] \in Tags
      BY <1>4, <3>2, CallSitesAre
    <3> HIDE DEF Sub
    <3> QED BY <3>2, <3>3
  <2>5. ASSUME NEW s \in CallSites(root)
        PROVE  \A y : y \in Sub(s[1])[k+1] <=>
                 \E c \in Sub(s[1])[k] : \E r \in CallSites(c[2]) : y = <<Append(c[1], r[2]), SccOf(r[1])>>
    <3> DEFINE Y == Sub(s[1])[k]
    <3>1. Y \in S /\ Sub(s[1])[k+1] = Deeper(Y)
      BY <1>7
    <3> HIDE DEF Y
    <3>2. \A y : y \in Deeper(Y) <=>
            \E c \in Y : \E r \in CallSites(c[2]) : y = <<Append(c[1], r[2]), SccOf(r[1])>>
      BY <3>1, DeeperAre
    <3> QED BY <3>1, <3>2 DEF Y
  <2>6. ASSUME z \in Deeper(X) PROVE Below(k+1, z)
    <3>1. PICK d \in X : \E r \in CallSites(d[2]) : z = <<Append(d[1], r[2]), SccOf(r[1])>>
      BY <2>3, <2>6
    <3>2. PICK r \in CallSites(d[2]) : z = <<Append(d[1], r[2]), SccOf(r[1])>>
      BY <3>1
    <3>3. PICK s \in CallSites(root) : \E c \in Sub(s[1])[k] : d = <<<<s[2]>> \o c[1], c[2]>>
      BY <2>2
    <3>4. PICK c \in Sub(s[1])[k] : d = <<<<s[2]>> \o c[1], c[2]>>
      BY <3>3
    <3>5. d[1] = <<s[2]>> \o c[1] /\ d[2] = c[2] /\ r \in CallSites(c[2])
      BY <3>4
    <3>6. z = <<<<s[2]>> \o Append(c[1], r[2]), SccOf(r[1])>>
      BY <2>4, <3>2, <3>5
    <3>7. <<Append(c[1], r[2]), SccOf(r[1])>> \in Sub(s[1])[k+1]
      BY <2>5, <3>5
    <3> QED BY <3>6, <3>7
  <2>7. ASSUME Below(k+1, z) PROVE z \in Deeper(X)
    <3>1. PICK s \in CallSites(root) : \E y \in Sub(s[1])[k+1] : z = <<<<s[2]>> \o y[1], y[2]>>
      BY <2>7
    <3>2. PICK y \in Sub(s[1])[k+1] : z = <<<<s[2]>> \o y[1], y[2]>>
      BY <3>1
    <3>3. PICK c \in Sub(s[1])[k] : \E r \in CallSites(c[2]) : y = <<Append(c[1], r[2]), SccOf(r[1])>>
      BY <2>5, <3>2
    <3>4. PICK r \in CallSites(c[2]) : y = <<Append(c[1], r[2]), SccOf(r[1])>>
      BY <3>3
    <3> DEFINE d == <<<<s[2]>> \o c[1], c[2]>>
    <3>5. d \in X /\ d[1] = <<s[2]>> \o c[1] /\ d[2] = c[2]
      BY <2>2
    <3>6. z = <<Append(d[1], r[2]), SccOf(r[1])>>
      BY <2>4, <3>2, <3>4, <3>5
    <3> QED BY <2>3, <3>5, <3>6
  <2> QED BY <2>1, <2>6, <2>7
<1>10. \A k \in Nat : k \in T
  <2> HIDE DEF T
  <2> QED BY <1>8, <1>9, NatSetInduction
<1>11. \A k \in Nat : \A z : z \in h[k+1] <=> Below(k, z)
  BY <1>10
<1>12. PICK o \in Orderings : TRUE
  OBVIOUS
<1>13. \A s \in CallSites(root) : \A k \in Nat : Sub(s[1])[k] # {} => k + 1 \in 0 .. N
  <2> SUFFICES ASSUME NEW s \in CallSites(root), NEW k \in Nat, Sub(s[1])[k] # {} PROVE k + 1 \in 0 .. N
    OBVIOUS
  <2>1. AreCopies(Sub(s[1]), SccOf(s[1])) /\ SccOf(s[1]) \in Sccs
    BY <1>4, <1>5
  <2>2. k < N
    BY <2>1, <1>12, CopiesEnd
  <2> QED BY <1>1, <2>2
<1> DEFINE All == Copies(root, N)
<1>14. \A z : z \in All <=> \E k \in 0 .. N : z \in h[k]
  BY <1>3
<1>15. \A s \in CallSites(root) : \A c : c \in Copies(SccOf(s[1]), N) <=> \E k \in 0 .. N : c \in Sub(s[1])[k]
  BY <1>5
<1> HIDE DEF All, T, Below, N
<1>16. ASSUME NEW z \in All
       PROVE  \/ z = <<<<>>, root>>
              \/ \E s \in CallSites(root) : \E c \in Copies(SccOf(s[1]), N) : z = <<<<s[2]>> \o c[1], c[2]>>
  <2>1. PICK k \in 0 .. N : z \in h[k]
    BY <1>14
  <2>2. CASE k = 0
    BY <1>6, <2>1, <2>2
  <2>3. CASE k # 0
    <3>1. k-1 \in Nat /\ k-1 \in 0 .. N /\ (k-1)+1 = k
      BY <1>1, <2>1, <2>3
    <3>2. Below(k-1, z)
      BY <1>11, <2>1, <3>1
    <3>3. PICK s \in CallSites(root) : \E c \in Sub(s[1])[k-1] : z = <<<<s[2]>> \o c[1], c[2]>>
      BY <3>2 DEF Below
    <3> QED BY <1>15, <3>1, <3>3
  <2> QED BY <2>2, <2>3
<1>17. <<<<>>, root>> \in All
  BY <1>1, <1>6, <1>14
<1>18. ASSUME NEW s \in CallSites(root), NEW c \in Copies(SccOf(s[1]), N)
       PROVE  <<<<s[2]>> \o c[1], c[2]>> \in All
  <2>1. PICK k \in 0 .. N : c \in Sub(s[1])[k]
    BY <1>15
  <2>2. k \in Nat /\ k+1 \in 0 .. N
    BY <1>1, <1>13, <2>1
  <2>3. Below(k, <<<<s[2]>> \o c[1], c[2]>>)
    BY <2>1 DEF Below
  <2>4. <<<<s[2]>> \o c[1], c[2]>> \in h[k+1]
    BY <1>11, <2>2, <2>3
  <2> QED BY <1>14, <2>2, <2>4
<1>19. All \in S
  <2>1. \A k \in 0 .. N : h[k] \in S
    BY <1>1, <1>6
  <2> QED BY <1>14, <2>1
<1> QED BY <1>16, <1>17, <1>18, <1>19 DEF All, N

-----------------------------------------------------------------------------
(* Closures *)

(* Closure is the transitive closure of a finite relation. *)
LEMMA FiniteClosure ==
  ASSUME NEW U, NEW R \in SUBSET (U \X U), IsFiniteSet(R)
  PROVE  /\ Closure(R) \in SUBSET (Mentioned(R) \X Mentioned(R))
         /\ R \subseteq Closure(R)
         /\ IsTransitive(Closure(R))
         /\ \A T : R \subseteq T /\ (\A a, b, c : <<a, b>> \in T /\ <<b, c>> \in R => <<a, c>> \in T)
                     => Closure(R) \subseteq T
<1> DEFINE M == Mentioned(R)
<1>1. IsFiniteSet(M)
  BY MentionedFinite
<1>2. \A r \in R : r = <<r[1], r[2]>> /\ r[1] \in M /\ r[2] \in M
  BY MentionedAre
<1>3. R \in SUBSET (M \X M)
  <2> HIDE DEF M
  <2> QED BY <1>2
<1> HIDE DEF M
<1> QED BY <1>1, <1>3, ClosureIsLeast DEF M

(* A map that takes a relation into a transitive one takes its closure there. *)
LEMMA ClosureMaps ==
  ASSUME NEW U, NEW R \in SUBSET (U \X U), IsFiniteSet(R),
         NEW T, IsTransitive(T), NEW f, \A r \in R : <<f[r[1]], f[r[2]]>> \in T
  PROVE  \A a, b : <<a, b>> \in Closure(R) => <<f[a], f[b]>> \in T
<1> DEFINE Q == {r \in Closure(R) : <<f[r[1]], f[r[2]]>> \in T}
<1>1. /\ Closure(R) \in SUBSET (Mentioned(R) \X Mentioned(R))
      /\ R \subseteq Closure(R)
      /\ IsTransitive(Closure(R))
  BY FiniteClosure
<1>2. R \subseteq Q
  BY <1>1
<1>3. ASSUME NEW a, NEW b, NEW c, <<a, b>> \in Q, <<b, c>> \in R PROVE <<a, c>> \in Q
  <2>1. <<a, b>> \in Closure(R) /\ <<f[a], f[b]>> \in T /\ <<b, c>> \in Closure(R)
    BY <1>1, <1>3
  <2>2. <<f[b], f[c]>> \in T
    BY <1>3
  <2> QED BY <1>1, <2>1, <2>2 DEF IsTransitive
<1>4. Closure(R) \subseteq Q
  <2> HIDE DEF Q
  <2> QED BY <1>2, <1>3, FiniteClosure
<1> QED BY <1>4

-----------------------------------------------------------------------------
(* Placed variables *)

\* The variables of an expansion.
Places == [name : Names, tag : Contexts, port : Ports \cup {NoPort}]

\* The variable of a callee's expansion, in the caller's through callsite t.
Prefix(t, w) == IF IsShared(w) THEN w ELSE [w EXCEPT !.tag = <<t>> \o w.tag]

(* A shared variable has the same place everywhere. *)
LEMMA PlacedAre ==
  ASSUME NEW v \in Variables, NEW ctx \in Contexts
  PROVE  /\ Placed(v, ctx) \in Places
         /\ Placed(v, ctx).name = v.name /\ Placed(v, ctx).port = v.port
         /\ Placed(v, ctx).tag = IF IsShared(v) THEN <<>>
                                 ELSE IF v.tag = NoTag THEN ctx ELSE Append(ctx, v.tag)
         /\ IsShared(Placed(v, ctx)) <=> IsShared(v)
<1>1. <<>> \in Seq(Tags) /\ (v.tag # NoTag => Append(ctx, v.tag) \in Seq(Tags))
  BY DEF Variables, Contexts
<1>2. CASE IsShared(v)
  <2>1. Placed(v, ctx) = [v EXCEPT !.tag = <<>>]
    BY <1>2 DEF Placed, IsShared
  <2> QED BY <1>1, <1>2, <2>1 DEF Variables, Places, Contexts, IsShared, IsGlobal
<1>3. CASE ~IsShared(v) /\ v.tag = NoTag
  <2>1. Placed(v, ctx) = [v EXCEPT !.tag = ctx]
    BY <1>3 DEF Placed, IsShared
  <2> QED BY <1>1, <1>3, <2>1 DEF Variables, Places, Contexts, IsShared, IsGlobal
<1>4. CASE ~IsShared(v) /\ v.tag # NoTag
  <2>1. Placed(v, ctx) = [v EXCEPT !.tag = Append(ctx, v.tag)]
    BY <1>4 DEF Placed, IsShared
  <2> QED BY <1>1, <1>4, <2>1 DEF Variables, Places, Contexts, IsShared, IsGlobal
<1> QED BY <1>2, <1>3, <1>4

(* Records are equal when their fields are. *)
LEMMA SamePlace ==
  ASSUME NEW v \in Places, NEW w \in Places, v.name = w.name, v.tag = w.tag, v.port = w.port
  PROVE  v = w
  BY DEF Places

(* So are the variables of constraints. *)
LEMMA SameVariable ==
  ASSUME NEW v \in Variables, NEW w \in Variables, v.name = w.name, v.tag = w.tag, v.port = w.port
  PROVE  v = w
  BY DEF Variables

(* Going through a callsite changes the tag of what is not shared, and no more. *)
LEMMA PrefixIs ==
  ASSUME NEW w \in Places, NEW t \in Tags
  PROVE  /\ Prefix(t, w) \in Places
         /\ Prefix(t, w).name = w.name /\ Prefix(t, w).port = w.port
         /\ Prefix(t, w).tag = IF IsShared(w) THEN w.tag ELSE <<t>> \o w.tag
         /\ IsShared(Prefix(t, w)) <=> IsShared(w)
<1>1. <<t>> \o w.tag \in Seq(Tags)
  BY DEF Places, Contexts
<1> QED BY <1>1 DEF Places, Contexts, Prefix, IsShared, IsGlobal

(* A place behind callsite t is the place of the callee's, with t in front. *)
LEMMA PrefixPlaced ==
  ASSUME NEW v \in Variables, NEW ctx \in Contexts, NEW t \in Tags
  PROVE  Prefix(t, Placed(v, ctx)) = Placed(v, <<t>> \o ctx)
<1> DEFINE w == Placed(v, ctx)
           d == <<t>> \o ctx
<1>1. d \in Contexts
  BY DEF Contexts
<1>2. /\ w \in Places /\ w.name = v.name /\ w.port = v.port
      /\ w.tag = IF IsShared(v) THEN <<>> ELSE IF v.tag = NoTag THEN ctx ELSE Append(ctx, v.tag)
      /\ IsShared(w) <=> IsShared(v)
  BY PlacedAre
<1>3. /\ Placed(v, d) \in Places /\ Placed(v, d).name = v.name /\ Placed(v, d).port = v.port
      /\ Placed(v, d).tag = IF IsShared(v) THEN <<>> ELSE IF v.tag = NoTag THEN d ELSE Append(d, v.tag)
  <2> HIDE DEF d
  <2> QED BY <1>1, PlacedAre
<1> HIDE DEF w
<1>4. /\ Prefix(t, w) \in Places /\ Prefix(t, w).name = w.name /\ Prefix(t, w).port = w.port
      /\ Prefix(t, w).tag = IF IsShared(w) THEN w.tag ELSE <<t>> \o w.tag
  BY <1>2, PrefixIs
<1>5. v.tag # NoTag => <<t>> \o Append(ctx, v.tag) = Append(d, v.tag)
  BY DEF Contexts, Variables
<1> HIDE DEF d
<1>6. Prefix(t, w).tag = Placed(v, d).tag
  <2>1. CASE IsShared(v)
    BY <1>2, <1>3, <1>4, <2>1
  <2>2. CASE ~IsShared(v) /\ v.tag = NoTag
    <3>1. Prefix(t, w).tag = <<t>> \o w.tag /\ w.tag = ctx /\ Placed(v, d).tag = d
      BY <1>2, <1>3, <1>4, <2>2
    <3> QED BY <3>1 DEF d
  <2>3. CASE ~IsShared(v) /\ v.tag # NoTag
    BY <1>2, <1>3, <1>4, <1>5, <2>3
  <2> QED BY <2>1, <2>2, <2>3
<1>7. Prefix(t, w) = Placed(v, d)
  BY <1>2, <1>3, <1>4, <1>6, SamePlace
<1> QED BY <1>7 DEF w, d

(* Different places of a callee stay different places of the caller. *)
LEMMA PrefixInjective ==
  ASSUME NEW v \in Places, NEW w \in Places, NEW t \in Tags, Prefix(t, v) = Prefix(t, w)
  PROVE  v = w
<1>3. /\ Prefix(t, v).name = v.name /\ Prefix(t, v).port = v.port
      /\ Prefix(t, v).tag = IF IsShared(v) THEN v.tag ELSE <<t>> \o v.tag
      /\ IsShared(Prefix(t, v)) <=> IsShared(v)
  BY PrefixIs
<1>4. /\ Prefix(t, w).name = w.name /\ Prefix(t, w).port = w.port
      /\ Prefix(t, w).tag = IF IsShared(w) THEN w.tag ELSE <<t>> \o w.tag
      /\ IsShared(Prefix(t, w)) <=> IsShared(w)
  BY PrefixIs
<1>1. v.name = w.name /\ v.port = w.port /\ (IsShared(v) <=> IsShared(w))
  BY <1>3, <1>4
<1>2. v.tag = w.tag
  <2>1. CASE IsShared(v)
    BY <1>1, <2>1 DEF Prefix
  <2>2. CASE ~IsShared(v)
    <3>1. <<t>> \o v.tag = <<t>> \o w.tag
      BY <1>1, <1>3, <1>4, <2>2
    <3>2. v.tag \in Seq(Tags) /\ w.tag \in Seq(Tags)
      BY DEF Places, Contexts
    <3> DEFINE a == v.tag
               b == w.tag
    <3> HIDE DEF a, b
    <3>3. a \in Seq(Tags) /\ b \in Seq(Tags) /\ <<t>> \o a = <<t>> \o b
      BY <3>1, <3>2 DEF a, b
    <3>4. Len(a) = Len(b)
      BY <3>3
    <3>5. \A i \in 1 .. Len(a) : a[i] = b[i]
      <4> SUFFICES ASSUME NEW i \in 1 .. Len(a) PROVE a[i] = b[i]
        OBVIOUS
      <4>1. (<<t>> \o a)[i+1] = a[i] /\ (<<t>> \o b)[i+1] = b[i]
        BY <3>3, <3>4
      <4> QED BY <3>3, <4>1
    <3>6. a = b
      BY <3>3, <3>4, <3>5
    <3> QED BY <3>6 DEF a, b
  <2> QED BY <2>1, <2>2
<1> QED BY <1>1, <1>2, SamePlace

(* What an SCC's constraints mention is a variable with a place of its own. *)
LEMMA PlacedInjective ==
  ASSUME program \in Programs, NEW scc \in SUBSET Procs,
         NEW v, NEW w, MayMention(v, scc), MayMention(w, scc),
         Placed(v, <<>>) = Placed(w, <<>>)
  PROVE  v = w
<1>1. v \in Variables /\ w \in Variables /\ <<>> \in Contexts
  BY DEF MayMention, Contexts
<1>2. v.name = w.name /\ v.port = w.port /\ (IsShared(v) <=> IsShared(w))
  BY <1>1, PlacedAre
<1>3. ASSUME NEW u, MayMention(u, scc), IsShared(u) PROVE u.tag = NoTag
  <2> SUFFICES ASSUME u.tag # NoTag PROVE FALSE
    OBVIOUS
  <2>1. PICK f : <<f, u.tag>> \in CallSites(scc) /\ u.name \in SccOf(f)
    BY <1>3 DEF MayMention
  <2>2. u.name \in Procs
    BY <2>1 DEF SccOf
  <2> QED BY <1>3, <2>2, NamesAssumption DEF IsShared, IsGlobal
<1>4. v.tag = w.tag
  <2>1. CASE IsShared(v)
    BY <1>2, <1>3, <2>1
  <2>2. CASE ~IsShared(v)
    <3>1. /\ Placed(v, <<>>).tag = IF v.tag = NoTag THEN <<>> ELSE Append(<<>>, v.tag)
          /\ Placed(w, <<>>).tag = IF w.tag = NoTag THEN <<>> ELSE Append(<<>>, w.tag)
      BY <1>1, <1>2, <2>2, PlacedAre
    <3>2. \A x : Append(<<>>, x) = <<x>>
      OBVIOUS
    <3> QED BY <3>1, <3>2
  <2> QED BY <2>1, <2>2
<1> QED BY <1>1, <1>2, <1>4, SameVariable

-----------------------------------------------------------------------------
(* What a caller sees of a callee *)

\* What a signature may mention, apart from loop breakers.
MayShow(u, scc) ==
  MayMention(u, scc) /\ u.tag = NoTag /\ u.name \in scc \cup Globals \cup LatticeElements

(* Instantiating what a signature mentions puts the callsite in front of it. *)
LEMMA RetagIsPrefix ==
  ASSUME program \in Programs, NEW root \in SUBSET Procs, NEW s \in CallSites(root),
         NEW u, MayShow(u, SccOf(s[1]))
  PROVE  /\ MayMention(Retag(u, s[2]), root)
         /\ Placed(Retag(u, s[2]), <<>>) = Prefix(s[2], Placed(u, <<>>))
<1> DEFINE t == s[2]
           A == SccOf(s[1])
           v == Retag(u, t)
<1>1. s = <<s[1], t>> /\ s[1] \in Procs /\ t \in Tags /\ t # NoTag
  BY CallSitesAre
<1>2. A \in SUBSET Procs
  BY DEF SccOf
<1>3. u \in Variables /\ u.tag = NoTag /\ (u.name \in Procs <=> u.port # NoPort)
  BY DEF MayShow, MayMention
<1>4. <<>> \in Contexts
  BY DEF Contexts
<1> HIDE DEF t, A
<1>5. CASE IsShared(u)
  <2>1. u.name \notin Procs
    BY <1>5, NamesAssumption DEF IsShared, IsGlobal
  <2>2. v = u
    BY <1>3, <2>1 DEF Retag, IsFormal
  <2>3. MayMention(v, root)
    BY <1>3, <2>1, <2>2 DEF MayMention
  <2>4. IsShared(Placed(u, <<>>))
    BY <1>3, <1>4, <1>5, PlacedAre
  <2>5. Placed(v, <<>>) = Prefix(t, Placed(u, <<>>))
    BY <2>2, <2>4 DEF Prefix
  <2> QED BY <2>3, <2>5 DEF t
<1>6. CASE ~IsShared(u)
  <2>1. u.name \in A /\ u.name \in Procs
    BY <1>2, <1>6 DEF MayShow, IsShared, IsGlobal, A
  <2>2. v = [u EXCEPT !.tag = t]
    BY <1>3, <1>6, <2>1 DEF Retag, IsFormal, IsShared
  <2>3. v \in Variables /\ v.name = u.name /\ v.port = u.port /\ v.tag = t
    BY <1>1, <1>3, <2>2 DEF Variables
  <2>4. MayMention(v, root)
    BY <1>1, <1>3, <2>1, <2>3 DEF MayMention, A
  <2>5. ~IsShared(v)
    BY <1>6, <2>3 DEF IsShared, IsGlobal
  <2> HIDE DEF v
  <2>6. /\ Placed(v, <<>>) \in Places /\ Placed(v, <<>>).name = u.name /\ Placed(v, <<>>).port = u.port
        /\ Placed(v, <<>>).tag = Append(<<>>, t)
    <3>1. /\ Placed(v, <<>>) \in Places /\ Placed(v, <<>>).name = v.name /\ Placed(v, <<>>).port = v.port
          /\ Placed(v, <<>>).tag = IF IsShared(v) THEN <<>>
                                  ELSE IF v.tag = NoTag THEN <<>> ELSE Append(<<>>, v.tag)
      BY <1>4, <2>3, PlacedAre
    <3> QED BY <1>1, <2>3, <2>5, <3>1
  <2> DEFINE w == Placed(u, <<>>)
  <2>7. w \in Places /\ w.name = u.name /\ w.port = u.port /\ w.tag = <<>> /\ ~IsShared(w)
    BY <1>3, <1>4, <1>6, PlacedAre
  <2> HIDE DEF w
  <2>8. /\ Prefix(t, w) \in Places /\ Prefix(t, w).name = w.name /\ Prefix(t, w).port = w.port
        /\ Prefix(t, w).tag = <<t>> \o <<>>
    <3>1. /\ Prefix(t, w) \in Places /\ Prefix(t, w).name = w.name /\ Prefix(t, w).port = w.port
          /\ Prefix(t, w).tag = IF IsShared(w) THEN w.tag ELSE <<t>> \o w.tag
      BY <1>1, <2>7, PrefixIs
    <3> QED BY <2>7, <3>1
  <2>9. Append(<<>>, t) = <<t>> \o <<>>
    OBVIOUS
  <2>10. Placed(v, <<>>) = Prefix(t, w)
    BY <2>6, <2>7, <2>8, <2>9, SamePlace
  <2> QED BY <2>4, <2>10 DEF t, w, v
<1> QED BY <1>5, <1>6 DEF t, v

\* A variable an expansion relates.
IsPlace(w) ==
  w \in Places /\ (w.name \in Procs <=> w.port # NoPort) /\ (IsShared(w) => w.tag = <<>>)

(* A place of a callee that is one of the caller's own variables is one that *)
(* the callee's signature may mention.                                       *)
LEMMA SurfaceIsShown ==
  ASSUME program \in Programs, NEW root \in SUBSET Procs, NEW s \in CallSites(root),
         NEW v, MayMention(v, root), NEW w, IsPlace(w), Placed(v, <<>>) = Prefix(s[2], w)
  PROVE  \E u : MayShow(u, SccOf(s[1])) /\ v = Retag(u, s[2]) /\ w = Placed(u, <<>>)
<1> DEFINE t == s[2]
           A == SccOf(s[1])
           P == Placed(v, <<>>)
<1>1. s = <<s[1], t>> /\ s[1] \in Procs /\ t \in Tags /\ t # NoTag
  BY CallSitesAre
<1>2. A \in SUBSET Procs
  BY DEF SccOf
<1>3. <<>> \in Contexts /\ v \in Variables /\ w \in Places
  BY DEF Contexts, MayMention, IsPlace
<1>4. /\ P \in Places /\ P.name = v.name /\ P.port = v.port
      /\ P.tag = IF IsShared(v) THEN <<>> ELSE IF v.tag = NoTag THEN <<>> ELSE Append(<<>>, v.tag)
      /\ IsShared(P) <=> IsShared(v)
  BY <1>3, PlacedAre
<1>5. /\ P.name = w.name /\ P.port = w.port
      /\ P.tag = IF IsShared(w) THEN w.tag ELSE <<t>> \o w.tag
      /\ IsShared(P) <=> IsShared(w)
  BY <1>1, <1>3, PrefixIs
<1>6. P = Prefix(t, w)
  OBVIOUS
<1>7. v.tag # NoTag => \E f : <<f, v.tag>> \in CallSites(root) /\ v.name \in SccOf(f)
  BY DEF MayMention
<1>8. v.name \in Procs <=> v.port # NoPort
  BY DEF MayMention
<1> HIDE DEF t, A, P
<1>9. CASE IsShared(v)
  <2>1. v.name \notin Procs
    BY <1>9, NamesAssumption DEF IsShared, IsGlobal
  <2>2. v.tag = NoTag
    BY <1>7, <2>1 DEF SccOf
  <2>3. v = Retag(v, t)
    BY <1>8, <2>1 DEF Retag, IsFormal
  <2>4. w = P
    BY <1>4, <1>5, <1>6, <1>9 DEF Prefix
  <2>5. MayShow(v, A)
    BY <1>3, <1>8, <1>9, <2>1, <2>2 DEF MayShow, MayMention, IsShared, IsGlobal
  <2> QED BY <2>3, <2>4, <2>5 DEF t, A, P
<1>10. CASE ~IsShared(v)
  <2>1. P.tag = <<t>> \o w.tag /\ w.tag \in Seq(Tags)
    BY <1>3, <1>4, <1>5, <1>10 DEF Places, Contexts
  <2>2. v.tag # NoTag
    <3> SUFFICES ASSUME v.tag = NoTag PROVE FALSE
      OBVIOUS
    <3>1. P.tag = <<>>
      BY <1>4
    <3> DEFINE b == w.tag
    <3> HIDE DEF b
    <3>2. b \in Seq(Tags) /\ <<t>> \o b = <<>>
      BY <2>1, <3>1 DEF b
    <3>3. Len(<<t>> \o b) = Len(b) + 1 /\ Len(b) \in Nat
      BY <1>1, <3>2
    <3> QED BY <3>2, <3>3
  <2>3. w.tag = <<>> /\ v.tag = t
    <3> DEFINE b == w.tag
               x == v.tag
    <3>1. P.tag = Append(<<>>, v.tag)
      BY <1>4, <1>10, <2>2
    <3> HIDE DEF b, x
    <3>2. b \in Seq(Tags) /\ <<t>> \o b = Append(<<>>, x)
      BY <2>1, <3>1 DEF b, x
    <3>3. Append(<<>>, x) = <<x>>
      OBVIOUS
    <3>4. <<t>> \o b = <<x>>
      BY <3>2, <3>3
    <3>5. Len(<<t>> \o b) = Len(b) + 1 /\ Len(b) \in Nat /\ (<<t>> \o b)[1] = t
      BY <1>1, <3>2
    <3>6. Len(b) = 0 /\ t = x
      <4>1. Len(<<x>>) = 1 /\ <<x>>[1] = x
        OBVIOUS
      <4>2. Len(<<t>> \o b) = 1 /\ (<<t>> \o b)[1] = x
        BY <3>4, <4>1, Zenon
      <4> QED BY <3>5, <4>2
    <3>7. b = <<>>
      BY <3>2, <3>6
    <3> QED BY <3>6, <3>7 DEF b, x
  <2>4. PICK f : <<f, t>> \in CallSites(root) /\ v.name \in SccOf(f)
    BY <1>7, <2>2, <2>3
  <2>5. f = s[1]
    BY <1>1, <2>4, CallSitesAre
  <2>6. v.name \in A /\ v.name \in Procs
    BY <1>2, <2>4, <2>5 DEF A
  <2> DEFINE u == [v EXCEPT !.tag = NoTag]
  <2>7. u \in Variables /\ u.name = v.name /\ u.port = v.port /\ u.tag = NoTag
    BY <1>3 DEF Variables
  <2> HIDE DEF u
  <2>8. MayShow(u, A)
    BY <1>8, <2>6, <2>7 DEF MayShow, MayMention
  <2>9. ~IsShared(u)
    BY <1>10, <2>7 DEF IsShared, IsGlobal
  <2>10. Retag(u, t) = [u EXCEPT !.tag = t]
    BY <1>8, <2>6, <2>7, <2>9 DEF Retag, IsFormal, IsShared
  <2>11. Retag(u, t) = v
    <3>1. Retag(u, t) \in Variables /\ Retag(u, t).name = u.name /\ Retag(u, t).port = u.port /\ Retag(u, t).tag = t
      BY <1>1, <2>7, <2>10 DEF Variables
    <3> QED BY <1>3, <2>3, <2>7, <3>1, SameVariable
  <2>12. /\ Placed(u, <<>>) \in Places /\ Placed(u, <<>>).name = u.name /\ Placed(u, <<>>).port = u.port
         /\ Placed(u, <<>>).tag = <<>>
    BY <1>3, <2>7, <2>9, PlacedAre
  <2>13. w = Placed(u, <<>>)
    BY <1>3, <1>4, <1>5, <2>3, <2>7, <2>12, SamePlace
  <2> QED BY <2>8, <2>11, <2>13 DEF t, A
<1> QED BY <1>9, <1>10

-----------------------------------------------------------------------------
(* The constraints of an expansion *)

BodyCons(scc) == BasicCons(scc) \cup UNION {program.additional[p] : p \in scc}

ExpansionCons(root) == UNION {CopyCons(c) : c \in Copies(root, Cardinality(Sccs))}

(* The constraints of an SCC mention its own parameters, its callsites' and  *)
(* variables that belong to nobody.                                          *)
LEMMA BodyConsAre ==
  ASSUME program \in Programs, NEW scc \in SUBSET Procs
  PROVE  /\ BodyCons(scc) \in SUBSET (Variables \X Variables)
         /\ IsFiniteSet(BodyCons(scc))
         /\ \A v \in Mentioned(BodyCons(scc)) : MayMention(v, scc)
<1> DEFINE additions == UNION {program.additional[p] : p \in scc}
<1>1. TypeVars \subseteq Variables
  BY DEF TypeVars, Variables, Names
<1>2. ASSUME NEW c \in BasicCons(scc)
      PROVE  c = <<c[1], c[2]>> /\ MayMention(c[1], scc) /\ MayMention(c[2], scc)
  <2>1. c \in TypeVars \X TypeVars
    BY BasicVariables
  <2>2. ASSUME NEW v \in Mentioned(BasicCons(scc)) PROVE MayMention(v, scc)
    <3>1. /\ v \in TypeVars
          /\ v.name \in Procs <=> v.port # NoPort
          /\ v.name \in Procs /\ v.tag = NoTag => v.name \in scc
          /\ v.tag # NoTag => v.name \in Procs \ scc /\ <<v.name, v.tag>> \in CallSites(scc)
      BY BasicVariables
    <3>2. v.tag # NoTag => v.name \in SccOf(v.name)
      BY <3>1, SccsCover
    <3> QED BY <1>1, <3>1, <3>2 DEF MayMention
  <2>3. c[1] \in Mentioned(BasicCons(scc)) /\ c[2] \in Mentioned(BasicCons(scc))
    BY MentionedAre
  <2> QED BY <2>1, <2>2, <2>3
<1>3. ASSUME NEW c \in additions
      PROVE  c = <<c[1], c[2]>> /\ MayMention(c[1], scc) /\ MayMention(c[2], scc)
  <2>1. PICK p \in scc : c \in program.additional[p]
    OBVIOUS
  <2>2. program.additional[p] \in SUBSET (TypeVars \X TypeVars)
    BY ProgramAssumption DEF ProgramType
  <2>3. ASSUME NEW v \in TypeVars, v = c[1] \/ v = c[2] PROVE MayMention(v, scc)
    <3>1. v \in Mentioned(program.additional[p])
      BY <2>1, <2>3, MentionedAre
    <3>2. v \in Mentioned(program.code[p] \cup program.additional[p])
      BY <2>1, <2>3, MentionedAre
    <3>3. v.tag = NoTag /\ (v.name \in Procs <=> v.port # NoPort) /\ (v.name \in Procs => v.name = p)
      BY <3>1, <3>2, FormalsAssumption
    <3> QED BY <1>1, <3>3 DEF MayMention
  <2> QED BY <2>1, <2>2, <2>3
<1>4. \A c \in BodyCons(scc) : c = <<c[1], c[2]>> /\ MayMention(c[1], scc) /\ MayMention(c[2], scc)
  BY <1>2, <1>3 DEF BodyCons
<1>5. BodyCons(scc) \in SUBSET (Variables \X Variables)
  BY <1>4 DEF MayMention
<1>6. IsFiniteSet(BodyCons(scc))
  BY BasicConsFinite, FS_Union DEF BodyCons
<1>7. \A v \in Mentioned(BodyCons(scc)) : MayMention(v, scc)
  BY <1>4, MentionedAre
<1> QED BY <1>5, <1>6, <1>7

(* The constraints of a copy are those of the SCC, put in place. *)
LEMMA CopyConsAre ==
  ASSUME program \in Programs, NEW ctx \in Contexts, NEW scc \in SUBSET Procs
  PROVE  /\ CopyCons(<<ctx, scc>>) = {<<Placed(x[1], ctx), Placed(x[2], ctx)>> : x \in BodyCons(scc)}
         /\ IsFiniteSet(CopyCons(<<ctx, scc>>))
         /\ \A e \in CopyCons(<<ctx, scc>>) : e = <<e[1], e[2]>> /\ IsPlace(e[1]) /\ IsPlace(e[2])
<1> DEFINE B == BodyCons(scc)
           of == [x \in B |-> <<Placed(x[1], ctx), Placed(x[2], ctx)>>]
<1>1. /\ B \in SUBSET (Variables \X Variables) /\ IsFiniteSet(B)
      /\ \A v \in Mentioned(B) : MayMention(v, scc)
  BY BodyConsAre
<1>2. CopyCons(<<ctx, scc>>) = {<<Placed(x[1], ctx), Placed(x[2], ctx)>> : x \in B}
  BY DEF CopyCons, BodyCons
<1> HIDE DEF B
<1>3. IsFiniteSet({of[x] : x \in B})
  BY <1>1, ImageFinite
<1>4. CopyCons(<<ctx, scc>>) = {of[x] : x \in B}
  BY <1>2
<1>5. ASSUME NEW v \in Mentioned(B) PROVE IsPlace(Placed(v, ctx))
  <2>1. v \in Variables /\ (v.name \in Procs <=> v.port # NoPort)
    BY <1>1 DEF MayMention
  <2>2. /\ Placed(v, ctx) \in Places
        /\ Placed(v, ctx).name = v.name /\ Placed(v, ctx).port = v.port
        /\ Placed(v, ctx).tag = IF IsShared(v) THEN <<>>
                                ELSE IF v.tag = NoTag THEN ctx ELSE Append(ctx, v.tag)
        /\ IsShared(Placed(v, ctx)) <=> IsShared(v)
    BY <2>1, PlacedAre
  <2> QED BY <2>1, <2>2 DEF IsPlace
<1>6. \A x \in B : x[1] \in Mentioned(B) /\ x[2] \in Mentioned(B)
  BY MentionedAre
<1> QED BY <1>2, <1>3, <1>4, <1>5, <1>6 DEF B

(* An expansion makes finitely many copies. *)
LEMMA CopiesFinite ==
  ASSUME program \in Programs, NEW root \in SUBSET Procs, NEW n \in Nat
  PROVE  IsFiniteSet(Copies(root, n))
<1>1. PICK h : AreCopies(h, root) /\ \A m : Copies(root, m) = UNION {h[k] : k \in 0 .. m}
  BY CopiesExist
<1>2. /\ h[0] = {<<<<>>, root>>}
      /\ \A k \in Nat : h[k] \in SUBSET (Contexts \X SUBSET Procs) /\ h[k+1] = Deeper(h[k])
  BY <1>1 DEF AreCopies
<1> DEFINE T == {k \in Nat : IsFiniteSet(h[k])}
<1>3. 0 \in T
  BY <1>2, FS_Singleton
<1>4. ASSUME NEW X \in SUBSET (Contexts \X SUBSET Procs), IsFiniteSet(X) PROVE IsFiniteSet(Deeper(X))
  <2> DEFINE below == [c \in X |-> {<<Append(c[1], s[2]), SccOf(s[1])>> : s \in CallSites(c[2])}]
  <2>1. ASSUME NEW c \in X PROVE IsFiniteSet(below[c])
    <3> DEFINE of == [s \in CallSites(c[2]) |-> <<Append(c[1], s[2]), SccOf(s[1])>>]
    <3>1. c[2] \in SUBSET Procs
      OBVIOUS
    <3>2. IsFiniteSet(CallSites(c[2]))
      BY <3>1, BasicConsFinite
    <3>3. IsFiniteSet({of[s] : s \in CallSites(c[2])})
      BY <3>2, ImageFinite
    <3>4. below[c] = {of[s] : s \in CallSites(c[2])}
      OBVIOUS
    <3> QED BY <3>3, <3>4
  <2>2. Deeper(X) = UNION {below[c] : c \in X}
    BY DEF Deeper
  <2> HIDE DEF below
  <2>3. IsFiniteSet({below[c] : c \in X})
    BY <1>4, ImageFinite
  <2>4. IsFiniteSet(UNION {below[c] : c \in X})
    BY <2>1, <2>3, FS_UNION
  <2> QED BY <2>2, <2>4
<1>5. ASSUME NEW k \in Nat, k \in T PROVE k+1 \in T
  <2>1. h[k] \in SUBSET (Contexts \X SUBSET Procs) /\ h[k+1] = Deeper(h[k]) /\ IsFiniteSet(h[k])
    BY <1>2, <1>5
  <2> DEFINE X == h[k]
  <2> HIDE DEF X
  <2>2. X \in SUBSET (Contexts \X SUBSET Procs) /\ h[k+1] = Deeper(X) /\ IsFiniteSet(X)
    BY <2>1 DEF X
  <2>3. IsFiniteSet(Deeper(X))
    BY <1>4, <2>2
  <2> QED BY <2>2, <2>3
<1>6. \A k \in Nat : k \in T
  <2> HIDE DEF T
  <2> QED BY <1>3, <1>5, NatSetInduction
<1>7. IsFiniteSet(0 .. n)
  BY FS_Interval
<1>8. IsFiniteSet({h[k] : k \in 0 .. n})
  BY <1>7, ImageFinite
<1>9. \A X \in {h[k] : k \in 0 .. n} : IsFiniteSet(X)
  BY <1>6
<1>10. IsFiniteSet(UNION {h[k] : k \in 0 .. n})
  BY <1>8, <1>9, FS_UNION
<1> QED BY <1>1, <1>10

(* An expansion is the SCC's own constraints, and behind each callsite the    *)
(* callee's expansion.                                                        *)
LEMMA ExpansionSplits ==
  ASSUME program \in Programs, Orderings # {}, NEW root \in Sccs
  PROVE  /\ ExpansionCons(root) \in SUBSET (Places \X Places)
         /\ IsFiniteSet(ExpansionCons(root))
         /\ \A e \in ExpansionCons(root) : IsPlace(e[1]) /\ IsPlace(e[2])
         /\ \A e : e \in ExpansionCons(root) <=>
              \/ \E x \in BodyCons(root) : e = <<Placed(x[1], <<>>), Placed(x[2], <<>>)>>
              \/ \E s \in CallSites(root) : \E d \in ExpansionCons(SccOf(s[1])) :
                   e = <<Prefix(s[2], d[1]), Prefix(s[2], d[2])>>
<1> DEFINE N == Cardinality(Sccs)
<1>1. N \in Nat /\ root \in SUBSET Procs
  BY SccsCover
<1>2. ASSUME NEW A \in Sccs
      PROVE  /\ Copies(A, N) \in SUBSET (Contexts \X SUBSET Procs)
             /\ \A e : e \in ExpansionCons(A) <=> \E c \in Copies(A, N) : e \in CopyCons(c)
  <2>1. Copies(A, N) \in SUBSET (Contexts \X SUBSET Procs)
    BY CopiesSplit
  <2> QED BY <2>1 DEF ExpansionCons
<1>3. \A z : z \in Copies(root, N) <=>
        \/ z = <<<<>>, root>>
        \/ \E s \in CallSites(root) : \E c \in Copies(SccOf(s[1]), N) : z = <<<<s[2]>> \o c[1], c[2]>>
  BY CopiesSplit
<1>4. \A s \in CallSites(root) : s[1] \in Procs /\ s[2] \in Tags /\ SccOf(s[1]) \in Sccs
  BY <1>1, CallSitesAre, SccsCover
<1>5. <<>> \in Contexts
  BY DEF Contexts
<1> HIDE DEF N
<1>6. ASSUME NEW t \in Tags, NEW c \in Contexts \X SUBSET Procs
      PROVE  \A e : e \in CopyCons(<<<<t>> \o c[1], c[2]>>) <=>
               \E d \in CopyCons(c) : e = <<Prefix(t, d[1]), Prefix(t, d[2])>>
  <2>1. c = <<c[1], c[2]>> /\ c[1] \in Contexts /\ c[2] \in SUBSET Procs
    OBVIOUS
  <2> DEFINE deep == <<t>> \o c[1]
             B == BodyCons(c[2])
  <2>2. deep \in Contexts
    BY <2>1 DEF Contexts
  <2>3. CopyCons(<<c[1], c[2]>>) = {<<Placed(x[1], c[1]), Placed(x[2], c[1])>> : x \in B}
    BY <2>1, CopyConsAre
  <2>4. CopyCons(<<deep, c[2]>>) = {<<Placed(x[1], deep), Placed(x[2], deep)>> : x \in B}
    <3> HIDE DEF deep
    <3> QED BY <2>1, <2>2, CopyConsAre
  <2>5. \A x \in B : x[1] \in Variables /\ x[2] \in Variables
    BY <2>1, BodyConsAre
  <2>6. \A x \in B : Placed(x[1], deep) = Prefix(t, Placed(x[1], c[1])) /\ Placed(x[2], deep) = Prefix(t, Placed(x[2], c[1]))
    BY <2>1, <2>5, PrefixPlaced
  <2> HIDE DEF deep, B
  <2>7. \A e : e \in CopyCons(<<deep, c[2]>>) <=> \E x \in B : e = <<Prefix(t, Placed(x[1], c[1])), Prefix(t, Placed(x[2], c[1]))>>
    BY <2>4, <2>6
  <2>8. \A e : (\E d \in CopyCons(c) : e = <<Prefix(t, d[1]), Prefix(t, d[2])>>) <=>
               \E x \in B : e = <<Prefix(t, Placed(x[1], c[1])), Prefix(t, Placed(x[2], c[1]))>>
    <3>1. \A d : d \in CopyCons(c) <=> \E x \in B : d = <<Placed(x[1], c[1]), Placed(x[2], c[1])>>
      BY <2>1, <2>3, Zenon
    <3> SUFFICES ASSUME NEW e
                 PROVE  (\E d \in CopyCons(c) : e = <<Prefix(t, d[1]), Prefix(t, d[2])>>) <=>
                          \E x \in B : e = <<Prefix(t, Placed(x[1], c[1])), Prefix(t, Placed(x[2], c[1]))>>
      OBVIOUS
    <3>2. ASSUME NEW d \in CopyCons(c), e = <<Prefix(t, d[1]), Prefix(t, d[2])>>
          PROVE  \E x \in B : e = <<Prefix(t, Placed(x[1], c[1])), Prefix(t, Placed(x[2], c[1]))>>
      BY <3>1, <3>2
    <3>3. ASSUME NEW x \in B, e = <<Prefix(t, Placed(x[1], c[1])), Prefix(t, Placed(x[2], c[1]))>>
          PROVE  \E d \in CopyCons(c) : e = <<Prefix(t, d[1]), Prefix(t, d[2])>>
      <4> DEFINE d == <<Placed(x[1], c[1]), Placed(x[2], c[1])>>
      <4>1. d \in CopyCons(c) /\ d[1] = Placed(x[1], c[1]) /\ d[2] = Placed(x[2], c[1])
        BY <3>1
      <4> HIDE DEF d
      <4> QED BY <3>3, <4>1
    <3> QED BY <3>2, <3>3
  <2> QED BY <2>7, <2>8 DEF deep
<1>7. ASSUME NEW e
      PROVE  e \in ExpansionCons(root) <=>
              \/ \E x \in BodyCons(root) : e = <<Placed(x[1], <<>>), Placed(x[2], <<>>)>>
              \/ \E s \in CallSites(root) : \E d \in ExpansionCons(SccOf(s[1])) :
                   e = <<Prefix(s[2], d[1]), Prefix(s[2], d[2])>>
  <2>1. e \in CopyCons(<<<<>>, root>>) <=> \E x \in BodyCons(root) : e = <<Placed(x[1], <<>>), Placed(x[2], <<>>)>>
    BY <1>1, <1>5, CopyConsAre
  <2>2. e \in ExpansionCons(root) <=>
          \/ e \in CopyCons(<<<<>>, root>>)
          \/ \E s \in CallSites(root) : \E c \in Copies(SccOf(s[1]), N) : e \in CopyCons(<<<<s[2]>> \o c[1], c[2]>>)
    <3>1. e \in ExpansionCons(root) <=> \E z \in Copies(root, N) : e \in CopyCons(z)
      BY <1>2
    <3>2. ASSUME NEW z \in Copies(root, N), e \in CopyCons(z)
          PROVE  \/ e \in CopyCons(<<<<>>, root>>)
                 \/ \E s \in CallSites(root) : \E c \in Copies(SccOf(s[1]), N) :
                      e \in CopyCons(<<<<s[2]>> \o c[1], c[2]>>)
      BY <1>3, <3>2, Zenon
    <3>3. ASSUME e \in CopyCons(<<<<>>, root>>) PROVE \E z \in Copies(root, N) : e \in CopyCons(z)
      BY <1>3, <3>3, Zenon
    <3>4. ASSUME NEW s \in CallSites(root), NEW c \in Copies(SccOf(s[1]), N),
                 e \in CopyCons(<<<<s[2]>> \o c[1], c[2]>>)
          PROVE  \E z \in Copies(root, N) : e \in CopyCons(z)
      <4> DEFINE z == <<<<s[2]>> \o c[1], c[2]>>
      <4>1. z \in Copies(root, N)
        BY <1>3
      <4>2. e \in CopyCons(z)
        BY <3>4
      <4> HIDE DEF z
      <4> QED BY <4>1, <4>2
    <3> QED BY <3>1, <3>2, <3>3, <3>4
  <2>3. ASSUME NEW s \in CallSites(root)
        PROVE  (\E c \in Copies(SccOf(s[1]), N) : e \in CopyCons(<<<<s[2]>> \o c[1], c[2]>>))
                 <=> (\E d \in ExpansionCons(SccOf(s[1])) : e = <<Prefix(s[2], d[1]), Prefix(s[2], d[2])>>)
    <3> DEFINE A == SccOf(s[1])
    <3>1. A \in Sccs /\ s[2] \in Tags
      BY <1>4
    <3> HIDE DEF A
    <3>2. Copies(A, N) \in SUBSET (Contexts \X SUBSET Procs)
      BY <1>2, <3>1
    <3>3. \A c \in Copies(A, N) : e \in CopyCons(<<<<s[2]>> \o c[1], c[2]>>) <=>
            \E d \in CopyCons(c) : e = <<Prefix(s[2], d[1]), Prefix(s[2], d[2])>>
      BY <1>6, <3>1, <3>2
    <3>4. \A d : d \in ExpansionCons(A) <=> \E c \in Copies(A, N) : d \in CopyCons(c)
      BY <1>2, <3>1
    <3>5. (\E c \in Copies(A, N) : e \in CopyCons(<<<<s[2]>> \o c[1], c[2]>>))
            <=> (\E d \in ExpansionCons(A) : e = <<Prefix(s[2], d[1]), Prefix(s[2], d[2])>>)
      BY <3>3, <3>4
    <3> QED BY <3>5 DEF A
  <2> QED BY <2>1, <2>2, <2>3
<1>8. ASSUME NEW c \in Copies(root, N)
      PROVE  IsFiniteSet(CopyCons(c)) /\ \A e \in CopyCons(c) : e = <<e[1], e[2]>> /\ IsPlace(e[1]) /\ IsPlace(e[2])
  <2>1. c \in Contexts \X SUBSET Procs
    BY <1>2
  <2>2. c = <<c[1], c[2]>> /\ c[1] \in Contexts /\ c[2] \in SUBSET Procs
    BY <2>1
  <2>3. /\ IsFiniteSet(CopyCons(<<c[1], c[2]>>))
        /\ \A e \in CopyCons(<<c[1], c[2]>>) : e = <<e[1], e[2]>> /\ IsPlace(e[1]) /\ IsPlace(e[2])
    BY <2>2, CopyConsAre
  <2> QED BY <2>2, <2>3
<1>9. \A e \in ExpansionCons(root) : e = <<e[1], e[2]>> /\ IsPlace(e[1]) /\ IsPlace(e[2])
  BY <1>2, <1>8
<1>10. IsFiniteSet(ExpansionCons(root))
  <2> DEFINE C == Copies(root, N)
             of == [c \in C |-> CopyCons(c)]
  <2>1. IsFiniteSet(C)
    BY <1>1, CopiesFinite
  <2>2. IsFiniteSet({of[c] : c \in C})
    <3> HIDE DEF C
    <3> QED BY <2>1, ImageFinite
  <2>3. \A X \in {of[c] : c \in C} : IsFiniteSet(X)
    BY <1>8
  <2>4. IsFiniteSet(UNION {of[c] : c \in C})
    <3> HIDE DEF of, C
    <3> QED BY <2>2, <2>3, FS_UNION
  <2>5. ExpansionCons(root) = UNION {of[c] : c \in C}
    BY DEF ExpansionCons, N
  <2> QED BY <2>4, <2>5
<1>11. ExpansionCons(root) \in SUBSET (Places \X Places)
  BY <1>9 DEF IsPlace
<1> QED BY <1>7, <1>9, <1>10, <1>11

-----------------------------------------------------------------------------
(* What the constraints of an SCC say of its expansion *)

\* Nothing that the expansion keeps apart is related.
Apart(cs, scc) ==
  \A c \in cs : c[1] = c[2] \/ <<Placed(c[1], <<>>), Placed(c[2], <<>>)>> \in Expanded(scc)

\* Everything the expansion relates between variables with names in kept is related.
Complete(cs, scc, kept) ==
  \A x, y :
    (/\ MayMention(x, scc) /\ MayMention(y, scc)
     /\ x.name \in kept /\ y.name \in kept /\ x # y
     /\ <<Placed(x, <<>>), Placed(y, <<>>)>> \in Expanded(scc))
    => <<x, y>> \in Closure(cs)

AreConstraints(cs, scc) ==
  /\ IsFiniteSet(cs) /\ cs \in SUBSET (Variables \X Variables)
  /\ \A v \in Mentioned(cs) : MayMention(v, scc)

\* The names a result is to be about.
KeptNames(scc, base) == base \cup scc \cup Globals \cup LatticeElements

Breakers == {n \in Nat : n < fresh}

GoodSignature(cs, scc) ==
  /\ AreConstraints(cs, scc)
  /\ \A v \in Mentioned(cs) : v.tag = NoTag /\ v.name \in KeptNames(scc, Breakers)
  /\ Complete(cs, scc, KeptNames(scc, {}))
  /\ fresh = 0 => Apart(cs, scc)

GoodResult(cs, scc) ==
  /\ AreConstraints(cs, scc)
  /\ Complete(cs, scc, KeptNames(scc, InterestingTids))
  /\ fresh = 0 => Apart(cs, scc)

\* The callees of an SCC have signatures that say what their expansions do.
CalleesAreGood(scc) ==
  \A s \in CallSites(scc) :
    s[1] \in DOMAIN signatures /\ GoodSignature(signatures[s[1]], SccOf(s[1]))

(* An expansion is the closure of its constraints. *)
LEMMA ExpandedAre ==
  ASSUME program \in Programs, Orderings # {}, NEW root \in Sccs
  PROVE  /\ ExpansionCons(root) \subseteq Expanded(root)
         /\ IsTransitive(Expanded(root))
         /\ \A a, b : <<a, b>> \in Expanded(root) => IsPlace(a) /\ IsPlace(b)
         /\ Expanded(root) \in SUBSET (Places \X Places)
         /\ \A T : (/\ ExpansionCons(root) \subseteq T
                    /\ \A a, b, c : <<a, b>> \in T /\ <<b, c>> \in ExpansionCons(root) => <<a, c>> \in T)
                  => Expanded(root) \subseteq T
<1> DEFINE E == ExpansionCons(root)
<1>1. E \in SUBSET (Places \X Places) /\ IsFiniteSet(E) /\ \A e \in E : IsPlace(e[1]) /\ IsPlace(e[2])
  BY ExpansionSplits
<1>2. Expanded(root) = Closure(E)
  BY DEF Expanded, ExpansionCons
<1> HIDE DEF E
<1>3. /\ Closure(E) \in SUBSET (Mentioned(E) \X Mentioned(E))
      /\ E \subseteq Closure(E) /\ IsTransitive(Closure(E))
      /\ \A T : E \subseteq T /\ (\A a, b, c : <<a, b>> \in T /\ <<b, c>> \in E => <<a, c>> \in T)
                  => Closure(E) \subseteq T
  BY <1>1, FiniteClosure
<1>4. \A v \in Mentioned(E) : IsPlace(v)
  BY <1>1, MentionedAre
<1>5. Mentioned(E) \subseteq Places
  BY <1>4 DEF IsPlace
<1> QED BY <1>2, <1>3, <1>4, <1>5 DEF E

(* Instantiating a signature. *)
LEMMA InstantiateAre ==
  ASSUME program \in Programs, NEW root \in SUBSET Procs, NEW s \in CallSites(root),
         NEW sig, AreConstraints(sig, SccOf(s[1])),
         \A v \in Mentioned(sig) : v.tag = NoTag /\ v.name \in KeptNames(SccOf(s[1]), Nat)
  PROVE  AreConstraints(Instantiate(sig, s[2]), root)
<1> DEFINE t == s[2]
           A == SccOf(s[1])
           of == [c \in sig |-> <<Retag(c[1], t), Retag(c[2], t)>>]
<1>1. IsFiniteSet({of[c] : c \in sig})
  BY ImageFinite DEF AreConstraints
<1>2. Instantiate(sig, t) = {of[c] : c \in sig}
  BY DEF Instantiate
<1>3. ASSUME NEW u \in Mentioned(sig) PROVE MayMention(Retag(u, t), root)
  <2>1. MayMention(u, A) /\ u.tag = NoTag /\ u.name \in A \cup Globals \cup LatticeElements \cup Nat
    BY DEF AreConstraints, KeptNames
  <2>2. CASE u.name \in A \cup Globals \cup LatticeElements
    <3>1. MayShow(u, A)
      BY <2>1, <2>2 DEF MayShow
    <3> QED BY <3>1, RetagIsPrefix
  <2>3. CASE u.name \in Nat
    <3>1. u.name \notin Procs /\ u.port = NoPort
      BY <2>1, <2>3, NamesAssumption DEF MayMention
    <3>2. Retag(u, t) = u
      BY <3>1 DEF Retag, IsFormal
    <3> QED BY <2>1, <3>1, <3>2 DEF MayMention
  <2> QED BY <2>1, <2>2, <2>3
<1>4. \A c \in sig : c[1] \in Mentioned(sig) /\ c[2] \in Mentioned(sig)
  BY MentionedAre
<1>5. \A c \in Instantiate(sig, t) : /\ c = <<c[1], c[2]>>
                                     /\ MayMention(c[1], root) /\ MayMention(c[2], root)
  BY <1>3, <1>4 DEF Instantiate
<1>6. Instantiate(sig, t) \in SUBSET (Variables \X Variables)
  BY <1>5 DEF MayMention
<1>7. \A v \in Mentioned(Instantiate(sig, t)) : MayMention(v, root)
  BY <1>5, MentionedAre
<1> QED BY <1>1, <1>2, <1>6, <1>7 DEF AreConstraints

(* The constraints that are simplified: the SCC's own and its callees'        *)
(* signatures at its callsites.                                               *)
LEMMA ResolvedAre ==
  ASSUME program \in Programs, NEW root \in SUBSET Procs, CalleesAreGood(root)
  PROVE  /\ AreConstraints(ResolvedCons(root), root)
         /\ \A c : c \in ResolvedCons(root) <=>
              \/ c \in BodyCons(root)
              \/ \E s \in CallSites(root) : c \in Instantiate(signatures[s[1]], s[2])
<1> DEFINE inst == [s \in CallSites(root) |-> Instantiate(signatures[s[1]], s[2])]
           U == UNION {inst[s] : s \in CallSites(root)}
           R == ResolvedCons(root)
<1>1. R = BodyCons(root) \cup U
  BY DEF ResolvedCons, WithCalleeSignatures, CallSites, BodyCons
<1>2. \A s \in CallSites(root) : AreConstraints(inst[s], root)
  <2> SUFFICES ASSUME NEW s \in CallSites(root) PROVE AreConstraints(Instantiate(signatures[s[1]], s[2]), root)
    OBVIOUS
  <2> DEFINE sig == signatures[s[1]]
  <2>1. /\ AreConstraints(sig, SccOf(s[1]))
        /\ \A v \in Mentioned(sig) : v.tag = NoTag /\ v.name \in KeptNames(SccOf(s[1]), Nat)
    BY DEF CalleesAreGood, GoodSignature, KeptNames, Breakers
  <2> HIDE DEF sig
  <2>2. AreConstraints(Instantiate(sig, s[2]), root)
    BY <2>1, InstantiateAre
  <2> QED BY <2>2 DEF sig
<1>3. AreConstraints(BodyCons(root), root)
  BY BodyConsAre DEF AreConstraints
<1>4. IsFiniteSet(U)
  <2>1. IsFiniteSet(CallSites(root))
    BY BasicConsFinite
  <2>2. \A s \in CallSites(root) : IsFiniteSet(inst[s])
    BY <1>2 DEF AreConstraints
  <2> HIDE DEF inst
  <2>3. IsFiniteSet({inst[s] : s \in CallSites(root)})
    BY <2>1, ImageFinite
  <2>4. \A X \in {inst[s] : s \in CallSites(root)} : IsFiniteSet(X)
    BY <2>2
  <2> QED BY <2>3, <2>4, FS_UNION
<1>5. IsFiniteSet(R)
  <2>1. IsFiniteSet(BodyCons(root))
    BY <1>3 DEF AreConstraints
  <2> HIDE DEF U
  <2> QED BY <1>1, <1>4, <2>1, FS_Union
<1>6. \A c : c \in R <=> c \in BodyCons(root) \/ \E s \in CallSites(root) : c \in inst[s]
  <2>1. \A c : c \in U <=> \E s \in CallSites(root) : c \in inst[s]
    <3> HIDE DEF inst
    <3> QED OBVIOUS
  <2> HIDE DEF U, R
  <2> QED BY <1>1, <2>1
<1>7. ASSUME NEW c \in R PROVE c \in Variables \X Variables /\ MayMention(c[1], root) /\ MayMention(c[2], root)
  <2>1. ASSUME NEW Q, AreConstraints(Q, root), c \in Q
        PROVE  c \in Variables \X Variables /\ MayMention(c[1], root) /\ MayMention(c[2], root)
    <3>1. c[1] \in Mentioned(Q) /\ c[2] \in Mentioned(Q)
      BY <2>1, MentionedAre
    <3> QED BY <2>1, <3>1 DEF AreConstraints
  <2> HIDE DEF inst, R
  <2>2. \E Q : AreConstraints(Q, root) /\ c \in Q
    BY <1>2, <1>3, <1>6
  <2> QED BY <2>1, <2>2
<1>8. \A v \in Mentioned(R) : MayMention(v, root)
  BY <1>7, MentionedAre
<1>9. AreConstraints(R, root)
  BY <1>5, <1>7, <1>8 DEF AreConstraints
<1> QED BY <1>6, <1>9

(* A callee's expansion, seen through a callsite, is part of the caller's. *)
LEMMA ExpandedPrefixes ==
  ASSUME program \in Programs, Orderings # {}, NEW root \in Sccs, NEW s \in CallSites(root),
         NEW a, NEW b, <<a, b>> \in Expanded(SccOf(s[1]))
  PROVE  <<Prefix(s[2], a), Prefix(s[2], b)>> \in Expanded(root)
<1> DEFINE A == SccOf(s[1])
           E == ExpansionCons(A)
           f == [w \in Places |-> Prefix(s[2], w)]
<1>1. root \in SUBSET Procs
  BY MemberOfScc
<1>2. A \in Sccs
  BY <1>1, CallSitesAre, SccsCover
<1> HIDE DEF A
<1>3. E \in SUBSET (Places \X Places) /\ IsFiniteSet(E)
  BY <1>2, ExpansionSplits
<1>4. \A e : (\E d \in E : e = <<Prefix(s[2], d[1]), Prefix(s[2], d[2])>>) => e \in ExpansionCons(root)
  BY ExpansionSplits DEF A
<1>5. ExpansionCons(root) \subseteq Expanded(root) /\ IsTransitive(Expanded(root))
  BY ExpandedAre
<1>6. \A d \in E : <<f[d[1]], f[d[2]]>> \in Expanded(root)
  <2> SUFFICES ASSUME NEW d \in E PROVE <<f[d[1]], f[d[2]]>> \in Expanded(root)
    OBVIOUS
  <2>1. f[d[1]] = Prefix(s[2], d[1]) /\ f[d[2]] = Prefix(s[2], d[2])
    BY <1>3
  <2> QED BY <1>4, <1>5, <2>1
<1>7. Expanded(A) = Closure(E)
  BY DEF Expanded, ExpansionCons
<1>8. <<a, b>> \in Closure(E) /\ a \in Places /\ b \in Places
  <2>1. Expanded(A) \in SUBSET (Places \X Places)
    BY <1>2, ExpandedAre
  <2> QED BY <1>7, <2>1 DEF A
<1>9. <<f[a], f[b]>> \in Expanded(root)
  <2> HIDE DEF E, f
  <2> QED BY <1>3, <1>5, <1>6, <1>8, ClosureMaps
<1> QED BY <1>8, <1>9

(* Signatures that keep callsites apart make resolved constraints that do.    *)
LEMMA ResolvedApart ==
  ASSUME program \in Programs, Orderings # {}, NEW root \in Sccs, CalleesAreGood(root), fresh = 0
  PROVE  Apart(ResolvedCons(root), root)
<1>1. root \in SUBSET Procs
  BY MemberOfScc
<1>2. ExpansionCons(root) \subseteq Expanded(root)
  BY ExpandedAre
<1>3. ASSUME NEW c \in BodyCons(root)
      PROVE  <<Placed(c[1], <<>>), Placed(c[2], <<>>)>> \in Expanded(root)
  BY <1>2, ExpansionSplits
<1>4. ASSUME NEW s \in CallSites(root), NEW c \in Instantiate(signatures[s[1]], s[2])
      PROVE  c[1] = c[2] \/ <<Placed(c[1], <<>>), Placed(c[2], <<>>)>> \in Expanded(root)
  <2> DEFINE sig == signatures[s[1]]
             A == SccOf(s[1])
  <2>1. GoodSignature(sig, A)
    BY DEF CalleesAreGood
  <2> HIDE DEF sig
  <2>2. PICK d \in sig : c = <<Retag(d[1], s[2]), Retag(d[2], s[2])>>
    BY DEF Instantiate, sig
  <2>3. d[1] \in Mentioned(sig) /\ d[2] \in Mentioned(sig)
    BY MentionedAre
  <2>4. Breakers = {}
    BY DEF Breakers
  <2>5. MayShow(d[1], A) /\ MayShow(d[2], A)
    BY <2>1, <2>3, <2>4 DEF GoodSignature, AreConstraints, KeptNames, MayShow
  <2>6. /\ Placed(c[1], <<>>) = Prefix(s[2], Placed(d[1], <<>>))
        /\ Placed(c[2], <<>>) = Prefix(s[2], Placed(d[2], <<>>))
    BY <1>1, <2>2, <2>5, RetagIsPrefix
  <2>7. CASE d[1] = d[2]
    BY <2>2, <2>7
  <2>8. CASE <<Placed(d[1], <<>>), Placed(d[2], <<>>)>> \in Expanded(A)
    BY <2>6, <2>8, ExpandedPrefixes
  <2> QED BY <2>1, <2>7, <2>8 DEF GoodSignature, Apart
<1> QED BY <1>1, <1>3, <1>4, ResolvedAre DEF Apart

(* What a signature relates is related at each of its instances. *)
LEMMA InstancesRelate ==
  ASSUME program \in Programs, NEW root \in SUBSET Procs, CalleesAreGood(root),
         NEW s \in CallSites(root), NEW a, NEW b, <<a, b>> \in Closure(signatures[s[1]])
  PROVE  <<Retag(a, s[2]), Retag(b, s[2])>> \in Closure(ResolvedCons(root))
<1> DEFINE sig == signatures[s[1]]
           R == ResolvedCons(root)
           f == [v \in Variables |-> Retag(v, s[2])]
<1>1. GoodSignature(sig, SccOf(s[1]))
  BY DEF CalleesAreGood
<1>2. sig \in SUBSET (Variables \X Variables) /\ IsFiniteSet(sig)
  BY <1>1 DEF GoodSignature, AreConstraints
<1>3. AreConstraints(R, root) /\ \A c : c \in Instantiate(sig, s[2]) => c \in R
  BY ResolvedAre
<1> HIDE DEF sig, R
<1>4. R \subseteq Closure(R) /\ IsTransitive(Closure(R))
  BY <1>3, FiniteClosure DEF AreConstraints
<1>5. \A d \in sig : <<f[d[1]], f[d[2]]>> \in Closure(R)
  <2> SUFFICES ASSUME NEW d \in sig PROVE <<f[d[1]], f[d[2]]>> \in Closure(R)
    OBVIOUS
  <2>1. f[d[1]] = Retag(d[1], s[2]) /\ f[d[2]] = Retag(d[2], s[2])
    BY <1>2
  <2>2. <<Retag(d[1], s[2]), Retag(d[2], s[2])>> \in Instantiate(sig, s[2])
    BY DEF Instantiate
  <2> HIDE DEF f
  <2> QED BY <1>3, <1>4, <2>1, <2>2
<1>6. <<a, b>> \in Closure(sig) /\ a \in Variables /\ b \in Variables
  <2>1. Closure(sig) \in SUBSET (Mentioned(sig) \X Mentioned(sig))
    BY <1>2, FiniteClosure
  <2>2. \A v \in Mentioned(sig) : v \in Variables
    BY <1>2, MentionedAre
  <2>3. <<a, b>> \in Closure(sig)
    BY DEF sig
  <2> QED BY <2>1, <2>2, <2>3
<1>7. <<f[a], f[b]>> \in Closure(R)
  <2> HIDE DEF f
  <2> QED BY <1>2, <1>4, <1>5, <1>6, ClosureMaps
<1> QED BY <1>6, <1>7 DEF R

(* Places of different callsites coincide only where they are shared. *)
LEMMA OtherCallsite ==
  ASSUME NEW v \in Places, NEW w \in Places, NEW t \in Tags, NEW u \in Tags, t # u,
         Prefix(t, v) = Prefix(u, w)
  PROVE  IsShared(w)
<1>1. /\ Prefix(t, v).tag = IF IsShared(v) THEN v.tag ELSE <<t>> \o v.tag
      /\ IsShared(Prefix(t, v)) <=> IsShared(v)
  BY PrefixIs
<1>2. /\ Prefix(u, w).tag = IF IsShared(w) THEN w.tag ELSE <<u>> \o w.tag
      /\ IsShared(Prefix(u, w)) <=> IsShared(w)
  BY PrefixIs
<1> SUFFICES ASSUME ~IsShared(w) PROVE FALSE
  OBVIOUS
<1>3. <<t>> \o v.tag = <<u>> \o w.tag
  BY <1>1, <1>2
<1> DEFINE a == v.tag
           b == w.tag
<1>4. a \in Seq(Tags) /\ b \in Seq(Tags)
  BY DEF Places, Contexts
<1> HIDE DEF a, b
<1>5. (<<t>> \o a)[1] = t /\ (<<u>> \o b)[1] = u
  BY <1>4
<1> QED BY <1>3, <1>5 DEF a, b

(* What is shared is a variable of every SCC. *)
LEMMA SharedIsAtRoot ==
  ASSUME NEW w, IsPlace(w), IsShared(w), NEW scc
  PROVE  /\ MayMention([w EXCEPT !.tag = NoTag], scc)
         /\ Placed([w EXCEPT !.tag = NoTag], <<>>) = w
<1> DEFINE v == [w EXCEPT !.tag = NoTag]
<1>1. w \in Places /\ w.tag = <<>> /\ w.name \notin Procs /\ w.port = NoPort
  BY NamesAssumption DEF IsPlace, IsShared, IsGlobal
<1>2. v \in Variables /\ v.name = w.name /\ v.port = w.port /\ v.tag = NoTag
  BY <1>1 DEF Places, Variables
<1> HIDE DEF v
<1>3. MayMention(v, scc)
  BY <1>1, <1>2 DEF MayMention
<1>4. IsShared(v) /\ <<>> \in Contexts
  BY <1>2 DEF IsShared, IsGlobal, Contexts
<1>5. /\ Placed(v, <<>>) \in Places /\ Placed(v, <<>>).name = w.name /\ Placed(v, <<>>).port = w.port
      /\ Placed(v, <<>>).tag = <<>>
  BY <1>2, <1>4, PlacedAre
<1>6. Placed(v, <<>>) = w
  BY <1>1, <1>5, SamePlace
<1> QED BY <1>3, <1>6 DEF v

(* The callees' signatures are enough: what the expansion relates between two *)
(* variables of an SCC, through any depth of calls, the resolved constraints   *)
(* relate too.  A chain of the expansion that starts at a variable of the SCC  *)
(* is at every point either at a variable of the SCC, reached already, or      *)
(* inside one callsite's copy, which it entered where the signature shows it.  *)
LEMMA ResolvedComplete ==
  ASSUME program \in Programs, Orderings # {}, NEW root \in Sccs, CalleesAreGood(root),
         NEW x, MayMention(x, root), NEW y, MayMention(y, root), x # y,
         <<Placed(x, <<>>), Placed(y, <<>>)>> \in Expanded(root)
  PROVE  <<x, y>> \in Closure(ResolvedCons(root))
<1> DEFINE R == ResolvedCons(root)
           P(v) == Placed(v, <<>>)
           Reached(v) == MayMention(v, root) /\ (v = x \/ <<x, v>> \in Closure(R))
           AtRoot(w) == \E v : w = P(v) /\ Reached(v)
           Enters(s, u) == MayShow(u, SccOf(s[1])) /\ Reached(Retag(u, s[2]))
           Inside(s, w) == \E u, w0 : /\ Enters(s, u) /\ <<P(u), w0>> \in Expanded(SccOf(s[1]))
                                      /\ w = Prefix(s[2], w0)
           T == {w \in Places : AtRoot(w) \/ \E s \in CallSites(root) : Inside(s, w)}
<1>1. root \in SUBSET Procs
  BY MemberOfScc
<1>2. ASSUME NEW s \in CallSites(root)
      PROVE  /\ s = <<s[1], s[2]>> /\ s[1] \in Procs /\ s[2] \in Tags
             /\ SccOf(s[1]) \in Sccs
             /\ GoodSignature(signatures[s[1]], SccOf(s[1]))
  BY <1>1, CallSitesAre, SccsCover DEF CalleesAreGood
<1>3. AreConstraints(R, root)
  BY <1>1, ResolvedAre
<1>4. \A c \in BodyCons(root) : c \in R
  BY <1>1, ResolvedAre
<1> HIDE DEF R
<1>5. /\ R \subseteq Closure(R) /\ IsTransitive(Closure(R))
      /\ Closure(R) \in SUBSET (Mentioned(R) \X Mentioned(R))
  BY <1>3, FiniteClosure DEF AreConstraints
<1>6. \A a, b : <<a, b>> \in Closure(R) => MayMention(a, root) /\ MayMention(b, root)
  BY <1>3, <1>5 DEF AreConstraints
<1>7. \A a, b : Reached(a) /\ <<a, b>> \in Closure(R) => Reached(b)
  BY <1>5, <1>6 DEF IsTransitive
<1>8. \A s \in CallSites(root) : \A a, b :
        <<a, b>> \in Expanded(SccOf(s[1])) => IsPlace(a) /\ IsPlace(b)
  BY <1>2, ExpandedAre
<1>9. \A s \in CallSites(root) : \A a, b, c :
        <<a, b>> \in Expanded(SccOf(s[1])) /\ <<b, c>> \in Expanded(SccOf(s[1])) => <<a, c>> \in Expanded(SccOf(s[1]))
  BY <1>2, ExpandedAre DEF IsTransitive
\* Where a chain inside a copy comes to a variable of the SCC, it is reached.
<1>10. ASSUME NEW s \in CallSites(root), NEW v, MayMention(v, root), Inside(s, P(v))
       PROVE  Reached(v)
  <2>1. PICK u, w0 : /\ Enters(s, u) /\ <<P(u), w0>> \in Expanded(SccOf(s[1]))
                     /\ P(v) = Prefix(s[2], w0)
    BY <1>10
  <2>2. IsPlace(w0)
    BY <1>8, <2>1
  <2>3. PICK u2 : MayShow(u2, SccOf(s[1])) /\ v = Retag(u2, s[2]) /\ w0 = P(u2)
    BY <1>1, <1>10, <2>1, <2>2, SurfaceIsShown
  <2>4. CASE u = u2
    BY <2>1, <2>3, <2>4
  <2>5. CASE u # u2
    <3>1. Complete(signatures[s[1]], SccOf(s[1]), KeptNames(SccOf(s[1]), {}))
      BY <1>2 DEF GoodSignature
    <3>2. /\ MayMention(u, SccOf(s[1])) /\ MayMention(u2, SccOf(s[1]))
          /\ u.name \in KeptNames(SccOf(s[1]), {}) /\ u2.name \in KeptNames(SccOf(s[1]), {})
      BY <2>1, <2>3 DEF MayShow, KeptNames
    <3>3. <<u, u2>> \in Closure(signatures[s[1]])
      BY <2>1, <2>3, <2>5, <3>1, <3>2 DEF Complete
    <3>4. <<Retag(u, s[2]), Retag(u2, s[2])>> \in Closure(R)
      BY <1>1, <3>3, InstancesRelate DEF R
    <3> QED BY <1>7, <2>1, <2>3, <3>4
  <2> QED BY <2>4, <2>5
<1>11. ASSUME NEW w \in T, NEW v, MayMention(v, root), w = P(v) PROVE Reached(v)
  <2>1. CASE AtRoot(w)
    <3>1. PICK v2 : w = P(v2) /\ Reached(v2)
      BY <2>1
    <3>2. v2 = v
      BY <1>1, <1>11, <3>1, PlacedInjective
    <3> QED BY <3>1, <3>2
  <2>2. CASE \E s \in CallSites(root) : Inside(s, w)
    <3> HIDE DEF Inside, Reached
    <3> QED BY <1>10, <1>11, <2>2
  <2> QED BY <2>1, <2>2
<1>12. ASSUME NEW w \in T, NEW e \in ExpansionCons(root), e[1] = w PROVE e[2] \in T
  <2>1. e[2] \in Places
    BY ExpansionSplits
  <2>2. CASE \E b \in BodyCons(root) : e = <<P(b[1]), P(b[2])>>
    <3>1. PICK b \in BodyCons(root) : e = <<P(b[1]), P(b[2])>>
      BY <2>2
    <3>2. b \in R /\ b = <<b[1], b[2]>> /\ MayMention(b[1], root)
      <4>1. b[1] \in Mentioned(BodyCons(root))
        BY MentionedAre
      <4> QED BY <1>1, <1>4, <4>1, BodyConsAre
    <3>3. Reached(b[1])
      <4>1. w = P(b[1])
        BY <1>12, <3>1
      <4> HIDE DEF Reached, T
      <4> QED BY <1>11, <3>2, <4>1
    <3>4. Reached(b[2])
      <4>1. <<b[1], b[2]>> \in Closure(R)
        BY <1>5, <3>2
      <4> HIDE DEF Reached
      <4> QED BY <1>7, <3>3, <4>1
    <3>5. AtRoot(e[2])
      <4>1. e[2] = P(b[2])
        BY <3>1
      <4> HIDE DEF Reached
      <4> QED BY <3>4, <4>1
    <3> HIDE DEF AtRoot
    <3> QED BY <2>1, <3>5
  <2>3. CASE \E s \in CallSites(root) : \E d \in ExpansionCons(SccOf(s[1])) :
               e = <<Prefix(s[2], d[1]), Prefix(s[2], d[2])>>
    <3>1. PICK s \in CallSites(root) : \E d \in ExpansionCons(SccOf(s[1])) :
                 e = <<Prefix(s[2], d[1]), Prefix(s[2], d[2])>>
      BY <2>3
    <3>2. PICK d \in ExpansionCons(SccOf(s[1])) : e = <<Prefix(s[2], d[1]), Prefix(s[2], d[2])>>
      BY <3>1
    <3>3. e[1] = Prefix(s[2], d[1]) /\ e[2] = Prefix(s[2], d[2])
      BY <3>2
    <3>4. <<d[1], d[2]>> \in Expanded(SccOf(s[1])) /\ IsPlace(d[1]) /\ d[1] \in Places
      <4>1. ExpansionCons(SccOf(s[1])) \in SUBSET (Places \X Places) /\ IsPlace(d[1])
        BY <1>2, ExpansionSplits
      <4>2. d \in Expanded(SccOf(s[1]))
        BY <1>2, ExpandedAre
      <4> QED BY <4>1, <4>2
    \* The step leaves from a variable of the SCC, or goes on inside the copy.
    <3>5. ASSUME NEW v, w = P(v), Reached(v) PROVE Inside(s, e[2])
      <4>1. PICK u : MayShow(u, SccOf(s[1])) /\ v = Retag(u, s[2]) /\ d[1] = P(u)
        <5>1. MayMention(v, root)
          BY <3>5
        <5>2. Placed(v, <<>>) = Prefix(s[2], d[1])
          <6> HIDE DEF Reached, T
          <6> QED BY <1>12, <3>3, <3>5
        <5> HIDE DEF Reached, T
        <5> QED BY <1>1, <3>4, <5>1, <5>2, SurfaceIsShown
      <4>2. Enters(s, u)
        BY <3>5, <4>1
      <4> HIDE DEF Enters
      <4> QED BY <3>3, <3>4, <4>1, <4>2
    <3>6. ASSUME NEW s2 \in CallSites(root), Inside(s2, w) PROVE Inside(s, e[2])
      <4>1. PICK u, w0 : /\ Enters(s2, u) /\ <<P(u), w0>> \in Expanded(SccOf(s2[1]))
                         /\ w = Prefix(s2[2], w0)
        BY <3>6
      <4>2. IsPlace(w0) /\ w0 \in Places
        BY <1>8, <4>1 DEF IsPlace
      <4>3. CASE s2 = s
        <5>1. w0 = d[1]
          BY <1>2, <1>12, <3>3, <3>4, <4>1, <4>2, <4>3, PrefixInjective
        <5>2. <<P(u), d[2]>> \in Expanded(SccOf(s[1]))
          BY <1>9, <3>4, <4>1, <4>3, <5>1
        <5> HIDE DEF Enters
        <5> QED BY <3>3, <4>1, <4>3, <5>2
      <4>4. CASE s2 # s
        <5>1. s2[2] # s[2]
          BY <1>1, <1>2, <4>4, CallSitesAre
        <5>2. /\ Prefix(s[2], d[1]) = Prefix(s2[2], w0)
              /\ s[2] \in Tags /\ s2[2] \in Tags
          BY <1>2, <1>12, <3>3, <4>1
        <5>3. IsShared(w0)
          BY <3>4, <4>2, <5>1, <5>2, OtherCallsite
        <5> DEFINE v == [w0 EXCEPT !.tag = NoTag]
        <5>4. MayMention(v, root) /\ P(v) = w0
          BY <4>2, <5>3, SharedIsAtRoot
        <5> HIDE DEF v
        <5>5. w = w0
          BY <4>1, <5>3 DEF Prefix
        <5>6. Reached(v)
          <6> HIDE DEF Reached, T
          <6> QED BY <1>11, <5>4, <5>5
        <5> HIDE DEF Reached, Inside
        <5> QED BY <3>5, <5>4, <5>5, <5>6
      <4> QED BY <4>3, <4>4
    <3>7. Inside(s, e[2])
      <4> HIDE DEF Reached, Inside
      <4> QED BY <3>5, <3>6
    <3> HIDE DEF Inside, AtRoot
    <3> QED BY <2>1, <3>7
  <2> HIDE DEF T
  <2> QED BY <2>2, <2>3, ExpansionSplits
<1>13. P(x) \in T
  <2>1. Reached(x)
    OBVIOUS
  <2>2. AtRoot(P(x))
    <3> HIDE DEF Reached
    <3> QED BY <2>1
  <2>3. P(x) \in Places
    <3>1. <<>> \in Contexts /\ x \in Variables
      BY DEF MayMention, Contexts
    <3> QED BY <3>1, PlacedAre
  <2> HIDE DEF AtRoot, Inside
  <2> QED BY <2>2, <2>3
<1>14. P(y) \in T
  <2> DEFINE Q == {e \in Places \X Places : e[1] = P(x) => e[2] \in T}
  <2> HIDE DEF T
  <2>1. ExpansionCons(root) \in SUBSET (Places \X Places)
    BY ExpansionSplits
  <2>2. ExpansionCons(root) \subseteq Q
    BY <1>12, <1>13, <2>1
  <2>3. ASSUME NEW a, NEW b, NEW c, <<a, b>> \in Q, <<b, c>> \in ExpansionCons(root) PROVE <<a, c>> \in Q
    <3>1. a \in Places /\ c \in Places /\ (a = P(x) => b \in T)
      BY <2>1, <2>3
    <3>2. a = P(x) => c \in T
      <4> DEFINE e == <<b, c>>
      <4>1. e \in ExpansionCons(root) /\ e[1] = b /\ e[2] = c
        BY <2>3
      <4> HIDE DEF e
      <4> QED BY <1>12, <3>1, <4>1
    <3> QED BY <3>1, <3>2
  <2>4. Expanded(root) \subseteq Q
    <3> HIDE DEF Q
    <3> QED BY <2>2, <2>3, ExpandedAre
  <2> QED BY <2>4
<1>15. Reached(y)
  <2> HIDE DEF T, Reached
  <2> QED BY <1>11, <1>14
<1> QED BY <1>15 DEF R

-----------------------------------------------------------------------------
(* The walk through an automaton *)

(* The chains through inner variables lie between the constraints and their  *)
(* closure.                                                                  *)
LEMMA ChainsAre ==
  ASSUME NEW U, cons \in SUBSET (U \X U), IsFiniteSet(cons)
  PROVE  /\ cons \subseteq Chains /\ GoesOn(Chains, cons, Inner)
         /\ Chains \subseteq Closure(cons)
         /\ Chains \in SUBSET (Mentioned(cons) \X Mentioned(cons))
<1>1. IsFiniteSet(Inner)
  BY MentionedFinite, FS_Subset DEF Inner
<1>2. /\ cons \subseteq Closure(cons) /\ IsTransitive(Closure(cons))
      /\ Closure(cons) \in SUBSET (Mentioned(cons) \X Mentioned(cons))
  BY FiniteClosure
<1>3. /\ cons \subseteq Chains /\ GoesOn(Chains, cons, Inner)
      /\ \A T : cons \subseteq T /\ GoesOn(T, cons, Inner) => Chains \subseteq T
  BY <1>1, ThroughIsLeast DEF Chains
<1>4. GoesOn(Closure(cons), cons, Inner)
  BY <1>2 DEF GoesOn, IsTransitive
<1> QED BY <1>2, <1>3, <1>4

(* The walk keeps what the constraints relate between variables it keeps. *)
LEMMA WalkKeeps ==
  ASSUME NEW U, cons \in SUBSET (U \X U), IsFiniteSet(cons),
         NEW W, NEW S \in SUBSET (W \X W), IsFiniteSet(S), WalkConstraints(Chains) \subseteq S,
         NEW x, NEW y, x.name \in names, y.name \in names, <<x, y>> \in Closure(cons)
  PROVE  <<x, y>> \in Closure(S)
<1> DEFINE Reached(b) == b = x \/ <<x, b>> \in Closure(S)
           OnTheWay(b) == \E a : a.name \in names /\ Reached(a) /\ <<a, b>> \in Chains
           At(b) == IF b.name \in names THEN <<x, b>> \in Closure(S) ELSE OnTheWay(b)
           T == {e \in U \X U : e[1] = x => At(e[2])}
<1>1. /\ cons \subseteq Chains /\ GoesOn(Chains, cons, Inner)
      /\ Chains \in SUBSET (Mentioned(cons) \X Mentioned(cons))
  BY ChainsAre
<1>2. S \subseteq Closure(S) /\ IsTransitive(Closure(S))
  BY FiniteClosure
<1>3. ASSUME NEW a, NEW b, a.name \in names, b.name \in names, Reached(a), <<a, b>> \in Chains
      PROVE  <<x, b>> \in Closure(S)
  <2>1. <<a, b>> \in WalkConstraints(Chains)
    BY <1>3 DEF WalkConstraints
  <2>2. <<a, b>> \in Closure(S)
    BY <1>2, <2>1
  <2> QED BY <1>2, <1>3, <2>2 DEF IsTransitive
<1>4. ASSUME NEW a, NEW b, a.name \in names, Reached(a), <<a, b>> \in Chains
      PROVE  At(b)
  <2>1. CASE b.name \in names
    BY <1>3, <1>4, <2>1
  <2>2. CASE b.name \notin names
    BY <1>4, <2>2
  <2> QED BY <2>1, <2>2
<1>5. cons \subseteq T
  <2> SUFFICES ASSUME NEW e \in cons, e[1] = x PROVE At(e[2])
    OBVIOUS
  <2>1. <<x, e[2]>> \in Chains /\ Reached(x)
    BY <1>1
  <2> HIDE DEF At, Reached
  <2> QED BY <1>4, <2>1
<1>6. ASSUME NEW a, NEW b, NEW c, <<a, b>> \in T, <<b, c>> \in cons PROVE <<a, c>> \in T
  <2> SUFFICES ASSUME a = x PROVE At(c)
    BY <1>6
  <2>1. At(b)
    BY <1>6
  <2>2. <<b, c>> \in Chains
    BY <1>1, <1>6
  <2>3. CASE b.name \in names
    <3>1. Reached(b)
      BY <2>1, <2>3
    <3> HIDE DEF At, Reached
    <3> QED BY <1>4, <2>2, <2>3, <3>1
  <2>4. CASE b.name \notin names
    <3>1. PICK d : d.name \in names /\ Reached(d) /\ <<d, b>> \in Chains
      BY <2>1, <2>4
    <3>2. b \in Inner
      <4> DEFINE e == <<b, c>>
      <4>1. e \in cons /\ b = e[1]
        BY <1>6
      <4>2. b \in Mentioned(cons)
        BY <4>1, MentionedAre
      <4> QED BY <2>4, <4>2 DEF Inner
    <3>3. <<d, c>> \in Chains
      BY <1>1, <1>6, <3>1, <3>2 DEF GoesOn
    <3> HIDE DEF At, Reached
    <3> QED BY <1>4, <3>1, <3>3
  <2> QED BY <2>3, <2>4
<1>7. <<x, y>> \in T
  <2> HIDE DEF T
  <2> QED BY <1>5, <1>6, FiniteClosure
<1> QED BY <1>7

-----------------------------------------------------------------------------
(* The invariant *)

SignaturesGood == \A p \in DOMAIN signatures : GoodSignature(signatures[p], SccOf(p))

ResultsGood ==
  \A p \in DOMAIN constraints :
    /\ GoodResult(constraints[p], SccOf(p))
    /\ \A v \in FormalsIn(BasicCons(SccOf(p))) : v \in Mentioned(constraints[p])

\* Loop breakers replace variables that are not kept, and lose nothing else.
SimplifiesTheScc ==
  /\ CalleesSigned
  /\ AreConstraints(cons, CurrentScc)
  /\ InterestingNames(CurrentScc, ResolvedCons(CurrentScc), BaseNames) \subseteq names
  /\ pass = "signatures" => names \subseteq KeptNames(CurrentScc, Breakers)
  /\ \A x, y :
       (/\ {x.name, y.name} \subseteq InterestingNames(CurrentScc, ResolvedCons(CurrentScc), BaseNames)
        /\ <<x, y>> \in Closure(ResolvedCons(CurrentScc)))
       => <<x, y>> \in Closure(cons)
  /\ fresh = 0 => cons = ResolvedCons(CurrentScc)

FInv == /\ SignaturesGood /\ ResultsGood
        /\ pc = "simplify" => SimplifiesTheScc
        /\ pc = "order" => DOMAIN signatures = {} /\ DOMAIN constraints = {}

(* What the constraints of an SCC may mention is a matter of the program. *)
LEMMA MayMentionStays ==
  ASSUME program' = program, NEW CONSTANT v, NEW CONSTANT scc
  PROVE  MayMention(v, scc)' <=> MayMention(v, scc)
  BY DEF MayMention, CallSites, BasicCons, GeneratedCons, SccOf, Calls

(* The SCCs and the constraints generated for them stay too. *)
LEMMA SccStays ==
  ASSUME program' = program
  PROVE  (\A p : SccOf(p)' = SccOf(p)) /\ (\A scc : BasicCons(scc)' = BasicCons(scc))
  BY DEF SccOf, Calls, BasicCons, GeneratedCons

(* A signature stays as good as it was, however many loops are broken later. *)
LEMMA GoodSignatureStays ==
  ASSUME program' = program, fresh \in Nat, fresh' = fresh \/ fresh' = fresh + 1,
         NEW CONSTANT cs, NEW CONSTANT scc, GoodSignature(cs, scc)
  PROVE  GoodSignature(cs, scc)'
<1>1. \A v : MayMention(v, scc)' <=> MayMention(v, scc)
  BY MayMentionStays
<1>2. Expanded(scc)' = Expanded(scc)
  BY ExpandedStays
<1>3. Breakers \subseteq Breakers' /\ (fresh' = 0 => fresh = 0)
  BY DEF Breakers
<1>4. AreConstraints(cs, scc)'
  BY <1>1 DEF GoodSignature, AreConstraints
<1>5. Complete(cs, scc, KeptNames(scc, {}))'
  BY <1>1, <1>2 DEF GoodSignature, Complete, KeptNames
<1>6. (fresh = 0 => Apart(cs, scc))'
  BY <1>2, <1>3 DEF GoodSignature, Apart
<1>7. (\A v \in Mentioned(cs) : v.tag = NoTag /\ v.name \in KeptNames(scc, Breakers))'
  BY <1>3 DEF GoodSignature, KeptNames
<1> QED BY <1>4, <1>5, <1>6, <1>7 DEF GoodSignature

(* So do the constraints the later stages get. *)
LEMMA GoodResultStays ==
  ASSUME program' = program, fresh \in Nat, fresh' = fresh \/ fresh' = fresh + 1,
         NEW CONSTANT cs, NEW CONSTANT scc, GoodResult(cs, scc)
  PROVE  GoodResult(cs, scc)'
<1>1. \A v : MayMention(v, scc)' <=> MayMention(v, scc)
  BY MayMentionStays
<1>2. Expanded(scc)' = Expanded(scc)
  BY ExpandedStays
<1>3. fresh' = 0 => fresh = 0
  OBVIOUS
<1>4. AreConstraints(cs, scc)'
  BY <1>1 DEF GoodResult, AreConstraints
<1>5. Complete(cs, scc, KeptNames(scc, InterestingTids))'
  BY <1>1, <1>2 DEF GoodResult, Complete, KeptNames
<1>6. (fresh = 0 => Apart(cs, scc))'
  BY <1>2, <1>3 DEF GoodResult, Apart
<1> QED BY <1>4, <1>5, <1>6 DEF GoodResult

(* What was recorded stays good. *)
LEMMA RecordedStays ==
  ASSUME program' = program, fresh \in Nat, fresh' = fresh \/ fresh' = fresh + 1,
         SignaturesGood, ResultsGood
  PROVE  /\ signatures' = signatures => SignaturesGood'
         /\ constraints' = constraints => ResultsGood'
<1>1. (\A p : SccOf(p)' = SccOf(p)) /\ (\A scc : BasicCons(scc)' = BasicCons(scc))
  BY SccStays
<1>2. ASSUME signatures' = signatures PROVE SignaturesGood'
  <2> SUFFICES ASSUME NEW p \in DOMAIN signatures PROVE GoodSignature(signatures[p], SccOf(p))'
    BY <1>2 DEF SignaturesGood
  <2>1. \A cs, scc : GoodSignature(cs, scc) => GoodSignature(cs, scc)'
    BY GoodSignatureStays
  <2>2. signatures'[p] = signatures[p] /\ SccOf(p)' = SccOf(p) /\ GoodSignature(signatures[p], SccOf(p))
    BY <1>1, <1>2 DEF SignaturesGood
  <2> QED BY <2>1, <2>2
<1>3. ASSUME constraints' = constraints PROVE ResultsGood'
  <2> SUFFICES ASSUME NEW p \in DOMAIN constraints
               PROVE  (/\ GoodResult(constraints[p], SccOf(p))
                       /\ \A v \in FormalsIn(BasicCons(SccOf(p))) : v \in Mentioned(constraints[p]))'
    BY <1>3 DEF ResultsGood
  <2>1. \A cs, scc : GoodResult(cs, scc) => GoodResult(cs, scc)'
    BY GoodResultStays
  <2>2. constraints'[p] = constraints[p] /\ SccOf(p)' = SccOf(p) /\ GoodResult(constraints[p], SccOf(p))
    BY <1>1, <1>3 DEF ResultsGood
  <2>3. GoodResult(constraints[p], SccOf(p))'
    BY <2>1, <2>2
  <2>4. BasicCons(SccOf(p))' = BasicCons(SccOf(p))
    BY <1>1
  <2>5. (\A v \in FormalsIn(BasicCons(SccOf(p))) : v \in Mentioned(constraints[p]))'
    BY <1>3, <2>4 DEF ResultsGood
  <2> QED BY <2>3, <2>5
<1> QED BY <1>2, <1>3

-----------------------------------------------------------------------------
(* The steps *)

(* The SCC that is handled is one of the call graph's. *)
LEMMA CurrentIsScc ==
  ASSUME IInv, left > 0, pc # "order"
  PROVE  program \in Programs /\ Orderings # {} /\ CurrentScc \in Sccs /\ CurrentScc \in SUBSET Procs
<1>1. program \in Programs /\ order \in Orderings
  BY DEF IInv, TypeOK, OrderFixed
<1>2. order \in [1 .. Cardinality(Sccs) -> Sccs]
  BY <1>1 DEF Orderings
<1>3. /\ CurrentScc \in SUBSET Procs
      /\ pass = "signatures" => left \in 1 .. Len(order) /\ CurrentScc = order[left]
      /\ pass = "constraints" => Len(order) + 1 - left \in 1 .. Len(order)
  BY CurrentIsInOrder
<1>4. Len(order) = Cardinality(Sccs)
  BY <1>2, SccsCover
<1>5. pass \in {"signatures", "constraints"}
  BY DEF IInv, TypeOK
<1> QED BY <1>1, <1>2, <1>3, <1>4, <1>5 DEF CurrentScc

(* Signatures that were recorded serve the callers. *)
LEMMA CalleesAreServed ==
  ASSUME SignaturesGood, CalleesSigned
  PROVE  CalleesAreGood(CurrentScc)
  BY DEF SignaturesGood, CalleesSigned, CalleesAreGood, CallSites

(* What the handling of one SCC depends on. *)
LEMMA SurroundingsStay ==
  ASSUME UNCHANGED <<program, order, signatures, left, pass>>
  PROVE  /\ CurrentScc' = CurrentScc /\ BaseNames' = BaseNames
         /\ CalleesSigned' <=> CalleesSigned
         /\ ResolvedCons(CurrentScc)' = ResolvedCons(CurrentScc)
<1>1. CurrentScc' = CurrentScc /\ BaseNames' = BaseNames
  BY DEF CurrentScc, BaseNames
<1>2. \A scc : BasicCons(scc)' = BasicCons(scc)
  BY SccStays
<1>3. BasicCons(CurrentScc)' = BasicCons(CurrentScc)
  BY <1>1, <1>2
<1>4. CalleesSigned' <=> CalleesSigned
  BY <1>1, <1>3 DEF CalleesSigned
<1>5. ResolvedCons(CurrentScc)' = ResolvedCons(CurrentScc)
  BY <1>1, <1>3 DEF ResolvedCons, WithCalleeSignatures
<1> QED BY <1>1, <1>4, <1>5

(* Before a loop is broken the constraints are the resolved ones. *)
LEMMA InstantiateSimplifies ==
  ASSUME IInv, FInv, InstantiateCallees
  PROVE  SimplifiesTheScc'
<1> DEFINE A == CurrentScc
           R == ResolvedCons(A)
<1>1. /\ CalleesSigned /\ left > 0 /\ pc = "instantiate"
      /\ cons' = R /\ names' = InterestingNames(A, R, BaseNames)
      /\ UNCHANGED <<program, order, signatures, left, pass, fresh>>
  BY CalleesAreSigned DEF InstantiateCallees, results
<1>2. /\ A' = A /\ BaseNames' = BaseNames /\ R' = R /\ CalleesSigned'
  BY <1>1, SurroundingsStay
<1>3. AreConstraints(R, A)
  BY <1>1, CurrentIsScc, CalleesAreServed, ResolvedAre DEF FInv
<1>4. AreConstraints(cons, CurrentScc)'
  <2>1. \A v, scc : MayMention(v, scc)' <=> MayMention(v, scc)
    BY <1>1, MayMentionStays
  <2>2. IsFiniteSet(cons') /\ cons' \in SUBSET (Variables \X Variables) /\ \A v \in Mentioned(cons') : MayMention(v, A)
    BY <1>1, <1>3 DEF AreConstraints
  <2> HIDE DEF A
  <2>3. \A v \in Mentioned(cons') : MayMention(v, A)'
    BY <1>2, <2>1, <2>2
  <2> QED BY <1>2, <2>2, <2>3 DEF AreConstraints, A
<1>5. (InterestingNames(CurrentScc, ResolvedCons(CurrentScc), BaseNames) \subseteq names)'
  BY <1>1, <1>2 DEF InterestingNames
<1>6. (pass = "signatures" => names \subseteq KeptNames(CurrentScc, Breakers))'
  BY <1>1, <1>2 DEF InterestingNames, KeptNames, BaseNames, IsGlobal
<1>7. (\A x, y :
        (/\ {x.name, y.name} \subseteq InterestingNames(CurrentScc, ResolvedCons(CurrentScc), BaseNames)
         /\ <<x, y>> \in Closure(ResolvedCons(CurrentScc)))
        => <<x, y>> \in Closure(cons))'
  BY <1>1, <1>2
<1>8. (fresh = 0 => cons = ResolvedCons(CurrentScc))'
  BY <1>1, <1>2
<1> QED BY <1>2, <1>4, <1>5, <1>6, <1>7, <1>8 DEF SimplifiesTheScc

(* Replacing a variable that is not kept changes nothing between those that are. *)
LEMMA BreakLoopSimplifies ==
  ASSUME IInv, SimplifiesTheScc, BreakLoop
  PROVE  SimplifiesTheScc'
<1> DEFINE A == CurrentScc
           R == ResolvedCons(A)
           N == InterestingNames(A, R, BaseNames)
<1>1. PICK v : /\ v.name \notin names
               /\ cons' = Replaced(v, LoopBreaker(fresh))
  BY DEF BreakLoop, LoopEntries, Inner
<1>2. /\ names' = names \cup {fresh} /\ fresh' = fresh + 1 /\ pc = "simplify"
      /\ UNCHANGED <<program, order, signatures, left, pass>>
  BY DEF BreakLoop, results
<1>3. A' = A /\ BaseNames' = BaseNames /\ R' = R /\ CalleesSigned'
  BY <1>2, SurroundingsStay DEF SimplifiesTheScc
<1>4. fresh \in Nat
  BY DEF IInv, TypeOK
<1>5. AreConstraints(cons, A) /\ N \subseteq names
  BY DEF SimplifiesTheScc
<1> DEFINE by == LoopBreaker(fresh)
           f == [u \in Variables |-> IF u = v THEN by ELSE u]
           of == [c \in cons |-> <<f[c[1]], f[c[2]]>>]
<1>6. by.name = fresh /\ by.tag = NoTag /\ by.port = NoPort /\ by \in Variables
  BY <1>4 DEF LoopBreaker, Base, Variables, Names
<1> HIDE DEF by
<1>7. MayMention(by, A)
  BY <1>4, <1>6, NamesAssumption DEF MayMention
<1>8. \A c \in cons : /\ c \in Variables \X Variables
                      /\ MayMention(c[1], A) /\ MayMention(c[2], A)
                      /\ c[1] \in Mentioned(cons) /\ c[2] \in Mentioned(cons)
  BY <1>5, MentionedAre DEF AreConstraints
<1>9. Replaced(v, by) = {of[c] : c \in cons}
  BY <1>8 DEF Replaced
<1>10. cons' = {of[c] : c \in cons}
  BY <1>1, <1>9 DEF by
<1>11. ASSUME NEW c \in cons
       PROVE  /\ of[c] = <<f[c[1]], f[c[2]]>>
              /\ MayMention(f[c[1]], A) /\ MayMention(f[c[2]], A)
  BY <1>7, <1>8
<1>12. IsFiniteSet(cons')
  <2> HIDE DEF of
  <2> QED BY <1>5, <1>10, ImageFinite DEF AreConstraints
<1> HIDE DEF of, f
<1>13. ASSUME NEW d \in cons'
       PROVE  d = <<d[1], d[2]>> /\ MayMention(d[1], A) /\ MayMention(d[2], A)
  <2>1. PICK c \in cons : d = of[c]
    BY <1>10
  <2> QED BY <1>11, <2>1
<1>14. cons' \in SUBSET (Variables \X Variables)
  BY <1>13 DEF MayMention
<1>15. AreConstraints(cons, CurrentScc)'
  <2>1. \A u, scc : MayMention(u, scc)' <=> MayMention(u, scc)
    BY <1>2, MayMentionStays
  <2>2. \A u \in Mentioned(cons') : MayMention(u, A)
    BY <1>13, MentionedAre
  <2> HIDE DEF A
  <2>3. \A u \in Mentioned(cons') : MayMention(u, A)'
    BY <1>3, <2>1, <2>2
  <2> QED BY <1>3, <1>12, <1>14, <2>3 DEF AreConstraints, A
<1>16. N' = N
  BY <1>3 DEF InterestingNames
<1>17. (InterestingNames(CurrentScc, ResolvedCons(CurrentScc), BaseNames) \subseteq names)'
  BY <1>2, <1>5, <1>16
<1>18. (pass = "signatures" => names \subseteq KeptNames(CurrentScc, Breakers))'
  <2>1. Breakers' = Breakers \cup {fresh}
    BY <1>2, <1>4 DEF Breakers
  <2>2. KeptNames(CurrentScc, Breakers)' = KeptNames(CurrentScc, Breakers) \cup {fresh}
    BY <1>3, <2>1 DEF KeptNames
  <2>3. pass = "signatures" => names \subseteq KeptNames(CurrentScc, Breakers)
    BY DEF SimplifiesTheScc
  <2> QED BY <1>2, <2>2, <2>3
<1>19. ASSUME NEW x, NEW y, {x.name, y.name} \subseteq N, <<x, y>> \in Closure(R)
       PROVE  <<x, y>> \in Closure(cons')
  <2>1. <<x, y>> \in Closure(cons)
    BY <1>19 DEF SimplifiesTheScc
  <2>2. cons \in SUBSET (Variables \X Variables) /\ IsFiniteSet(cons)
    BY <1>5 DEF AreConstraints
  <2>3. IsTransitive(Closure(cons')) /\ cons' \subseteq Closure(cons')
    BY <1>12, <1>14, FiniteClosure
  <2>4. \A c \in cons : <<f[c[1]], f[c[2]]>> \in Closure(cons')
    BY <1>10, <1>11, <2>3
  <2>5. <<f[x], f[y]>> \in Closure(cons')
    <3> DEFINE T == Closure(cons')
    <3> HIDE DEF T
    <3>1. IsTransitive(T) /\ \A c \in cons : <<f[c[1]], f[c[2]]>> \in T
      BY <2>3, <2>4 DEF T
    <3>2. <<f[x], f[y]>> \in T
      BY <2>1, <2>2, <3>1, ClosureMaps
    <3> QED BY <3>2 DEF T
  <2>6. x \in Variables /\ y \in Variables
    <3>1. Closure(cons) \in SUBSET (Mentioned(cons) \X Mentioned(cons))
      BY <2>2, FiniteClosure
    <3>2. x \in Mentioned(cons) /\ y \in Mentioned(cons)
      BY <2>1, <3>1
    <3> QED BY <1>5, <3>2 DEF AreConstraints, MayMention
  <2>7. x # v /\ y # v
    BY <1>1, <1>5, <1>19
  <2>8. f[x] = x /\ f[y] = y
    BY <2>6, <2>7 DEF f
  <2> QED BY <2>5, <2>8
<1>20. (\A x, y :
        (/\ {x.name, y.name} \subseteq InterestingNames(CurrentScc, ResolvedCons(CurrentScc), BaseNames)
         /\ <<x, y>> \in Closure(ResolvedCons(CurrentScc)))
        => <<x, y>> \in Closure(cons))'
  BY <1>3, <1>16, <1>19
<1>21. fresh' # 0
  BY <1>2, <1>4
<1> QED BY <1>3, <1>15, <1>17, <1>18, <1>20, <1>21 DEF SimplifiesTheScc

(* A set of constraints that keeps callsites apart does so through chains. *)
LEMMA ClosureApart ==
  ASSUME program \in Programs, Orderings # {}, NEW scc \in Sccs,
         NEW R, AreConstraints(R, scc), Apart(R, scc), NEW a, NEW b, <<a, b>> \in Closure(R)
  PROVE  a = b \/ <<Placed(a, <<>>), Placed(b, <<>>)>> \in Expanded(scc)
<1> DEFINE f == [v \in Variables |-> Placed(v, <<>>)]
           T == Expanded(scc) \cup {<<w, w>> : w \in Places}
<1>1. Expanded(scc) \in SUBSET (Places \X Places) /\ IsTransitive(Expanded(scc))
  BY ExpandedAre
<1>2. \A u, w : <<u, w>> \in T <=> <<u, w>> \in Expanded(scc) \/ (u = w /\ u \in Places)
  BY <1>1
<1>3. IsTransitive(T)
  BY <1>1, <1>2 DEF IsTransitive
<1>4. R \in SUBSET (Variables \X Variables) /\ IsFiniteSet(R)
  BY DEF AreConstraints
<1>5. \A v \in Variables : f[v] = Placed(v, <<>>) /\ f[v] \in Places
  <2>1. <<>> \in Contexts
    BY DEF Contexts
  <2> QED BY <2>1, PlacedAre
<1> HIDE DEF f, T
<1>6. \A r \in R : <<f[r[1]], f[r[2]]>> \in T
  BY <1>2, <1>4, <1>5 DEF Apart
<1>7. <<f[a], f[b]>> \in T
  BY <1>3, <1>4, <1>6, ClosureMaps
<1>8. MayMention(a, scc) /\ MayMention(b, scc)
  <2>1. Closure(R) \in SUBSET (Mentioned(R) \X Mentioned(R))
    BY <1>4, FiniteClosure
  <2> QED BY <2>1 DEF AreConstraints
<1>9. f[a] = Placed(a, <<>>) /\ f[b] = Placed(b, <<>>)
  BY <1>5, <1>8 DEF MayMention
<1>10. scc \in SUBSET Procs
  BY MemberOfScc
<1> QED BY <1>2, <1>7, <1>8, <1>9, <1>10, PlacedInjective

(* What is recorded for an SCC says of it what its expansion does. *)
LEMMA SimplifiedIsGood ==
  ASSUME IInv, FInv, pc = "simplify",
         NEW S, S = InsertMissedFormals(WalkConstraints(Chains), ResolvedCons(CurrentScc))
  PROVE  /\ AreConstraints(S, CurrentScc)
         /\ Complete(S, CurrentScc, KeptNames(CurrentScc, BaseNames))
         /\ fresh = 0 => Apart(S, CurrentScc)
         /\ \A v \in FormalsIn(BasicCons(CurrentScc)) : v \in Mentioned(S)
         /\ pass = "signatures" =>
              \A v \in Mentioned(S) : v.tag = NoTag /\ v.name \in KeptNames(CurrentScc, Breakers)
<1> DEFINE A == CurrentScc
           R == ResolvedCons(A)
           N == InterestingNames(A, R, BaseNames)
           W == WalkConstraints(Chains)
           missed == FormalsIn(R) \ FormalsIn(W)
<1>1. program \in Programs /\ Orderings # {} /\ A \in Sccs /\ A \in SUBSET Procs
  BY CurrentIsScc DEF IInv, PassesProceed
<1>2. SimplifiesTheScc /\ CalleesAreGood(A)
  BY CalleesAreServed DEF FInv, SimplifiesTheScc
<1>3. AreConstraints(R, A) /\ \A c \in BodyCons(A) : c \in R
  BY <1>1, <1>2, ResolvedAre
<1>4. AreConstraints(cons, A) /\ N \subseteq names
  BY <1>2 DEF SimplifiesTheScc
<1>5. S = W \cup {<<v, v>> : v \in missed}
  BY DEF InsertMissedFormals
<1>6. /\ cons \subseteq Chains /\ Chains \subseteq Closure(cons)
      /\ Chains \in SUBSET (Mentioned(cons) \X Mentioned(cons))
  BY <1>4, ChainsAre DEF AreConstraints
<1>7. W \subseteq Chains /\ \A c \in W : c[1].name \in names /\ c[2].name \in names
  BY DEF WalkConstraints
<1> HIDE DEF A, R, N, W
<1>8. ASSUME NEW v \in missed
      PROVE  MayMention(v, A) /\ v.tag = NoTag /\ v.name \in A
  <2>1. v \in Mentioned(R) /\ v.tag = NoTag /\ v.port # NoPort
    BY DEF FormalsIn, IsFormal
  <2> QED BY <1>3, <2>1 DEF AreConstraints, MayMention
<1>9. ASSUME NEW c \in S
      PROVE  /\ c = <<c[1], c[2]>> /\ MayMention(c[1], A) /\ MayMention(c[2], A)
             /\ \/ c \in W
                \/ c[1] = c[2] /\ c[1] \in missed
  <2>1. CASE c \in W
    <3>1. c \in Mentioned(cons) \X Mentioned(cons)
      BY <1>6, <1>7, <2>1
    <3> QED BY <1>4, <2>1, <3>1 DEF AreConstraints
  <2>2. CASE \E v \in missed : c = <<v, v>>
    <3> HIDE DEF missed
    <3> QED BY <1>8, <2>2
  <2> QED BY <1>5, <2>1, <2>2
<1>10. IsFiniteSet(S)
  <2>1. IsFiniteSet(Mentioned(cons)) /\ IsFiniteSet(Mentioned(R))
    BY <1>3, <1>4, MentionedFinite DEF AreConstraints
  <2>2. IsFiniteSet(Mentioned(cons) \X Mentioned(cons))
    BY <2>1, FS_Product
  <2>3. IsFiniteSet(W)
    BY <1>6, <1>7, <2>2, FS_Subset
  <2>4. IsFiniteSet(missed)
    BY <2>1, FS_Subset DEF FormalsIn
  <2> DEFINE of == [v \in missed |-> <<v, v>>]
  <2>5. IsFiniteSet({of[v] : v \in missed})
    <3> HIDE DEF missed
    <3> QED BY <2>4, ImageFinite
  <2>6. S = W \cup {of[v] : v \in missed}
    <3> HIDE DEF missed
    <3> QED BY <1>5
  <2> HIDE DEF of, missed
  <2> QED BY <2>3, <2>5, <2>6, FS_Union
<1>11. AreConstraints(S, A)
  <2>1. S \in SUBSET (Variables \X Variables)
    BY <1>9 DEF MayMention
  <2>2. \A v \in Mentioned(S) : MayMention(v, A)
    BY <1>9, MentionedAre
  <2> QED BY <1>10, <2>1, <2>2 DEF AreConstraints
<1>12. Complete(S, A, KeptNames(A, BaseNames))
  <2> SUFFICES ASSUME NEW x, NEW y, MayMention(x, A), MayMention(y, A), x # y,
                      x.name \in KeptNames(A, BaseNames), y.name \in KeptNames(A, BaseNames),
                      <<Placed(x, <<>>), Placed(y, <<>>)>> \in Expanded(A)
               PROVE  <<x, y>> \in Closure(S)
    BY DEF Complete
  <2>1. <<x, y>> \in Closure(R)
    BY <1>1, <1>2, ResolvedComplete DEF R
  <2>2. Closure(R) \in SUBSET (Mentioned(R) \X Mentioned(R))
    BY <1>3, FiniteClosure DEF AreConstraints
  <2>3. x \in Mentioned(R) /\ y \in Mentioned(R)
    BY <2>1, <2>2
  <2>4. x.name \in N /\ y.name \in N
    BY <2>3 DEF N, InterestingNames, KeptNames, IsGlobal
  <2>5. <<x, y>> \in Closure(cons)
    BY <1>2, <2>1, <2>4 DEF SimplifiesTheScc, N, R, A
  <2>6. cons \in SUBSET (Variables \X Variables) /\ IsFiniteSet(cons)
    BY <1>4 DEF AreConstraints
  <2>7. S \in SUBSET (Variables \X Variables) /\ IsFiniteSet(S)
    BY <1>11 DEF AreConstraints
  <2>8. WalkConstraints(Chains) \subseteq S
    BY <1>5 DEF W
  <2> QED BY <1>4, <2>4, <2>5, <2>6, <2>7, <2>8, WalkKeeps
<1>13. ASSUME fresh = 0 PROVE Apart(S, A)
  <2>1. cons = R
    BY <1>2, <1>13 DEF SimplifiesTheScc, R, A
  <2>2. Apart(R, A)
    BY <1>1, <1>2, <1>13, ResolvedApart DEF R
  <2>3. ASSUME NEW c \in W PROVE c[1] = c[2] \/ <<Placed(c[1], <<>>), Placed(c[2], <<>>)>> \in Expanded(A)
    <3>1. c = <<c[1], c[2]>> /\ c \in Closure(R)
      BY <1>6, <1>7, <2>1
    <3> QED BY <1>1, <1>3, <2>2, <3>1, ClosureApart
  <2> QED BY <1>9, <2>3 DEF Apart
<1>14. \A v \in FormalsIn(R) : v \in Mentioned(S)
  <2> SUFFICES ASSUME NEW v \in FormalsIn(R) PROVE \E c \in S : v = c[1] \/ v = c[2]
    BY MentionedAre
  <2>1. CASE v \in FormalsIn(W)
    <3>1. v \in Mentioned(W)
      BY <2>1 DEF FormalsIn
    <3>2. PICK c \in W : v = c[1] \/ v = c[2]
      BY <3>1, MentionedAre
    <3> QED BY <1>5, <3>2
  <2>2. CASE v \in missed
    <3>1. <<v, v>> \in S
      <4> HIDE DEF missed
      <4> QED BY <1>5, <2>2
    <3> DEFINE c == <<v, v>>
    <3>2. c \in S /\ v = c[1]
      BY <3>1
    <3> HIDE DEF c
    <3> QED BY <3>2
  <2> QED BY <2>1, <2>2
<1>15. \A v \in FormalsIn(BasicCons(A)) : v \in FormalsIn(R)
  <2> SUFFICES ASSUME NEW v \in FormalsIn(BasicCons(A)) PROVE v \in Mentioned(R)
    BY DEF FormalsIn
  <2>1. PICK c \in BasicCons(A) : v = c[1] \/ v = c[2]
    BY MentionedAre DEF FormalsIn
  <2>2. c \in R
    BY <1>3 DEF BodyCons
  <2> QED BY <2>1, <2>2, MentionedAre
<1>16. ASSUME pass = "signatures", NEW v \in Mentioned(S)
       PROVE  v.tag = NoTag /\ v.name \in KeptNames(A, Breakers)
  <2>1. PICK c \in S : v = c[1] \/ v = c[2]
    BY MentionedAre
  <2>2. CASE v \in missed
    BY <1>8, <2>2 DEF KeptNames
  <2>3. CASE c \in W
    <3>1. v.name \in KeptNames(A, Breakers) /\ MayMention(v, A)
      BY <1>2, <1>7, <1>9, <1>16, <2>1, <2>3 DEF SimplifiesTheScc, A
    <3>2. v.tag = NoTag
      <4> SUFFICES ASSUME v.tag # NoTag PROVE FALSE
        OBVIOUS
      <4>1. PICK f : <<f, v.tag>> \in CallSites(A) /\ v.name \in SccOf(f)
        BY <3>1 DEF MayMention
      <4>2. v.name \in Procs
        BY <4>1 DEF SccOf
      <4>3. v.name \in A
        BY <3>1, <4>2, NamesAssumption DEF KeptNames, Breakers
      <4>4. f \in Procs /\ f \notin A
        BY <1>1, <4>1, CallSitesAre
      <4>5. SccOf(v.name) = A
        BY <1>1, <4>3, MemberOfScc
      <4>6. SccOf(v.name) = SccOf(f)
        BY <1>1, <4>1, <4>4, SccPartition
      <4> QED BY <4>4, <4>5, <4>6, SccsCover
    <3> QED BY <3>1, <3>2
  <2> QED BY <1>9, <2>1, <2>2, <2>3
<1> QED BY <1>11, <1>12, <1>13, <1>14, <1>15, <1>16 DEF A

(* What is recorded keeps what was recorded before. *)
LEMMA SimplifyRecords ==
  ASSUME IInv, FInv, Simplify
  PROVE  SignaturesGood' /\ ResultsGood'
<1> DEFINE A == CurrentScc
           S == InsertMissedFormals(WalkConstraints(Chains), ResolvedCons(CurrentScc))
<1>1. /\ pc = "simplify" /\ UNCHANGED <<program, order, fresh, pass>>
      /\ IF pass = "signatures"
         THEN signatures' = Recorded(signatures, S) /\ constraints' = constraints
         ELSE constraints' = Recorded(constraints, S) /\ signatures' = signatures
  BY DEF Simplify
<1>2. program \in Programs /\ A \in Sccs /\ fresh \in Nat /\ pass \in {"signatures", "constraints"}
  BY <1>1, CurrentIsScc DEF IInv, PassesProceed, TypeOK
<1>3. \A p \in A : SccOf(p) = A
  BY <1>1, CurrentIsScc, MemberOfScc DEF IInv, PassesProceed
<1>4. /\ AreConstraints(S, A) /\ Complete(S, A, KeptNames(A, BaseNames))
      /\ fresh = 0 => Apart(S, A)
      /\ \A v \in FormalsIn(BasicCons(A)) : v \in Mentioned(S)
      /\ pass = "signatures" => \A v \in Mentioned(S) : v.tag = NoTag /\ v.name \in KeptNames(A, Breakers)
  BY <1>1, SimplifiedIsGood
<1>5. SignaturesGood /\ ResultsGood
  BY DEF FInv
<1>6. /\ \A cs, scc : GoodSignature(cs, scc) => GoodSignature(cs, scc)'
      /\ \A cs, scc : GoodResult(cs, scc) => GoodResult(cs, scc)'
  BY <1>1, <1>2, GoodSignatureStays, GoodResultStays
<1>7. (\A p : SccOf(p)' = SccOf(p)) /\ (\A scc : BasicCons(scc)' = BasicCons(scc))
  BY <1>1, SccStays
<1>8. (signatures' = signatures => SignaturesGood') /\ (constraints' = constraints => ResultsGood')
  BY <1>1, <1>2, <1>5, RecordedStays
<1> HIDE DEF S
<1>9. CASE pass = "signatures"
  <2>1. GoodSignature(S, A)
    BY <1>4, <1>9 DEF GoodSignature, BaseNames
  <2>2. SignaturesGood'
    <3> SUFFICES ASSUME NEW p \in DOMAIN signatures' PROVE GoodSignature(signatures[p], SccOf(p))'
      BY DEF SignaturesGood
    <3>1. p \in A \/ p \in DOMAIN signatures
      BY <1>1, <1>9 DEF Recorded
    <3>2. signatures'[p] = IF p \in A THEN S ELSE signatures[p]
      BY <1>1, <1>9 DEF Recorded
    <3>3. PICK cs, scc : cs = (IF p \in A THEN S ELSE signatures[p]) /\ scc = SccOf(p)
      OBVIOUS
    <3>4. GoodSignature(cs, scc)
      BY <1>3, <1>5, <2>1, <3>1, <3>3 DEF SignaturesGood
    <3>5. GoodSignature(cs, scc)'
      BY <1>6, <3>4
    <3> QED BY <1>7, <3>2, <3>3, <3>5
  <2> QED BY <1>1, <1>8, <1>9, <2>2
<1>10. CASE pass = "constraints"
  <2>1. GoodResult(S, A)
    BY <1>4, <1>10 DEF GoodResult, BaseNames
  <2>2. ResultsGood'
    <3> SUFFICES ASSUME NEW p \in DOMAIN constraints'
                 PROVE  /\ GoodResult(constraints[p], SccOf(p))'
                        /\ (\A v \in FormalsIn(BasicCons(SccOf(p))) : v \in Mentioned(constraints[p]))'
      BY DEF ResultsGood
    <3>1. p \in A \/ p \in DOMAIN constraints
      BY <1>1, <1>10 DEF Recorded
    <3>2. constraints'[p] = IF p \in A THEN S ELSE constraints[p]
      BY <1>1, <1>10 DEF Recorded
    <3>3. PICK cs, scc : cs = (IF p \in A THEN S ELSE constraints[p]) /\ scc = SccOf(p)
      OBVIOUS
    <3>4. GoodResult(cs, scc) /\ \A v \in FormalsIn(BasicCons(scc)) : v \in Mentioned(cs)
      BY <1>3, <1>4, <1>5, <2>1, <3>1, <3>3 DEF ResultsGood
    <3>5. GoodResult(cs, scc)'
      BY <1>6, <3>4
    <3>6. GoodResult(constraints[p], SccOf(p))'
      BY <1>7, <3>2, <3>3, <3>5
    <3>7. BasicCons(SccOf(p))' = BasicCons(SccOf(p))
      BY <1>7
    <3> QED BY <3>2, <3>3, <3>4, <3>6, <3>7
  <2> QED BY <1>1, <1>8, <1>10, <2>2
<1> QED BY <1>2, <1>9, <1>10

(* The invariant holds at the start, when nothing is recorded, and every step *)
(* preserves it.                                                              *)
LEMMA FaithfulInvariant == Spec => []FInv
<1>1. Init => FInv
  BY DEF Init, FInv, SignaturesGood, ResultsGood
<1>2. ASSUME IInv, FInv, [Next]_vars PROVE FInv'
  <2>1. fresh \in Nat /\ SignaturesGood /\ ResultsGood
    BY <1>2 DEF FInv, IInv, TypeOK
  <2>9. pc' = "order" => DOMAIN signatures' = {} /\ DOMAIN constraints' = {}
    BY <1>2 DEF FInv, Next, Order, InstantiateCallees, BreakLoop, Simplify, StartConstraints, Finish, vars
  <2>2. CASE Order
    <3>1. UNCHANGED <<program, signatures, constraints, fresh>> /\ pc' # "simplify"
      BY <2>2 DEF Order, results
    <3> QED BY <2>1, <3>1, <2>9, RecordedStays DEF FInv
  <2>3. CASE InstantiateCallees
    <3>1. UNCHANGED <<program, signatures, constraints, fresh>>
      BY <2>3 DEF InstantiateCallees, results
    <3>2. SimplifiesTheScc'
      BY <1>2, <2>3, InstantiateSimplifies
    <3> QED BY <2>1, <3>1, <3>2, <2>9, RecordedStays DEF FInv
  <2>4. CASE BreakLoop
    <3>1. UNCHANGED <<program, signatures, constraints>> /\ fresh' = fresh + 1 /\ pc = "simplify"
      BY <2>4 DEF BreakLoop, results
    <3>2. SimplifiesTheScc'
      BY <1>2, <2>4, <3>1, BreakLoopSimplifies DEF FInv
    <3> QED BY <2>1, <3>1, <3>2, <2>9, RecordedStays DEF FInv
  <2>5. CASE Simplify
    <3>1. pc' # "simplify"
      BY <2>5 DEF Simplify
    <3> QED BY <1>2, <2>5, <2>9, <3>1, SimplifyRecords DEF FInv
  <2>6. CASE StartConstraints
    <3>1. UNCHANGED <<program, signatures, constraints, fresh>> /\ pc' # "simplify"
      BY <2>6 DEF StartConstraints, results
    <3> QED BY <2>1, <3>1, <2>9, RecordedStays DEF FInv
  <2>7. CASE Finish
    <3>1. UNCHANGED <<program, signatures, constraints, fresh>> /\ pc' # "simplify"
      BY <2>7 DEF Finish, results
    <3> QED BY <2>1, <3>1, <2>9, RecordedStays DEF FInv
  <2>8. CASE UNCHANGED vars
    <3>1. UNCHANGED <<program, order, signatures, constraints, left, cons, names, fresh, pass, pc>>
      BY <2>8 DEF vars
    <3>2. SimplifiesTheScc => SimplifiesTheScc'
      <4>1. /\ CurrentScc' = CurrentScc /\ BaseNames' = BaseNames
            /\ CalleesSigned' <=> CalleesSigned
            /\ ResolvedCons(CurrentScc)' = ResolvedCons(CurrentScc)
        BY <3>1, SurroundingsStay
      <4>2. \A v, scc : MayMention(v, scc)' <=> MayMention(v, scc)
        BY <3>1, MayMentionStays
      <4>3. AreConstraints(cons, CurrentScc) => AreConstraints(cons, CurrentScc)'
        BY <3>1, <4>1, <4>2 DEF AreConstraints
      <4>4. Breakers' = Breakers
        BY <3>1 DEF Breakers
      <4>5. InterestingNames(CurrentScc, ResolvedCons(CurrentScc), BaseNames)'
              = InterestingNames(CurrentScc, ResolvedCons(CurrentScc), BaseNames)
        BY <4>1 DEF InterestingNames
      <4>6. KeptNames(CurrentScc, Breakers)' = KeptNames(CurrentScc, Breakers)
        BY <4>1, <4>4 DEF KeptNames
      <4> QED BY <3>1, <4>1, <4>3, <4>5, <4>6 DEF SimplifiesTheScc
    <3>3. pc' = "simplify" => SimplifiesTheScc'
      BY <1>2, <3>1, <3>2 DEF FInv
    <3> QED BY <2>1, <3>1, <3>3, <2>9, RecordedStays DEF FInv
  <2> QED BY <1>2, <2>2, <2>3, <2>4, <2>5, <2>6, <2>7, <2>8 DEF Next
<1> QED BY <1>1, <1>2, InductiveInvariant, PTL DEF Spec

-----------------------------------------------------------------------------
(* What a caller and the later stages see *)

(* A place a caller sees is a variable of the SCC itself. *)
LEMMA VisibleIsNamed ==
  ASSUME NEW w, IsPlace(w), NEW scc \in SUBSET Procs, IsVisible(w, scc)
  PROVE  \E v : MayMention(v, scc) /\ v.name \in KeptNames(scc, {}) /\ Placed(v, <<>>) = w
<1>1. CASE IsShared(w)
  <2> DEFINE v == [w EXCEPT !.tag = NoTag]
  <2>1. MayMention(v, scc) /\ Placed(v, <<>>) = w
    BY <1>1, SharedIsAtRoot
  <2>2. v.name \in KeptNames(scc, {})
    BY <1>1 DEF IsPlace, Places, IsShared, IsGlobal, KeptNames
  <2> HIDE DEF v
  <2> QED BY <2>1, <2>2
<1>2. CASE ~IsShared(w)
  <2>1. w \in Places /\ w.name \in scc /\ w.tag = <<>> /\ (w.name \in Procs <=> w.port # NoPort)
    BY <1>2 DEF IsPlace, IsVisible, IsShared
  <2> DEFINE v == [w EXCEPT !.tag = NoTag]
  <2>2. v \in Variables /\ v.name = w.name /\ v.port = w.port /\ v.tag = NoTag
    BY <2>1 DEF Places, Variables
  <2> HIDE DEF v
  <2>3. MayMention(v, scc) /\ v.name \in KeptNames(scc, {})
    BY <2>1, <2>2 DEF MayMention, KeptNames
  <2>4. ~IsShared(v) /\ <<>> \in Contexts
    BY <1>2, <2>2 DEF IsShared, IsGlobal, Contexts
  <2>5. /\ Placed(v, <<>>) \in Places /\ Placed(v, <<>>).name = w.name /\ Placed(v, <<>>).port = w.port
        /\ Placed(v, <<>>).tag = <<>>
    BY <2>2, <2>4, PlacedAre
  <2>6. Placed(v, <<>>) = w
    BY <2>1, <2>5, SamePlace
  <2> QED BY <2>3, <2>6
<1> QED BY <1>1, <1>2

(* Every place of an expansion is a variable of the SCC or behind a callsite. *)
LEMMA PlacesSplit ==
  ASSUME program \in Programs, Orderings # {}, NEW root \in Sccs,
         NEW w \in Mentioned(ExpansionCons(root))
  PROVE  /\ IsPlace(w)
         /\ \/ \E v : MayMention(v, root) /\ w = Placed(v, <<>>)
            \/ \E s \in CallSites(root) : \E d \in Mentioned(ExpansionCons(SccOf(s[1]))) :
                 w = Prefix(s[2], d)
<1>1. PICK e \in ExpansionCons(root) : w = e[1] \/ w = e[2]
  BY MentionedAre
<1>2. root \in SUBSET Procs
  BY MemberOfScc
<1>3. IsPlace(w)
  BY <1>1, ExpansionSplits
<1>4. CASE \E x \in BodyCons(root) : e = <<Placed(x[1], <<>>), Placed(x[2], <<>>)>>
  <2>1. PICK x \in BodyCons(root) : e = <<Placed(x[1], <<>>), Placed(x[2], <<>>)>>
    BY <1>4
  <2>2. MayMention(x[1], root) /\ MayMention(x[2], root)
    BY <1>2, BodyConsAre, MentionedAre
  <2> QED BY <1>1, <1>3, <2>1, <2>2
<1>5. CASE \E s \in CallSites(root) : \E d \in ExpansionCons(SccOf(s[1])) :
             e = <<Prefix(s[2], d[1]), Prefix(s[2], d[2])>>
  <2>1. PICK s \in CallSites(root) : \E d \in ExpansionCons(SccOf(s[1])) :
             e = <<Prefix(s[2], d[1]), Prefix(s[2], d[2])>>
    BY <1>5
  <2>2. PICK d \in ExpansionCons(SccOf(s[1])) : e = <<Prefix(s[2], d[1]), Prefix(s[2], d[2])>>
    BY <2>1
  <2>3. d[1] \in Mentioned(ExpansionCons(SccOf(s[1]))) /\ d[2] \in Mentioned(ExpansionCons(SccOf(s[1])))
    BY MentionedAre
  <2> QED BY <1>1, <1>3, <2>2, <2>3
<1> QED BY <1>4, <1>5, ExpansionSplits

(* A parameter one call deep is one the SCC's constraints can name. *)
LEMMA SolvedForIsNamed ==
  ASSUME program \in Programs, Orderings # {}, NEW root \in Sccs,
         NEW w \in Mentioned(ExpansionCons(root)), IsSolvedFor(w, root)
  PROVE  \E v : /\ MayMention(v, root) /\ v.name \in KeptNames(root, InterestingTids)
               /\ Placed(v, <<>>) = w
<1>1. IsPlace(w) /\ root \in SUBSET Procs /\ <<>> \in Contexts
  BY PlacesSplit, MemberOfScc DEF Contexts
<1>2. CASE IsVisible(w, root)
  <2>1. PICK v : MayMention(v, root) /\ v.name \in KeptNames(root, {}) /\ Placed(v, <<>>) = w
    BY <1>1, <1>2, VisibleIsNamed
  <2> QED BY <2>1 DEF KeptNames
<1>3. CASE w.name \in InterestingTids \cap Procs /\ Len(w.tag) = 1
  <2>1. ~IsShared(w) /\ w \in Places /\ w.port # NoPort
    BY <1>1, <1>3, NamesAssumption DEF IsShared, IsGlobal, IsPlace
  <2>2. CASE \E v : MayMention(v, root) /\ w = Placed(v, <<>>)
    <3>1. PICK v : MayMention(v, root) /\ w = Placed(v, <<>>)
      BY <2>2
    <3>2. v.name = w.name
      BY <1>1, <3>1, PlacedAre DEF MayMention
    <3> QED BY <1>3, <3>1, <3>2 DEF KeptNames
  <2>3. CASE \E s \in CallSites(root) : \E d \in Mentioned(ExpansionCons(SccOf(s[1]))) :
               w = Prefix(s[2], d)
    <3>1. PICK s \in CallSites(root) : \E d \in Mentioned(ExpansionCons(SccOf(s[1]))) :
               w = Prefix(s[2], d)
      BY <2>3
    <3>2. PICK d \in Mentioned(ExpansionCons(SccOf(s[1]))) : w = Prefix(s[2], d)
      BY <3>1
    <3> DEFINE A == SccOf(s[1])
    <3>3. /\ s = <<s[1], s[2]>> /\ s[1] \in Procs /\ s[2] \in Tags /\ s[2] # NoTag
          /\ A \in Sccs /\ A \in SUBSET Procs
      BY <1>1, CallSitesAre, SccsCover
    <3>4. d \in Mentioned(ExpansionCons(A))
      OBVIOUS
    <3> HIDE DEF A
    <3>5. /\ IsPlace(d)
          /\ \/ \E v : MayMention(v, A) /\ d = Placed(v, <<>>)
             \/ \E r \in CallSites(A) : \E c \in Mentioned(ExpansionCons(SccOf(r[1]))) : d = Prefix(r[2], c)
      BY <3>3, <3>4, PlacesSplit
    <3>6. /\ w.name = d.name /\ w.port = d.port /\ ~IsShared(d)
          /\ w.tag = <<s[2]>> \o d.tag /\ d.tag \in Seq(Tags)
      <4>1. d \in Places
        BY <3>5 DEF IsPlace
      <4>2. /\ Prefix(s[2], d).name = d.name /\ Prefix(s[2], d).port = d.port
            /\ Prefix(s[2], d).tag = IF IsShared(d) THEN d.tag ELSE <<s[2]>> \o d.tag
            /\ IsShared(Prefix(s[2], d)) <=> IsShared(d)
        BY <3>3, <4>1, PrefixIs
      <4>3. d.tag \in Seq(Tags)
        BY <4>1 DEF Places, Contexts
      <4> QED BY <2>1, <3>2, <4>2, <4>3
    <3>7. Len(d.tag) = 0 /\ d.tag = <<>> /\ w.tag = <<s[2]>>
      <4> DEFINE b == d.tag
      <4> HIDE DEF b
      <4>1. b \in Seq(Tags) /\ Len(<<s[2]>> \o b) = 1
        BY <1>3, <3>6 DEF b
      <4>2. Len(b) = 0
        BY <3>3, <4>1
      <4>3. b = <<>>
        BY <4>1, <4>2
      <4>4. <<s[2]>> \o b = <<s[2]>>
        BY <3>3, <4>3
      <4> QED BY <3>6, <4>2, <4>3, <4>4 DEF b
    <3>8. d.name \in A
      <4>1. CASE \E v : MayMention(v, A) /\ d = Placed(v, <<>>)
        <5>1. PICK v : MayMention(v, A) /\ d = Placed(v, <<>>)
          BY <4>1
        <5>2. v \in Variables
          BY <5>1 DEF MayMention
        <5>3. /\ d.name = v.name /\ (IsShared(d) <=> IsShared(v))
              /\ d.tag = IF IsShared(v) THEN <<>> ELSE IF v.tag = NoTag THEN <<>> ELSE Append(<<>>, v.tag)
          BY <1>1, <5>1, <5>2, PlacedAre
        <5>4. v.tag = NoTag
          <6>1. Append(<<>>, v.tag) # <<>>
            OBVIOUS
          <6> QED BY <3>6, <3>7, <5>3, <6>1
        <5> QED BY <1>3, <3>6, <5>1, <5>3, <5>4 DEF MayMention
      <4>2. CASE \E r \in CallSites(A) : \E c \in Mentioned(ExpansionCons(SccOf(r[1]))) : d = Prefix(r[2], c)
        <5>1. PICK r \in CallSites(A) : \E c \in Mentioned(ExpansionCons(SccOf(r[1]))) : d = Prefix(r[2], c)
          BY <4>2
        <5>2. PICK c \in Mentioned(ExpansionCons(SccOf(r[1]))) : d = Prefix(r[2], c)
          BY <5>1
        <5>3. SccOf(r[1]) \in Sccs /\ r[2] \in Tags
          BY <3>3, CallSitesAre, SccsCover
        <5>4. c \in Places
          BY <5>3, PlacesSplit DEF IsPlace
        <5>5. /\ Prefix(r[2], c).tag = IF IsShared(c) THEN c.tag ELSE <<r[2]>> \o c.tag
              /\ IsShared(Prefix(r[2], c)) <=> IsShared(c)
          BY <5>3, <5>4, PrefixIs
        <5>6. d.tag = <<r[2]>> \o c.tag /\ c.tag \in Seq(Tags)
          BY <3>6, <5>2, <5>4, <5>5 DEF Places, Contexts
        <5> DEFINE b == c.tag
        <5> HIDE DEF b
        <5>7. b \in Seq(Tags) /\ Len(<<r[2]>> \o b) = 0
          BY <3>7, <5>6 DEF b
        <5>8. Len(<<r[2]>> \o b) = 1 + Len(b) /\ Len(b) \in Nat
          BY <5>3, <5>7
        <5> QED BY <5>7, <5>8
      <4> QED BY <3>5, <4>1, <4>2
    <3> DEFINE v == [w EXCEPT !.tag = s[2]]
    <3>9. v \in Variables /\ v.name = w.name /\ v.port = w.port /\ v.tag = s[2]
      BY <2>1, <3>3 DEF Places, Variables
    <3> HIDE DEF v
    <3>10. MayMention(v, root) /\ v.name \in KeptNames(root, InterestingTids)
      BY <1>3, <2>1, <3>3, <3>6, <3>8, <3>9 DEF MayMention, KeptNames, A
    <3>11. ~IsShared(v)
      BY <2>1, <3>9 DEF IsShared, IsGlobal
    <3>12. /\ Placed(v, <<>>) \in Places /\ Placed(v, <<>>).name = w.name /\ Placed(v, <<>>).port = w.port
           /\ Placed(v, <<>>).tag = Append(<<>>, s[2])
      <4>1. /\ Placed(v, <<>>) \in Places /\ Placed(v, <<>>).name = v.name /\ Placed(v, <<>>).port = v.port
            /\ Placed(v, <<>>).tag = IF IsShared(v) THEN <<>> ELSE IF v.tag = NoTag THEN <<>> ELSE Append(<<>>, v.tag)
        BY <1>1, <3>9, PlacedAre
      <4> QED BY <3>3, <3>9, <3>11, <4>1
    <3>13. Append(<<>>, s[2]) = <<s[2]>>
      OBVIOUS
    <3>14. Placed(v, <<>>) = w
      BY <2>1, <3>7, <3>12, <3>13, SamePlace
    <3> QED BY <3>10, <3>14
  <2> QED BY <2>2, <2>3, PlacesSplit
<1> QED BY <1>2, <1>3 DEF IsSolvedFor

(* What a complete result says. *)
LEMMA CompleteSays ==
  ASSUME NEW cs, NEW scc, NEW kept, Complete(cs, scc, kept),
         NEW a, NEW b, a # b, <<a, b>> \in Expanded(scc),
         \E v : MayMention(v, scc) /\ v.name \in kept /\ Placed(v, <<>>) = a,
         \E v : MayMention(v, scc) /\ v.name \in kept /\ Placed(v, <<>>) = b
  PROVE  <<a, b>> \in Says(cs)
<1>1. PICK x : MayMention(x, scc) /\ x.name \in kept /\ Placed(x, <<>>) = a
  OBVIOUS
<1>2. PICK y : MayMention(y, scc) /\ y.name \in kept /\ Placed(y, <<>>) = b
  OBVIOUS
<1> DEFINE c == <<x, y>>
<1>3. c \in Closure(cs) /\ c[1] # c[2]
  BY <1>1, <1>2 DEF Complete
<1>4. <<a, b>> = <<Placed(c[1], <<>>), Placed(c[2], <<>>)>>
  BY <1>1, <1>2
<1> HIDE DEF c
<1> QED BY <1>3, <1>4 DEF Says

(* Everything that the program with its calls expanded relates, through any   *)
(* chain of calls, is in the signature of the SCC and in the constraints the  *)
(* later stages get: instantiating signatures bottom up, simplifying and      *)
(* breaking loops lose nothing, for every program.                            *)
THEOREM NothingLostHolds == Spec => []NothingLost
<1>1. IInv /\ FInv => NothingLost
  <2> SUFFICES ASSUME IInv, FInv PROVE NothingLost
    OBVIOUS
  <2>1. ASSUME NEW p \in DOMAIN signatures \cup DOMAIN constraints
        PROVE  /\ program \in Programs /\ Orderings # {}
               /\ SccOf(p) \in Sccs /\ SccOf(p) \in SUBSET Procs
    BY SccsCover DEF IInv, TypeOK, OrderFixed, FInv
  <2>2. ASSUME NEW p \in DOMAIN signatures,
               NEW c \in Expanded(SccOf(p)), c[1] # c[2],
               IsVisible(c[1], SccOf(p)), IsVisible(c[2], SccOf(p))
        PROVE  c \in Says(signatures[p])
    <3> DEFINE A == SccOf(p)
    <3>1. /\ program \in Programs /\ Orderings # {} /\ A \in Sccs /\ A \in SUBSET Procs
      BY <2>1
    <3>2. Complete(signatures[p], A, KeptNames(A, {}))
      BY DEF FInv, SignaturesGood, GoodSignature
    <3> HIDE DEF A
    <3>3. c = <<c[1], c[2]>> /\ IsPlace(c[1]) /\ IsPlace(c[2]) /\ c \in Expanded(A)
      <4>1. Expanded(A) \in SUBSET (Places \X Places) /\ c \in Expanded(A)
        BY <3>1, ExpandedAre DEF A
      <4>2. c = <<c[1], c[2]>>
        BY <4>1
      <4> QED BY <3>1, <4>1, <4>2, ExpandedAre
    <3>4. /\ \E v : MayMention(v, A) /\ v.name \in KeptNames(A, {}) /\ Placed(v, <<>>) = c[1]
          /\ \E v : MayMention(v, A) /\ v.name \in KeptNames(A, {}) /\ Placed(v, <<>>) = c[2]
      BY <2>2, <3>1, <3>3, VisibleIsNamed DEF A
    <3> DEFINE a == c[1]
               b == c[2]
    <3>5. a # b /\ <<a, b>> \in Expanded(A) /\ c = <<a, b>>
      BY <2>2, <3>3
    <3> HIDE DEF a, b
    <3>6. <<a, b>> \in Says(signatures[p])
      BY <3>2, <3>4, <3>5, CompleteSays DEF a, b
    <3> QED BY <3>5, <3>6
  <2>3. ASSUME NEW p \in DOMAIN constraints,
               NEW c \in Expanded(SccOf(p)), c[1] # c[2],
               IsSolvedFor(c[1], SccOf(p)), IsSolvedFor(c[2], SccOf(p))
        PROVE  c \in Says(constraints[p])
    <3> DEFINE A == SccOf(p)
    <3>1. /\ program \in Programs /\ Orderings # {} /\ A \in Sccs /\ A \in SUBSET Procs
      BY <2>1
    <3>2. Complete(constraints[p], A, KeptNames(A, InterestingTids))
      BY DEF FInv, ResultsGood, GoodResult
    <3> HIDE DEF A
    <3>3. /\ c = <<c[1], c[2]>> /\ c \in Expanded(A)
          /\ c[1] \in Mentioned(ExpansionCons(A)) /\ c[2] \in Mentioned(ExpansionCons(A))
      <4>1. ExpansionCons(A) \in SUBSET (Places \X Places) /\ IsFiniteSet(ExpansionCons(A))
        BY <3>1, ExpansionSplits
      <4>2. c \in Closure(ExpansionCons(A)) /\ c \in Expanded(A)
        BY DEF A, Expanded, ExpansionCons
      <4>3. c \in Mentioned(ExpansionCons(A)) \X Mentioned(ExpansionCons(A))
        BY <4>1, <4>2, FiniteClosure
      <4> QED BY <4>2, <4>3
    <3>4. /\ \E v : MayMention(v, A) /\ v.name \in KeptNames(A, InterestingTids) /\ Placed(v, <<>>) = c[1]
          /\ \E v : MayMention(v, A) /\ v.name \in KeptNames(A, InterestingTids) /\ Placed(v, <<>>) = c[2]
      BY <2>3, <3>1, <3>3, SolvedForIsNamed DEF A
    <3> DEFINE a == c[1]
               b == c[2]
    <3>5. a # b /\ <<a, b>> \in Expanded(A) /\ c = <<a, b>>
      BY <2>3, <3>3
    <3> HIDE DEF a, b
    <3>6. <<a, b>> \in Says(constraints[p])
      BY <3>2, <3>4, <3>5, CompleteSays DEF a, b
    <3> QED BY <3>5, <3>6
  <2> QED BY <2>2, <2>3 DEF NothingLost
<1> QED BY <1>1, InductiveInvariant, FaithfulInvariant, PTL

(* As long as no loop of constraints had to be broken, a signature and the    *)
(* constraints relate nothing that the expanded program keeps apart: what one *)
(* callsite's instance of a callee is related to never shows at another.      *)
THEOREM ApartWithoutLoopsHolds == Spec => []ApartWithoutLoops
<1>1. IInv /\ FInv => ApartWithoutLoops
  <2> SUFFICES ASSUME IInv, FInv, fresh = 0 PROVE CallsitesStayApart
    BY DEF ApartWithoutLoops
  <2>1. ASSUME NEW p \in DOMAIN signatures \cup DOMAIN constraints
        PROVE  program \in Programs /\ Orderings # {} /\ SccOf(p) \in Sccs
    BY SccsCover DEF IInv, TypeOK, OrderFixed, FInv
  <2>2. ASSUME NEW scc \in Sccs, program \in Programs, Orderings # {},
               NEW cs, AreConstraints(cs, scc), Apart(cs, scc)
        PROVE  Sound(cs, scc)
    <3> SUFFICES ASSUME NEW c \in Says(cs) PROVE c \in Expanded(scc)
      BY DEF Sound
    <3>1. PICK x \in Closure(cs) : x[1] # x[2] /\ c = <<Placed(x[1], <<>>), Placed(x[2], <<>>)>>
      BY DEF Says
    <3>2. Closure(cs) \in SUBSET (Mentioned(cs) \X Mentioned(cs))
      BY <2>2, FiniteClosure DEF AreConstraints
    <3>3. <<x[1], x[2]>> \in Closure(cs)
      BY <3>2
    <3> QED BY <2>2, <3>1, <3>3, ClosureApart
  <2>3. \A p \in DOMAIN signatures : Sound(signatures[p], SccOf(p))
    BY <2>1, <2>2 DEF FInv, SignaturesGood, GoodSignature
  <2>4. \A p \in DOMAIN constraints : Sound(constraints[p], SccOf(p))
    BY <2>1, <2>2 DEF FInv, ResultsGood, GoodResult
  <2> QED BY <2>3, <2>4 DEF CallsitesStayApart
<1> QED BY <1>1, InductiveInvariant, FaithfulInvariant, PTL

(* A formal that the constraints of its procedure mention is in the           *)
(* constraints the later stages get, whether anything visible relates to it   *)
(* or insert_missed_formals had to add it.                                    *)
THEOREM FormalsRememberedHolds == Spec => []FormalsRemembered
<1>1. FInv => FormalsRemembered
  BY DEF FInv, ResultsGood, FormalsRemembered
<1> QED BY <1>1, FaithfulInvariant, PTL
=============================================================================
