----------------------------- MODULE Saturation -----------------------------
(***************************************************************************)
(* FSA::get_saturation_edges and FSA::saturate of constraint_graph.rs.     *)
(*                                                                         *)
(* reaching_pushes records, for every state and stack symbol, the states   *)
(* that push the symbol and from which the state is then reached without   *)
(* touching it again.  A do-while loop repeats three phases until nothing  *)
(* changes: propagate along success edges, link each pop to the pushes     *)
(* that reach it, and mirror load and store pushes between a contravariant *)
(* state and its opposite (the pointer rule).  The code walks ordered sets *)
(* inside a phase; here the order within a phase is arbitrary.             *)
(***************************************************************************)
EXTENDS ConstraintFsa

CONSTANTS
  ConstraintSets  \* the constraint sets the solver may be given

ASSUME ConstraintSetsAssumption ==
  \A cons \in ConstraintSets : cons \subseteq SubtypeConstraints /\ IsFiniteSet(cons)

VARIABLES
  grph,        \* the edges of the automaton
  states,      \* its nodes
  pushes,      \* reaching_pushes: triples <<state, symbol, definer>>
  allEdges,    \* all_edges
  newEdges,    \* new_edges
  todoEdges,   \* success edges the propagate phase has not handled yet
  todoStates,  \* states the mirror phase has not handled yet
  saved,       \* saved_state: the pair <<pushes, allEdges>>
  pc           \* "propagate", "mirror", "panic", "done" or "saturated"

vars == <<grph, states, pushes, allEdges, newEdges, todoEdges, todoStates, saved, pc>>
fsa == <<grph, states>>

InitFrom(cons) ==
  /\ grph = FsaEdges(cons)
  /\ states = FsaNodes(cons)
  /\ pushes = BasePushes(FsaEdges(cons))
  /\ allEdges = FsaEdges(cons)
  /\ newEdges = {}
  /\ todoEdges = SuccessEdges(FsaEdges(cons))
  /\ todoStates = {}
  /\ saved = <<BasePushes(FsaEdges(cons)), FsaEdges(cons)>>
  /\ pc = "propagate"

Init == \E cons \in ConstraintSets : InitFrom(cons)

-----------------------------------------------------------------------------
Propagate(e) ==
  /\ pc = "propagate" /\ e \in todoEdges
  /\ pushes' = pushes \cup Carried(pushes, e)
  /\ todoEdges' = todoEdges \ {e}
  /\ UNCHANGED <<grph, states, allEdges, newEdges, todoStates, saved, pc>>

LinkPops ==
  /\ pc = "propagate" /\ todoEdges = {}
  /\ newEdges' = newEdges \cup Linked(pushes, allEdges)
  /\ allEdges' = allEdges \cup Linked(pushes, allEdges)
  /\ todoStates' = ContraStates(states)
  /\ pc' = "mirror"
  /\ UNCHANGED <<grph, states, pushes, todoEdges, saved>>

\* The opposite state has an entry to extend: the unwrap of its get_mut.
MirrorFinds(s) == Mirrored(pushes, s) = {} \/ Not(s) \in states

Mirror(s) ==
  /\ pc = "mirror" /\ s \in todoStates
  /\ pushes' = IF MirrorFinds(s) THEN pushes \cup Mirrored(pushes, s) ELSE pushes
  /\ pc' = IF MirrorFinds(s) THEN pc ELSE "panic"
  /\ todoStates' = todoStates \ {s}
  /\ UNCHANGED <<grph, states, allEdges, newEdges, todoEdges, saved>>

\* Faulty: the state at the start of the round is not saved again.
RepeatUnsaved ==
  /\ pc = "mirror" /\ todoStates = {}
  /\ saved # <<pushes, allEdges>>
  /\ todoEdges' = SuccessEdges(allEdges)
  /\ pc' = "propagate"
  /\ UNCHANGED <<grph, states, pushes, allEdges, newEdges, todoStates, saved>>

Repeat ==
  /\ pc = "mirror" /\ todoStates = {}
  /\ saved # <<pushes, allEdges>>
  /\ saved' = <<pushes, allEdges>>
  /\ todoEdges' = SuccessEdges(allEdges)
  /\ pc' = "propagate"
  /\ UNCHANGED <<grph, states, pushes, allEdges, newEdges, todoStates>>

\* Faulty: only compares the reaching pushes.
PushesSettled ==
  /\ pc = "mirror" /\ todoStates = {}
  /\ saved[1] = pushes
  /\ pc' = "done"
  /\ UNCHANGED <<grph, states, pushes, allEdges, newEdges, todoEdges, todoStates, saved>>

FixpointReached ==
  /\ pc = "mirror" /\ todoStates = {}
  /\ saved = <<pushes, allEdges>>
  /\ pc' = "done"
  /\ UNCHANGED <<grph, states, pushes, allEdges, newEdges, todoEdges, todoStates, saved>>

\* saturate: insert every new edge that is not reflexive, with its nodes.
SaturationEdges == {e \in newEdges : e.src # e.dst}

Saturate ==
  /\ pc = "done"
  /\ grph' = grph \cup SaturationEdges
  /\ states' = states \cup EndsOf(SaturationEdges)
  /\ pc' = "saturated"
  /\ UNCHANGED <<pushes, allEdges, newEdges, todoEdges, todoStates, saved>>

Next ==
  \/ \E e \in todoEdges : Propagate(e)
  \/ LinkPops
  \/ \E s \in todoStates : Mirror(s)
  \/ Repeat
  \/ FixpointReached
  \/ Saturate

Spec == Init /\ [][Next]_vars
FairSpec == Spec /\ WF_vars(Next)

-----------------------------------------------------------------------------
Symbols == {LabelSymbol(l) : l \in FieldLabels}
             \cup {<<"var", x, d, v>> : x \in Vars \cup {NoVar}, d \in Dirs, v \in Variances}

TypeOK ==
  /\ \A p \in pushes : p[1] \in states /\ p[3] \in states
  /\ \A e \in allEdges : Ends(e) \subseteq states
  /\ newEdges \subseteq allEdges
  /\ todoEdges \subseteq SuccessEdges(allEdges)
  /\ todoStates \subseteq ContraStates(states)
  /\ pc \in {"propagate", "mirror", "panic", "done", "saturated"}

(* The opposite of every state is a state, so the unwrap on the opposite's *)
(* entry in the pointer phase never fails.                                 *)
NoPanic == pc # "panic"

(* A shortcut never changes the variance of the stack: a covariant proof   *)
(* step is never linked to a contravariant one.                            *)
VarianceAgrees == \A e \in newEdges : e.src.variance = e.dst.variance

(* The loop only stops at a fixpoint of all three phases: comparing with   *)
(* the state at the start of the round misses no pending work.             *)
StopsAtFixpoint == pc \in {"done", "saturated"} => Closed(pushes, allEdges, states)

(* Every shortcut has its mirror image: what is proved of two states       *)
(* covariantly is proved contravariantly of their opposites.               *)
MirrorSymmetric ==
  pc \in {"done", "saturated"} =>
    \A e \in SuccessEdges(allEdges) : Success(Not(e.dst), Not(e.src)) \in allEdges

(* The loop ends. *)
Terminates == <>(pc = "saturated")
=============================================================================
