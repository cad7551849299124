-------------------------- MODULE SaturationMeaning --------------------------
(***************************************************************************)
(* What the edges that Saturation adds mean: the subtyping judgements that *)
(* SubtypeDeduction derives from the constraints.                          *)
(***************************************************************************)
EXTENDS Saturation, SubtypeDeduction

\* The judgements the automaton was built from.
Given == {[lhs |-> Judgement(e)[1], rhs |-> Judgement(e)[2]] : e \in SuccessEdges(grph)}

(* Every shortcut is a consequence of the constraints. *)
ShortcutsDerivable ==
  pc = "done" =>
    {Judgement(e) : e \in SaturationEdges} \subseteq
      Derivable(Given, WithExtensions(DtvsOf(states)))

\* The states reached from s along success edges.
Onward(X) == X \cup {e.dst : e \in {f \in SuccessEdges(allEdges) : f.src \in X}}

OnwardSteps(s) ==
  LET reach[n \in Nat] == IF n = 0 THEN {s} ELSE Onward(reach[n-1])
  IN  reach

SuccessReach(s) ==
  LET reach == OnwardSteps(s)
  IN  reach[CHOOSE n \in 0..Cardinality(states) : reach[n] = reach[n+1]]

(* Where no variable is interesting, so that no proof is cut at one, every  *)
(* consequence of the constraints among the derived type variables of the   *)
(* automaton shows as a path of success edges.                              *)
ConsequencesFound ==
  (pc = "done" /\ \A s \in states : s.tv \notin Interesting) =>
    LET known == Derivable(Given, DtvsOf(states))
    IN  \A s, t \in {w \in states : IsTv(w) /\ w.variance = Co} :
          <<DtvOf(s), DtvOf(t)>> \in known => t \in SuccessReach(s)
=============================================================================
