-------------------------- MODULE MCSimplifyGraph --------------------------
(***************************************************************************)
(* Constraint sets for TLC, with pointers that are stored into themselves,  *)
(* linked lists, and flows between two interesting variables.               *)
(***************************************************************************)
EXTENDS SimplifyGraph, InheritedDeduction

CONSTANTS a, b, p, q

V(v) == [base |-> v, path |-> <<>>]
D(v, l) == [base |-> v, path |-> <<l>>]
DD(v, l, m) == [base |-> v, path |-> <<l, m>>]
C(d, e) == [lhs |-> d, rhs |-> e]

MCRank == (a :> 1) @@ (b :> 2) @@ (p :> 3) @@ (q :> 4) @@
          (Load :> 0) @@ (Store :> 1) @@ ("in" :> 2) @@ ("f" :> 3)

Constraints ==
  { C(V(a), D(p, Store)), C(D(p, Load), V(b)), C(V(a), V(p)), C(V(p), V(q)), C(V(q), V(b)),
    C(V(q), V(p)), C(D(p, Load), V(p)), C(D(q, "in"), D(p, Load)), C(D(p, "f"), V(q)),
    C(V(a), D(a, Store)), C(D(q, "f"), V(q)), C(D(q, Load), V(b)), C(V(b), V(p)) }

\* A formal that is missed is given a reflexive constraint, which callers copy.
Reflexive == C(V(p), V(p))

MCConstraintSets ==
  {S \in SUBSET Constraints : Cardinality(S) \in 1..4}
    \cup {S \cup {Reflexive} : S \in {T \in SUBSET Constraints : Cardinality(T) \in 1..2}}

\* A list that is read, and one that is written through a variable of the caller.
StaleConstraintSets ==
  {{C(V(a), D(p, Store)), C(D(p, Load), V(p)), C(V(a), D(a, Store)), C(D(b, Load), D(q, Store))}}

-----------------------------------------------------------------------------
(* What the walk returns, against the constraints it was given. *)

MaxPath == 2     \* longest access path in the judgements compared

Short(d) == Len(d.path) <= MaxPath
IsInteresting(d) == d.base \in Interesting

(* Every constraint that comes out follows from those that went in, unless a *)
(* loop breaker was given a node that is not its own.                        *)
WalkSound ==
  (pc = "simplified" /\ ReplacesOnlyEquals) =>
    LET known == Consequences(given, {}, MaxPath)
    IN  \A c \in WalkConstraints(graph) :
          LET l == Unbroken(c.lhs, breakers)
              r == Unbroken(c.rhs, breakers)
          IN  (Short(l) /\ Short(r)) => <<l, r>> \in known

(* What the constraints say of the interesting variables can still be        *)
(* derived from what comes out, as far as the pointer rule is used on flows   *)
(* inside the component: elsewhere the automaton has no state to use it at.   *)
WalkComplete ==
  (pc = "simplified" /\ ReplacesOnlyEquals) =>
    LET known == {j \in ConsequencesOfLinked(given, MaxPath) :
                    IsInteresting(j[1]) /\ IsInteresting(j[2])}
        kept == Consequences(WalkConstraints(graph), {j[1] : j \in known}, MaxPath)
    IN  known \subseteq kept
=============================================================================
