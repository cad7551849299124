-------------------------- MODULE SubtypeDeduction --------------------------
(***************************************************************************)
(* The subtyping judgements a constraint set derives: the reference that   *)
(* the automaton of ConstraintFsa is compared with.  A judgement is a pair *)
(* <<a, b>> of derived type variables, a a subtype of b.                   *)
(*                                                                         *)
(* The rules are those the comments of constraint_graph.rs and the README  *)
(* take from the type system: the constraints themselves, reflexivity,     *)
(* transitivity, the field rule with the variance of the label, and the    *)
(* pointer rule x.store <= x.load.                                         *)
(***************************************************************************)
EXTENDS ConstraintFsa

Extend(d, l) == [base |-> d.base, path |-> Append(d.path, l)]

\* What the field rule makes of a judgement and a label.
ByField(j, l) ==
  IF LabelVariance(l) = Co THEN <<Extend(j[1], l), Extend(j[2], l)>>
                           ELSE <<Extend(j[2], l), Extend(j[1], l)>>

\* One round of every rule, among the derived type variables D.
DeductionRound(R, D) ==
  R \cup ({ByField(j, l) : j \in R, l \in FieldLabels} \cap (D \X D))
    \cup UNION {{<<r[1], q[2]>> : q \in {p \in R : p[1] = r[2]}} : r \in R}

Itself(D) == {<<d, d>> : d \in D}

\* What is stored through the second of two pointers, a supertype of the first,
\* is loaded through the first: the pointer rule, for the pairs Pointers.
AxiomsAt(cons, D, Pointers) ==
  {<<c.lhs, c.rhs>> : c \in cons}
    \cup Itself(D)
    \cup {<<Extend(r[2], Store), Extend(r[1], Load)>> :
            r \in {x \in Pointers : Extend(x[2], Store) \in D /\ Extend(x[1], Load) \in D}}

Axioms(cons, D) == AxiomsAt(cons, D, Itself(D))

\* The rounds of deduction among D.
DeductionRounds(cons, D) ==
  LET round[n \in Nat] ==
        IF n = 0 THEN Axioms(cons, D)
        ELSE DeductionRound(round[n-1], D)
  IN  round

\* Everything derivable among D: what the rounds settle at.  Every round until
\* then adds a pair, so there are no more of them than pairs.
Derivable(cons, D) ==
  LET round == DeductionRounds(cons, D)
      settled == CHOOSE n \in 0..Cardinality(D \X D) : round[n] = round[n+1]
  IN  round[settled]

-----------------------------------------------------------------------------
\* The derived type variable of an automaton state.
DtvOf(s) == [base |-> s.tv, path |-> s.path]
DtvsOf(S) == {DtvOf(s) : s \in {t \in S : IsTv(t)}}
WithExtensions(D) == D \cup {Extend(d, l) : d \in D, l \in {Load, Store}}

\* What a success edge between two states claims.
Judgement(e) ==
  IF e.src.variance = Co THEN <<DtvOf(e.src), DtvOf(e.dst)>>
                         ELSE <<DtvOf(e.dst), DtvOf(e.src)>>
=============================================================================
