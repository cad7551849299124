-------------------------- MODULE InheritedDeduction --------------------------
(***************************************************************************)
(* The judgements of SubtypeDeduction over the derived type variables that *)
(* exist, rather than over a given set: those of a set of seeds with their *)
(* prefixes, and the fields that subtypes and supertypes inherit from each *)
(* other; up to paths of length n.                                         *)
(***************************************************************************)
EXTENDS SubtypeDeduction

PrefixesOf(d) == {[base |-> d.base, path |-> SubSeq(d.path, 1, k)] : k \in 0..Len(d.path)}
Mentioned(cons) == UNION {PrefixesOf(c.lhs) \cup PrefixesOf(c.rhs) : c \in cons}

\* D and the fields that the judgements R pass on.
Inherited(R, D, n) ==
  D \cup {d \in UNION {{Extend(r[1], l), Extend(r[2], l)} :
                  <<r, l>> \in {x \in R \X FieldLabels :
                                {Extend(x[1][1], x[2]), Extend(x[1][2], x[2])} \cap D # {}}} :
            Len(d.path) <= n}

\* The pointers through which the constraints mention a store and a load, and
\* that constraints among the other variables than the interesting ones link.
LinkedPointers(cons) ==
  LET M == Mentioned(cons)
      inner == {c \in cons : {c.lhs.base, c.rhs.base} \cap Interesting = {}}
      flow[n \in Nat] ==
        IF n = 0 THEN Itself(M)
        ELSE flow[n-1] \cup UNION {{<<r[1], c.rhs>> : c \in {x \in inner : x.lhs = r[2]}} :
                                    r \in flow[n-1]}
  IN  {r \in flow[Cardinality(inner)] : Extend(r[2], Store) \in M /\ Extend(r[1], Load) \in M}

\* Everything derivable among what exists, the pointer rule used everywhere or
\* at the mentioned pointers only.
RECURSIVE Deduce(_, _, _, _, _)
Deduce(R, D, cons, everywhere, n) ==
  LET pointers == IF everywhere THEN Itself(D) ELSE LinkedPointers(cons)
      R1 == DeductionRound(R, D) \cup AxiomsAt(cons, D, pointers)
      D1 == Inherited(R, D, n)
  IN  IF R1 = R /\ D1 = D THEN R ELSE Deduce(R1, D1, cons, everywhere, n)

Consequences(cons, seeds, n) == Deduce({}, Mentioned(cons) \cup seeds, cons, TRUE, n)

ConsequencesOfLinked(cons, n) == Deduce({}, Mentioned(cons), cons, FALSE, n)
=============================================================================
