-------------------------- MODULE MCQuotientGroups --------------------------
(***************************************************************************)
(* Constraint sets for TLC: chains of implications of two and more levels,  *)
(* loads that meet stores, and a recursive type.                            *)
(***************************************************************************)
EXTENDS QuotientGroups

CONSTANTS a, b, c

V(v) == [base |-> v, path |-> <<>>]
D(v, l) == [base |-> v, path |-> <<l>>]
DD(v, l, m) == [base |-> v, path |-> <<l, m>>]
C(d, e) == [lhs |-> d, rhs |-> e]

Constraints ==
  { C(V(a), V(b)), C(D(a, "f"), V(c)), C(D(b, "f"), V(a)),
    C(D(a, Load), D(b, Store)), C(DD(a, Load, "f"), V(b)), C(V(c), DD(b, Store, "f")) }

MCConstraintSets == {S \in SUBSET Constraints : Cardinality(S) \in 1..3}
=============================================================================
