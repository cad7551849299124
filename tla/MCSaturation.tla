---------------------------- MODULE MCSaturation ----------------------------
(***************************************************************************)
(* Constraint sets for TLC: pointers that are stored through and loaded    *)
(* from, aliased pointers, a recursive pointer, and a contravariant label. *)
(* They come twice: over x, y, p and q, of which x and p are interesting,  *)
(* and over u, y, r and q, of which none is.                               *)
(***************************************************************************)
EXTENDS SaturationMeaning

CONSTANTS x, y, p, q, u, r

V(b) == [base |-> b, path |-> <<>>]
D(b, l) == [base |-> b, path |-> <<l>>]
DD(b, l, m) == [base |-> b, path |-> <<l, m>>]
C(a, b) == [lhs |-> a, rhs |-> b]

Constraints(v, w) ==
  { C(V(v), D(w, Store)), C(D(w, Load), V(y)), C(D(q, Load), V(y)),
    C(V(w), V(q)), C(V(q), V(w)), C(D(w, Load), V(w)),
    C(D(q, "in"), D(w, Load)), C(V(v), DD(q, Store, "in")) }

\* All pairs of them, and longer flows: a value stored through one pointer and
\* loaded through its alias, and a pointer to itself.
Flows(v, w) ==
  {S \in SUBSET Constraints(v, w) : Cardinality(S) <= 2}
    \cup { {C(V(v), D(w, Store)), C(V(q), V(w)), C(D(q, Load), V(y))},
           {C(V(v), D(w, Store)), C(D(w, Load), V(w)), C(D(w, Load), V(y))} }

\* A contravariant field of what a pointer points to.
FieldFlow == {C(V(u), DD(q, Store, "in")), C(DD(q, Load, "in"), V(y))}

MCConstraintSets == Flows(x, p) \cup Flows(u, r) \cup {FieldFlow}
=============================================================================
