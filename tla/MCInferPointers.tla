--------------------------- MODULE MCInferPointers ---------------------------
(***************************************************************************)
(* Additions that share operands, over variables that are bounded by        *)
(* integral types, loaded from, stored to, or of unknown type.              *)
(***************************************************************************)
EXTENDS InferPointers

CONSTANT MaxAdds, MaxConstraints

V(v) == [base |-> v, path |-> <<>>]
D(v, l) == [base |-> v, path |-> <<l>>]
C(d, e) == [lhs |-> d, rhs |-> e]
Add(x, y, z) == [lhs |-> V(x), rhs |-> V(y), res |-> V(z)]

MCTop == {"i", "p"}
MCElement == ("weakint" :> {"i"}) @@ ("fd" :> {}) @@ ("top" :> MCTop)

Constraints ==
  { C(D("x", Load), V("weakint")), C(V("y"), V("weakint")), C(V("fd"), V("y")),
    C(V("w"), V("fd")), C(V("w"), V("z")), C(D("v", Store), V("z")),
    C(D("z", "f"), V("y")), C(V("top"), V("v")), C(D("y", Load), V("w")) }

Adds == { Add("x", "y", "z"), Add("y", "w", "v"), Add("z", "v", "w"), Add("w", "z", "x") }

MCInputs ==
  {in \in [subty : SUBSET Constraints, adds : SUBSET Adds \ {{}}] :
     Cardinality(in.adds) <= MaxAdds /\ Cardinality(in.subty) <= MaxConstraints}
=============================================================================
