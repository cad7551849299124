--------------------------- MODULE MCGlobalTypes ---------------------------
(***************************************************************************)
(* Callee fn with in parameters a and b and out parameter r, on the nodes  *)
(* 2, 3 and 4 (or 2, when r returns a), with up to MaxFields loads among    *)
(* them, or with a global g on node 6 and one load.  A caller adds an edge  *)
(* or two, some to a node 5 of its own and to its variable v on node 7.     *)
(***************************************************************************)
EXTENDS GlobalTypes

CONSTANT MaxFields

MCTop == {"x", "y"}
MCInParams == {"a", "b"}
MCOutParams == {"r"}

NodeOf(k) ==
  CASE k = "fn" -> 1 [] k = "a" -> 2 [] k = "b" -> 3 [] k = "g" -> 6 [] k = "v" -> 7

Deref(N) == {<<m, "load", n>> : m \in N, n \in N}
OnePerNode(E) == \A e, f \in E : e[1] = f[1] => e = f
NodesOf(E) == UNION {{e[1], e[3]} : e \in E}

CalleeGraph(E, out) ==
  LET nodes == {1, 2, 3, out} \cup NodesOf(E)
  IN  [nodes |-> nodes,
       edges |-> E \cup {<<1, "in0", 2>>, <<1, "in1", 3>>, <<1, "out", out>>},
       weight |-> [n \in nodes |-> [upper |-> MCTop, lower |-> IF n = 3 THEN {"x"} ELSE {}]],
       keys |-> [k \in {"fn", "a", "b", "r"} \cup {g \in Globals : NodeOf(g) \in nodes} |->
                   IF k = "r" THEN out ELSE NodeOf(k)]]

Loads(out) ==
  {E \in UNION {kSubset(n, Deref({2, 3, out})) : n \in 0 .. MaxFields} : OnePerNode(E)}
    \cup {{<<m, "load", n>>} : <<m, n>> \in {x \in {2, out, 6} \X {2, out, 6} : 6 \in {x[1], x[2]}}}

MCCallees == UNION {{CalleeGraph(E, out) : E \in Loads(out)} : out \in {2, 4}}

Own ==
  { {}, {<<7, "f", 4>>}, {<<2, "store", 5>>, <<3, "f", 5>>}, {<<6, "f", 5>>},
    {<<2, "store", 5>>, <<5, "f", 3>>}, {<<3, "f", 5>>},
    {<<2, "f", 3>>}, {<<7, "load", 2>>, <<2, "f", 5>>},
    {<<7, "load", 6>>, <<6, "f", 5>>}, {<<4, "load", 6>>}, {<<7, "load", 6>>, <<2, "f", 5>>} }

\* Half of the callers bound a by x, half by y.
AtomOf(E) == IF \E e \in E : e[2] = "f" /\ e[3] = 3 THEN "y" ELSE "x"

OwnWeight(atom) ==
  [n \in 1 .. 7 |-> [upper |-> IF n = 2 THEN {atom} ELSE MCTop,
                     lower |-> IF n = 5 THEN {atom} ELSE {}]]

MCExtras ==
  {[edges |-> E, weight |-> OwnWeight(AtomOf(E)),
    keys |-> [k \in {"v"} \cup {g \in Globals : NodeOf(g) \in NodesOf(E)} |-> NodeOf(k)]] :
     E \in Own}
=============================================================================
