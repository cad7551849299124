--------------------------- MODULE MCLatticeTables ---------------------------
(* Chains, the two smallest lattices that are not distributive, definitions  *)
(* with edges that are transitive, and merges: one keeps a lattice, others   *)
(* give two elements two minimal bounds, close a cycle, or add an element    *)
(* that is not below the top.                                                *)
EXTENDS LatticeTables

CONSTANTS top, bot, a, b, c, d, n1, n2

MCHandles == {top, bot, a, b, c, d}
MCNodes == {n1, n2}

Chain(s) == {<<s[i], s[i+1]>> : i \in 1 .. Len(s) - 1}

Alone(R) == [relation |-> R, additional |-> <<>>]
Merged(R, seq) == [relation |-> R, additional |-> seq]

MCDefinitions ==
  {Alone({}),
   Alone(Chain(<<bot, a, b, top>>) \cup {<<bot, top>>, <<bot, b>>}),
   Alone(Chain(<<bot, a, top>>) \cup Chain(<<bot, b, top>>) \cup Chain(<<bot, c, top>>)),
   Alone(Chain(<<bot, a, b, top>>) \cup Chain(<<bot, c, top>>)),
   Alone(Chain(<<bot, a, c, d, top>>) \cup Chain(<<bot, b, c>>)),
   Merged(Chain(<<bot, a, top>>), <<Chain(<<bot, b, top>>), Chain(<<b, c, top>>)>>),
   Merged(Chain(<<bot, a, c, top>>) \cup Chain(<<bot, b, d, top>>), <<{<<a, d>>, <<b, c>>}>>),
   Merged(Chain(<<bot, a, b, top>>), <<Chain(<<b, a>>)>>),
   Merged(Chain(<<bot, a, top>>), <<Chain(<<a, b>>)>>)}
=============================================================================
