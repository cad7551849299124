----------------------------- MODULE MCLowering -----------------------------
(***************************************************************************)
(* Graphs of three nodes whose first has up to MaxEdges edges of any kind,  *)
(* the second one that may close a cycle, with two procedures, both perhaps *)
(* on one node; and structures of up to MaxFields fields of one, two or     *)
(* four bytes at offsets 0 to MaxOffset, for the scheduling; and a field    *)
(* beyond MaxU32.                                                           *)
(***************************************************************************)
EXTENDS Lowering, FiniteSetsExt

CONSTANTS MaxEdges, MaxOffset, MaxFields

Fld(offset, size) == [kind |-> "field", offset |-> offset, size |-> size]
In(i) == [kind |-> "in", index |-> i]
Out(i) == [kind |-> "out", index |-> i]
Load == [kind |-> "load"]
Add == [kind |-> "add"]

Labels == {Fld(0, 8), Fld(0, 32), Fld(2, 32), Fld(4, 8), Fld(-4, 8), Load, In(1), Out(0), Out(1)}

FirstEdges ==
  {E \in UNION {kSubset(n, {1} \X Labels \X {2, 3}) : n \in 1 .. MaxEdges} :
     \A e, f \in E : e[2] = f[2] => e = f}

SecondEdges == {{}} \cup {{<<2, l, m>>} : l \in {Fld(0, 8), Load, In(0), Add}, m \in {1, 3}}

TidsAndOuts ==
  {[tids |-> [f |-> 1], outs |-> [f |-> <<32>>]],
   [tids |-> [f |-> 1, g |-> 1], outs |-> [f |-> <<32, 64>>, g |-> <<>>]]}

SmallGraphs ==
  {[nodes |-> 1 .. 3, edges |-> x[1] \cup x[2],
    upper |-> [n \in 1 .. 3 |-> IF n = 2 THEN "int" ELSE "char"],
    tids |-> x[3].tids, outs |-> x[3].outs] :
     x \in FirstEdges \X SecondEdges \X TidsAndOuts}

AnyField == {Fld(o, size) : o \in 0 .. MaxOffset, size \in {8, 16, 32}}

WideEdges == {{<<1, f, 2>> : f \in F} : F \in UNION {kSubset(n, AnyField) : n \in 2 .. MaxFields}}

WideStructures ==
  {[nodes |-> 1 .. 2, edges |-> E, upper |-> [n \in 1 .. 2 |-> "int"],
    tids |-> <<>>, outs |-> <<>>] : E \in WideEdges}

\* A field whose offset the protobuf mapping cannot hold.
FarEdges == {<<1, Fld(MaxU32 + 1, 8), 2>>}

FarStructure ==
  [nodes |-> 1 .. 2, edges |-> FarEdges, upper |-> [n \in 1 .. 2 |-> "int"], tids |-> <<>>, outs |-> <<>>]

MCGraphs == SmallGraphs \cup WideStructures \cup {FarStructure}

MCFieldSets ==
  {TranslatedFields(E, 1) : E \in FirstEdges \cup WideEdges \cup {FarEdges}}
    \cup {TranslatedFields(E, 2) : E \in SecondEdges}
=============================================================================
