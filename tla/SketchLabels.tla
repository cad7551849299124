---------------------------- MODULE SketchLabels ----------------------------
(* The labels of sketch graphs: a load and a store are two ways to one node, *)
(* the contents of what a pointer points to.                                 *)
CONSTANTS Load, Store

SameLabel(l, m) == l = m \/ {l, m} = {Load, Store}
=============================================================================
