-------------------------- MODULE MCMappingGraph --------------------------
(* TLC instance of MappingGraph: indices and keys are interchangeable. *)
EXTENDS MappingGraph, TLC


Symmetry == Permutations(Keys) \cup Permutations(Idx)
===========================================================================
