CONSTANTS
  a = a
  b = b
  p = p
  q = q
  Vars = {a, b, p, q}
  Interesting = {a, b}
  NoVar = NoVar
  CoLabels = {"f"}
  ContraLabels = {"in"}
  Rank <- MCRank
  ConstraintSets <- MCConstraintSets
SPECIFICATION Spec
INVARIANT PopsPrecedePushes
INVARIANT EveryLoopHasAnEntry
INVARIANT Acyclic
INVARIANT WalkSound
INVARIANT WalkComplete
CHECK_DEADLOCK FALSE
PROPERTY LoopsShrink
