CONSTANTS
  x = x
  y = y
  p = p
  q = q
  u = u
  r = r
  Vars = {x, y, p, q, u, r}
  Interesting = {x, p}
  NoVar = NoVar
  CoLabels = {"f"}
  ContraLabels = {"in"}
  ConstraintSets <- MCConstraintSets
SPECIFICATION FairSpec
INVARIANT MirrorSymmetric
INVARIANT ShortcutsDerivable
INVARIANT ConsequencesFound
PROPERTY Terminates
CHECK_DEADLOCK FALSE
