CONSTANTS
  a = a
  b = b
  p = p
  q = q
  Vars = {a, b, p, q}
  Interesting = {a, b}
  NoVar = NoVar
  CoLabels = {"f"}
  ContraLabels = {"in"}
  Rank <- MCRank
  ConstraintSets <- StaleConstraintSets
SPECIFICATION Spec
CHECK_DEADLOCK FALSE
INVARIANT ReplacesOnlyEquals
