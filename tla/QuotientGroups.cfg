CONSTANTS
  a = a
  b = b
  c = c
  Vars = {a, b, c}
  Labels = {"load", "store", "f"}
  Load = "load"
  Store = "store"
  ConstraintSets <- MCConstraintSets
SPECIFICATION FairSpec
PROPERTY ComputesLeastCongruence
PROPERTY Terminates
CHECK_DEADLOCK FALSE
