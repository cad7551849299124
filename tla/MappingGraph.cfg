CONSTANTS
  Keys = {k1, k2, k3}
  Idx = {n1, n2, n3, n4}
  Labels = {f}
  Bounds = {b}
  NoIdx = NoIdx
  MaxEdges = 2
SPECIFICATION Spec
SYMMETRY Symmetry
INVARIANT Consistent
PROPERTY EdgesSurvive
PROPERTY BoundsSurvive
PROPERTY UnificationSurvives
CHECK_DEADLOCK FALSE
