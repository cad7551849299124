SPECIFICATION SpecLowering
CONSTANTS
  Graphs <- MCGraphs
  FieldSets <- MCFieldSets
  DefaultName = "top"
  MaxU32 = 64
  MaxEdges = 3
  MaxOffset = 4
  MaxFields = 4
INVARIANT NoOverlap
INVARIANT MinimalPartitioning
PROPERTY FieldsAreKept
INVARIANT SketchesAreLowered
INVARIANT NoTypeContainsItself
CHECK_DEADLOCK FALSE
