SPECIFICATION Spec
CONSTANTS
  top = top
  bot = bot
  a = a
  b = b
  c = c
  d = d
  n1 = n1
  n2 = n2
  Top = top
  Bottom = bot
  Handles <- MCHandles
  Definitions <- MCDefinitions
  Nodes <- MCNodes
  MaxRefinements = 4
CHECK_DEADLOCK FALSE
INVARIANT LatticesDoNotPanic
INVARIANT TablesAreExact
INVARIANT BoundsSound
INVARIANT BoundsExact
