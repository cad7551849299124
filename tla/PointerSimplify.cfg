SPECIFICATION SimplifySpec
CONSTANTS
  Load <- MCLoad
  Store <- MCStore
  Top <- MCTop
  Graphs <- MCGraphs
  MaxEdges = 5
PROPERTY SimplificationEnds
PROPERTY ContentsSurvive
CHECK_DEADLOCK FALSE
