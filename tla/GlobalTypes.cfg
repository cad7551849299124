SPECIFICATION SpecGlobal
CONSTANTS
  Load = "load"
  Store = "store"
  Top <- MCTop
  InParams <- MCInParams
  OutParams <- MCOutParams
  Globals = {"g"}
  Callees <- MCCallees
  Extras <- MCExtras
  MaxCallers = 2
  MaxFields = 3
INVARIANT Deterministic
INVARIANT SharedUntilGlobals
INVARIANT AliasTargetsAreBuilt
INVARIANT WordsAreKept
PROPERTY WordsSurvive
PROPERTY KeysStayConnected
CHECK_DEADLOCK FALSE
