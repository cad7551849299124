SPECIFICATION Spec
CONSTANTS
  h = h
  f = f
  g = g
  e = e
  glb = glb
  int = int
  ptr = ptr
  x = x
  y = y
  z = z
  t1 = t1
  t2 = t2
  t3 = t3
  t4 = t4
  t5 = t5
  in = in
  out = out
  NoTag = NoTag
  NoPort = NoPort
  Procs <- MCProcs
  Globals <- MCGlobals
  LatticeElements <- MCLatticeElements
  InterestingTids = {f, g}
  Locals <- MCLocals
  Tags <- MCTags
  Ports <- MCPorts
  Programs <- MCPrograms
CHECK_DEADLOCK FALSE
INVARIANT NoPanic
INVARIANT NothingLost
INVARIANT ApartWithoutLoops
INVARIANT FormalsRemembered
