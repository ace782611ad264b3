SPECIFICATION Spec
CONSTANTS
  s1 = s1
  s2 = s2
  p1 = p1
  p2 = p2
  p3 = p3
  n1 = n1
  n2 = n2
  n3 = n3
  h1 = h1
  h2 = h2
  Cleaner = Cleaner
  None = None
  Sessions <- OneSession
  Paths <- TwoPaths
  TreeFiles <- NoTree
  Nodes <- TwoNodes
  Handles <- TwoHandles
  CtxOps <- ServerOps
  MaxSize = 2
  MaxFiles = 2
  MaxMem = 3
  MaxGlobal = 3
  Expiry = 3
  MaxTime = 3
CHECK_DEADLOCK FALSE
INVARIANT CloseRegisters
