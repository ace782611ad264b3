SPECIFICATION TurnsSpec
CONSTANTS
  s1 = s1
  s2 = s2
  p1 = p1
  p2 = p2
  p3 = p3
  n1 = n1
  n2 = n2
  n3 = n3
  h1 = h1
  h2 = h2
  Cleaner = Cleaner
  None = None
  Sessions <- TwoSessions
  Paths <- ThreePaths
  TreeFiles <- NoTree
  Nodes <- ThreeNodes
  Handles <- OneHandle
  CtxOps <- AllOps
  MaxSize = 3
  MaxFiles = 2
  MaxMem = 1
  MaxGlobal = 2
  Expiry = 0
  MaxTime = 1
CHECK_DEADLOCK FALSE
SYMMETRY SymmetryTurns
INVARIANT AccountingAtRest
INVARIANT MemoryLimited
INVARIANT CloseRegisters
PROPERTY LeastRecentFirst
PROPERTY ImplementsCache
