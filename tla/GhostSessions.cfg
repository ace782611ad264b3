SPECIFICATION Spec
CONSTANTS
  s1 = s1
  s2 = s2
  p1 = p1
  p2 = p2
  p3 = p3
  n1 = n1
  n2 = n2
  n3 = n3
  h1 = h1
  h2 = h2
  Cleaner = Cleaner
  None = None
  Sessions <- TwoSessions
  Paths <- ThreePaths
  TreeFiles <- SecondAndThird
  Nodes <- OneNode
  Handles <- TwoHandles
  CtxOps <- AllOps
  MaxSize = 0
  MaxFiles = 2
  MaxMem = 2
  MaxGlobal = 0
  Expiry = 0
  MaxTime = 1
CHECK_DEADLOCK FALSE
CONSTRAINT BoundedDrift
CONSTRAINT UnevenSessions
SYMMETRY SymmetryUneven
INVARIANT TypeOK
INVARIANT CountLimit
INVARIANT Isolation
