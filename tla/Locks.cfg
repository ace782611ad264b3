SPECIFICATION Spec
CONSTANTS
  t1 = t1
  t2 = t2
  root = root
  dir = dir
  file = file
  dir2 = dir2
  file2 = file2
  a = a
  b = b
  None = None
  Threads <- TwoThreads
  Nodes <- AllNodes
  Root = root
  Spare <- SpareNodes
  Files <- SomeFiles
  Names <- TwoNames
  Tree <- SmallTree
  MaxDepth = 2
  OpSets <- Together
SYMMETRY SymmetryLocks
INVARIANT TypeOK
INVARIANT NoStandstill
PROPERTY EntriesGuarded
CHECK_DEADLOCK FALSE
