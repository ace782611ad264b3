SPECIFICATION Spec
CONSTANTS
  t1 = t1
  t2 = t2
  root = root
  dir = dir
  file = file
  dir2 = dir2
  file2 = file2
  a = a
  b = b
  None = None
  Threads <- TwoThreads
  Nodes <- SmallNodes
  Root = root
  Spare <- NoNodes
  Files <- OneFile
  Names <- TwoNames
  Tree <- SmallTree
  MaxDepth = 2
  OpSets <- DirectoryOps
INVARIANT NoStandstill
CHECK_DEADLOCK FALSE
