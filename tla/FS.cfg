SPECIFICATION Spec
CONSTANTS
  c1 = c1
  c2 = c2
  h1 = h1
  h2 = h2
  a = a
  b = b
  None = None
  Clients <- OneClient
  Handles <- TwoHandles
  Names <- TwoNames
  MaxDepth = 2
  MaxNodes = 3
  MaxSize = 1
  Modes <- PlainAndHoneypot
  Verdicts <- MayBlock
SYMMETRY SymmetryFS
VIEW WithoutPaths
INVARIANT TypeOK
INVARIANT ListedOnce
INVARIANT SizeIsContent
PROPERTY HoneypotKeepsTree
CHECK_DEADLOCK FALSE
