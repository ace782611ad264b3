SPECIFICATION FairSpec
CONSTANTS
  m1 = m1
  m2 = m2
  Msgs <- Msgs2
  Kinds <- ReadKinds
  MaxChain = 2
  MaxIOReads = 1
  MaxIOWrites = 1
  WriteCap = 2
  Run = Run
  None = None
CHECK_DEADLOCK FALSE
PROPERTY Responsive
PROPERTY ShutdownReleasesCallers
