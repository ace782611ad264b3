SPECIFICATION Spec
CONSTANTS
  m1 = m1
  m2 = m2
  Msgs <- Msgs2
  Kinds <- AllKinds
  MaxChain = 2
  MaxIOReads = 1
  MaxIOWrites = 1
  WriteCap = 2
  Run = Run
  None = None
CHECK_DEADLOCK FALSE
SYMMETRY Symmetry2
INVARIANT TypeOK
INVARIANT AnsweredOnceInOrder
INVARIANT CompoundWhole
INVARIANT SlotsHeld
INVARIANT ResultsMatchCallers
