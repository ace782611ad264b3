SPECIFICATION Spec
CONSTANTS
  c1 = c1
  c2 = c2
  Conns <- MCConns
  Workers = {w1, w2}
  Handles = {h1, h2}
  TreeIds = {t1, t2, t3}
  Shares <- MCShares
  Requests <- MCRequests
  MaxRequests <- MCMaxRequests
  None = None
SYMMETRY Symmetry
INVARIANTS TypeOK OpensBacked NoHandleLost TreesAgree ContextOfCaller
PROPERTY ImplementsOpenFiles
CHECK_DEADLOCK FALSE
