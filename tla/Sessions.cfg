SPECIFICATION Spec
CONSTANTS
  Conns = {c1, c2}
  Offers <- MCOffers
  MaxLogins = 2
  None = None
SYMMETRY Symmetry
INVARIANTS TypeOK OnlyProven AloneAdmitted AloneAgrees
CHECK_DEADLOCK FALSE
