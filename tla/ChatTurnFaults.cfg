\* Two turns, two conversations; every statement may fail.
SPECIFICATION Spec
CONSTANTS
  Turn = {t1, t2}
  MaxConv = 2
  MaxDelta = 1
  DbMayFail = TRUE
  None = None
SYMMETRY Symmetry
INVARIANTS
  TypeOK
  EndsAreConsistent
PROPERTIES
  ImplementsLifecycle
