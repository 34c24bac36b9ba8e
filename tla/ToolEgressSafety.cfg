\* Two launches share the database; two turns; two bodies with one result each,
\* or one with both.  Every database statement may fail.
SPECIFICATION Spec
CONSTANTS
  Launch = {l1, l2}
  Turn = {t1, t2}
  Body = {b1, b2}
  Call = {c1, c2}
  Receipt = {r1, r2}
  DbMayFail = TRUE
  None = None
SYMMETRY Symmetry
INVARIANTS
  TypeOK
  ReceiptsMatchNetwork
  BatchesAreOwned
  RevokedMeansStopped
PROPERTIES
  ImplementsLedger
\* Every launch may have ended.
CHECK_DEADLOCK FALSE
