\* One launch, two turns one after the other or overlapping after a replaced
\* conversation.  No database faults: with them a batch waits for the next start.
SPECIFICATION FairSpec
CONSTANTS
  Launch = {l1}
  Turn = {t1, t2}
  Body = {b1, b2}
  Call = {c1}
  Receipt = {r1, r2}
  DbMayFail = FALSE
  None = None
PROPERTIES
  PromisesAreSettled
\* Every launch may have ended.
CHECK_DEADLOCK FALSE
