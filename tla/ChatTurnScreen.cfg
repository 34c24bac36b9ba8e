\* Without database faults; a conversation may hold two turns.
SPECIFICATION FairSpec
CONSTANTS
  Turn = {t1, t2}
  MaxConv = 3
  MaxDelta = 1
  DbMayFail = FALSE
  None = None
INVARIANTS
  IdleIsSettled
PROPERTIES
  TurnEnds
