SPECIFICATION FairSpec
\* A run that has returned takes no further step.
CHECK_DEADLOCK FALSE
CONSTANTS
  MaxRounds = 3
  MaxCalls = 4
  MaxBytes = 3
  MaxSize = 2
  MaxDelta = 3
  read = read
  search = search
  status = status
  Call <- MCCall
  StatusCall <- MCStatusCall
  Opens <- MCOpens
  Batch <- MCBatch
INVARIANTS
  TypeOK
  BudgetsHold
  AccountsHold
  StopTakesHold
PROPERTIES
  Returns
