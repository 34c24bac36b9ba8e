\* One git folder with an ignored file, and one failure anywhere.
SPECIFICATION FairSpec
\* The bounds on requests, turns and edits end a behaviour.
CHECK_DEADLOCK FALSE
CONSTANTS
  Roots = {r1}
  GitRoots = {r1}
  Files = {a, b}
  Ignored = {b}
  RecentLimit = 1
  MaxGens = 4
  MaxConvs = 3
  MaxTurns = 1
  MaxEdits = 1
  MaxVersion = 1
  MaxFaults = 1
  None = None
INVARIANTS
  TypeOK
  BindingIsCurrent
  FreshnessHolds
PROPERTIES
  WorkIsTakenUp
