\* Two folders opened in turn and the first again; the list of recent ones
\* holds one entry instead of ten.  Nothing fails.
SPECIFICATION Spec
CHECK_DEADLOCK FALSE
CONSTANTS
  Roots = {r1, r2}
  GitRoots = {}
  Files = {a}
  Ignored = {}
  RecentLimit = 1
  MaxGens = 6
  MaxConvs = 4
  MaxTurns = 0
  MaxEdits = 0
  MaxVersion = 1
  MaxFaults = 0
  None = None
PROPERTIES
  ReopenedRootAttaches
