\* Two turns of two calls in all, one fault anywhere.
SPECIFICATION Spec
\* The bound on turns ends a behaviour.
CHECK_DEADLOCK FALSE
CONSTANTS
  Scanned <- MCScanned
  MaxResult = 8
  MaxReadLines = 9
  MaxExcerpt = 2
  MaxOmissions = 3
  Asked <- MCAsked
  UuidTools = {"repo_status", "read_file_lines", "search_text"}
  MaxTurns = 2
  MaxCalls = 2
  Touched = {"c"}
  MaxFaults = 1
  None = None
INVARIANTS
  TypeOK
  EvidenceIsOriginal
  NothingSilentlyOmitted
  AuditIsGrounded
PROPERTIES
  EvidenceIsKept
