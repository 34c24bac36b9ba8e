\* Both adapters, three lines in one or two rounds, any cut of the chunks; and
\* a check of a provider, whose tool probe is such a round.
SPECIFICATION ProbeSpec
\* A stream that has ended takes no further step.
CHECK_DEADLOCK FALSE
CONSTANTS
  Adapters = {"openaiRound", "geminiRound", "openaiChat", "geminiChat"}
  MaxLines = 3
  MaxStream = 5
  MaxBuffer = 3
  ArgLimit = 1
  CallLimit = 2
  Calls <- MCCalls
  NativeId <- MCNativeId
  None = None
  DiscoverLimit = 2
  VerifyLimit = 1
  MaxItems = 2
INVARIANTS
  TypeOK
  RoundIsWhole
  ResultsAnswerCalls
  ProbeTypeOK
PROPERTIES
  VerdictIsEarned
  SilenceEnds
