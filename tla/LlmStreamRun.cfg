SPECIFICATION LlmSpec
CONSTANTS
  MaxCalls = 2
  MaxRequests = 2
  MaxLines = 4
  MaxNoise = 1
  WireCap = 1
  Quirks = {"careless", "short"}
INVARIANTS
  SameAsWhole
  NoTruncation
  HistoryTold
CHECK_DEADLOCK FALSE
