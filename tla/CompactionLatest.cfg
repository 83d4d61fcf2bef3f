SPECIFICATION Spec
CONSTANTS
  MaxEvents = 10
  HistoryLimit = 40
  TranscriptBudget = 40
  ToolKinds = {}
  AutoCompress = TRUE
  Trouble = {}
INVARIANTS
  LatestExchangeKept
