SPECIFICATION Spec
CONSTANTS
  MaxEvents = 5
  HistoryLimit = 2
  TranscriptBudget = 40
  ToolKinds = {"gated"}
  AutoCompress = TRUE
  Trouble = {"turn-cancelled", "compression-cancelled", "write-failed", "killed"}
INVARIANTS
  TypeOK
  MarkerResolves
  SummarySticks
  NothingTwice
  
PROPERTIES
  KeepsLedger
