SPECIFICATION Spec
CONSTANTS
  MaxEvents = 9
  HistoryLimit = 40
  TranscriptBudget = 40
  ToolKinds = {"free"}
  AutoCompress = TRUE
  Trouble = {"compression-cancelled"}
INVARIANTS
  DisplayAgrees
  NothingForgotten
  PairsIntact

  
