SPECIFICATION FairSpec
CONSTANTS
  lead = lead
  broken = broken
  hidden = hidden
  Personas <- MCPersonas
  Invocable <- MCInvocable
  Delegates <- MCDelegates
  Allows <- MCAllows
  Broken <- MCBroken
  MaxSubAgentDepth = 2
  SinkCap = 1
  MaxRuns = 3
  MaxInner = 1
  MaxSessions = 2
INVARIANTS
  RowsMatchRuns
  RecordsShowRun

  
