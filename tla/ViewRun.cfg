SPECIFICATION Spec
CONSTANTS
  Height = 2
  TailLines = 3
  MaxEvents = 2
  MaxChunks = 1
  MaxInfos = 1
  MaxResizes = 1
INVARIANTS
  SyncedView
  WindowInside
  StoppedTextStays
