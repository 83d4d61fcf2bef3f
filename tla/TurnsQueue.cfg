SPECIFICATION FairSpec
CONSTANTS
  MaxPrompts = 4
  MaxAsks = 1
  MaxSessions = 2
  QueueCap = 2
  ChannelCap = 1
  Trouble = {"compression-cancelled"}
INVARIANTS
  EnteredKept
PROPERTIES
  EscEndsTurn
  QueueDrains
