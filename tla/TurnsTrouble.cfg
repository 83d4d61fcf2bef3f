SPECIFICATION Spec
CONSTANTS
  MaxPrompts = 3
  MaxAsks = 1
  MaxSessions = 2
  QueueCap = 2
  ChannelCap = 2
  Trouble = {"early-answer", "compression-cancelled", "compression-fails"}
INVARIANTS
  NeverTwice
  SentInOrder
  SentWhereEntered
  OneReader
PROPERTIES
  NothingFires
