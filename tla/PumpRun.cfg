SPECIFICATION FairSpec
CONSTANTS
  RawCap = 2
  BatchCap = 2
  MaxYields = 4
PROPERTIES
  KeepsDelivery
  YieldedIsShown
  StopEnds
CHECK_DEADLOCK FALSE
