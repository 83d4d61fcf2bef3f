SPECIFICATION StartSpec
CONSTANTS
  Builtins <- MCBuiltins
  Worlds <- MCWorlds
  Listings <- MCListings
  Unusables <- MCUnusables
  DefaultContextWindow = 100
  MaxCalls = 3
INVARIANTS
  LayersReach
  FailClosed
  InvitedOnly
  WindowsTold
CHECK_DEADLOCK FALSE
