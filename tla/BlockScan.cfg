SPECIFICATION FairSpec
CONSTANTS
  low = low
  high = high
  r1 = r1
  r2 = r2
  r3 = r3
  Prio <- MCPrio
  Rec <- MCRec
  PrioOf <- MCPrioOf
  QueueFills = TRUE
  MaxMsg = 5
INVARIANTS
  BusyMatchesCallbacks
  QuietMeansFresh
PROPERTIES
  OnePassAtATime
  EventuallyRead
CHECK_DEADLOCK FALSE
