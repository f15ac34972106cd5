SPECIFICATION LiveSpec
CONSTANTS
  Clients = {c1, c2}
  MaxElement = 4
  MaxSends = 3
  UintMax = 255
INVARIANTS ChannelInStep EveryCommandOnce
PROPERTIES QueuedIsHandled DeInitReturns
CHECK_DEADLOCK FALSE
