SPECIFICATION FairSpec
CONSTANTS
  MaxFaults = 1
  MaxCalls = 0
PROPERTIES
  ShutdownIsDelivered
CHECK_DEADLOCK FALSE
