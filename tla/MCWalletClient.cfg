SPECIFICATION FairSpec
CONSTANTS
  Requests = {e1, e2}
  MaxFaults = 3
PROPERTIES
  ImplementsRemoteCall
  EveryCallEnds
  HearsAgain
CHECK_DEADLOCK FALSE
