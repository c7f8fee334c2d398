SPECIFICATION FairSpec
CONSTANTS
  MaxFaults = 3
  MaxCalls = 2
INVARIANTS
  OneLink
  OneSignal
PROPERTIES
  Reconnects
  SoundLinkDelivers
CHECK_DEADLOCK FALSE
