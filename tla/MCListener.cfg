SPECIFICATION FairSpec
CONSTANTS
  k1 = k1  k2 = k2  k3 = k3  r1 = r1  r2 = r2
  Keys = {k1, k2, k3}
  BatchSize = 2
  Ids = {i1, i2}
  Requests = {r1, r2}
  KeyOf <- MCKeyOf
  AheadOf <- MCAheadOf
  Slack = 1
  MaxClock = 2
  MaxFaults = 1
  MaxRemoves = 1
INVARIANTS
  Batched
  RelayAgrees
PROPERTIES
  PassedOverIsOld
  HearsItsKeys
CHECK_DEADLOCK FALSE
