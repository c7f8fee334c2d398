SPECIFICATION FairSpec
CONSTANTS
  Containers = {c1}
  None = None
  ChargeInterval = 1
  Slots = {s1}
  MaxUptime = 2
  MaxTopUps = 1
  MaxFaults = 1
PROPERTIES
  DebtIsResolved
  PaidIsDeployed
  UnpaidIsRemoved
