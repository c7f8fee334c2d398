SPECIFICATION Spec
CONSTANTS
  Containers = {c1}
  None = None
  ChargeInterval = 1
  Slots = {s1}
  MaxUptime = 1
  MaxTopUps = 0
  MaxFaults = 0
INVARIANTS
  PaidIsNotRemoved
