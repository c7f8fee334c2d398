SPECIFICATION FairSpec
CONSTANTS
  Containers = {c1}
  None = None
  ChargeInterval = 1
  Slots = {s1, s2}
  MaxUptime = 2
  MaxTopUps = 2
  MaxFaults = 0
PROPERTIES
  TopUpResumes
