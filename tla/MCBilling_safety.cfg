SPECIFICATION Spec
CONSTANTS
  Containers = {c1}
  None = None
  ChargeInterval = 2
  Slots = {s1, s2}
  MaxUptime = 3
  MaxTopUps = 1
  MaxFaults = 2
SYMMETRY Symmetry
INVARIANTS
  CreditBacked
  OverchargeBounded
  PrepaidBound
  RunsOnlyIfPaid
  MemoryMatchesDb
  DockerMatchesState
PROPERTIES
  RowsOnlyAdvance
  ImplementsAccount
