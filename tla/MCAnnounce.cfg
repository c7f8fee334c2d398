SPECIFICATION FairSpec
CONSTANTS
  Conts = {c1}
  MaxChanges = 3
  MaxFaults = 1
  Names = {"nginx", "owner"}
  Hosts <- MCHosts
  Signers = {p1, p2}
  Versions <- MCVersions
  NaN <- MCNaN
INVARIANTS
  TypeOK
PROPERTIES
  ChangesAreTold
  
