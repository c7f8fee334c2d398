SPECIFICATION FairSpec
CONSTANTS
  Services = {s1, s2}
  MissingAnswers = {"false", "error"}
  MaxKeys = 2
  MaxWrites = 2
  MaxFaults = 2
  MaxLosses = 2
INVARIANTS
  NoRollback
PROPERTIES
  KeysNotOverridden
  OpensAgain
