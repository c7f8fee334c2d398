SPECIFICATION Spec
CONSTANTS
  named = named  plain = plain  n1 = n1  text = text
  Requests = {named, plain}
  Keys = {k1, k2, k3}
  Names = {n1}
  NameOf <- OneNamed
  UnitsOf <- TextAndTwo
  Odd = {text}
  AsInteger <- TextAsOne
  Unnamed = Unnamed
  NoKey = NoKey
  TotalUnits = 3
  MaxUnits = 2
  MaxCrashes = 1
SYMMETRY Symmetry
INVARIANTS
  TypeOK
  LonePortsDisjoint
  LoneUnitsFit
  LaunchedIsStored
  QuoteIsDurable
  OncePerRequest
CHECK_DEADLOCK FALSE
