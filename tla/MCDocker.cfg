SPECIFICATION FairSpec
CONSTANTS
  a = a  b = b  p = p  q = q  one = one  two = two  arm = arm
  Conts = {a, b}
  Pinned = {a}
  Paths = {p, q}
  Images = {one, two, arm}
  NoImage = NoImage
  Runnable = {one, two}
  VolsOf <- MCVolsOf
  SizeOf <- MCSizeOf
  RoomOf <- MCRoomOf
  MaxPushes = 1
  MaxFaults = 1
INVARIANTS
  PinnedRunsChecked
  UpIsExact
  LeftoversWereCut
PROPERTIES
  
  ComesBack
