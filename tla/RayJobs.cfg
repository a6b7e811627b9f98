SPECIFICATION FairSpec
CONSTANTS
  c1 = c1
  c2 = c2
  i1 = i1
  i2 = i2
  Jobs = {j1, j2}
  Clients = {c1, c2}
  Ids = {i1, i2}
  IdsOf <- TwoIds
  ShapeOf <- SameShape
  None = none
  Start = 1
  MaxAsks = 2
  MaxFaults = 1
INVARIANTS
  NoDuplicate
PROPERTIES
  RunningKept
  AllGo
