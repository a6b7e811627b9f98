SPECIFICATION FairSpec
CONSTANTS
  Mounts = {depot, cvmfs}
  Fio = {depot}
  None = None
  Stale = 2
  MaxChanges = 1
  MaxFaults = 1
INVARIANTS
  GreenIsTrue
  RedIsAVerdict
PROPERTY
  DeadIsSeen
CHECK_DEADLOCK FALSE
