SPECIFICATION Spec
CONSTANTS
  s1 = s1
  s2 = s2
  s3 = s3
  Tools = {s1, s2}
  Scripts = {s1, s2, s3}
  Project <- MCProject
  Counts = {1, 2}
  MaxWorkers = 1
  MaxClusters = 3
  MaxPolls = 1
  MaxCalls = 2
  MaxTrouble = 2
INVARIANTS OneEach 
CHECK_DEADLOCK FALSE
