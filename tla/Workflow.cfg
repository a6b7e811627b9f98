SPECIFICATION FairSpec
CONSTANTS
  Runs = {r1, r2}
  NoRun = NoRun
  Retries = 2
  Resumes = 1
  MaxLosses = 3
INVARIANTS
  AloneInWhole
  ReplyOnce

  
CHECK_DEADLOCK FALSE
