SPECIFICATION FairSpec
CONSTANTS
  Daemons = {d1, d2}
  MaxRev = 2
  MaxTrouble = 2
  Attempts = 3
  RetryWait <- MCRetryWait
  LockFrozen = 90
 
PROPERTIES  Converges
