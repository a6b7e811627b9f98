SPECIFICATION FairSpec
CONSTANTS
  Users = {a, b}
  Callers = {a}
  Gpus = 1
  TTL = 2
  Timeout = 2
  Polls = 3
  None = None
  MaxCalls = 1
  MaxTrouble = 2
INVARIANT
  NoOvercommit

  
  
CHECK_DEADLOCK FALSE
