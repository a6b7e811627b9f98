SPECIFICATION FairSpec
CONSTANTS
  Jobs = {j1}
  Users = {u1}
  Callers = {}
  Reaper = reaper
  None = none
  Data <- AllData
  MaxFailures = 1
  MaxAsks = 1
PROPERTIES
  InputsBeforeCluster
  EndedIsFinished
  ForgottenIsSwept
