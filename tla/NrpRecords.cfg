SPECIFICATION Spec
CONSTANTS
  Jobs = {j1}
  Users = {u1}
  Callers = {c1}
  Reaper = reaper
  None = none
  Data <- NoInputs
  MaxFailures = 1
  MaxAsks = 0
INVARIANTS
  TypeOK
  
  
PROPERTIES
  FailedOutputsStay
