SPECIFICATION Spec
CONSTANTS
  u1 = u1
  u2 = u2
  a = a
  b = b
  Users = {u1, u2}
  Owners <- SameOrNot
  Clients = {a, b}
  Flavors <- TwoFlavors
  Budget <- OneEach
  Answers <- OneAnswer
  Kinds <- SomeKinds
  Asks <- ByClient
  None = none
  Idle = 3
  Start = 2
  Grant = 1
  GoneFor = 1
  Provision = 2
  MaxCalls = 2
  MaxFaults = 1
INVARIANTS
  BudgetKept
PROPERTIES
  IdleMeansUnused
  
  

