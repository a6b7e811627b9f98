SPECIFICATION FairSpec
CONSTANTS
  a = a
  b = b
  c = c
  x = x
  y = y
  None = None
  Clients = {a, b, c}
  Models = {x}
  Backends <- BackendsOne
  Rank <- RankMixed
  Session <- SessionNone
  Prompt <- PromptMixed
  Asked <- AskedSome
  Floor <- FloorOne
  Ceiling <- CeilingTwo
  Share <- ShareMixed
  Budget <- BudgetMixed
  StartSlots <- SlotsStart
  MaxSlots <- SlotsMost
  CutRetries = 1
  StickyMax = 1
  Outcomes = {"whole", "raised"}
  Streaming = {a}
  Expiring = {}
  Stops = {}
INVARIANTS
  TypeOK
  FairUse
  SlotsBounded
PROPERTIES
  NoStarvation
