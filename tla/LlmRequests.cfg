SPECIFICATION FairSpec
CONSTANTS
  a = a
  b = b
  c = c
  x = x
  y = y
  None = None
  Clients = {c}
  Models = {x, y}
  Backends <- BackendsTwo
  Rank <- RankFlat
  Session <- SessionEach
  Prompt <- PromptMixed
  Asked <- AskedNone
  Floor <- FloorOne
  Ceiling <- CeilingTwo
  Share <- ShareMixed
  Budget <- BudgetMixed
  StartSlots <- SlotsOne
  MaxSlots <- SlotsOne
  CutRetries = 2
  StickyMax = 2
  Outcomes = {"whole", "bad", "cut", "early", "limited", "error", "refused"}
  Streaming = {c}
  Expiring = {c}
  Stops = {"changed", "terminated"}
INVARIANTS
  ReplyKept
  RoomKept
  NoneDropped
PROPERTIES
  DrainEnds
