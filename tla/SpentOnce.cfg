SPECIFICATION FacadeSpec
CONSTANTS
  EpochBlocks = 2
  MaxU64 = 5
  MaxHeight = 4
  MaxCalls = 4
  pA = pA
  pB = pB
  tok = tok
  n1 = n1
  x1 = x1
  x2 = x2
  c1 = c1
  i1 = i1
  Configs <- TightBudget
  Inserts <- TwiceSignals
  Headers = {}
  Intents = {}
  Ranks = {}
  Bounds = {}
INVARIANTS
  SpentOnce
CHECK_DEADLOCK FALSE
