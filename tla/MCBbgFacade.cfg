SPECIFICATION FacadeSpec
CONSTANTS
  EpochBlocks = 2
  MaxU64 = 5
  MaxHeight = 4
  MaxCalls = 4
  pA = pA
  pB = pB
  tok = tok
  n1 = n1
  x1 = x1
  x2 = x2
  c1 = c1
  i1 = i1
  Configs <- MCConfigs
  Inserts <- MCSignals
  Headers <- MCHeaders
  Intents <- MCIntents
  Ranks = {1}
  Bounds = {2}
INVARIANTS
  Indexed
  
PROPERTIES
  HalfLifeExact
CHECK_DEADLOCK FALSE
