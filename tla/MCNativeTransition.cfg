SPECIFICATION Spec
CONSTANTS
  EpochBlocks = 2
  MaxU64 = 3
  MaxEvents = 2
  MaxKeys = 21
  MaxCands = 4
  MaxChanges = 18
  pA = pA
  pB = pB
  tok = tok
  n1 = n1
  n2 = n2
  x1 = x1
  x2 = x2
  c1 = c1
  i1 = i1
  Configs <- MCConfigs
  Batches <- MCBatches
INVARIANTS
  Inductive
  UndoExact
  AllOrNothing
PROPERTIES
  HistoryKept
