SPECIFICATION Spec
CONSTANTS
  k1 = k1
  k2 = k2
  l1 = l1
  Persistent <- MCPersistent
  Local <- MCLocal
  Values <- MCValues
  Archives <- MCArchives
  MAX_VALUE_ELEMENTS = 2
  MAX_PENDING_KEYS = 2
  MAX_PENDING_ELEMENTS = 3
SYMMETRY KeySymmetry
INVARIANTS
  ScanMatchesReads
  MarkerResolves
PROPERTIES
  ImplementsShardMap
