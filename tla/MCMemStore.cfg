SPECIFICATION Spec
CONSTANTS
  k1 = k1
  k2 = k2
  k3 = k3
  l1 = l1
  Persistent <- MCPersistent
  Local <- MCLocal
  Values <- MCValues
  MAX_VALUE_ELEMENTS = 2
  MAX_PENDING_KEYS = 2
  MAX_PENDING_ELEMENTS = 3
SYMMETRY KeySymmetry
INVARIANTS
  PositionsExact
  ElementsCounted
  PendingBounded
  BatchesExplainCache
