SPECIFICATION Spec
CONSTANTS
  dA = dA
  dL = dL
  k1 = k1
  k2 = k2
  k3 = k3
  Dims = {dA}
  EPHEMERAL = dL
  Keys = {k1, k2, k3}
  Vectors <- MCVectors
  capacity = 2
  CellElements = 2
  Unknown = Unknown
  MaxDirty = 2
  MaxReservations = 2
SYMMETRY KeySymmetry
VIEW Seen
INVARIANTS ReadsBack StagedIsCurrent
CHECK_DEADLOCK FALSE
