SPECIFICATION Spec
CONSTANTS
  Importers = {i1, i2}
  Openers = {o1, o2}
  Inspectors = {a1}
  Pages = 2
  MaxTroubles = 2
INVARIANTS
  OpensWhole
  CompetitorKept
PROPERTY CompetitorUnsealed
CHECK_DEADLOCK FALSE
