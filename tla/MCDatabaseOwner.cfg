SPECIFICATION Spec
CONSTANTS
  a1 = a1
  a2 = a2
  a3 = a3
  n1 = n1
  n2 = n2
  n3 = n3
  Apps = {a1, a2, a3}
  Namespaces = {n1, n2, n3}
  Mutexes = {1, 2, 3, 4, 5, 6}
  MaxLocks = 2
  Serves <- MCServes
  Rounds <- MCRounds
  MaxRestarts = 1
  MaxByte = 1
  Keys <- MCKeys
  Values = {0, 2, 4}
  MaxKey = 2
  ScanPrefixes <- MCPrefixes
  MAX_TRANSACTION_KEYS = 4
  MAX_TRANSACTION_BYTES = 8
  MAX_BYTES_VALUE = 3
  MarkerBytes = 2
  PageEntries = 2
  PageBytes = 4
  MaxBatches = 2
  Scenarios <- MCScenarios
INVARIANTS
  NoLostUpdate
  ScanExact
  BatchFits
CHECK_DEADLOCK FALSE
