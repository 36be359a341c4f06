SPECIFICATION Spec
CONSTANTS
  Base = 2
  KEY_FIELDS = 3
  Ids <- MCIds
  Keys <- MCKeys
  Records <- MCRecords
  Links <- MCLinks
  Lists <- MCLists
  stake_key <- MCStakeKey
  Subjects <- MCSubjects
  MAX_FIELDS = 64
  MAX_QUERY_FIELDS = 21
  Queried <- MCQueried
  LookCells = {9}
INVARIANTS
  CommitmentsCurrent
  ListsMirrorSets
  SnapshotExact
  QueriesAnswer
  QueriesBind
