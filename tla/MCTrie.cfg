SPECIFICATION TrieSpec
CONSTANTS
  Width = 3
  TrieKeys <- MCKeys
  Vals <- MCVals
  MaxChanges = 6
INVARIANTS
  RootCanonical
  ArenaExact
  ProofsBind
