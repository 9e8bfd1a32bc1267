SPECIFICATION Spec
CONSTANTS
  Dirs <- MCDirs
  Nodes <- MCNodes
  Tables <- MCTables
  Configs <- MCConfigs
  Files <- MCFiles
INVARIANTS
  TotalsExact SummaryAgrees
  SuspicionWarranted HeldSpaceFound
