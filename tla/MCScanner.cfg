SPECIFICATION Spec
CONSTANTS
  Nodes <- MCNodes
  Root = "R"
  RootName = "r"
  Attr <- MCAttr
  Names <- MCNames
  Lookup <- MCLookup
  Swaps <- MCSwaps
  Mounts <- MCMounts
  Setups <- MCSetups
INVARIANTS
  AggregatesExact CountsLikeDu RowsFormTree ProtectedExpanded EvidenceFolded
  CompleteSawAll NoDirectoryTwice
CHECK_DEADLOCK FALSE
