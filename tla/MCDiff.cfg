SPECIFICATION Spec
CONSTANTS
  Trees <- MCTrees
  Folds <- MCFolds
  Misses <- MCMisses
  MaxDepth = 3
  Limit = 4
INVARIANTS
  DeletedAreGone CurrentExplained
  GrowthNotDoubled FrontierCovers RemainderIsDirect RenameIsNoCulprit
CHECK_DEADLOCK FALSE
