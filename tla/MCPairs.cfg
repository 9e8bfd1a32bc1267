SPECIFICATION Spec
CONSTANTS
  Roots <- MCRoots
  Targets <- MCTargets
  Sights <- MCSights
  Times = {1, 2, 3}
  Sinces = {1, 2}
  MaxId = 4
INVARIANTS
  SelectorsAgree HistoryExtendsPair NestedRootOwnsPath
