SPECIFICATION Spec
CONSTANTS
  Roots = {r1}
  Paths = {a, b}
  States = {plain, pointing}
  a = a
  b = b
  plain = plain
  pointing = pointing
  Refs <- MCRefs
  MaxId = 3
  Procs = {p1}
  NoProc = NoProc
  MaxPolls = 0
INVARIANTS
  ViewFaithful VersionsDisjoint BoundsRecorded PathsKnown DiagnosticsOwned
