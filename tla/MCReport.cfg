SPECIFICATION ReportSpec
CONSTANTS
  Roots = {r1}
  Paths = {a}
  States = {plain}
  a = a
  b = b
  plain = plain
  pointing = pointing
  Refs <- MCRefs
  MaxId = 3
  Procs = {p1}
  NoProc = NoProc
  MaxPolls = 0
INVARIANTS
  ReportFaithful
