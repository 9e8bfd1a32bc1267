SPECIFICATION FairSpec
CONSTANTS
  Roots = {r1}
  Paths = {a}
  States = {plain, pointing}
  a = a
  b = b
  plain = plain
  pointing = pointing
  Refs <- MCRefs
  MaxId = 2
  Procs = {p1, p2}
  NoProc = NoProc
  MaxPolls = 1
INVARIANTS
  TypeOK VictimsDormant
PROPERTIES
  HistorySpec WaitEnds LockFreed
