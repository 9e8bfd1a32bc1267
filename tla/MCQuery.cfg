SPECIFICATION FairSpec
CONSTANTS
  Commands = {"top", "investigate", "df-vs-index", "deleted-open-files", "collect"}
  DbOptions <- MCDbOptions
  MaxHung = 2
INVARIANTS
  HostDbOnly WholeOrNothing
PROPERTIES
  ClientEnds
