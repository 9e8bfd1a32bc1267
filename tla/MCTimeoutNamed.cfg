SPECIFICATION FairSpec
CONSTANTS
  Commands = {"investigate"}
  DbOptions <- MCDbOptions
  MaxHung = 0
INVARIANTS
  TimeoutNamed
