SPECIFICATION Spec
CONSTANTS
  Roots = {r1, r2}
  HourlyDays = 1
  DailyDays = 2
  IncompleteHours = 1
  DayLength = 2
  MonthLength = 6
  MaxStepBack = 2
  MaxNow = 7
  MaxId = 3
  MaxRows = 4
SYMMETRY RootSymmetry
INVARIANTS
  MonthCovered PruneHistoryFree DroppedForGood LoopAgrees
