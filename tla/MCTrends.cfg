SPECIFICATION TrendSpec
CONSTANTS
  Disks = {0, 200, 201}
  Uses = {3, 4}
  Roots = {1, 2}
  MaxTaken = 5
INVARIANTS
  JumpIsBurst PressureOverWindow
CHECK_DEADLOCK FALSE
