SPECIFICATION DisturbedSpec
CONSTANTS
  NoRow = NoRow
  Processes = {"tracked"}
  Owner <- MCOwner
  Untracked = {}
  Memory = {0}
  UsageGap = 3
  MergeSlack = 1
  Spacing = 2
  Retention = 8
  MaxTime = 8
  MaxStepBacks = 1
  MaxUnstored = 0
INVARIANT IntervalsDisjoint
CHECK_DEADLOCK FALSE
