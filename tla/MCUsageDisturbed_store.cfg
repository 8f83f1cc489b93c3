SPECIFICATION DisturbedSpec
CONSTANTS
  NoRow = NoRow
  Processes = {"tracked"}
  Owner <- MCOwner
  Untracked = {}
  Memory = {0}
  UsageGap = 3
  MergeSlack = 1
  Spacing = 2
  Retention = 8
  MaxTime = 8
  MaxStepBacks = 0
  MaxUnstored = 1
INVARIANT LostNeverFilled
CHECK_DEADLOCK FALSE
