SPECIFICATION Spec
CONSTANTS
  NoRow = NoRow
  none = none
  some = some
  Processes = {"tracked", "stray"}
  Owner <- MCOwner
  Untracked = {"stray"}
  Memory = {none, some}
  UsageGap = 3
  MergeSlack = 1
  Spacing = 2
  Retention = 3
  MaxTime = 7
INVARIANTS
  TypeOK
  IntervalsDisjoint
  UsageIsBusyCapacity
  LostNeverFilled
  TotalsMatch
  DurationsProven
  OwnerIsCurrent
PROPERTIES
  ChargedToAllOrNobody
  LedgerSpec
SYMMETRY MCSymmetry
CHECK_DEADLOCK FALSE
