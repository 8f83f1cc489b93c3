SPECIFICATION Spec
CONSTANTS
    Gpus = {g1}
    Day = 3
    RollupDays = 2
    RawDays = 2
    IndexDays = 1
    BackupDays = 1
    MaxTime = 8
INVARIANTS DayFinal
PROPERTIES LastBackupKept
