CONSTANTS
  HostCount = 2
  Workers = 1
  Poll = 2
  MaxBackoff = 3
  DiskInterval = 0
  Prompt = FALSE
  FailureCap = 4
  MaxRestarts = 1
SPECIFICATION Spec
INVARIANTS
  TypeOK
  EventsAlternate
  CountersAgree
  PoolBounded
  ShutdownIsSilent
PROPERTIES
  NoLateProcess
  BackoffRespected
  AvailabilitySpec
