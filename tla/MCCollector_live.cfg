CONSTANTS
  HostCount = 2
  Workers = 1
  Poll = 1
  MaxBackoff = 1
  DiskInterval = 0
  Prompt = FALSE
  FailureCap = 3
  MaxRestarts = 0
SPECIFICATION FairSpec
PROPERTIES
  ProbedForever
  StopCompletes
