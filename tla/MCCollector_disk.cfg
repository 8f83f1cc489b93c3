CONSTANTS
  HostCount = 1
  Workers = 1
  Poll = 2
  MaxBackoff = 3
  DiskInterval = 3
  Prompt = TRUE
  FailureCap = 4
  MaxRestarts = 0
SPECIFICATION FairSpec
PROPERTIES
  DiskProbedForever
