CONSTANTS
  NumDevices = 2
  MaxBuilds = 1
  MaxSessions = 2
  MaxHeight = 3
  MaxWorks = 2
  Rewinds = FALSE
  LateWork = FALSE
SPECIFICATION FairSpec
PROPERTIES
  MinersFollowPool
CHECK_DEADLOCK FALSE
