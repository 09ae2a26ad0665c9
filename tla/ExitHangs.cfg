CONSTANTS
  NumDevices = 1
  MaxBuilds = 1
  MaxSessions = 1
  MaxHeight = 2
  MaxWorks = 1
  Rewinds = FALSE
  LateWork = FALSE
SPECIFICATION FairSpec
PROPERTIES
  ExitFinishes
CHECK_DEADLOCK FALSE
