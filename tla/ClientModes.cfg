CONSTANTS
  gCompatible = FALSE
  StaleLimit = 2
  MaxShares = 3
  MaxHeight = 2
  MaxSessions = 2
  MaxTemplates = 3
  MaxTops = 2
  MaxFaults = 3
SPECIFICATION ClientSpec
INVARIANTS
  TypeOK
  ShareCountedOnce
  LostMeansReconnect
  EveryBlockGetsWork
  BlockMatchesTemplate
  CrashNeedsRefusal
PROPERTIES
  SilentPoolNoticed
  NewHeightMined
CHECK_DEADLOCK FALSE
