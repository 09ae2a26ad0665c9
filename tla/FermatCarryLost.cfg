CONSTANTS
  WordBits = 4
  TableBits = 1
  Size320 = 2
  Size352 = 3
  windowSize = 4
SPECIFICATION FermatTestSpec
INVARIANTS
  ResultIsPowm
CHECK_DEADLOCK FALSE
