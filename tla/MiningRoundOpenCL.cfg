CONSTANTS
  Cuda = FALSE
  PW = 3
  SW = 1
  FirstSieves = 1
  HashesPerSieve = 1
  Depth = 1
  BlockSize = 1
  FERMAT_PIPELINES = 2
  MaxFound = 2
  MaxPerSieve = 1
  MaxNonce = 3
  MaxWork = 2
SPECIFICATION Spec
INVARIANTS
  ShareMatchesWork
  HashQueuedOnce
  RingNeverFull
