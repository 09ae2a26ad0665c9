CONSTANTS
  Cuda = TRUE
  PW = 2
  SW = 1
  FirstSieves = 1
  HashesPerSieve = 1
  Depth = 1
  BlockSize = 1
  FERMAT_PIPELINES = 1
  MaxFound = 1
  MaxPerSieve = 1
  MaxNonce = 2
  MaxWork = 2
SPECIFICATION Spec
INVARIANTS
  SieveBuffersConsumed
PROPERTIES
  ImplementsPipeline
