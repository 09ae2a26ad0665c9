CONSTANTS
  Cuda = FALSE
  PW = 4
  SW = 2
  FirstSieves = 1
  HashesPerSieve = 1
  Depth = 2
  BlockSize = 3
  FERMAT_PIPELINES = 1
  MaxFound = 2
  MaxPerSieve = 2
  MaxNonce = 2
  MaxWork = 2
SPECIFICATION FairSpec
INVARIANTS
  TypeOK
  CandidateEntersOnce
PROPERTIES
  ImplementsPipeline
  HashmodRunsAgain
