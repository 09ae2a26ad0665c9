CONSTANTS
  Size = 4
  Elem = {e1, e2}
  Blank = Blank
  BlockSize = 3
  MaxAvail = 5
  Capacity = 16
  MaxEntered = 12
  mThreads = 2
  HalfNonces = 4
  mLSize = 1
  CoeffStep = 1
  MaxWanted = 1
  MaxSpare = 1
  MaxCoeff = 2
  MaxRolls = 1
  MaxWork = 2
  SumBits = 10
  LimbBits = 6
  HashSize = 2
  SmallPrimes <- FewPrimes
  Primorials <- FewPrimorials
  LIMIT <- MultiplierLimits
  SearchHashes <- SomeHashes
  WordBits = 4
  TableBits = 1
  Size320 = 2
  Size352 = 3
  windowSize = 4
  Repeats = 3
  Factors352 <- SomeFactors
  N = 4
  HashBits = 8
  BITS = 16
  SIZE = 4
  STRIPES = 4
  WIDTH = 4
  TARGET = 3
  Depth = 2
  LSIZE = 4
  nps_all <- FirstRounds
  NLIFO = 4
  Batches = 7
  mPrimorial = 1
  Hashes <- SieveHashes
  Roundoffs <- QuotientErrors
  nFractionalBits = 8
  MaxZeros = 9
  Depths = {2, 3, 4, 5}
  ChainOrigins <- SomeOrigins
  BlockTargets <- SomeTargets
  pipelinesNum = 1
  MaxTip = 4
  MaxJobs = 4
  MaxNonce = 3
  MaxToggles = 2
  PARAM_K = 3
  PREFIX = 5
  ByteBits = 4
  NR_SLOTS = 16
  COLLISION_BUFFER_SIZE = 7
  MAX_POTENTIAL_SOLS = 12
  MAX_SOLS = 4
  BlakeTables <- SomeBlakes
SPECIFICATION PartsSpec
INVARIANTS
  WaitingHoldElements
  LentSlotIntact
  TailNotNegative
  TailAtMostBlock
  Conservation
  ScannedOnce
  FoundTimeIsHashed
  ReportsUsable
  PowerOfPrefix
  VerdictUnlessCarryLost
  ProductExact
  MarksAreMultiples
  CandidatesSurvive
  NumberIsMember
  FitsPipeline
  ChainLengthExact
  ShareOfOneHeader
  SolutionsExact
PROPERTIES
  ImplementsFifo
CHECK_DEADLOCK FALSE
