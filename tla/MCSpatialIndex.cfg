SPECIFICATION MCSpec
CONSTANTS
  Dimension = 2
  Infinity = 100000
  IndexCapacity = 4
  LeafCapacity = 4
  FillFactor = 50
  SplitDistributionFactor = 40
  ReinsertFactor = 30
  NearMinimumOverlapFactor = 3
  TightMBRs = TRUE
  Outside = 0
  PageSize = 2
  NumberOfPages = 2
  Queries <- MCQueries
  Variants = {"RV_RSTAR", "RV_LINEAR", "RV_QUADRATIC"}
  Side = 10
  Seeds = {1, 2}
  Streams = {1, 2, 3, 4, 5}
  MaxData = 14
  MaxDeleted = 7
  MaxInserted = 17
  Diagonal = 29
  MaxReceived = 32
  size_block = 4
  VersionSeeds = {1, 2, 5, 30}
  VersionCapacity = 10
  StrongVersionOverflow = 80
  VersionUnderflow = 30
  MovingSeeds = {2, 3, 7, 20}
  Tick = 12
  Horizon = 48
  Growth = 40
  Churn = 12
  Regrowth = 12
INVARIANTS IndexIsValid ContentIsExact PagesAreInUse QueriesAreExact PrintsTrue
CHECK_DEADLOCK FALSE
