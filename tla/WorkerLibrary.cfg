SPECIFICATION LibrarySpec
CONSTANTS
  SplitCalls <- MCSplitCalls
  Readers = {"r1", "r2"}
  Fleets <- MCFleets
  SplitBatchRows = 2
  kStride = 2
  MaxPages = 3
  MaxClaim = 2
  MaxDeaths = 1
  Calls <- MCGenCalls
  DefaultBatch = 3
  VolumeRows = 7
  Absent = Absent
  IntBits = 3
  kMaxDepth = 4
  kMaxNodes = 13
  TableRows = 4
  FilterCalls <- MCFilterCalls
  LatePredicates <- MCLatePredicates
  PartitionCalls <- MCPartitionCalls
  ChunkReaders = {"w1", "w2"}
  ChunkBatch = 2
  kChunkRows = 3
  kMaxChunks = 3
  kDisjointStride = 4
  CacheQueries <- MCCacheQueries
  CacheBatch = 2
  CacheChunks = 3
  DefaultTtl = 2
  CacheClock = 2
  MaxQueries = 2
  ScalarRequests <- MCScalarRequests
  ScalarBatch = 2
  ScalarSettings <- MCScalarSettings
  ScalarSecrets <- MCScalarSecrets
  Drawn = {0, 1, 5}
  DecimalDigits = 4
INVARIANTS
  SplitScanIsWhole StalePlanIsNotRead
  GeneratedAsTold
  FilteredAsAsked
  PartitionsAreWhole
  ServedIsTheAnswer NonceTellsAMiss
  CalledIsServed ScalarsAnswer
PROPERTIES
  SplitScanEnds
CHECK_DEADLOCK FALSE
