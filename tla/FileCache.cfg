SPECIFICATION FairSpec
CONSTANTS
  Files = {1, 2}
  Clients = {c1, c2}
  None = None
  N = 2
  FullSize = 2
  LastSize <- LastSizes
  ChunkSize = 1
  MaxCacheSize = 6
  MaxCachedFileSize = 4
  MaxTransferThreads = 1
  MaxLocks = 2
  MaxDownloads = 3
INVARIANTS HitStaysHit CacheNearlyBounded
PROPERTIES ServesRight DownloadsEnd
CHECK_DEADLOCK FALSE
