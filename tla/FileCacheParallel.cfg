SPECIFICATION Spec
CONSTANTS
  Files = {1}
  Clients = {c1}
  None = None
  N = 3
  FullSize = 2
  LastSize <- LastSizes
  ChunkSize = 1
  MaxCacheSize = 10
  MaxCachedFileSize = 10
  MaxTransferThreads = 2
  MaxLocks = 2
  MaxDownloads = 2
PROPERTIES ServesRight
CHECK_DEADLOCK FALSE
