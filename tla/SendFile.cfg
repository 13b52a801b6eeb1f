SPECIFICATION FairSpec
CONSTANTS
  d1 = d1
  d2 = d2
  Downloaders = {d1, d2}
  Limits <- MCLimits
  MaxSendDownloads = 2
  MaxRequests = 3
  MaxFaults = 1
  Kinds = {"text", "file", "large"}
  Backends = {"b2", "s3"}
INVARIANTS
  LimitHolds
  CleanRemoval
PROPERTIES
  ExpiredIsRemoved
  SpentIsRemoved
CHECK_DEADLOCK FALSE
