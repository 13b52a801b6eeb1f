SPECIFICATION FairSpec
CONSTANTS
  N = 4
  MaxTransferThreads = 2
  MaxUploadAttempts = 2
  MaxFaults = 2
  Used0 = 1
  Quotas = {4, 5}
  Services = {"vault", "send"}
  Backends = {"b2", "s3"}
  Clients = {"cli", "web"}
INVARIANTS
  OneFinisher
  FinishIsWhole
  AckedIsStored
PROPERTIES
  ImplementsAtomicUpload
  CleanUploadCompletes
CHECK_DEADLOCK FALSE
