\* A vault upload of which one chunk fails.
SPECIFICATION FairSpec
CONSTANTS
  N = 3
  MaxTransferThreads = 3
  MaxUploadAttempts = 2
  MaxFaults = 1
  Used0 = 1
  Quotas = {4}
  Services = {"vault"}
  Backends = {"s3"}
  Clients = {"cli"}
PROPERTY HandlersAnswer
CHECK_DEADLOCK FALSE
