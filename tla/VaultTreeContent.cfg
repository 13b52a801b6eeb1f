SPECIFICATION MCSpec
CONSTANTS
  Users = {a, b}
  None = None
  Available = 2
  MaxIds = 5
  MaxRequests = 4
  MaxFaults = 0
SYMMETRY UserSymmetry
INVARIANTS ContentIsKept
CHECK_DEADLOCK FALSE
