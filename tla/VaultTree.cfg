SPECIFICATION MCSpec
CONSTANTS
  Users = {a, b}
  None = None
  Available = 2
  MaxIds = 5
  MaxRequests = 4
  MaxFaults = 1
SYMMETRY UserSymmetry
INVARIANTS  KeysOpen MeterExact 
CHECK_DEADLOCK FALSE
