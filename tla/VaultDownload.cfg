SPECIFICATION MCSpec
CONSTANTS
  Transfers = {t1, t2}
  First = t1
  Threads = 2
  Sizes = {2, 5, 6}
  LongSizes = {5, 6}
  Bandwidth = 6
  MaxWeeks = 1
  MaxFaults = 2
INVARIANTS WholeOrError ServedAlone OverdraftBounded LastIsLast 
PROPERTY TransfersReturn
CHECK_DEADLOCK FALSE
