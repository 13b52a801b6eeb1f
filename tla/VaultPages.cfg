SPECIFICATION MCSpec
CONSTANTS
  None = None
  MaxIds = 4
  MaxTasks = 4
  MaxFiles = 2
  Folders = {1, 2}
  Files = {11, 12, 13}
  Home = 0
  Nowhere = Nowhere
  Nil = Nil
  InFolder <- ThreeItems
  Strings = {{1, 12}}
  Recipients = {"r"}
  MaxRoutines = 2
  MaxOrders = 2
  MaxFaults = 1
INVARIANTS UploadsOpen FilesGoTogether CacheIsCurrent ActsOnWhatIsShown PageIsTrue
CHECK_DEADLOCK FALSE
