SPECIFICATION CronFairSpec
CONSTANTS
  Servers = {a, b}
  a = a
  b = b
  Conns = {1, 2}
  Slots = {1, 2}
  Interval = 2
  MaxMishaps = 1
INVARIANTS
  TaskExclusive
  SoloNeverSkips
PROPERTIES
  RunsAgain
CHECK_DEADLOCK FALSE
