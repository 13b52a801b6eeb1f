SPECIFICATION Spec
CONSTANTS
  MonthStarts <- MCMonthStarts
  i1 = i1
  i2 = i2
  None = None
  Invoices = {i1, i2}
  Order <- MCOrder
  Plans = {"small", "large"}
  AdminSends = {1}
  MaxFaults = 1
  MaxUses = 1
INVARIANTS
  CreditedOnce
  AckedIsCredited
  StorageAsGranted
  ReclaimedInTime
  RenewedEveryMonth
