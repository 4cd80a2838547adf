SPECIFICATION FairSpec
CONSTANTS
  Targets = {1, 2, 3}
  ScanLimit = 1
  RescanLimit = 1
  CreditUnit = 2
  Accrual = 2
  MaxFaults = 1
INVARIANTS
  NoDuplicateScan
  TasksAreTracked
  TablesAgree
PROPERTIES
  RegistrySpec
  QueueDrains
  RescansRecur
