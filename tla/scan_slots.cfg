SPECIFICATION MCSpec
CONSTANTS
  Targets = {1, 2, 3, 4}
  ScanLimit = 1
  RescanLimit = 1
  CreditUnit = 2
  Accrual = 1
  MaxFaults = 0
INVARIANTS
  TypeOK
  InflightBound
  RescansAreAuthorized
PROPERTIES
  NoDueRowMasked
