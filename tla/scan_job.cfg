SPECIFICATION MCSpec
CONSTANTS
  Servers <- MCServers
  Budget = 2
  FetchesSupport = TRUE
  MaxScans = 3
INVARIANTS
  TypeOK
  BudgetHeld
  DefiniteIsWitnessed
  CleanScanIsTrue
  RowIsHistory
PROPERTIES
  ScanEnds
CHECK_DEADLOCK FALSE
