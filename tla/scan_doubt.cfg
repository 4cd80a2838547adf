SPECIFICATION MCSafety
CONSTANTS
  Servers <- MCServers
  Budget = 2
  FetchesSupport = TRUE
  MaxScans = 1
INVARIANT LiveFlowOverrides
CHECK_DEADLOCK FALSE
