SPECIFICATION MCSpec
CONSTANTS
  kept = kept
  edited = edited
  Rules = {kept, edited}
  Editable = {edited}
  Contents <- MCContents
  Vendored <- NoList
  MaxVersion = 2
  MaxEdits = 2
  MaxFaults = 2
INVARIANTS
  TypeOK
  WritesAreSafe
  FloorHaltExact
  StaleOnlyByRace
  HaltIsChased
PROPERTIES
  ResyncEnds
  FloorHeals
