SPECIFICATION MCSafety
CONSTANTS
  kept = kept
  edited = edited
  Rules = {kept, edited}
  Editable = {edited}
  Contents <- MCContents
  Vendored <- NoList
  MaxVersion = 2
  MaxEdits = 1
  MaxFaults = 0
INVARIANT StaysCurrent
