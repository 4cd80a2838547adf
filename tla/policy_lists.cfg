SPECIFICATION FairSpec
CONSTANTS
  a1 = a1
  a2 = a2
  b1 = b1
  A = A
  B = B
  G = G
  Targets = {a1, a2}
  Domains = {A, B}
  Globs = {G}
  DomainOf <- MCDomainOf
  Covers <- MCCovers
  Bucket <- MCBucket
  Statuses <- MCStatuses
  Stale = "unknown"
  Decision <- MCDecision
  Cap = 1
  MaxRetries = 1
  Editable = {G, B}
  MaxLag = 2
  MaxEdits = 2
  MaxFaults = 1
INVARIANTS
  TypeOK
  LockDiscipline
  FoldIsRecoverable
PROPERTIES
  JustifiedWrites
  DangerousEndsBanned
  ClearEndsLifted
