\* A configuration is edited a bounded number of times and a name is resolved
\* once: behaviours end there.
SPECIFICATION PartsSpec
CONSTANTS
  Reloaders = {r1, r2}
  MaxEdits = 2
  Names <- MCNames
  Published <- MCPublished
  RawNames <- MCRawNames
  Delegations <- MCDelegations
  Answers <- MCAnswers
SYMMETRY ReloaderSymmetry
INVARIANTS
  PartsTypeOK
  OneRuntime
  OrphansOnlyByError
  ReloadsAreClean
  BucketsMatchStandard
  AdditionsOnlySplit
  NoQuietDowngrade
  AdoptedIcannWhole
  NamesAgree
  FollowsSpec
  OrderIsRfc2782
CHECK_DEADLOCK FALSE
