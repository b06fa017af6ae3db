\* Two sessions, three transactions, scopes taken in either order, a breaker that opens
\* at the first region in error.
SPECIFICATION FairSpec
CONSTANTS
  Sessions = {w1, w2}
  Resources = {"vol"}
  Regions = {"eu", "us"}
  Types = {"volume", "snapshot"}
  ScopeOf <- MCScopeOf
  Targets <- MCTargets
  MaxErrors = 1
  MaxScans = 3
  Faults = {"region", "die"}
INVARIANTS RetiredHasProof ScanInv
PROPERTIES CleanReportMeansScanned EveryScanEnds
CHECK_DEADLOCK FALSE
