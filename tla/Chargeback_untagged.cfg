SPECIFICATION Spec
CONSTANTS
  Sessions = {s1, s2}
  Exports <- MCExports
  Canonical <- MCCanonical
  TagKeys = {"app"}
  NotADecimal = NotADecimal
  MaxIngests = 3
  MaxRuns = 1
INVARIANT UntaggedCosted
CHECK_DEADLOCK FALSE
