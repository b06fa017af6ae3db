SPECIFICATION Spec
CONSTANTS
  Sessions = {s1, s2}
  Exports <- MCExports
  Canonical <- MCCanonical
  TagKeys = {"app"}
  NotADecimal = NotADecimal
  MaxIngests = 3
  MaxRuns = 2
INVARIANTS
  TypeOK
  ServiceDisplayed
  SoloIngestsReplace
  QuietRunAddsUp
  TaggedCosted
CHECK_DEADLOCK FALSE
