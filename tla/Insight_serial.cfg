\* One run at a time over scans, doubts, exceptions, rollbacks and the PATCH.
SPECIFICATION Spec
CONSTANTS
  Resources = {r1, r2}
  Titles = {"t1", "t2"}
  Doubt = "doubt"
  NoGap = "no_gap"
  Absent = "absent"
  Decisions = {"dismissed"}
  NoAck = "null"
  Sessions = {s1}
  RunIds = {1, 2}
  SharedSession = FALSE
  Faults = {"doubt", "raise", "fail"}
SYMMETRY Symmetry
INVARIANTS TypeOK OneRowPerResource LedgerTrue
CHECK_DEADLOCK FALSE
