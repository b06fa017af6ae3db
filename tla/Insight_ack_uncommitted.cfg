\* One run at a time; the PATCH as it is, without a commit.
SPECIFICATION Spec
CONSTANTS
  Resources = {"r1"}
  Titles = {"t1"}
  Doubt = "doubt"
  NoGap = "no_gap"
  Absent = "absent"
  Decisions = {"dismissed"}
  NoAck = "null"
  Sessions = {s1}
  RunIds = {1, 2}
  SharedSession = FALSE
  Faults = {}
INVARIANTS AckStands
CHECK_DEADLOCK FALSE
