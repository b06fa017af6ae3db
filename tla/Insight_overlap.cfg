\* Two sessions that run the rule at will; four run ids leave room for two rows of
\* earlier runs, so that two sessions may wait for each other.
SPECIFICATION FairSpec
CONSTANTS
  Resources = {"r1"}
  Titles = {"t1"}
  Doubt = "doubt"
  NoGap = "no_gap"
  Absent = "absent"
  Decisions = {}
  NoAck = "null"
  Sessions = {s1, s2}
  RunIds = {1, 2, 3, 4}
  SharedSession = FALSE
  Faults = {}
PROPERTIES LoneRunReplaces EveryRunEnds
CHECK_DEADLOCK FALSE
