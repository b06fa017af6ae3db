\* Inline mode: one process, two items of a job in two accounts and one of a dry
\* run, every fault of a send, a scan or a rule, and crashes of the process.
SPECIFICATION RecoveringSpec
CONSTANTS
  j1 = j1  j2 = j2  i1 = i1  i2 = i2  i3 = i3  i4 = i4  w1 = w1  w2 = w2
  Jobs = {j1, j2}
  Msgs = {i1, i3, i4}
  JobOf <- MCJobOf
  ScopeOf <- MCScopeOf
  AccountOf <- MCAccountOf
  DryRunJobs = {j2}
  Workers = {w1, w2}
  ProcOf <- MCOneProc
  PerAccount = 1
  Sqs = FALSE
  MaxReceives = 0
  NoMsg = NoMsg
  NoWorker = NoWorker
  Faults = {"send", "worker_crash", "region", "raise", "rule", "evaluation"}
INVARIANTS Inv LimiterExact RequestAccountedFor OneHandler
PROPERTIES EveryItemAcked
CHECK_DEADLOCK FALSE
