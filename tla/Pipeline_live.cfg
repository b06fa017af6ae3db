\* SQS mode: two threads of one process that share a cap of one, and every fault
\* but those of the request.
SPECIFICATION FairSpec
CONSTANTS
  j1 = j1  j2 = j2  i1 = i1  i2 = i2  i3 = i3  i4 = i4  w1 = w1  w2 = w2
  Jobs = {j1}
  Msgs = {i1, i2}
  JobOf <- MCJobOf
  ScopeOf <- MCScopeOf
  AccountOf <- MCAccountOf
  DryRunJobs = {}
  Workers = {w1, w2}
  ProcOf <- MCOneProc
  PerAccount = 1
  Sqs = TRUE
  MaxReceives = 2
  NoMsg = NoMsg
  NoWorker = NoWorker
  Faults = {"lookup", "region", "raise", "queue", "reply", "expiry", "evaluation", "rule", "worker_crash"}
PROPERTIES EveryItemSettled UncutJobEvaluated
CHECK_DEADLOCK FALSE
