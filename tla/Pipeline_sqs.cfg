\* SQS mode: a process per thread, two items of one account, and every fault but
\* a rule that raises.
SPECIFICATION Spec
CONSTANTS
  j1 = j1  j2 = j2  i1 = i1  i2 = i2  i3 = i3  i4 = i4  w1 = w1  w2 = w2
  Jobs = {j1}
  Msgs = {i1, i2}
  JobOf <- MCJobOf
  ScopeOf <- MCScopeOf
  AccountOf <- MCAccountOf
  DryRunJobs = {}
  Workers = {w1, w2}
  ProcOf <- MCTwoProcs
  PerAccount = 1
  Sqs = TRUE
  MaxReceives = 2
  NoMsg = NoMsg
  NoWorker = NoWorker
  Faults = {"send", "api_crash", "worker_crash", "lookup", "region", "raise", "queue", "reply",
            "expiry", "evaluation", "purge"}
INVARIANTS EvaluationHasProof OneEvaluator LimiterExact
  AckedMeansScanned NoOrphan
CHECK_DEADLOCK FALSE
