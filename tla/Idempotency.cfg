\* Two requests at a time, four keys of the cache for its two entries.
SPECIFICATION Spec
CONSTANTS
  q1 = q1
  q2 = q2
  k1 = k1
  k2 = k2
  Requests = {q1, q2}
  Scopes = {"collect_aws", "insights_run"}
  HeaderKeys = {k1, k2}
  NoKey = NoKey
  Ttl = 1
  MaxEntries = 2
  MaxTime = 3
  MaxAnswers = 4
SYMMETRY Symmetry
INVARIANTS WithinCap AnswersOwnKey
PROPERTIES RetryReplays
CHECK_DEADLOCK FALSE
