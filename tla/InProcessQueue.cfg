\* A queue with room for three of the four messages, waits of up to two ticks, and
\* consumers that may use a receipt again which they acked.
SPECIFICATION FairSpec
CONSTANTS
  m1 = m1  m2 = m2  m3 = m3  m4 = m4
  Msgs <- MCMsgs
  Batches <- MCBatches
  Consumers = {c1, c2}
  NoConsumer = NoConsumer
  MaxSize = 3
  MaxItems = 2
  Delays = {0, 2}
  AttemptCap = 1
INVARIANTS Accounted WithinCapacity LeaseIntact
PROPERTIES DelayHonoured KeepsContract Delivered
CHECK_DEADLOCK FALSE
