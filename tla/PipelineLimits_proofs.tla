----------------------- MODULE PipelineLimits_proofs -----------------------
(***************************************************************************)
(* Further proofs about CollectPipeline, on top of its inductive invariant:*)
(* the limiter's counts, what the answer to a request says, and who        *)
(* handles the items of the in-process queue.                              *)
(***************************************************************************)
EXTENDS CollectPipeline_proofs

\* The steps of a thread that neither take a slot nor give one back.
SlotFree(w) ==
  \/ FindJob(w) \/ DropOrphan(w) \/ DrainRaises(w) \/ Defer(w)
  \/ ScanSucceeds(w) \/ ScanReportsErrors(w) \/ ScanRaises(w)
  \/ AckItem(w) \/ AckRaises(w) \/ NackItem(w) \/ RetryRaises(w) \/ NackRaises(w)
  \/ CheckComplete(w) \/ ClaimEvaluation(w) \/ FinishRules(w)
  \/ EvaluationRaises(w)

-----------------------------------------------------------------------------
(* The limiter.                                                            *)

LEMMA HoldersFinite ==
  ASSUME NEW p, NEW a
  PROVE  IsFiniteSet(SlotHolders(p, a)) /\ Cardinality(SlotHolders(p, a)) \in Nat
<1>1. SlotHolders(p, a) \in SUBSET Workers
  BY DEF SlotHolders
<1>2. QED
  BY <1>1, FinitenessAssumption, FS_Subset, FS_CardinalityType

\* A step that moves threads within the places of SlotStates, or outside of them,
\* leaves every count right.
LEMMA SlotsKept ==
  ASSUME LimiterExact, slots' = slots,
         \A w \in Workers :
           /\ pc'[w] \in SlotStates <=> pc[w] \in SlotStates
           /\ pc[w] \in SlotStates => item'[w] = item[w]
  PROVE  LimiterExact'
<1>1. \A p \in Procs, a \in Accounts : SlotHolders(p, a)' = SlotHolders(p, a)
  BY DEF SlotHolders, ItemAccount
<1>2. QED
  BY <1>1 DEF LimiterExact

\* drain_once takes and gives back its slot in Acquire and Release only.
LEMMA ThreadKeepsSlot ==
  ASSUME TypeOK, NEW v \in Workers, SlotFree(v) \/ \E m \in Msgs : Take(v, m) \/ TakeRaises(v, m)
  PROVE  /\ slots' = slots
         /\ \A w \in Workers :
              /\ pc'[w] \in SlotStates <=> pc[w] \in SlotStates
              /\ pc[w] \in SlotStates => item'[w] = item[w]
<1> USE DEF TypeOK, SlotStates, Step, Goto, GoIdle
<1>1. CASE FindJob(v) \/ DropOrphan(v) \/ DrainRaises(v) \/ Defer(v)
  BY <1>1 DEF FindJob, DropOrphan, DrainRaises, Defer
<1>2. CASE ScanSucceeds(v) \/ ScanReportsErrors(v) \/ ScanRaises(v)
  BY <1>2 DEF ScanSucceeds, ScanReportsErrors, ScanRaises
<1>3. CASE AckItem(v) \/ AckRaises(v) \/ NackItem(v) \/ RetryRaises(v) \/ NackRaises(v)
  BY <1>3 DEF AckItem, AckRaises, NackItem, RetryRaises, NackRaises
<1>4. CASE CheckComplete(v) \/ ClaimEvaluation(v) \/ FinishRules(v) \/ EvaluationRaises(v)
  BY <1>4 DEF CheckComplete, ClaimEvaluation, FinishRules, EvaluationRaises, ChainStates
<1>5. CASE \E m \in Msgs : Take(v, m) \/ TakeRaises(v, m)
  BY <1>5 DEF Take, TakeRaises, workerVars
<1>6. QED
  BY <1>1, <1>2, <1>3, <1>4, <1>5 DEF SlotFree

\* try_acquire: one more thread, one more slot, and below the cap.
LEMMA AcquireExact ==
  ASSUME TypeOK, ItemInHand, LimiterExact, NEW w \in Workers, Acquire(w)
  PROVE  LimiterExact'
<1> DEFINE q == ProcOf[w]  b == ItemAccount(item[w])
<1>1. pc[w] = "acquire" /\ item[w] \in Msgs /\ q \in Procs /\ b \in Accounts
  BY Maps DEF Acquire, ItemInHand
<1>2. /\ slots[q][b] < PerAccount
      /\ pc' = [pc EXCEPT ![w] = "scan"] /\ item' = item
      /\ slots' = [slots EXCEPT ![q][b] = @ + 1]
  BY DEF Acquire, Goto
<1>3. SUFFICES ASSUME NEW p \in Procs, NEW a \in Accounts
               PROVE  /\ slots'[p][a] = Cardinality(SlotHolders(p, a)')
                      /\ slots'[p][a] <= PerAccount
  BY DEF LimiterExact
<1>4. slots[p][a] \in Nat /\ slots[p][a] = Cardinality(SlotHolders(p, a))
                          /\ slots[p][a] <= PerAccount
  BY DEF LimiterExact, TypeOK
<1>5. w \notin SlotHolders(p, a)
  BY <1>1 DEF SlotHolders, SlotStates
<1>6. CASE p = q /\ a = b
  <2>1. SlotHolders(p, a)' = SlotHolders(p, a) \cup {w}
    BY <1>2, <1>6 DEF SlotHolders, SlotStates, ItemAccount, TypeOK
  <2>2. Cardinality(SlotHolders(p, a)') = Cardinality(SlotHolders(p, a)) + 1
    BY <2>1, <1>5, HoldersFinite, FS_AddElement
  <2>3. slots'[p][a] = slots[p][a] + 1
    BY <1>1, <1>2, <1>6 DEF TypeOK
  <2>4. QED
    BY <1>2, <1>4, <1>6, <2>2, <2>3, PerAccountAssumption
<1>7. CASE ~ (p = q /\ a = b)
  <2>1. SlotHolders(p, a)' = SlotHolders(p, a)
    BY <1>1, <1>2, <1>7 DEF SlotHolders, SlotStates, ItemAccount, TypeOK
  <2>2. slots'[p][a] = slots[p][a]
    BY <1>1, <1>2, <1>7 DEF TypeOK
  <2>3. QED
    BY <1>4, <2>1, <2>2
<1>8. QED
  BY <1>6, <1>7

\* release: the count is at least one, so the branch that clears it counts as well.
LEMMA ReleaseExact ==
  ASSUME TypeOK, ItemInHand, LimiterExact, NEW w \in Workers, Release(w)
  PROVE  LimiterExact'
<1> DEFINE q == ProcOf[w]  b == ItemAccount(item[w])
<1>1. pc[w] = "release" /\ item[w] \in Msgs /\ q \in Procs /\ b \in Accounts
  BY Maps DEF Release, ItemInHand
<1>2. /\ pc' = [pc EXCEPT ![w] = "idle"] /\ item' = [item EXCEPT ![w] = NoMsg]
      /\ slots' = [slots EXCEPT ![q][b] = IF @ <= 1 THEN 0 ELSE @ - 1]
  BY DEF Release, Goto, GoIdle
<1>3. SUFFICES ASSUME NEW p \in Procs, NEW a \in Accounts
               PROVE  /\ slots'[p][a] = Cardinality(SlotHolders(p, a)')
                      /\ slots'[p][a] <= PerAccount
  BY DEF LimiterExact
<1>4. slots[p][a] \in Nat /\ slots[p][a] = Cardinality(SlotHolders(p, a))
                          /\ slots[p][a] <= PerAccount
  BY DEF LimiterExact, TypeOK
<1>5. CASE p = q /\ a = b
  <2>1. w \in SlotHolders(p, a)
    BY <1>1, <1>5 DEF SlotHolders, SlotStates
  <2>2. SlotHolders(p, a)' = SlotHolders(p, a) \ {w}
    BY <1>2 DEF SlotHolders, SlotStates, ItemAccount, TypeOK
  <2>3. Cardinality(SlotHolders(p, a)') = Cardinality(SlotHolders(p, a)) - 1
    BY <2>1, <2>2, HoldersFinite, FS_RemoveElement
  <2>4. slots[p][a] # 0
    BY <2>1, <1>4, HoldersFinite, FS_EmptySet
  <2>5. slots'[p][a] = IF slots[p][a] <= 1 THEN 0 ELSE slots[p][a] - 1
    BY <1>1, <1>2, <1>5 DEF TypeOK
  <2>6. QED
    BY <1>4, <2>3, <2>4, <2>5, PerAccountAssumption
<1>6. CASE ~ (p = q /\ a = b)
  <2>1. SlotHolders(p, a)' = SlotHolders(p, a)
    BY <1>1, <1>2, <1>6 DEF SlotHolders, SlotStates, ItemAccount, TypeOK
  <2>2. slots'[p][a] = slots[p][a]
    BY <1>1, <1>2, <1>6 DEF TypeOK
  <2>3. QED
    BY <1>4, <2>1, <2>2
<1>7. QED
  BY <1>5, <1>6

\* A process dies with its threads and its counts; the others keep theirs.
LEMMA CrashExact ==
  ASSUME TypeOK, LimiterExact, NEW q \in Procs, Crash(q)
  PROVE  LimiterExact'
<1>1. SUFFICES ASSUME NEW p \in Procs, NEW a \in Accounts
               PROVE  /\ slots'[p][a] = Cardinality(SlotHolders(p, a)')
                      /\ slots'[p][a] <= PerAccount
  BY DEF LimiterExact
<1>2. CASE p = q
  <2>1. SlotHolders(p, a)' = {}
    BY <1>2 DEF Crash, SlotHolders, SlotStates
  <2>2. slots'[p][a] = 0
    BY <1>2 DEF Crash, TypeOK
  <2>3. QED
    BY <2>1, <2>2, FS_EmptySet, PerAccountAssumption
<1>3. CASE p # q
  <2>1. SlotHolders(p, a)' = SlotHolders(p, a)
    BY <1>3 DEF Crash, SlotHolders, SlotStates, ItemAccount, TypeOK
  <2>2. slots'[p][a] = slots[p][a]
    BY <1>3 DEF Crash, TypeOK
  <2>3. QED
    BY <2>1, <2>2 DEF LimiterExact
<1>4. QED
  BY <1>2, <1>3

LEMMA StepLimiter ==
  ASSUME TypeOK, ItemInHand, LimiterExact, [Next]_vars
  PROVE  LimiterExact'
<1>1. ASSUME NEW w \in Workers, ThreadStep(w) \/ \E m \in Msgs : Take(w, m) \/ TakeRaises(w, m)
      PROVE  LimiterExact'
  <2>1. Acquire(w) \/ Release(w) \/ SlotFree(w) \/ \E m \in Msgs : Take(w, m) \/ TakeRaises(w, m)
    BY <1>1 DEF ThreadStep, SlotFree
  <2>2. QED
    BY <2>1, AcquireExact, ReleaseExact, ThreadKeepsSlot, SlotsKept
<1>2. ASSUME NEW p \in Procs, Crash(p)  PROVE LimiterExact'
  BY <1>2, CrashExact
<1>3. ASSUME UNCHANGED workerVars  PROVE LimiterExact'
  BY <1>3, SlotsKept DEF workerVars
<1>4. ASSUME NEW j \in Jobs, RequestStep(j) \/ Purge(j)  PROVE LimiterExact'
  BY <1>3, <1>4 DEF RequestStep, CommitJob, SendItems, SendBreaks, MarkEnqueueFailed, Purge
<1>5. CASE ApiCrash \/ \E m \in Msgs : Expire(m) \/ Redrive(m)
  BY <1>3, <1>5 DEF ApiCrash, Expire, Redrive
<1>6. CASE UNCHANGED vars
  BY <1>3, <1>6 DEF vars
<1>7. QED
  BY <1>1, <1>2, <1>4, <1>5, <1>6 DEF Next

\* PerAccountLimiter counts the threads between try_acquire and release, on every path
\* of drain_once and for any cap, so that the cap holds and no slot leaks
\* (worker.py:123-139, 309-343).
THEOREM LimiterCounts == Spec => []LimiterExact
<1>1. Init => LimiterExact
  <2> SUFFICES ASSUME Init, NEW p \in Procs, NEW a \in Accounts
               PROVE  /\ slots[p][a] = Cardinality(SlotHolders(p, a))
                      /\ slots[p][a] <= PerAccount
    BY DEF LimiterExact
  <2>1. SlotHolders(p, a) = {}
    BY DEF Init, SlotHolders, SlotStates
  <2>2. slots[p][a] = 0
    BY DEF Init
  <2>3. QED
    BY <2>1, <2>2, FS_EmptySet, PerAccountAssumption
<1>2. Inv /\ LimiterExact /\ [Next]_vars => LimiterExact'
  BY StepLimiter DEF Inv
<1>3. QED
  BY <1>1, <1>2, Invariant, PTL DEF Spec

-----------------------------------------------------------------------------
(* The answer to a request.                                                *)

\* What was accepted by the queue is not unsent again.
LEMMA SentStays ==
  ASSUME Queue!QueueTypeOK, NEW m \in Msgs, place[m] # "unsent",
         \/ \E S \in SUBSET Msgs : Queue!Send(S)
         \/ \E w \in Workers, S \in SUBSET Msgs : Queue!Receive(w, S)
         \/ \E w \in Workers, n \in Msgs : Queue!Ack(w, n) \/ Queue!Nack(w, n)
         \/ \E n \in Msgs : Queue!Expire(n) \/ Queue!Redrive(n)
         \/ Queue!Lose
         \/ UNCHANGED queueVars
  PROVE  place'[m] # "unsent"
BY DEF Queue!QueueTypeOK, Queue!Send, Queue!Receive, Queue!Receivable, Queue!Ack,
       Queue!Nack, Queue!Expire, Queue!Redrive, Queue!Lose, queueVars

\* Every step makes one call of the queue, or none.
LEMMA QueueCalls ==
  ASSUME TypeOK, ItemInHand, [Next]_vars
  PROVE  \/ \E S \in SUBSET Msgs : Queue!Send(S)
         \/ \E w \in Workers, S \in SUBSET Msgs : Queue!Receive(w, S)
         \/ \E w \in Workers, n \in Msgs : Queue!Ack(w, n) \/ Queue!Nack(w, n)
         \/ \E n \in Msgs : Queue!Expire(n) \/ Queue!Redrive(n)
         \/ Queue!Lose
         \/ UNCHANGED queueVars
<1> DEFINE Call ==
         \/ \E S \in SUBSET Msgs : Queue!Send(S)
         \/ \E w \in Workers, S \in SUBSET Msgs : Queue!Receive(w, S)
         \/ \E w \in Workers, n \in Msgs : Queue!Ack(w, n) \/ Queue!Nack(w, n)
         \/ \E n \in Msgs : Queue!Expire(n) \/ Queue!Redrive(n)
         \/ Queue!Lose
         \/ UNCHANGED queueVars
<1>1. ASSUME NEW j \in Jobs, RequestStep(j) \/ Purge(j)  PROVE Call
  BY <1>1 DEF RequestStep, CommitJob, SendItems, SendBreaks, MarkEnqueueFailed, Purge, ItemsOf
<1>2. ASSUME NEW w \in Workers, ThreadStep(w)  PROVE Call
  <2>1. ~ UNCHANGED queueVars =>
          \/ Queue!Ack(w, item[w]) /\ pc[w] # "idle"
          \/ Queue!Nack(w, item[w]) /\ pc[w] # "idle"
    BY <1>2 DEF ThreadStep, FindJob, DropOrphan, DrainRaises, Acquire, Defer,
       ScanSucceeds, ScanReportsErrors, ScanRaises, AckItem, AckRaises, NackItem,
       RetryRaises, NackRaises, CheckComplete, ClaimEvaluation, FinishRules, EvaluationRaises,
       Release, Step
  <2>2. pc[w] # "idle" => item[w] \in Msgs
    BY DEF ItemInHand
  <2>3. QED
    BY <2>1, <2>2
<1>3. ASSUME NEW w \in Workers, NEW m \in Msgs, Take(w, m) \/ TakeRaises(w, m)
      PROVE  Call
  BY <1>3 DEF Take, TakeRaises
<1>4. ASSUME NEW p \in Procs, Crash(p)  PROVE Call
  BY <1>4 DEF Crash
<1>5. CASE ApiCrash \/ \E m \in Msgs : Expire(m) \/ Redrive(m)
  BY <1>5 DEF ApiCrash, Expire, Redrive
<1>6. CASE UNCHANGED vars
  BY <1>6 DEF vars
<1>7. QED
  BY <1>1, <1>2, <1>3, <1>4, <1>5, <1>6 DEF Next

\* Whoever makes a request accepted has sent its items.
LEMMA StepAccepted ==
  ASSUME TypeOK, ItemInHand, [Next]_vars,
         \A j \in Jobs : request[j] = "accepted" => \A m \in ItemsOf(j) : place[m] # "unsent"
  PROVE  \A j \in Jobs : request'[j] = "accepted" => \A m \in ItemsOf(j) : place'[m] # "unsent"
<1> SUFFICES ASSUME NEW j \in Jobs, request'[j] = "accepted", NEW m \in ItemsOf(j)
             PROVE  place'[m] # "unsent"
  OBVIOUS
<1>1. CASE request[j] = "accepted"
  BY <1>1, QueueCalls, SentStays DEF TypeOK, ItemsOf
<1>2. CASE request[j] # "accepted"
  <2>1. ASSUME request' = request \/ RequestsDie  PROVE FALSE
    BY <1>2, <2>1 DEF RequestsDie
  <2>2. ASSUME NEW k \in Jobs, RequestStep(k) \/ Purge(k)
        PROVE  SendItems(j)
    BY <1>2, <2>2 DEF RequestStep, CommitJob, SendItems, SendBreaks, MarkEnqueueFailed,
       Purge, TypeOK
  <2>3. ASSUME NEW w \in Workers, ThreadStep(w) \/ \E n \in Msgs : Take(w, n) \/ TakeRaises(w, n)
        PROVE  FALSE
    BY <2>1, <2>3 DEF ThreadStep, FindJob, DropOrphan, DrainRaises, Acquire, Defer,
       ScanSucceeds, ScanReportsErrors, ScanRaises, AckItem, AckRaises, NackItem,
       RetryRaises, NackRaises, CheckComplete, ClaimEvaluation, FinishRules, EvaluationRaises,
       Release, Take, TakeRaises, jobVars, rowVars
  <2>4. ASSUME ApiCrash \/ \E p \in Procs : Crash(p)  PROVE FALSE
    BY <2>1, <2>4 DEF ApiCrash, Crash
  <2>5. ASSUME (\E n \in Msgs : Expire(n) \/ Redrive(n)) \/ UNCHANGED vars  PROVE FALSE
    BY <2>1, <2>5 DEF Expire, Redrive, jobVars, rowVars, vars
  <2>6. SendItems(j)
    BY <2>2, <2>3, <2>4, <2>5 DEF Next
  <2>7. QED
    BY <2>6 DEF SendItems, Queue!Send, ItemsOf
<1>3. QED
  BY <1>1, <1>2

\* enqueue_error is written with the refusal, and a refused request is at its end.
LEMMA StepRefused ==
  ASSUME TypeOK, [Next]_vars, \A j \in Jobs : request[j] = "refused" <=> j \in enqueueError
  PROVE  \A j \in Jobs : request'[j] = "refused" <=> j \in enqueueError'
<1>1. ASSUME NEW j \in Jobs, RequestStep(j) \/ Purge(j)
      PROVE  \A k \in Jobs : request'[k] = "refused" <=> k \in enqueueError'
  BY <1>1 DEF RequestStep, CommitJob, SendItems, SendBreaks, MarkEnqueueFailed, Purge, TypeOK
<1>2. ASSUME enqueueError' = enqueueError, request' = request \/ RequestsDie
      PROVE  \A k \in Jobs : request'[k] = "refused" <=> k \in enqueueError'
  BY <1>2 DEF RequestsDie
<1>3. CASE ApiCrash \/ \E p \in Procs : Crash(p)
  BY <1>2, <1>3 DEF ApiCrash, Crash
<1>4. CASE \E w \in Workers : ThreadStep(w) \/ \E m \in Msgs : Take(w, m) \/ TakeRaises(w, m)
  BY <1>2, <1>4 DEF ThreadStep, FindJob, DropOrphan, DrainRaises, Acquire, Defer,
     ScanSucceeds, ScanReportsErrors, ScanRaises, AckItem, AckRaises, NackItem,
     RetryRaises, NackRaises, CheckComplete, ClaimEvaluation, FinishRules, EvaluationRaises,
     Release, Take, TakeRaises, jobVars, rowVars, CommitRuns
<1>5. CASE (\E m \in Msgs : Expire(m) \/ Redrive(m)) \/ UNCHANGED vars
  BY <1>2, <1>5 DEF Expire, Redrive, jobVars, rowVars, vars
<1>6. QED
  BY <1>1, <1>3, <1>4, <1>5 DEF Next

\* A 202 is given when every item was sent, a 503 leaves its mark on the row, and the
\* mark has a row (routers/aws.py:266-274), whatever the faults.
THEOREM AnswersTrue == Spec => []RequestAccountedFor
<1> DEFINE Accepted ==
      \A j \in Jobs : request[j] = "accepted" => \A m \in ItemsOf(j) : place[m] # "unsent"
<1> DEFINE Refused == \A j \in Jobs : request[j] = "refused" <=> j \in enqueueError
<1>1. Init => Accepted /\ Refused
  BY DEF Init
<1>2. Inv /\ Accepted /\ Refused /\ [Next]_vars => (Accepted /\ Refused)'
  <2> SUFFICES ASSUME Inv, Accepted, Refused, [Next]_vars  PROVE Accepted' /\ Refused'
    OBVIOUS
  <2>1. Accepted'
    BY StepAccepted DEF Inv, ItemsOf
  <2>2. Refused'
    BY StepRefused DEF Inv
  <2>3. QED
    BY <2>1, <2>2
<1>3. Inv /\ Accepted /\ Refused => RequestAccountedFor
  BY DEF Inv, RowBeforeSend, RequestAccountedFor
<1> HIDE DEF Accepted, Refused
<1>4. QED
  BY <1>1, <1>2, <1>3, Invariant, PTL DEF Spec
-----------------------------------------------------------------------------
(* The items of the in-memory queue.                                       *)

\* A step that leaves the leases alone and moves no thread into HolderStates.
LEMMA HandlersKept ==
  ASSUME OneHandler, place' = place, holder' = holder,
         \A w \in Workers : pc'[w] \in HolderStates =>
           pc[w] \in HolderStates /\ item'[w] = item[w]
  PROVE  OneHandler'
BY DEF OneHandler

\* A thread that settles the item it holds ends its own lease, and nobody else's.
LEMMA HandlerSettles ==
  ASSUME ~ Sqs, TypeOK, ItemInHand, OneHandler, NEW w \in Workers,
         pc[w] \in HolderStates, Queue!Ack(w, item[w]) \/ Queue!Nack(w, item[w]),
         pc'[w] \notin HolderStates,
         \A v \in Workers : v # w => pc'[v] = pc[v] /\ item'[v] = item[v]
  PROVE  OneHandler'
<1>1. place[item[w]] = "leased" /\ holder[item[w]] = w
  BY DEF OneHandler
<1>2. holder' = holder /\ \E to \in Queue!Places : place' = [place EXCEPT ![item[w]] = to]
  BY <1>1 DEF Queue!Ack, Queue!Nack, Queue!Places
<1> SUFFICES ASSUME NEW v \in Workers, pc'[v] \in HolderStates
             PROVE  place'[item'[v]] = "leased" /\ holder'[item'[v]] = v
  BY DEF OneHandler
<1>4. v # w /\ pc[v] \in HolderStates /\ item'[v] = item[v]
  OBVIOUS
<1>5. place[item[v]] = "leased" /\ holder[item[v]] = v
  BY <1>4 DEF OneHandler
<1>6. item[v] # item[w] /\ item[v] \in Msgs
  BY <1>1, <1>4, <1>5 DEF ItemInHand, HolderStates
<1>7. QED
  BY <1>2, <1>4, <1>5, <1>6 DEF TypeOK, Queue!QueueTypeOK

\* A thread that receives an item holds its lease; no thread was at work on it.
LEMMA HandlerTakes ==
  ASSUME ~ Sqs, TypeOK, ItemInHand, OneHandler, NEW w \in Workers, NEW n \in Msgs, Take(w, n)
  PROVE  OneHandler'
<1>1. /\ place[n] = "waiting"
      /\ pc' = [pc EXCEPT ![w] = "lookup"] /\ item' = [item EXCEPT ![w] = n]
      /\ place' = [m \in Msgs |-> IF m = n THEN "leased" ELSE place[m]]
      /\ holder' = [m \in Msgs |-> IF m = n THEN w ELSE holder[m]]
  BY DEF Take, Goto, Queue!Receive, Queue!Receivable
<1> SUFFICES ASSUME NEW v \in Workers, pc'[v] \in HolderStates
             PROVE  place'[item'[v]] = "leased" /\ holder'[item'[v]] = v
  BY DEF OneHandler
<1>3. CASE v = w
  BY <1>1, <1>3 DEF TypeOK
<1>4. CASE v # w
  <2>1. pc[v] \in HolderStates /\ item'[v] = item[v]
    BY <1>1, <1>4 DEF TypeOK
  <2>2. place[item[v]] = "leased" /\ holder[item[v]] = v
    BY <2>1 DEF OneHandler
  <2>3. item[v] # n /\ item[v] \in Msgs
    BY <1>1, <2>1, <2>2 DEF ItemInHand, HolderStates
  <2>4. QED
    BY <1>1, <2>1, <2>2, <2>3
<1>5. QED
  BY <1>3, <1>4

LEMMA StepHandler ==
  ASSUME ~ Sqs, TypeOK, ItemInHand, OneHandler, [Next]_vars
  PROVE  OneHandler'
<1>1. ASSUME NEW w \in Workers, ThreadStep(w)  PROVE OneHandler'
  <2> USE DEF Step, Goto, GoIdle
  <2>1. \A v \in Workers : v # w => pc'[v] = pc[v] /\ item'[v] = item[v]
    BY <1>1, ThreadAtWork
  <2>2. CASE DropOrphan(w) \/ Defer(w) \/ AckItem(w) \/ NackItem(w)
    BY <2>1, <2>2, HandlerSettles
    DEF DropOrphan, Defer, AckItem, NackItem, HolderStates, TypeOK
  <2>3. CASE FindJob(w) \/ DrainRaises(w) \/ Acquire(w) \/ Release(w)
    BY <2>3, HandlersKept
    DEF FindJob, DrainRaises, Acquire, Release, HolderStates, TypeOK, queueVars
  <2>4. CASE ScanSucceeds(w) \/ ScanReportsErrors(w) \/ ScanRaises(w)
    BY <2>4, HandlersKept
    DEF ScanSucceeds, ScanReportsErrors, ScanRaises, HolderStates, TypeOK, queueVars
  <2>5. CASE CheckComplete(w) \/ ClaimEvaluation(w) \/ FinishRules(w) \/ EvaluationRaises(w)
    BY <2>5, HandlersKept DEF CheckComplete, ClaimEvaluation, FinishRules,
       EvaluationRaises, HolderStates, ChainStates, TypeOK, queueVars
  <2>6. ~ (AckRaises(w) \/ RetryRaises(w) \/ NackRaises(w))
    BY DEF AckRaises, RetryRaises, NackRaises
  <2>7. QED
    BY <1>1, <2>2, <2>3, <2>4, <2>5, <2>6 DEF ThreadStep
<1>2. ASSUME NEW w \in Workers, NEW m \in Msgs, Take(w, m) \/ TakeRaises(w, m)
      PROVE  OneHandler'
  BY <1>2, HandlerTakes DEF TakeRaises
<1>3. ASSUME NEW p \in Procs, Crash(p)  PROVE OneHandler'
  BY <1>3, InlineAssumption DEF Crash, Procs, OneHandler, HolderStates
<1>4. ASSUME NEW j \in Jobs, RequestStep(j) \/ Purge(j)  PROVE OneHandler'
  <2>1. pc' = pc /\ item' = item
    BY <1>4 DEF RequestStep, CommitJob, SendItems, SendBreaks, MarkEnqueueFailed, Purge, workerVars
  <2>2. \/ UNCHANGED queueVars
        \/ \E S \in SUBSET Msgs : Queue!Send(S)
    BY <1>4 DEF RequestStep, CommitJob, SendItems, SendBreaks, MarkEnqueueFailed, Purge, ItemsOf
  <2>3. \A m \in Msgs : holder'[m] = holder[m] /\ (place[m] = "leased" => place'[m] = "leased")
    BY <2>2 DEF Queue!Send, queueVars
  <2>4. QED
    BY <2>1, <2>3 DEF OneHandler, ItemInHand, HolderStates
<1>5. CASE \E m \in Msgs : Expire(m) \/ Redrive(m)
  <2>1. PICK n \in Msgs : Redrive(n)
    BY <1>5 DEF Expire, Queue!Expire
  <2>2. /\ place[n] = "waiting" /\ place' = [place EXCEPT ![n] = "parked"]
        /\ holder' = holder /\ pc' = pc /\ item' = item
    BY <2>1 DEF Redrive, Queue!Redrive, workerVars
  <2>3. \A m \in Msgs : place[m] = "leased" => place'[m] = "leased"
    BY <2>2 DEF TypeOK, Queue!QueueTypeOK
  <2>4. QED
    BY <2>2, <2>3 DEF OneHandler, ItemInHand, HolderStates
<1>6. CASE ApiCrash \/ UNCHANGED vars
  BY <1>6, HandlersKept DEF ApiCrash, vars, workerVars, queueVars
<1>7. QED
  BY <1>1, <1>2, <1>3, <1>4, <1>5, <1>6 DEF Next

\* In inline mode a thread that has yet to settle its item holds the lease, whatever
\* raises, is deferred or dies, a database error in _job_exists included: drain_once
\* never settles an item twice, and no thread's settlement ends another's lease
\* (worker.py:297-341).
THEOREM HandlersAlone == Spec => []OneHandler
<1>1. Init => OneHandler
  BY DEF Init, OneHandler, HolderStates
<1>2. Inv /\ OneHandler /\ [Next]_vars => OneHandler'
  BY StepHandler DEF Inv, OneHandler
<1>3. QED
  BY <1>1, <1>2, Invariant, PTL DEF Spec
=============================================================================
