----------------------- MODULE CollectPipeline_proofs -----------------------
(***************************************************************************)
(* Proofs of the safety of CollectPipeline for every set of jobs, items,   *)
(* workers and processes, both queues and every choice of faults.          *)
(***************************************************************************)
EXTENDS CollectPipeline, FiniteSetTheorems, TLAPS

\* A requested job's items map onto its scopes, so there are no more scopes than
\* items (create_and_enqueue_collect_job enqueues one item per target x region).
LEMMA ScopesNoMoreThanItems ==
  ASSUME NEW j \in Jobs
  PROVE  /\ IsFiniteSet(ScopesOf(j))
         /\ IsFiniteSet(ItemsOf(j))
         /\ Cardinality(ScopesOf(j)) <= Cardinality(ItemsOf(j))
<1> DEFINE f == [m \in ItemsOf(j) |-> ScopeOf[m]]
<1>1. IsFiniteSet(ItemsOf(j))
  BY FS_Subset, FinitenessAssumption DEF ItemsOf
<1>2. f \in Surjection(ItemsOf(j), ScopesOf(j))
  BY DEF Surjection, ScopesOf
<1>3. QED
  BY <1>1, <1>2, FS_Surjection

\* is_job_complete counts: when there are as many scopes with a run as there are
\* items, every scope has a run.
LEMMA CompleteMeansProven ==
  ASSUME NEW j \in Jobs, Complete(j)
  PROVE  Proven(j) = ScopesOf(j)
<1>1. Proven(j) \in SUBSET ScopesOf(j)
  BY DEF Proven
<1>2. /\ Cardinality(Proven(j)) \in Nat
      /\ Cardinality(ScopesOf(j)) \in Nat
      /\ Cardinality(ItemsOf(j)) \in Nat
  BY <1>1, ScopesNoMoreThanItems, FS_Subset, FS_CardinalityType
<1>3. Cardinality(Proven(j)) = Cardinality(ScopesOf(j))
  BY <1>1, <1>2, ScopesNoMoreThanItems, FS_Subset DEF Complete
<1>4. QED
  BY <1>1, <1>3, ScopesNoMoreThanItems, FS_Subset

-----------------------------------------------------------------------------
(* Type correctness.                                                       *)

\* The maps of an item stay within jobs, scopes, accounts and processes.
LEMMA Maps ==
  /\ \A m \in Msgs : /\ JobOf[m] \in Jobs
                     /\ ScopeOf[m] \in Scopes
                     /\ ItemAccount(m) \in Accounts
  /\ \A w \in Workers : ProcOf[w] \in Procs
BY MapsAssumption DEF Scopes, Accounts, Procs, ItemAccount

\* The queue's own part of the type invariant, for the calls the threads make.
LEMMA QueueTypes ==
  ASSUME Queue!QueueTypeOK,
         \/ \E S \in SUBSET Msgs : Queue!Send(S)
         \/ \E w \in Workers, S \in SUBSET Msgs : Queue!Receive(w, S)
         \/ \E w \in Workers, m \in Msgs : Queue!Ack(w, m) \/ Queue!Nack(w, m)
         \/ \E m \in Msgs : Queue!Expire(m) \/ Queue!Redrive(m)
         \/ Queue!Lose
         \/ UNCHANGED queueVars
  PROVE  Queue!QueueTypeOK'
<1> USE DEF Queue!QueueTypeOK, Queue!Places
<1>1. CASE \E S \in SUBSET Msgs : Queue!Send(S)
  BY <1>1 DEF Queue!Send
<1>2. CASE \E w \in Workers, S \in SUBSET Msgs : Queue!Receive(w, S)
  BY <1>2, MaxReceivesAssumption DEF Queue!Receive, Queue!CountDelivery
<1>3. CASE \E w \in Workers, m \in Msgs : Queue!Ack(w, m) \/ Queue!Nack(w, m)
  BY <1>3 DEF Queue!Ack, Queue!Nack
<1>4. CASE \E m \in Msgs : Queue!Expire(m) \/ Queue!Redrive(m)
  BY <1>4 DEF Queue!Expire, Queue!Redrive
<1>5. CASE Queue!Lose
  BY <1>5 DEF Queue!Lose
<1>6. CASE UNCHANGED queueVars
  BY <1>6 DEF queueVars
<1>7. QED
  BY <1>1, <1>2, <1>3, <1>4, <1>5, <1>6

\* A thread at work moves itself only, and lets go of its item when it gets idle.
LEMMA ThreadAtWork ==
  ASSUME TypeOK, NEW v \in Workers, ThreadStep(v)
  PROVE  /\ pc[v] # "idle"
         /\ \A w \in Workers : w # v => pc'[w] = pc[w] /\ item'[w] = item[w]
         /\ pc'[v] # "idle" => item'[v] = item[v]
<1> USE DEF TypeOK, Step, Goto, GoIdle
<1>1. CASE FindJob(v) \/ DropOrphan(v) \/ DrainRaises(v) \/ Acquire(v) \/ Defer(v)
  BY <1>1 DEF FindJob, DropOrphan, DrainRaises, Acquire, Defer
<1>2. CASE ScanSucceeds(v) \/ ScanReportsErrors(v) \/ ScanRaises(v) \/ AckItem(v) \/ AckRaises(v)
  BY <1>2 DEF ScanSucceeds, ScanReportsErrors, ScanRaises, AckItem, AckRaises
<1>3. CASE NackItem(v) \/ RetryRaises(v) \/ NackRaises(v)
  BY <1>3 DEF NackItem, RetryRaises, NackRaises
<1>4. CASE CheckComplete(v) \/ ClaimEvaluation(v) \/ FinishRules(v) \/ EvaluationRaises(v)
             \/ Release(v)
  BY <1>4 DEF CheckComplete, ClaimEvaluation, FinishRules, EvaluationRaises, ChainStates, Release
<1>5. QED
  BY <1>1, <1>2, <1>3, <1>4 DEF ThreadStep

\* No step leaves the types, given that a thread at work holds an item.
LEMMA StepTypeOK ==
  ASSUME TypeOK, ItemInHand, [Next]_vars
  PROVE  TypeOK'
<1> USE Maps DEF TypeOK, ItemInHand, JobAt
<1> USE DEF RowStates, RequestStates, EvaluationStates, RunStates, PcStates
<1>1. ASSUME NEW j \in Jobs, CommitJob(j)  PROVE TypeOK'
  BY <1>1, QueueTypes DEF CommitJob, workerVars
<1>2. ASSUME NEW j \in Jobs, SendItems(j)  PROVE TypeOK'
  <2>1. Queue!QueueTypeOK'
    BY <1>2, QueueTypes DEF SendItems, ItemsOf
  <2>2. QED
    BY <1>2, <2>1 DEF SendItems, workerVars
<1>3. ASSUME NEW j \in Jobs, SendBreaks(j)  PROVE TypeOK'
  <2>1. \E S \in SUBSET Msgs : Queue!Send(S)
    BY <1>3 DEF SendBreaks, ItemsOf
  <2>2. Queue!QueueTypeOK'
    BY <2>1, QueueTypes
  <2>3. QED
    BY <1>3, <2>2 DEF SendBreaks, workerVars
<1>4. ASSUME NEW j \in Jobs, MarkEnqueueFailed(j)  PROVE TypeOK'
  BY <1>4, QueueTypes DEF MarkEnqueueFailed, workerVars
<1>5. ASSUME NEW j \in Jobs, Purge(j)  PROVE TypeOK'
  BY <1>5, QueueTypes DEF Purge, workerVars
<1>6. ASSUME ApiCrash  PROVE TypeOK'
  BY <1>6, QueueTypes DEF ApiCrash, RequestsDie, workerVars
<1>7. ASSUME NEW w \in Workers, NEW m \in Msgs, Take(w, m) \/ TakeRaises(w, m)
      PROVE  TypeOK'
  <2>1. Queue!QueueTypeOK'
    BY <1>7, QueueTypes DEF Take, TakeRaises
  <2>2. QED
    BY <1>7, <2>1 DEF Take, TakeRaises, Goto, jobVars, rowVars, workerVars
<1>8. ASSUME NEW w \in Workers, ThreadStep(w)  PROVE TypeOK'
  <2> USE DEF Step, Goto, GoIdle
  <2>1. pc[w] # "idle" /\ item[w] \in Msgs
    BY <1>8, ThreadAtWork
  <2>2. CASE FindJob(w)
    BY <2>2, QueueTypes DEF FindJob, jobVars, rowVars
  <2>3. CASE DropOrphan(w)
    <3>1. Queue!QueueTypeOK'
      BY <2>1, <2>3, QueueTypes DEF DropOrphan
    <3>2. QED
      BY <2>3, <3>1 DEF DropOrphan, jobVars, rowVars
  <2>4. CASE DrainRaises(w)
    BY <2>4, QueueTypes DEF DrainRaises, jobVars, rowVars
  <2>5. CASE Acquire(w)
    BY <2>1, <2>5, QueueTypes DEF Acquire, jobVars, rowVars
  <2>6. CASE Defer(w)
    <3>1. Queue!QueueTypeOK'
      BY <2>1, <2>6, QueueTypes DEF Defer
    <3>2. QED
      BY <2>6, <3>1 DEF Defer, jobVars, rowVars
  <2>7. CASE ScanSucceeds(w)
    BY <2>1, <2>7, QueueTypes DEF ScanSucceeds, CommitRuns
  <2>8. CASE ScanReportsErrors(w)
    BY <2>1, <2>8, QueueTypes DEF ScanReportsErrors, CommitRuns
  <2>9. CASE ScanRaises(w)
    BY <2>9, QueueTypes DEF ScanRaises, jobVars, rowVars
  <2>10. CASE AckItem(w)
    <3>1. Queue!QueueTypeOK'
      BY <2>1, <2>10, QueueTypes DEF AckItem
    <3>2. QED
      BY <2>10, <3>1 DEF AckItem, jobVars, rowVars
  <2>11. CASE AckRaises(w)
    <3>1. Queue!QueueTypeOK'
      BY <2>1, <2>11, QueueTypes DEF AckRaises
    <3>2. cut' \subseteq Jobs
      BY <2>1, <2>11 DEF AckRaises
    <3>3. QED
      BY <2>11, <3>1, <3>2 DEF AckRaises, rowVars
  <2>12. CASE NackItem(w)
    <3>1. Queue!QueueTypeOK'
      BY <2>1, <2>12, QueueTypes DEF NackItem
    <3>2. QED
      BY <2>12, <3>1 DEF NackItem, jobVars, rowVars
  <2>13. CASE RetryRaises(w)
    <3>1. Queue!QueueTypeOK'
      BY <2>1, <2>13, QueueTypes DEF RetryRaises
    <3>2. QED
      BY <2>13, <3>1 DEF RetryRaises, jobVars, rowVars
  <2>20. CASE NackRaises(w)
    BY <2>20, QueueTypes DEF NackRaises, jobVars, rowVars
  <2>14. CASE CheckComplete(w)
    BY <2>14, QueueTypes DEF CheckComplete, jobVars, rowVars
  <2>15. CASE ClaimEvaluation(w)
    BY <2>15, QueueTypes DEF ClaimEvaluation
  <2>16. CASE FinishRules(w)
    BY <2>16, QueueTypes DEF FinishRules
  <2>17. CASE EvaluationRaises(w)
    BY <2>1, <2>17, QueueTypes DEF EvaluationRaises, rowVars
  <2>18. CASE Release(w)
    BY <2>1, <2>18, QueueTypes DEF Release, jobVars, rowVars
  <2>19. QED
    BY <1>8, <2>2, <2>3, <2>4, <2>5, <2>6, <2>7, <2>8, <2>9, <2>10, <2>11,
       <2>12, <2>13, <2>14, <2>15, <2>16, <2>17, <2>18, <2>20 DEF ThreadStep
<1>9. ASSUME NEW p \in Procs, Crash(p)  PROVE TypeOK'
  <2>1. Queue!QueueTypeOK'
    BY <1>9, QueueTypes DEF Crash
  <2>2. cut' \subseteq Jobs
    BY <1>9 DEF Crash, ChainStates
  <2>3. QED
    BY <1>9, <2>1, <2>2 DEF Crash, RequestsDie
<1>10. ASSUME NEW m \in Msgs, Expire(m) \/ Redrive(m)  PROVE TypeOK'
  <2>1. Queue!QueueTypeOK'
    BY <1>10, QueueTypes DEF Expire, Redrive
  <2>2. QED
    BY <1>10, <2>1 DEF Expire, Redrive, jobVars, rowVars, workerVars
<1>11. CASE UNCHANGED vars
  BY <1>11, QueueTypes DEF vars, jobVars, rowVars, workerVars
<1>12. QED
  BY <1>1, <1>2, <1>3, <1>4, <1>5, <1>6, <1>7, <1>8, <1>9, <1>10, <1>11
  DEF Next, RequestStep

-----------------------------------------------------------------------------
(* Job rows.                                                               *)

\* The queue only ever takes a message out of "unsent" by sending it.
LEMMA OnlySendSends ==
  ASSUME Queue!QueueTypeOK, NEW m \in Msgs, place[m] = "unsent",
         \/ \E w \in Workers, S \in SUBSET Msgs : Queue!Receive(w, S)
         \/ \E w \in Workers, n \in Msgs : Queue!Ack(w, n) \/ Queue!Nack(w, n)
         \/ \E n \in Msgs : Queue!Expire(n) \/ Queue!Redrive(n)
         \/ Queue!Lose
         \/ UNCHANGED queueVars
  PROVE  place'[m] = "unsent"
BY DEF Queue!QueueTypeOK, Queue!Receive, Queue!Receivable, Queue!Ack, Queue!Nack,
       Queue!Expire, Queue!Redrive, Queue!Lose, queueVars

\* A row never goes back to absent; only CommitJob and Purge touch it at all.
LEMMA RowsStay ==
  ASSUME TypeOK, [Next]_vars, NEW j \in Jobs, row[j] # "absent"
  PROVE  row'[j] # "absent"
<1> USE DEF TypeOK, RowStates
<1>1. ASSUME NEW k \in Jobs, CommitJob(k) \/ Purge(k)  PROVE row'[j] # "absent"
  BY <1>1 DEF CommitJob, Purge
<1>2. CASE UNCHANGED row
  BY <1>2
<1>3. ASSUME NEW w \in Workers, ThreadStep(w) \/ \E m \in Msgs : Take(w, m) \/ TakeRaises(w, m)
      PROVE  UNCHANGED row
  BY <1>3 DEF ThreadStep, FindJob, DropOrphan, DrainRaises, Acquire, Defer,
       ScanSucceeds, ScanReportsErrors, ScanRaises, AckItem, AckRaises, NackItem,
       RetryRaises, NackRaises, CheckComplete, ClaimEvaluation, FinishRules, EvaluationRaises,
       Release, Take, TakeRaises, jobVars, rowVars
<1>4. QED
  BY <1>1, <1>2, <1>3 DEF Next, RequestStep, SendItems, SendBreaks,
     MarkEnqueueFailed, ApiCrash, Crash, Expire, Redrive, jobVars, rowVars, vars

\* Rows are committed before anything is sent, so no thread meets an orphan.
LEMMA StepRows ==
  ASSUME TypeOK, ItemInHand, RowBeforeSend, NoOrphan, [Next]_vars
  PROVE  (ItemInHand /\ RowBeforeSend /\ NoOrphan)'
<1> USE DEF TypeOK
<1>1. RowBeforeSend'
  <2>1. ASSUME NEW k \in Jobs, CommitJob(k)  PROVE RowBeforeSend'
    BY <2>1 DEF CommitJob, RowBeforeSend, RowStates
  <2>2. ASSUME NEW k \in Jobs, SendItems(k) \/ SendBreaks(k) \/ MarkEnqueueFailed(k)
        PROVE  RowBeforeSend'
    BY <2>2 DEF SendItems, SendBreaks, MarkEnqueueFailed, RowBeforeSend
  <2>3. ASSUME NEW k \in Jobs, Purge(k)  PROVE RowBeforeSend'
    BY <2>3 DEF Purge, RowBeforeSend
  <2>4. ASSUME ApiCrash \/ \E p \in Procs : Crash(p)  PROVE RowBeforeSend'
    BY <2>4 DEF ApiCrash, Crash, RequestsDie, RowBeforeSend
  <2>5. ASSUME NEW w \in Workers, ThreadStep(w) \/ \E m \in Msgs : Take(w, m) \/ TakeRaises(w, m)
        PROVE  UNCHANGED <<row, request>>
    BY <2>5 DEF ThreadStep, FindJob, DropOrphan, DrainRaises, Acquire, Defer,
       ScanSucceeds, ScanReportsErrors, ScanRaises, AckItem, AckRaises, NackItem,
       RetryRaises, NackRaises, CheckComplete, ClaimEvaluation, FinishRules, EvaluationRaises,
       Release, Take, TakeRaises, jobVars, rowVars
  <2>6. ASSUME (\E m \in Msgs : Expire(m) \/ Redrive(m)) \/ UNCHANGED vars
        PROVE  UNCHANGED <<row, request>>
    BY <2>6 DEF Expire, Redrive, jobVars, rowVars, vars
  <2>7. CASE UNCHANGED <<row, request>>
    BY <2>7 DEF RowBeforeSend
  <2>8. QED
    BY <2>1, <2>2, <2>3, <2>4, <2>5, <2>6, <2>7 DEF Next, RequestStep
<1>2. NoOrphan'
  <2> SUFFICES ASSUME NEW m \in Msgs, place'[m] # "unsent"
               PROVE  row'[JobOf[m]] # "absent"
    BY DEF NoOrphan
  <2>1. JobOf[m] \in Jobs
    BY Maps
  <2>2. CASE place[m] # "unsent"
    BY <2>1, <2>2, RowsStay DEF NoOrphan
  <2>3. CASE place[m] = "unsent"
    <3>1. ASSUME NEW k \in Jobs, SendItems(k) \/ SendBreaks(k)
          PROVE  row'[JobOf[m]] # "absent"
      <4>1. k = JobOf[m]
        BY <2>3, <3>1 DEF SendItems, SendBreaks, Queue!Send, ItemsOf
      <4>2. row[k] # "absent"
        BY <3>1 DEF SendItems, SendBreaks, RowBeforeSend
      <4>3. QED
        BY <4>1, <4>2, <3>1 DEF SendItems, SendBreaks
    <3>2. ASSUME NEW k \in Jobs, CommitJob(k) \/ MarkEnqueueFailed(k) \/ Purge(k)
          PROVE  FALSE
      BY <2>3, <3>2 DEF CommitJob, MarkEnqueueFailed, Purge, queueVars
    <3>3. ASSUME NEW w \in Workers, ThreadStep(w)  PROVE FALSE
      <4>1. \/ \E n \in Msgs : Queue!Ack(w, n) \/ Queue!Nack(w, n)
            \/ UNCHANGED queueVars
        BY <3>3 DEF ThreadStep, FindJob, DropOrphan, DrainRaises, Acquire, Defer,
       ScanSucceeds, ScanReportsErrors, ScanRaises, AckItem, AckRaises, NackItem,
       RetryRaises, NackRaises, CheckComplete, ClaimEvaluation, FinishRules, EvaluationRaises,
       Release, Step, ItemInHand
      <4>2. QED
        BY <2>3, <4>1, OnlySendSends
    <3>4. ASSUME NEW w \in Workers, NEW n \in Msgs, Take(w, n) \/ TakeRaises(w, n)
          PROVE  FALSE
      BY <2>3, <3>4, OnlySendSends DEF Take, TakeRaises
    <3>5. ASSUME ApiCrash \/ UNCHANGED vars \/ \E p \in Procs : Crash(p)
          PROVE  FALSE
      BY <2>3, <3>5, OnlySendSends DEF ApiCrash, Crash, vars
    <3>6. ASSUME \E n \in Msgs : Expire(n) \/ Redrive(n)  PROVE FALSE
      BY <2>3, <3>6, OnlySendSends DEF Expire, Redrive
    <3>7. QED
      BY <3>1, <3>2, <3>3, <3>4, <3>5, <3>6 DEF Next, RequestStep
  <2>4. QED
    BY <2>2, <2>3
<1>3. ItemInHand'
  <2> SUFFICES ASSUME NEW w \in Workers, pc'[w] # "idle"
               PROVE  item'[w] \in Msgs /\ row'[JobOf[item'[w]]] # "absent"
    BY DEF ItemInHand, JobAt
  <2>1. CASE pc[w] # "idle" /\ item'[w] = item[w]
    BY <2>1, RowsStay, Maps DEF ItemInHand, JobAt
  <2>2. ASSUME NEW m \in Msgs, Take(w, m)
        PROVE  item'[w] \in Msgs /\ row'[JobOf[item'[w]]] # "absent"
    <3>1. item'[w] = m /\ place[m] # "unsent"
      BY <2>2 DEF Take, Queue!Receive, Queue!Receivable
    <3>2. QED
      BY <3>1, Maps, RowsStay DEF NoOrphan
  <2>3. ASSUME NEW v \in Workers, NEW m \in Msgs, Take(v, m), v # w
        PROVE  pc[w] # "idle" /\ item'[w] = item[w]
    BY <2>3 DEF Take, Goto
  <2>4. ASSUME NEW v \in Workers, ThreadStep(v)
        PROVE  pc[w] # "idle" /\ item'[w] = item[w]
    BY <2>4, ThreadAtWork
  <2>5. ASSUME \/ \E k \in Jobs : RequestStep(k) \/ Purge(k)
               \/ ApiCrash
               \/ \E m \in Msgs : Expire(m) \/ Redrive(m)
               \/ \E v \in Workers, m \in Msgs : TakeRaises(v, m)
               \/ UNCHANGED vars
        PROVE  pc[w] # "idle" /\ item'[w] = item[w]
    BY <2>5 DEF RequestStep, CommitJob, SendItems, SendBreaks, MarkEnqueueFailed,
       Purge, ApiCrash, Expire, Redrive, TakeRaises, workerVars, vars
  <2>6. ASSUME NEW p \in Procs, Crash(p)
        PROVE  pc[w] # "idle" /\ item'[w] = item[w]
    BY <2>6 DEF Crash
  <2>7. QED
    BY <2>1, <2>2, <2>3, <2>4, <2>5, <2>6 DEF Next
<1>4. QED
  BY <1>1, <1>2, <1>3

-----------------------------------------------------------------------------
(* Evaluation.                                                             *)

\* Committed source_runs stay: the proof of a scope is never taken back.
LEMMA RunsStay ==
  ASSUME TypeOK, ItemInHand, [Next]_vars
  PROVE  \A j \in Jobs, s \in Scopes : runs[j][s] \subseteq runs'[j][s]
<1> USE DEF TypeOK
<1>1. ASSUME NEW w \in Workers, ScanSucceeds(w) \/ ScanReportsErrors(w)
      PROVE  \A j \in Jobs, s \in Scopes : runs[j][s] \subseteq runs'[j][s]
  <2>1. JobAt(w) \in Jobs /\ ScopeOf[item[w]] \in Scopes
    BY <1>1, Maps DEF ScanSucceeds, ScanReportsErrors, Step, ItemInHand, JobAt
  <2>2. QED
    BY <1>1, <2>1 DEF ScanSucceeds, ScanReportsErrors, CommitRuns
<1>2. ASSUME NEW w \in Workers, ThreadStep(w) \/ \E m \in Msgs : Take(w, m) \/ TakeRaises(w, m),
             ~ (ScanSucceeds(w) \/ ScanReportsErrors(w))
      PROVE  UNCHANGED runs
  BY <1>2 DEF ThreadStep, FindJob, DropOrphan, DrainRaises, Acquire, Defer,
       ScanSucceeds, ScanReportsErrors, ScanRaises, AckItem, AckRaises, NackItem,
       RetryRaises, NackRaises, CheckComplete, ClaimEvaluation, FinishRules, EvaluationRaises,
       Release, Take, TakeRaises, jobVars, rowVars
<1>3. CASE UNCHANGED runs
  BY <1>3
<1>4. QED
  BY <1>1, <1>2, <1>3 DEF Next, RequestStep, CommitJob, SendItems, SendBreaks,
     MarkEnqueueFailed, Purge, ApiCrash, Crash, Expire, Redrive, jobVars, rowVars, vars

LEMMA ProvenStays ==
  ASSUME TypeOK, ItemInHand, [Next]_vars,
         NEW j \in Jobs, Proven(j) = ScopesOf(j)
  PROVE  Proven(j)' = ScopesOf(j)
<1>1. \A s \in ScopesOf(j) : s \in Scopes
  BY DEF ScopesOf, ItemsOf, Scopes
<1>2. QED
  BY <1>1, RunsStay DEF Proven

\* The three places of the evaluation chain, and the only steps that reach them.
LEMMA ChainSteps ==
  ASSUME TypeOK, ItemInHand, [Next]_vars, NEW w \in Workers
  PROVE  /\ pc'[w] = "claim" =>
              \/ pc[w] = "claim" /\ item'[w] = item[w]
              \/ CheckComplete(w) /\ Complete(JobAt(w)) /\ item'[w] = item[w]
         /\ pc'[w] = "rules" =>
              \/ pc[w] = "rules" /\ item'[w] = item[w]
              \/ ClaimEvaluation(w) /\ Claimable(JobAt(w)) /\ item'[w] = item[w]
<1> DEFINE Goal == /\ pc'[w] = "claim" =>
                      \/ pc[w] = "claim" /\ item'[w] = item[w]
                      \/ CheckComplete(w) /\ Complete(JobAt(w)) /\ item'[w] = item[w]
                   /\ pc'[w] = "rules" =>
                      \/ pc[w] = "rules" /\ item'[w] = item[w]
                      \/ ClaimEvaluation(w) /\ Claimable(JobAt(w)) /\ item'[w] = item[w]
<1> USE DEF TypeOK
<1>1. ASSUME NEW m \in Msgs, Take(w, m)  PROVE Goal
  BY <1>1 DEF Take, Goto
<1>2. ASSUME CheckComplete(w)  PROVE Goal
  BY <1>2 DEF CheckComplete, Step, Goto
<1>3. ASSUME ClaimEvaluation(w)  PROVE Goal
  BY <1>3 DEF ClaimEvaluation, Step, Goto
<1>4. ASSUME ThreadStep(w), ~ CheckComplete(w), ~ ClaimEvaluation(w)
      PROVE  pc'[w] \notin {"claim", "rules"}
  BY <1>4 DEF ThreadStep, FindJob, DropOrphan, DrainRaises, Acquire, Defer,
       ScanSucceeds, ScanReportsErrors, ScanRaises, AckItem, AckRaises, NackItem,
       RetryRaises, NackRaises, CheckComplete, ClaimEvaluation, FinishRules, EvaluationRaises,
       Release, Step, Goto, GoIdle
<1>5. ASSUME NEW v \in Workers, v # w, ThreadStep(v) \/ \E m \in Msgs : Take(v, m)
      PROVE  pc'[w] = pc[w] /\ item'[w] = item[w]
  BY <1>5 DEF ThreadStep, FindJob, DropOrphan, DrainRaises, Acquire, Defer,
       ScanSucceeds, ScanReportsErrors, ScanRaises, AckItem, AckRaises, NackItem,
       RetryRaises, NackRaises, CheckComplete, ClaimEvaluation, FinishRules, EvaluationRaises,
       Release, Step, Goto, GoIdle, Take
<1>6. ASSUME NEW p \in Procs, Crash(p)
      PROVE  pc'[w] = "idle" \/ (pc'[w] = pc[w] /\ item'[w] = item[w])
  BY <1>6 DEF Crash
<1>7. ASSUME \/ \E k \in Jobs : RequestStep(k) \/ Purge(k)
             \/ ApiCrash
             \/ \E m \in Msgs : Expire(m) \/ Redrive(m)
             \/ \E v \in Workers, m \in Msgs : TakeRaises(v, m)
             \/ UNCHANGED vars
      PROVE  pc'[w] = pc[w] /\ item'[w] = item[w]
  BY <1>7 DEF RequestStep, CommitJob, SendItems, SendBreaks, MarkEnqueueFailed,
     Purge, ApiCrash, Expire, Redrive, TakeRaises, workerVars, vars
<1>8. QED
  BY <1>1, <1>2, <1>3, <1>4, <1>5, <1>6, <1>7 DEF Next

\* evaluation_status only moves in the claim and at the end of the rules.
LEMMA EvaluationSteps ==
  ASSUME TypeOK, ItemInHand, [Next]_vars, NEW j \in Jobs,
         evaluation'[j] # evaluation[j]
  PROVE  \E w \in Workers :
           /\ JobAt(w) = j
           /\ \/ /\ ClaimEvaluation(w) /\ Claimable(j)
                 /\ evaluation'[j] = "running"
              \/ FinishRules(w)
<1> USE DEF TypeOK
<1>1. ASSUME NEW w \in Workers, ClaimEvaluation(w)
      PROVE  JobAt(w) = j /\ Claimable(j) /\ evaluation'[j] = "running"
  BY <1>1, Maps DEF ClaimEvaluation
<1>2. ASSUME NEW w \in Workers, FinishRules(w)
      PROVE  JobAt(w) = j
  BY <1>2, Maps DEF FinishRules
<1>3. ASSUME NEW w \in Workers, ThreadStep(w) \/ \E m \in Msgs : Take(w, m) \/ TakeRaises(w, m),
             ~ ClaimEvaluation(w), ~ FinishRules(w)
      PROVE  FALSE
  BY <1>3 DEF ThreadStep, FindJob, DropOrphan, DrainRaises, Acquire, Defer,
       ScanSucceeds, ScanReportsErrors, ScanRaises, AckItem, AckRaises, NackItem,
       RetryRaises, NackRaises, CheckComplete, ClaimEvaluation, FinishRules, EvaluationRaises,
       Release, Take, TakeRaises, jobVars, rowVars
<1>4. QED
  BY <1>1, <1>2, <1>3 DEF Next, RequestStep, CommitJob, SendItems, SendBreaks,
     MarkEnqueueFailed, Purge, ApiCrash, Crash, Expire, Redrive, jobVars, rowVars, vars

\* Rules run only on proven jobs, and one thread at a time runs them.
LEMMA StepEvaluation ==
  ASSUME TypeOK, ItemInHand, ClaimHasProof, EvaluationHasProof, OneEvaluator,
         [Next]_vars
  PROVE  (ClaimHasProof /\ EvaluationHasProof /\ OneEvaluator)'
<1>0. \A w \in Workers : pc[w] # "idle" => JobAt(w) \in Jobs
  BY Maps DEF ItemInHand, JobAt
<1>1. ClaimHasProof'
  <2> SUFFICES ASSUME NEW w \in Workers, pc'[w] = "claim"
               PROVE  Proven(JobAt(w))' = ScopesOf(JobAt(w))'
    BY DEF ClaimHasProof
  <2>1. \/ pc[w] = "claim" /\ item'[w] = item[w]
        \/ CheckComplete(w) /\ Complete(JobAt(w)) /\ item'[w] = item[w]
    BY ChainSteps
  <2>2. pc[w] # "idle" /\ item'[w] = item[w]
    BY <2>1 DEF CheckComplete, Step
  <2>3. PICK j \in Jobs : j = JobAt(w)
    BY <1>0, <2>2
  <2>4. Proven(j) = ScopesOf(j)
    BY <2>1, <2>3, CompleteMeansProven DEF ClaimHasProof
  <2>5. {s \in ScopesOf(j) : runs'[j][s] # {}} = ScopesOf(j)
    BY <2>4, ProvenStays DEF Proven
  <2>6. QED
    BY <2>2, <2>3, <2>5 DEF Proven, JobAt, ScopesOf, ItemsOf
<1>2. EvaluationHasProof'
  <2> SUFFICES ASSUME NEW j \in Jobs, evaluation'[j] # "null"
               PROVE  Proven(j)' = ScopesOf(j)
    BY DEF EvaluationHasProof, ScopesOf, ItemsOf
  <2>1. Proven(j) = ScopesOf(j)
    <3>1. CASE evaluation[j] # "null"
      BY <3>1 DEF EvaluationHasProof
    <3>2. CASE evaluation[j] = "null"
      <4>1. PICK w \in Workers : JobAt(w) = j /\ (ClaimEvaluation(w) \/ FinishRules(w))
        BY <3>2, EvaluationSteps
      <4>2. ~ FinishRules(w)
        BY <3>2, <4>1 DEF FinishRules, Step, OneEvaluator
      <4>3. QED
        BY <4>1, <4>2 DEF ClaimEvaluation, Step, ClaimHasProof
    <3>3. QED
      BY <3>1, <3>2
  <2>2. QED
    BY <2>1, ProvenStays
<1>3. OneEvaluator'
  <2> SUFFICES ASSUME NEW w \in Workers, pc'[w] = "rules"
               PROVE  /\ evaluation'[JobOf[item'[w]]] = "running"
                      /\ \A v \in Workers :
                           pc'[v] = "rules" /\ JobOf[item'[v]] = JobOf[item'[w]]
                             => v = w
    BY DEF OneEvaluator, JobAt
  <2>1. item'[w] = item[w] /\ JobAt(w) \in Jobs
    BY <1>0, ChainSteps DEF ClaimEvaluation, Step
  <2>2. evaluation'[JobAt(w)] = "running"
    <3>1. CASE ClaimEvaluation(w) /\ Claimable(JobAt(w))
      BY <2>1, <3>1 DEF ClaimEvaluation, TypeOK
    <3>2. CASE pc[w] = "rules"
      <4>1. evaluation[JobAt(w)] = "running"
        BY <3>2 DEF OneEvaluator
      <4>2. ASSUME NEW v \in Workers, JobAt(v) = JobAt(w), FinishRules(v)
            PROVE  FALSE
        <5>1. v = w
          BY <3>2, <4>2 DEF OneEvaluator, FinishRules, Step
        <5>2. QED
          BY <4>2, <5>1 DEF FinishRules, Step, Goto, TypeOK
      <4>3. QED
        BY <2>1, <4>1, <4>2, EvaluationSteps
    <3>3. QED
      BY <3>1, <3>2, ChainSteps
  <2>3. ASSUME NEW v \in Workers, pc'[v] = "rules", JobOf[item'[v]] = JobOf[item'[w]]
        PROVE  v = w
    <3>1. item'[v] = item[v] /\ JobAt(v) = JobAt(w)
      BY <2>1, <2>3, ChainSteps DEF JobAt
    <3>2. CASE pc[v] = "rules" /\ pc[w] = "rules"
      BY <3>1, <3>2 DEF OneEvaluator
    <3>3. CASE ClaimEvaluation(w) /\ Claimable(JobAt(w))
      BY <2>3, <3>1, <3>3 DEF ClaimEvaluation, Step, Goto, Claimable, OneEvaluator, TypeOK
    <3>4. CASE ClaimEvaluation(v) /\ Claimable(JobAt(v))
      BY <3>1, <3>4 DEF ClaimEvaluation, Step, Goto, Claimable, OneEvaluator, TypeOK
    <3>5. QED
      BY <2>3, <3>2, <3>3, <3>4, ChainSteps
  <2>4. QED
    BY <2>1, <2>2, <2>3 DEF JobAt
<1>4. QED
  BY <1>1, <1>2, <1>3

-----------------------------------------------------------------------------
(* Acks.                                                                   *)

\* A purged row stays purged: its request is past its commit.
LEMMA PurgedStays ==
  ASSUME TypeOK, RowBeforeSend, [Next]_vars, NEW j \in Jobs, row[j] = "purged"
  PROVE  row'[j] = "purged"
<1> USE DEF TypeOK
<1>1. ASSUME NEW k \in Jobs, CommitJob(k) \/ Purge(k)  PROVE row'[j] = "purged"
  BY <1>1 DEF CommitJob, Purge, RowBeforeSend
<1>2. CASE UNCHANGED row
  BY <1>2
<1>3. ASSUME NEW w \in Workers, ThreadStep(w) \/ \E m \in Msgs : Take(w, m) \/ TakeRaises(w, m)
      PROVE  UNCHANGED row
  BY <1>3 DEF ThreadStep, FindJob, DropOrphan, DrainRaises, Acquire, Defer,
       ScanSucceeds, ScanReportsErrors, ScanRaises, AckItem, AckRaises, NackItem,
       RetryRaises, NackRaises, CheckComplete, ClaimEvaluation, FinishRules, EvaluationRaises,
       Release, Take, TakeRaises, jobVars, rowVars
<1>4. QED
  BY <1>1, <1>2, <1>3 DEF Next, RequestStep, SendItems, SendBreaks,
     MarkEnqueueFailed, ApiCrash, Crash, Expire, Redrive, jobVars, rowVars, vars

\* A message is only ever done by an ack.
LEMMA OnlyAckEnds ==
  ASSUME Queue!QueueTypeOK, NEW m \in Msgs, place'[m] = "done", place[m] # "done",
         \/ \E S \in SUBSET Msgs : Queue!Send(S)
         \/ \E w \in Workers, S \in SUBSET Msgs : Queue!Receive(w, S)
         \/ \E w \in Workers, n \in Msgs : Queue!Nack(w, n)
         \/ \E n \in Msgs : Queue!Expire(n) \/ Queue!Redrive(n)
         \/ Queue!Lose
         \/ UNCHANGED queueVars
  PROVE  FALSE
BY DEF Queue!QueueTypeOK, Queue!Send, Queue!Receive, Queue!Nack,
       Queue!Expire, Queue!Redrive, Queue!Lose, queueVars

\* The steps of a thread that end a message, and what they act on.
LEMMA AckSteps ==
  ASSUME TypeOK, ItemInHand, [Next]_vars, NEW m \in Msgs,
         place'[m] = "done", place[m] # "done"
  PROVE  \E w \in Workers : item[w] = m /\ (AckItem(w) \/ AckRaises(w) \/ DropOrphan(w))
<1> USE DEF TypeOK
<1>1. ASSUME NEW w \in Workers, AckItem(w) \/ AckRaises(w) \/ DropOrphan(w)
      PROVE  item[w] = m
  BY <1>1 DEF AckItem, AckRaises, DropOrphan, Queue!Ack, Queue!QueueTypeOK, queueVars
<1>2. ASSUME NEW w \in Workers, ThreadStep(w),
             ~ AckItem(w), ~ AckRaises(w), ~ DropOrphan(w)
      PROVE  FALSE
  <2>1. (\E n \in Msgs : Queue!Nack(w, n)) \/ UNCHANGED queueVars
    BY <1>2 DEF ThreadStep, FindJob, DropOrphan, DrainRaises, Acquire, Defer,
       ScanSucceeds, ScanReportsErrors, ScanRaises, AckItem, AckRaises, NackItem,
       RetryRaises, NackRaises, CheckComplete, ClaimEvaluation, FinishRules, EvaluationRaises,
       Release, Step, ItemInHand
  <2>2. QED
    BY <2>1, OnlyAckEnds
<1>3. ASSUME NEW w \in Workers, NEW n \in Msgs, Take(w, n) \/ TakeRaises(w, n)
      PROVE  FALSE
  BY <1>3, OnlyAckEnds DEF Take, TakeRaises
<1>4. ASSUME NEW k \in Jobs, RequestStep(k) \/ Purge(k)  PROVE FALSE
  <2>1. (\E S \in SUBSET Msgs : Queue!Send(S)) \/ UNCHANGED queueVars
    BY <1>4 DEF RequestStep, CommitJob, SendItems, SendBreaks, MarkEnqueueFailed,
       Purge, ItemsOf
  <2>2. QED
    BY <2>1, OnlyAckEnds
<1>5. ASSUME ApiCrash \/ UNCHANGED vars \/ \E p \in Procs : Crash(p)
      PROVE  FALSE
  BY <1>5, OnlyAckEnds DEF ApiCrash, Crash, vars
<1>6. ASSUME \E n \in Msgs : Expire(n) \/ Redrive(n)  PROVE FALSE
  BY <1>6, OnlyAckEnds DEF Expire, Redrive
<1>7. QED
  BY <1>1, <1>2, <1>3, <1>4, <1>5, <1>6 DEF Next

\* Only a scan that commits a success, or a dry run, gets a thread to its ack.
LEMMA ReachAck ==
  ASSUME TypeOK, ItemInHand, [Next]_vars, NEW w \in Workers, pc'[w] = "ack"
  PROVE  item'[w] = item[w] /\ (pc[w] = "ack" \/ ScanSucceeds(w))
<1> USE DEF TypeOK
<1>1. ASSUME ThreadStep(w), ~ ScanSucceeds(w)  PROVE FALSE
  BY <1>1 DEF ThreadStep, FindJob, DropOrphan, DrainRaises, Acquire, Defer,
       ScanSucceeds, ScanReportsErrors, ScanRaises, AckItem, AckRaises, NackItem,
       RetryRaises, NackRaises, CheckComplete, ClaimEvaluation, FinishRules, EvaluationRaises,
       Release, Step, Goto, GoIdle
<1>2. ASSUME ScanSucceeds(w)  PROVE item'[w] = item[w]
  BY <1>2 DEF ScanSucceeds, Step
<1>3. ASSUME NEW m \in Msgs, Take(w, m)  PROVE FALSE
  BY <1>3 DEF Take, Goto
<1>4. ASSUME NEW v \in Workers, v # w, ThreadStep(v) \/ \E m \in Msgs : Take(v, m)
      PROVE  pc'[w] = pc[w] /\ item'[w] = item[w]
  BY <1>4 DEF ThreadStep, FindJob, DropOrphan, DrainRaises, Acquire, Defer,
       ScanSucceeds, ScanReportsErrors, ScanRaises, AckItem, AckRaises, NackItem,
       RetryRaises, NackRaises, CheckComplete, ClaimEvaluation, FinishRules, EvaluationRaises,
       Release, Step, Goto, GoIdle, Take
<1>5. ASSUME NEW p \in Procs, Crash(p)
      PROVE  pc'[w] = pc[w] /\ item'[w] = item[w]
  BY <1>5 DEF Crash
<1>6. ASSUME \/ \E k \in Jobs : RequestStep(k) \/ Purge(k)
             \/ ApiCrash
             \/ \E m \in Msgs : Expire(m) \/ Redrive(m)
             \/ \E v \in Workers, m \in Msgs : TakeRaises(v, m)
             \/ UNCHANGED vars
      PROVE  pc'[w] = pc[w] /\ item'[w] = item[w]
  BY <1>6 DEF RequestStep, CommitJob, SendItems, SendBreaks, MarkEnqueueFailed,
     Purge, ApiCrash, Expire, Redrive, TakeRaises, workerVars, vars
<1>7. QED
  BY <1>1, <1>2, <1>3, <1>4, <1>5, <1>6 DEF Next

\* What is acked was scanned.
LEMMA StepAck ==
  ASSUME TypeOK, ItemInHand, RowBeforeSend, AckHasScan, AckedMeansScanned,
         [Next]_vars
  PROVE  (AckHasScan /\ AckedMeansScanned)'
<1>1. AckHasScan'
  <2> SUFFICES ASSUME NEW w \in Workers, pc'[w] = "ack"
               PROVE  \/ "success" \in runs'[JobOf[item[w]]][ScopeOf[item[w]]]
                      \/ JobOf[item[w]] \in DryRunJobs
    BY ReachAck DEF AckHasScan, JobAt
  <2>1. pc[w] # "idle"
    BY ReachAck DEF ScanSucceeds, Step
  <2>2. JobOf[item[w]] \in Jobs /\ ScopeOf[item[w]] \in Scopes
    BY <2>1, Maps DEF ItemInHand
  <2>3. CASE pc[w] = "ack"
    BY <2>2, <2>3, RunsStay DEF AckHasScan, JobAt
  <2>4. CASE ScanSucceeds(w)
    BY <2>2, <2>4 DEF ScanSucceeds, CommitRuns, JobAt, TypeOK
  <2>5. QED
    BY <2>3, <2>4, ReachAck
<1>2. AckedMeansScanned'
  <2> SUFFICES ASSUME NEW m \in Msgs, place'[m] = "done"
               PROVE  \/ "success" \in runs'[JobOf[m]][ScopeOf[m]]
                      \/ JobOf[m] \in DryRunJobs
                      \/ row'[JobOf[m]] = "purged"
    BY DEF AckedMeansScanned
  <2>1. JobOf[m] \in Jobs /\ ScopeOf[m] \in Scopes
    BY Maps
  <2>2. CASE place[m] = "done"
    BY <2>1, <2>2, RunsStay, PurgedStays DEF AckedMeansScanned
  <2>3. CASE place[m] # "done"
    <3>1. PICK w \in Workers : item[w] = m /\ (AckItem(w) \/ AckRaises(w) \/ DropOrphan(w))
      BY <2>3, AckSteps
    <3>2. CASE AckItem(w) \/ AckRaises(w)
      BY <2>1, <3>1, <3>2, RunsStay DEF AckItem, AckRaises, Step, AckHasScan, JobAt
    <3>3. CASE DropOrphan(w)
      <4>1. row[JobOf[m]] = "purged"
        BY <2>1, <3>1, <3>3 DEF DropOrphan, ItemInHand, JobAt, TypeOK, RowStates
      <4>2. QED
        BY <2>1, <4>1, PurgedStays
    <3>4. QED
      BY <3>1, <3>2, <3>3
  <2>4. QED
    BY <2>2, <2>3
<1>3. QED
  BY <1>1, <1>2

-----------------------------------------------------------------------------
(* The theorems.                                                           *)

LEMMA InitInv == Init => Inv
<1> SUFFICES ASSUME Init  PROVE Inv
  OBVIOUS
<1> USE DEF Init, Queue!QueueInit
<1>1. TypeOK
  BY Maps DEF TypeOK, Queue!QueueTypeOK, Queue!Places, RowStates, RequestStates,
     EvaluationStates, RunStates, PcStates
<1>2. ItemInHand /\ RowBeforeSend /\ NoOrphan /\ AckedMeansScanned
  BY DEF ItemInHand, RowBeforeSend, NoOrphan, AckedMeansScanned
<1>3. ClaimHasProof /\ EvaluationHasProof /\ OneEvaluator /\ AckHasScan
  BY DEF ClaimHasProof, EvaluationHasProof, OneEvaluator, AckHasScan
<1>4. QED
  BY <1>1, <1>2, <1>3 DEF Inv

LEMMA StepInv == Inv /\ [Next]_vars => Inv'
<1> SUFFICES ASSUME Inv, [Next]_vars  PROVE Inv'
  OBVIOUS
<1> USE DEF Inv
<1>1. TypeOK'
  BY StepTypeOK
<1>2. (ItemInHand /\ RowBeforeSend /\ NoOrphan)'
  BY StepRows
<1>3. (ClaimHasProof /\ EvaluationHasProof /\ OneEvaluator)'
  BY StepEvaluation
<1>4. (AckHasScan /\ AckedMeansScanned)'
  BY StepAck
<1>5. QED
  BY <1>1, <1>2, <1>3, <1>4

\* The conjunction of all of them is an inductive invariant of the pipeline, for
\* both queues and every combination of faults.
THEOREM Invariant == Spec => []Inv
BY InitInv, StepInv, PTL DEF Spec

\* Every step of the request, the threads and the surroundings keeps the types of
\* the queue, the job rows, the source_runs and the threads' places.
THEOREM TypeCorrect == Spec => []TypeOK
<1>1. Inv => TypeOK
  BY DEF Inv
<1>2. QED
  BY <1>1, Invariant, PTL

\* No thread ever meets an item whose collect_jobs row was not committed before:
\* the commit in create_and_enqueue_collect_job comes before the send.
THEOREM RowsComeFirst == Spec => []NoOrphan
<1>1. Inv => NoOrphan
  BY DEF Inv
<1>2. QED
  BY <1>1, Invariant, PTL

\* The rules of a job run only when every scope of it has a committed source_run,
\* although is_job_complete compares a count of scopes with a count of items.
THEOREM EvaluationProven == Spec => []EvaluationHasProof
<1>1. Inv => EvaluationHasProof
  BY DEF Inv
<1>2. QED
  BY <1>1, Invariant, PTL

\* try_claim_evaluation lets one thread of all the processes run the rules of a
\* job, and the row says 'running' as long as it does.
THEOREM SingleEvaluator == Spec => []OneEvaluator
<1>1. Inv => OneEvaluator
  BY DEF Inv
<1>2. QED
  BY <1>1, Invariant, PTL

\* No expired lease, redelivery, exception or crash makes drain_once ack an item
\* that was not scanned, dry-run, or dropped because its job row is gone.
THEOREM AckedScanned == Spec => []AckedMeansScanned
<1>1. Inv => AckedMeansScanned
  BY DEF Inv
<1>2. QED
  BY <1>1, Invariant, PTL
=============================================================================
