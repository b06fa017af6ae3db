--------------------------- MODULE CollectPipeline --------------------------
(***************************************************************************)
(* From POST /collect/aws to the evaluated job: the API request that       *)
(* commits a collect_jobs row and enqueues one WorkItem per (account,      *)
(* region) (routers/aws.py), the pool of worker threads that drain the     *)
(* queue (worker.py), and the collect -> evaluate chain on the job row     *)
(* (repositories/collect_jobs.py).  The queue is the contract of WorkQueue,*)
(* which both of its implementations keep.                                 *)
(*                                                                         *)
(* A thread is a small state machine; its steps are the places where       *)
(* another thread, another process or the database may come in between: a  *)
(* queue call, a committed transaction, the limiter's lock.  A scan is one *)
(* transaction of the collector (module ScopeScan looks inside): it either *)
(* commits a source_run per resource type or leaves nothing behind.        *)
(***************************************************************************)
EXTENDS Naturals, FiniteSets

CONSTANTS
  Jobs,           \* collect requests, hence collect_jobs rows
  Msgs,           \* the work items of all of them
  JobOf,          \* the job an item belongs to
  ScopeOf,        \* the (account, region) an item scans
  AccountOf,      \* the account of a scope
  DryRunJobs,     \* requests with dry_run
  Workers,        \* worker threads
  ProcOf,         \* the worker process a thread lives in
  PerAccount,     \* CONSTAT_WORKER_PER_ACCOUNT
  Sqs,            \* CONSTAT_COLLECT_MODE is sqs (else inline)
  MaxReceives,    \* maxReceiveCount of the redrive policy (sqs)
  NoMsg, NoWorker,
  Faults          \* the faults that may happen, a subset of FaultKinds

FaultKinds == {
  "send",          \* the queue refuses the batch, or breaks in the middle
  "api_crash",     \* the API process dies during a request
  "worker_crash",  \* a worker process dies
  "lookup",        \* the database fails in _job_exists
  "region",        \* a region of the scan reports errors
  "raise",         \* the collector raises: AssumeRole denied, database down
  "queue",         \* a call of the queue raises and has no effect (sqs)
  "reply",         \* a call of the queue takes effect and raises all the same (sqs)
  "expiry",        \* a visibility timeout runs out
  "evaluation",    \* the database fails between an ack and the end of the rules
  "rule",          \* a rule raises
  "purge" }        \* an operator deletes the job row

ASSUME FaultsAssumption == Faults \subseteq FaultKinds
ASSUME PerAccountAssumption == PerAccount \in Nat \ {0}
ASSUME SqsAssumption == Sqs \in BOOLEAN
ASSUME MaxReceivesAssumption ==
  /\ MaxReceives \in Nat
  /\ MaxReceives > 0 => Sqs
\* The in-memory queue is that of one process.
ASSUME InlineAssumption == ~ Sqs => \A v, w \in Workers : ProcOf[v] = ProcOf[w]
ASSUME NoValueAssumption == NoMsg \notin Msgs /\ NoWorker \notin Workers
ASSUME MapsAssumption ==
  /\ JobOf \in [Msgs -> Jobs]
  /\ DOMAIN ScopeOf = Msgs
  /\ DOMAIN AccountOf = {ScopeOf[m] : m \in Msgs}
  /\ DOMAIN ProcOf = Workers
  /\ DryRunJobs \subseteq Jobs
ASSUME FinitenessAssumption == IsFiniteSet(Msgs) /\ IsFiniteSet(Workers)

VARIABLES
  place, holder, deliveries,  \* the queue, see WorkQueue
  row,         \* the collect_jobs row of each job
  request,     \* where the API request of each job is
  enqueueError,\* jobs whose row carries enqueue_error
  evaluation,  \* evaluation_status of each job row
  runs,        \* per job and scope, the statuses of its committed source_runs
  cut,         \* history: jobs of which a thread was stopped after its ack took
               \* effect and before it was done with the rules
  pc,          \* where each thread is in drain_once
  item,        \* the work item it holds
  slots        \* the counts of each process's PerAccountLimiter

queueVars == <<place, holder, deliveries>>
rowVars == <<row, request, enqueueError, evaluation, runs>>
jobVars == <<rowVars, cut>>
workerVars == <<pc, item, slots>>
vars == <<queueVars, jobVars, workerVars>>

Queue == INSTANCE WorkQueue WITH
  Consumers <- Workers, NoConsumer <- NoWorker,
  LeasesExpire <- Sqs, CountCap <- MaxReceives

Scopes == {ScopeOf[m] : m \in Msgs}
Accounts == {AccountOf[s] : s \in Scopes}
Procs == {ProcOf[w] : w \in Workers}
ItemsOf(j) == {m \in Msgs : JobOf[m] = j}
ScopesOf(j) == {ScopeOf[m] : m \in ItemsOf(j)}
ItemAccount(m) == AccountOf[ScopeOf[m]]
May(fault) == fault \in Faults

RequestStates == {"none", "committed", "accepted", "broken", "refused", "dead"}
EvaluationStates == {"null", "running", "success", "failed"}
RowStates == {"absent", "present", "purged"}
RunStates == {"success", "failed"}
PcStates == {"idle", "lookup", "acquire", "scan", "ack", "retry", "nack", "check",
             "claim", "rules", "release"}

\* The places of drain_once between try_acquire and release.
SlotStates == {"scan", "ack", "retry", "nack", "check", "claim", "rules", "release"}

\* The places between receive and the settlement of the item.
HolderStates == {"lookup", "acquire", "scan", "ack", "retry", "nack"}

\* The places between an ack and the end of the rules.
ChainStates == {"check", "claim", "rules"}

TypeOK ==
  /\ Queue!QueueTypeOK
  /\ row \in [Jobs -> RowStates]
  /\ request \in [Jobs -> RequestStates]
  /\ enqueueError \subseteq Jobs
  /\ evaluation \in [Jobs -> EvaluationStates]
  /\ runs \in [Jobs -> [Scopes -> SUBSET RunStates]]
  /\ cut \subseteq Jobs
  /\ pc \in [Workers -> PcStates]
  /\ item \in [Workers -> Msgs \cup {NoMsg}]
  /\ slots \in [Procs -> [Accounts -> Nat]]

Init ==
  /\ Queue!QueueInit
  /\ row = [j \in Jobs |-> "absent"]
  /\ request = [j \in Jobs |-> "none"]
  /\ enqueueError = {}
  /\ evaluation = [j \in Jobs |-> "null"]
  /\ runs = [j \in Jobs |-> [s \in Scopes |-> {}]]
  /\ cut = {}
  /\ pc = [w \in Workers |-> "idle"]
  /\ item = [w \in Workers |-> NoMsg]
  /\ slots = [p \in Procs |-> [a \in Accounts |-> 0]]

-----------------------------------------------------------------------------
(* The API request: create_and_enqueue_collect_job.                        *)

\* The job row is committed before anything is sent.
CommitJob(j) ==
  /\ request[j] = "none"
  /\ row' = [row EXCEPT ![j] = "present"]
  /\ request' = [request EXCEPT ![j] = "committed"]
  /\ UNCHANGED <<queueVars, enqueueError, evaluation, runs, cut, workerVars>>

\* Variant with a fault: enqueue, then commit.
SendBeforeCommit(j) ==
  /\ request[j] \in {"none", "committed"}
  /\ Queue!Send(ItemsOf(j))
  /\ request' = [request EXCEPT ![j] = "accepted"]
  /\ UNCHANGED <<row, enqueueError, evaluation, runs, cut, workerVars>>

SendItems(j) ==
  /\ request[j] = "committed"
  /\ Queue!Send(ItemsOf(j))
  /\ request' = [request EXCEPT ![j] = "accepted"]
  /\ UNCHANGED <<row, enqueueError, evaluation, runs, cut, workerVars>>

\* Variant with a fault: the exception of send is swallowed.
SendErrorIgnored(j) ==
  /\ May("send")
  /\ request[j] = "committed"
  /\ \E S \in IF Sqs THEN SUBSET ItemsOf(j) ELSE {{}} : Queue!Send(S)
  /\ request' = [request EXCEPT ![j] = "accepted"]
  /\ UNCHANGED <<row, enqueueError, evaluation, runs, cut, workerVars>>

\* A full in-process queue refuses the whole list; SQS breaks anywhere in it,
\* and may have accepted the message whose call failed.
SendBreaks(j) ==
  /\ May("send")
  /\ request[j] = "committed"
  /\ \E S \in IF Sqs THEN SUBSET ItemsOf(j) ELSE {{}} : Queue!Send(S)
  /\ request' = [request EXCEPT ![j] = "broken"]
  /\ UNCHANGED <<row, enqueueError, evaluation, runs, cut, workerVars>>

\* mark_enqueue_failed, commit, 503.
MarkEnqueueFailed(j) ==
  /\ request[j] = "broken"
  /\ enqueueError' = enqueueError \cup {j}
  /\ request' = [request EXCEPT ![j] = "refused"]
  /\ UNCHANGED <<queueVars, row, evaluation, runs, cut, workerVars>>

RequestsDie ==
  request' = [j \in Jobs |-> IF request[j] \in {"committed", "broken"}
                             THEN "dead" ELSE request[j]]

\* In sqs mode the API dies alone; in inline mode with its workers (Crash).
ApiCrash ==
  /\ May("api_crash") /\ Sqs
  /\ \E j \in Jobs : request[j] \in {"committed", "broken"}
  /\ RequestsDie
  /\ UNCHANGED <<queueVars, row, enqueueError, evaluation, runs, cut, workerVars>>

\* External: no code deletes a job row, the worker reckons with it all the same.
Purge(j) ==
  /\ May("purge")
  /\ row[j] = "present"
  /\ row' = [row EXCEPT ![j] = "purged"]
  /\ UNCHANGED <<queueVars, request, enqueueError, evaluation, runs, cut, workerVars>>

-----------------------------------------------------------------------------
(* A thread of the pool: _pool_loop calls drain_once for one item at a time.*)

JobAt(w) == JobOf[item[w]]

Goto(w, label) == pc' = [pc EXCEPT ![w] = label]
GoIdle(w) ==
  /\ Goto(w, "idle")
  /\ item' = [item EXCEPT ![w] = NoMsg]

\* A step of w that leaves its item and its slot alone.
Step(w, from, to) ==
  /\ pc[w] = from
  /\ Goto(w, to)
  /\ UNCHANGED <<item, slots>>

\* receive: the thread has the item.
Take(w, m) ==
  /\ pc[w] = "idle"
  /\ Queue!Receive(w, {m})
  /\ Goto(w, "lookup")
  /\ item' = [item EXCEPT ![w] = m]
  /\ UNCHANGED <<jobVars, slots>>

\* receive took effect and its answer was lost: the lease is nobody's.
TakeRaises(w, m) ==
  /\ Sqs /\ May("reply")
  /\ pc[w] = "idle"
  /\ Queue!Receive(w, {m})
  /\ UNCHANGED <<jobVars, workerVars>>

\* _job_exists: the row is there.
FindJob(w) ==
  /\ Step(w, "lookup", "acquire")
  /\ row[JobAt(w)] = "present"
  /\ UNCHANGED <<queueVars, jobVars>>

\* _job_exists: no row; the item is ack-dropped.
DropOrphan(w) ==
  /\ pc[w] = "lookup"
  /\ row[JobAt(w)] # "present"
  /\ Queue!Ack(w, item[w])
  /\ GoIdle(w)
  /\ UNCHANGED <<jobVars, slots>>

\* try_acquire succeeds.
Acquire(w) ==
  LET p == ProcOf[w]  a == ItemAccount(item[w]) IN
  /\ pc[w] = "acquire"
  /\ slots[p][a] < PerAccount
  /\ slots' = [slots EXCEPT ![p][a] = @ + 1]
  /\ Goto(w, "scan")
  /\ UNCHANGED <<queueVars, jobVars, item>>

\* Variant with a fault: the finally that releases covers the deferral as well.
DeferReleases(w) ==
  LET p == ProcOf[w]  a == ItemAccount(item[w]) IN
  /\ pc[w] = "acquire"
  /\ slots[p][a] >= PerAccount
  /\ Queue!Nack(w, item[w])
  /\ slots' = [slots EXCEPT ![p][a] = @ - 1]
  /\ GoIdle(w)
  /\ UNCHANGED jobVars

\* The account is at its cap: nack with a short delay.
Defer(w) ==
  /\ pc[w] = "acquire"
  /\ slots[ProcOf[w]][ItemAccount(item[w])] >= PerAccount
  /\ Queue!Nack(w, item[w])
  /\ GoIdle(w)
  /\ UNCHANGED <<jobVars, slots>>

\* Outside drain_once's try: an exception of _job_exists, or of the ack and the
\* nack above, ends the call; _pool_loop logs it and polls again.  (When the ack
\* or the nack took effect, the state is that of DropOrphan or Defer.)
DrainRaises(w) ==
  /\ \/ pc[w] = "lookup" /\ May("lookup")
     \/ Sqs /\ May("queue") /\ pc[w] = "lookup" /\ row[JobAt(w)] # "present"
     \/ Sqs /\ May("queue") /\ pc[w] = "acquire"
          /\ slots[ProcOf[w]][ItemAccount(item[w])] >= PerAccount
  /\ GoIdle(w)
  /\ UNCHANGED <<queueVars, jobVars, slots>>

\* _process_item commits the source_runs of the scope, none of them 'running'.
CommitRuns(w, status) ==
  runs' = IF JobAt(w) \in DryRunJobs THEN runs
          ELSE [runs EXCEPT ![JobAt(w)][ScopeOf[item[w]]] = @ \cup {status}]

ScanSucceeds(w) ==
  /\ Step(w, "scan", "ack")
  /\ CommitRuns(w, "success")
  /\ UNCHANGED <<queueVars, row, request, enqueueError, evaluation, cut>>

\* Variant with a fault: the errors of the report are not looked at.
ScanErrorsAcked(w) ==
  /\ May("region")
  /\ Step(w, "scan", "ack")
  /\ CommitRuns(w, "failed")
  /\ UNCHANGED <<queueVars, row, request, enqueueError, evaluation, cut>>

ScanReportsErrors(w) ==
  /\ May("region")
  /\ Step(w, "scan", "retry")
  /\ CommitRuns(w, "failed")
  /\ UNCHANGED <<queueVars, row, request, enqueueError, evaluation, cut>>

\* Variants with a fault: start_run is committed on its own; the exception escapes
\* past the nack.
ScanRaisesAfterStart(w) ==
  /\ May("raise")
  /\ Step(w, "scan", "nack")
  /\ CommitRuns(w, "running")
  /\ UNCHANGED <<queueVars, row, request, enqueueError, evaluation, cut>>
ScanRaisesPastNack(w) ==
  /\ May("raise")
  /\ Step(w, "scan", "release")
  /\ UNCHANGED <<queueVars, jobVars>>

\* The collector raises: the transaction is rolled back.
ScanRaises(w) ==
  /\ May("raise")
  /\ Step(w, "scan", "nack")
  /\ UNCHANGED <<queueVars, jobVars>>

AckItem(w) ==
  /\ Step(w, "ack", "check")
  /\ Queue!Ack(w, item[w])
  /\ UNCHANGED jobVars

\* An ack that raises takes the nack path, past _maybe_run_evaluation, also when
\* the message is deleted.
AckRaises(w) ==
  /\ Sqs
  /\ Step(w, "ack", "nack")
  /\ \/ May("queue") /\ UNCHANGED <<queueVars, cut>>
     \/ May("reply") /\ Queue!Ack(w, item[w]) /\ cut' = cut \cup {JobAt(w)}
  /\ UNCHANGED rowVars

\* Variant with a fault: the nack of a report is followed by that of the except
\* branch.
NackItemTwice(w) ==
  /\ \/ Step(w, "retry", "nack")
     \/ Step(w, "nack", "release")
  /\ Queue!Nack(w, item[w])
  /\ UNCHANGED jobVars

\* nack with backoff, of a report with errors (retry) or after an exception.
NackItem(w) ==
  /\ \E from \in {"retry", "nack"} : Step(w, from, "release")
  /\ Queue!Nack(w, item[w])
  /\ UNCHANGED jobVars

\* The nack inside the try raises: the except branch nacks again.
RetryRaises(w) ==
  /\ Sqs
  /\ Step(w, "retry", "nack")
  /\ \/ May("queue") /\ UNCHANGED queueVars
     \/ May("reply") /\ Queue!Nack(w, item[w])
  /\ UNCHANGED jobVars

\* Variant with a fault: the exception of the nack skips the release.
NackRaisesLeaks(w) ==
  /\ Sqs /\ May("queue")
  /\ pc[w] = "nack"
  /\ GoIdle(w)
  /\ UNCHANGED <<queueVars, jobVars, slots>>

\* The nack of the except branch raises: the lease is left to its timeout, the
\* slot is released.  (When it took effect, this is NackItem.)
NackRaises(w) ==
  /\ Sqs /\ May("queue")
  /\ Step(w, "nack", "release")
  /\ UNCHANGED <<queueVars, jobVars>>

\* is_job_complete: as many scopes with a run as items were enqueued.
Proven(j) == {s \in ScopesOf(j) : runs[j][s] # {}}

\* Variants with a fault: source_runs are counted, not scopes; > for >=.
CompleteByRuns(j) ==
  Cardinality({x \in ScopesOf(j) \X RunStates : x[2] \in runs[j][x[1]]})
    >= Cardinality(ItemsOf(j))
CompleteStrictly(j) == Cardinality(Proven(j)) > Cardinality(ItemsOf(j))

Complete(j) == Cardinality(Proven(j)) >= Cardinality(ItemsOf(j))

\* _maybe_run_evaluation reads the job and its runs.
CheckComplete(w) ==
  /\ Step(w, "check", IF row[JobAt(w)] = "present" /\ Complete(JobAt(w))
                      THEN "claim" ELSE "release")
  /\ UNCHANGED <<queueVars, jobVars>>

\* Variant with a fault: the UPDATE does not look at evaluation_status.
ClaimableAlways(j) == row[j] = "present"

Claimable(j) == row[j] = "present" /\ evaluation[j] = "null"

\* try_claim_evaluation: UPDATE ... WHERE evaluation_status IS NULL, commit.
ClaimEvaluation(w) ==
  /\ Step(w, "claim", IF Claimable(JobAt(w)) THEN "rules" ELSE "release")
  /\ evaluation' = IF Claimable(JobAt(w))
                   THEN [evaluation EXCEPT ![JobAt(w)] = "running"]
                   ELSE evaluation
  /\ UNCHANGED <<queueVars, row, request, enqueueError, runs, cut>>

\* Every rule has run; 'failed' when one raised.
FinishRules(w) ==
  /\ Step(w, "rules", "release")
  /\ \E status \in {"success"} \cup (IF May("rule") THEN {"failed"} ELSE {}) :
       evaluation' = [evaluation EXCEPT ![JobAt(w)] = status]
  /\ UNCHANGED <<queueVars, row, request, enqueueError, runs, cut>>

\* An exception in the chain is swallowed; a claim already made stays 'running'.
EvaluationRaises(w) ==
  /\ May("evaluation")
  /\ \E from \in ChainStates : Step(w, from, "release")
  /\ cut' = cut \cup {JobAt(w)}
  /\ UNCHANGED <<queueVars, rowVars>>

\* finally: limiter.release.
Release(w) ==
  LET p == ProcOf[w]  a == ItemAccount(item[w]) IN
  /\ pc[w] = "release"
  /\ slots' = [slots EXCEPT ![p][a] = IF @ <= 1 THEN 0 ELSE @ - 1]
  /\ GoIdle(w)
  /\ UNCHANGED <<queueVars, jobVars>>

-----------------------------------------------------------------------------
(* The surroundings: processes that die, timeouts, the redrive policy.     *)

\* A process dies with its threads and its limiter; an open scan is rolled
\* back.  In inline mode it holds the queue and serves the API as well.
Crash(p) ==
  /\ May("worker_crash")
  /\ pc' = [w \in Workers |-> IF ProcOf[w] = p THEN "idle" ELSE pc[w]]
  /\ item' = [w \in Workers |-> IF ProcOf[w] = p THEN NoMsg ELSE item[w]]
  /\ slots' = [slots EXCEPT ![p] = [a \in Accounts |-> 0]]
  /\ cut' = cut \cup {JobAt(w) : w \in {v \in Workers : ProcOf[v] = p
                                                        /\ pc[v] \in ChainStates}}
  /\ IF Sqs THEN UNCHANGED <<queueVars, request>>
            ELSE Queue!Lose /\ RequestsDie
  /\ UNCHANGED <<row, enqueueError, evaluation, runs>>

Expire(m) ==
  /\ May("expiry")
  /\ Queue!Expire(m)
  /\ UNCHANGED <<jobVars, workerVars>>

Redrive(m) ==
  /\ Queue!Redrive(m)
  /\ UNCHANGED <<jobVars, workerVars>>

RequestStep(j) ==
  CommitJob(j) \/ SendItems(j) \/ SendBreaks(j) \/ MarkEnqueueFailed(j)

\* What a thread does by itself once it has an item.
ThreadStep(w) ==
  \/ FindJob(w) \/ DropOrphan(w) \/ DrainRaises(w)
  \/ Acquire(w) \/ Defer(w)
  \/ ScanSucceeds(w) \/ ScanReportsErrors(w) \/ ScanRaises(w)
  \/ AckItem(w) \/ AckRaises(w)
  \/ NackItem(w) \/ RetryRaises(w) \/ NackRaises(w)
  \/ CheckComplete(w) \/ ClaimEvaluation(w) \/ FinishRules(w)
  \/ EvaluationRaises(w) \/ Release(w)

Next ==
  \/ \E j \in Jobs : RequestStep(j) \/ Purge(j)
  \/ ApiCrash
  \/ \E w \in Workers : ThreadStep(w) \/ \E m \in Msgs : Take(w, m) \/ TakeRaises(w, m)
  \/ \E p \in Procs : Crash(p)
  \/ \E m \in Msgs : Expire(m) \/ Redrive(m)

Spec == Init /\ [][Next]_vars

(***************************************************************************)
(* Fairness.  A request runs to its end, a thread that has an item works   *)
(* on it, the pool keeps polling, so that a message the queue owes is      *)
(* received in the end (InProcessQueue!Delivered), and SQS applies its     *)
(* timeouts and its redrive policy.  Nobody promises that a request        *)
(* arrives, that a fault happens, or that it does not.                     *)
(***************************************************************************)
Fairness ==
  /\ \A j \in Jobs :
       WF_vars(SendItems(j) \/ SendBreaks(j) \/ MarkEnqueueFailed(j))
  /\ \A w \in Workers : WF_vars(ThreadStep(w))
  /\ \A m \in Msgs :
       /\ SF_vars(\E w \in Workers : Take(w, m))
       /\ WF_vars(Expire(m))
       /\ WF_vars(Redrive(m))

FairSpec == Spec /\ Fairness

\* The faults are transient: a region that is scanned again and again is
\* scanned without an error in the end.
Recovery ==
  \A m \in Msgs : SF_vars(\E w \in Workers : item[w] = m /\ ScanSucceeds(w))

RecoveringSpec == FairSpec /\ Recovery

-----------------------------------------------------------------------------
(* Properties.                                                             *)

\* Rules run only on a job whose every scope has a committed source_run:
\* although items are counted and scopes are compared, is_job_complete never
\* lets a claim through while a scope is unscanned, whatever is redelivered,
\* retried or still in flight (collect_jobs.py:80-97, worker.py:169-195).
EvaluationHasProof ==
  \A j \in Jobs : evaluation[j] # "null" => Proven(j) = ScopesOf(j)

\* One thread of all the processes evaluates a job, the row says 'running'
\* while it does, and a terminal status means nobody is at it any more
\* (collect_jobs.py:144-158).
OneEvaluator ==
  \A w \in Workers : pc[w] = "rules" =>
    /\ evaluation[JobAt(w)] = "running"
    /\ \A v \in Workers :
         pc[v] = "rules" /\ JobAt(v) = JobAt(w) => v = w

\* The limiter's count of an account is the number of threads of the process
\* between acquire and release, on every path of drain_once: no slot leaks and
\* none is released twice, so the cap holds and no account starves
\* (worker.py:123-139, 309-343).
SlotHolders(p, a) ==
  {w \in Workers : /\ ProcOf[w] = p
                   /\ pc[w] \in SlotStates
                   /\ ItemAccount(item[w]) = a}

LimiterExact ==
  \A p \in Procs, a \in Accounts :
    /\ slots[p][a] = Cardinality(SlotHolders(p, a))
    /\ slots[p][a] <= PerAccount

\* No item leaves the queue as processed unless a scan of its scope under its
\* job was committed as a success, it was a dry run, or its job row is gone:
\* an expired lease, a second delivery or an exception never turns into an
\* ack without a scan (worker.py:289-343).
AckedMeansScanned ==
  \A m \in Msgs : place[m] = "done" =>
    \/ "success" \in runs[JobOf[m]][ScopeOf[m]]
    \/ JobOf[m] \in DryRunJobs
    \/ row[JobOf[m]] = "purged"

\* A worker never meets an item whose job row was not committed yet, at any
\* interleaving of the request and the workers (routers/aws.py:225-229).
NoOrphan ==
  \A m \in Msgs : place[m] # "unsent" => row[JobOf[m]] # "absent"

\* A 202 means every item was sent and a 503 that the row says so; nothing is
\* enqueued and forgotten by a request that got to its end (SRE-4,
\* routers/aws.py:266-274).
RequestAccountedFor ==
  \A j \in Jobs :
    /\ request[j] = "accepted" => \A m \in ItemsOf(j) : place[m] # "unsent"
    /\ request[j] = "refused" <=> j \in enqueueError
    /\ j \in enqueueError => row[j] # "absent"

\* In the in-memory queue, whose leases never expire, a thread that has not settled
\* its item yet is the one that holds it: no path of drain_once settles an item
\* twice, so no settlement ends the lease of another thread (worker.py:297-341,
\* collect_queue.py:192-209).
OneHandler ==
  ~ Sqs => \A w \in Workers : pc[w] \in HolderStates =>
             place[item[w]] = "leased" /\ holder[item[w]] = w

\* Every item that was sent is scanned and acked, if scans recover, unless the
\* process that holds the queue dies: what fails, is deferred or waits behind
\* others comes back (worker.py:8-16).  The in-memory queue promises this only as
\* long as _job_exists does not raise: that call stands outside the try block
\* (worker.py:303), the item is then neither acked nor nacked, and it stays leased
\* for ever.
EveryItemAcked ==
  \A m \in Msgs : (place[m] # "unsent") ~> (place[m] \in {"done", "lost"})

\* However often scans fail, queue calls raise, leases expire or the cap defers,
\* SQS settles every item: it is acked or parked where the alarm sees it, never
\* redelivered for ever (infra/sqs.tf:45-51).
EveryItemSettled ==
  \A m \in Msgs : (place[m] # "unsent") ~> (place[m] \in {"done", "parked"})

\* The request of a job was answered 202, and all of its items are acked.
AllAcked(j) ==
  /\ request[j] = "accepted"
  /\ \A m \in ItemsOf(j) : place[m] = "done"

Evaluated(j) == evaluation[j] \in {"success", "failed"}

\* A job whose items are all acked is evaluated to its end: whoever acks last sees
\* every scope and claims, whatever was delivered twice, unless a thread of the job was
\* stopped between its ack and the end of the rules (worker.py:34-38, 169-218).
\* Then nobody takes over: the code leaves 'running', or nothing, for the operator
\* to see, and this property says nothing of the job.  A dry run writes no
\* source_runs, and of a scope requested twice there are more items than scopes:
\* neither kind of job is ever complete.
UncutJobEvaluated ==
  \A j \in Jobs \ DryRunJobs :
    Cardinality(ScopesOf(j)) = Cardinality(ItemsOf(j)) =>
      (AllAcked(j) ~> (Evaluated(j) \/ j \in cut))

-----------------------------------------------------------------------------
(* The inductive invariant behind the safety properties: what a thread may *)
(* rely on at each place of drain_once.                                    *)

\* A thread that is not idle holds an item whose job row was committed.
ItemInHand ==
  \A w \in Workers : pc[w] # "idle" =>
    item[w] \in Msgs /\ row[JobAt(w)] # "absent"

\* A request has a row from its first commit on, before it gets to its send.
RowBeforeSend ==
  \A j \in Jobs : request[j] # "none" <=> row[j] # "absent"

\* Whoever is about to claim has seen every scope with a run.
ClaimHasProof ==
  \A w \in Workers : pc[w] = "claim" => Proven(JobAt(w)) = ScopesOf(JobAt(w))

\* Whoever is about to ack has committed a successful scan, or a dry run.
AckHasScan ==
  \A w \in Workers : pc[w] = "ack" =>
    \/ "success" \in runs[JobAt(w)][ScopeOf[item[w]]]
    \/ JobAt(w) \in DryRunJobs

Inv ==
  /\ TypeOK /\ ItemInHand /\ RowBeforeSend /\ NoOrphan
  /\ ClaimHasProof /\ EvaluationHasProof /\ OneEvaluator
  /\ AckHasScan /\ AckedMeansScanned
=============================================================================
