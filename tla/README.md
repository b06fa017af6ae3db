# Constat: TLA+ models, checks and proofs

Constat collects AWS and billing data, derives facts, and runs rules that emit insights ("this
database will enter paid Extended Support"). A wrong "resolved", a retired resource that is
still there or an acknowledged item that was never scanned is invisible to the operator, so the
models here are about the places where collection, evaluation and the database interleave.

## 1. The system

| Component | Source (under `src/`) | State it keeps | Operations | Status |
|---|---|---|---|---|
| Collect queue | `apps/api/.../collect_queue.py`, `infra/sqs.tf` | ready, delayed, in-flight entries; or an SQS queue with redrive | send, receive, ack, nack | partly: contract and in-process queue |
| Collect request | `routers/aws.py` | `collect_jobs` row, `enqueue_error` | validate, commit the row, enqueue | partly: without validation |
| Worker pool, job chain | `worker.py`, `repositories/collect_jobs.py` | threads, per-account limiter, `evaluation_status` | drain_once, claim, evaluate | modelled |
| Region scan | `collectors/aws.py`, `repositories/source_runs.py`, `resources.py`, `accounts.py` | `source_runs`, `resources.last_seen_at`, `retired_at`, `accounts` | collect_target, start/finish run, upsert, retire | partly: without PII and audit rows |
| Facts and replay | `repositories/facts.py`, `observations.py`, `cli/replay_facts.py` | current facts, observations | upsert, correlation post-pass, replay | partly: observations of databases only |
| AWS collectors | `packages/connectors/aws_ec2`, `aws_rds` | none | items to facts | partly: what becomes a fact |
| Rules | `packages/core/.../insights`, `catalog`, `packages/insights/*` | none (pure) | facts to verdict and amount | modelled |
| Insight runner | `insights/runner.py`, `insights/reconcile.py`, `repositories/insights.py`, `insight_events.py`, `inconclusive.py`, `routers/insights.py` | insights, inconclusives, events, `insight_runs`, acks | run_resource_rule, reconcile_with_focus, PATCH | partly: without payloads |
| FOCUS ingest, chargeback | `packages/connectors/focus`, `repositories/focus_charges.py`, `packages/insights/chargeback` | charges, their tag rows and costs | load, aggregate, upsert, attribute | partly: without dialects |
| Idempotency cache | `idempotency.py`, `routers/*.py` | bounded map with expiry | get, put | modelled |
| Command line | `cli/aws.py`, `cli/run_insights.py` | none of its own | a scan, an enqueue, a run | partly: its scan is a session of `ScopeScan` |
| Retention, PII, audit; stuck-run cleanup; tenancy, auth, middleware; targets, onboarding; read API; web UI; schema, infrastructure | see `PROJECT.json` | | | not modelled (section 5) |

How they interact. `POST /collect/aws` commits a job row and sends one work item per (account,
region). Pool threads receive items, check the job row, take a per-account slot and run the
collector in one database transaction: a `source_run` per resource type, resources and facts, and
retirement of what two successful scans missed. A clean report is acked, anything else is nacked
with backoff. After an ack the thread asks whether every scope of the job has a run and, if it wins
a conditional UPDATE on the job row, runs every rule. A rule deletes its former insights and writes
new ones, carries the operator's acks over and records what appeared and what was resolved. FOCUS
exports come in through the CLI and become charges, from which the chargeback run draws the cost of
each service and tag. The API, the CLI and workers of other processes do the same things at the same
time; Postgres at READ COMMITTED and its unique indexes are what they share.

What is hard: two workers finishing a job together; leases that expire under a running scan; stale
receipts; a lost reply or a death between any two of commit, send, ack, claim and evaluate; sessions that wait for
one another's scopes; retirement that compares timestamps of overlapping transactions; runs of one
rule that overlap and take each other's rows one by one; acks that must follow a gap whose title changes every day; verdicts drawn from
facts of different scans and ages, with a replay writing older ones; ingests that overlap where no
constraint keeps two charges of one bucket apart; a cache between two requests that retry. `PROJECT.json`
("hazards") lists each at its line, with the properties that cover it or the reason why none does.

What makes each part correct:

- *Queue*: entries are neither lost nor duplicated, delays and the bound hold, nobody is starved.
- *Request*: rows come before items; a 202 or a 503 tells the truth.
- *Workers*: no ack without a scan; limiter slots are exact; items settle.
- *Job chain*: rules run once, with every scope proven, and do run.
- *Scan*: retirement has two scans behind it; a clean report is true; sessions end.
- *Facts and rules*: an undisturbed full scan tells the truth; nothing is an orphan because a
  scan failed; facts are those of the newest observation; deadlines only escalate.
- *Runner*: one row per resource, acks that stand, a log that agrees with the table, runs that end.
- *Ingest and chargeback*: the newest export replaces, and every cent is attributed once.
- *Idempotency*: a retry gets the first answer, and no answer to another endpoint or another key.

## 2. The modules

### WorkQueue
The contract of `collect_queue.py`'s Protocol: where each message is (`unsent`, `waiting`, `leased`,
`done`, `parked`, `lost`), who holds it and how often it was delivered. `LeasesExpire` and
`MaxReceives` tell the SQS queue from the in-process one. It is the abstract specification that
`InProcessQueue` implements and the queue that `CollectPipeline` instantiates. The SQS queue has no
module of its own: its code calls AWS, and what AWS does is the contract. In the contract a nacked
message may be received at once, so the pipeline is checked for every length of the backoff.

### InProcessQueue
The class of that name; its methods run under one lock and are one step each: `Send`, `Receive` (with
`_promote_due`), `Ack`, `Nack`, and `Tick` for the monotonic clock. A message stands for its
receipt, which survives redelivery. Consumers use the receipts they hold and those they acked, as
the exception handler of `drain_once` does. `KeepsContract` is the refinement to `WorkQueue`.

### CollectPipeline
Request (`CommitJob`, `SendItems`, `SendBreaks`, `MarkEnqueueFailed`), thread (`Take`, `FindJob`,
`DropOrphan`, `Acquire`, `Defer`, the three outcomes of a scan, `AckItem`, `NackItem`,
`CheckComplete`, `ClaimEvaluation`, `FinishRules`, `Release` and the raising variants of each) and
surroundings (`Crash`, `ApiCrash`, `Expire`, `Redrive`, `Purge`). `pc[w]` names the place in
`drain_once`; a step ends where another actor can come in between: a queue call, a commit, the
limiter's lock. A scan is one transaction and hence one step. `Faults` says which faults a run has.
A call of SQS that raises may have done nothing (`queue`)
or have taken effect with its reply lost (`reply`): `TakeRaises` leaves a lease that nobody knows of, `AckRaises`
nacks a message that is deleted and goes past the evaluation, `RetryRaises` and `NackRaises` are the nacks inside and
outside the `try`. `cut` is a history variable, the jobs of which a thread was cut short between an ack and
the end of the rules (a lost reply, an exception of the chain, a death).

### ScopeScan
What happens inside that step: sessions that go through the regions and resource types of a target.
`tx[w]` holds the uncommitted writes of a session, which only it reads; `Commit` publishes them,
`Dies`, `EndDryRun` and `DeadlockVictim` drop them. `StartRun` waits while another transaction has a
'running' row of the scope (`uq_source_run_active`), and so does `InsertAccount`. Time is the number
of transactions begun: `started_at` is `now()`, which Postgres fixes at the begin of a transaction,
and `last_seen_at` is the clock at the sight. **The clocks of worker and database are taken to agree.**
Deadlocks among waiting sessions are found and resolved by the database (`Deadlocked`, external).

### InsightRun
`run_resource_rule` as a session at READ COMMITTED, a statement per step: the row of the run, the list of resources,
the snapshots of fingerprints and acks, the DELETE of the insights, the DELETE of the inconclusives, the facts, the
evaluation of each resource, the UPDATEs of `reconcile_with_focus` and of `apply_acks_to_rule`, the events and the
commit. A DELETE aims at what is committed when it starts and takes its rows one at a time and in any order
(`DeleteRow`); so do the UPDATEs (`UpdateRow`). A row that another session holds must be waited for, with the rows
taken so far still locked (`Locked`, `Free`); sessions that wait in a circle are found by the database, which
fails one of them (`WaitsFor`, `Deadlocked`, `DeadlockVictim`, external). An UPDATE whose row has gone raises
(`TargetGone`). Which rows of others `reconcile_with_focus` updates depends on FOCUS data and is arbitrary.

Around it facts change, scopes become doubtful and operators PATCH, at any moment. What the facts say of a
resource is one of a few titles, "no gap", or a doubt. The PATCH never commits, so with `SharedSession = FALSE` it
leaves the table alone. `SharedSession = TRUE` is the set-up of the repository's tests, in which the operator and the one
run share a session and the run sees the ack; no run assumes it, and the theorems hold for both. `decision` and `alone` are history
variables: a decision ends only when a run finds the gap closed (`GapClosed`), not when it is in doubt about it.
`run_chargeback` takes the same steps with buckets for resources.

### Catalog and Rules
Pure modules. `Catalog` is `catalog/aws.py` and the price grids: calendar dates as day numbers, the
EOL tables with the three ways their dates come about (published, computed from the EOL, none), the
tiers, prices per region with the fallback to `us-east-1`, vCPUs by instance class, money in cents.
`Rules` is the seven rules: EOL (`parse_major`, severity, cents, the reasons for INCONCLUSIVE) for
RDS, MySQL and Aurora, and the storage rules, on facts that are functions from the KNOWN keys. An
engine version is the sequence of its parts, with a mark for the part `mysql_aurora`.
Prices are exact integers (thousandths of a cent), amounts are rounded to cents where the code
rounds; the rounding of float intermediates is left out.

### Evidence
From an account to a verdict: `Moves` (the account changes, also between the jobs of a pass), `Begin`,
`ScanJob`, `Commit` and `PassFails` (one pass over a region, with its correlation
post-pass), `ReplayReads` and `ReplayWrites`, and days that go by. `Verdict` composes the scope check of
`runner.py` with `Rules`. It is the place where "absence of proof is not proof of absence" is tested.
An observation has the number of its pass for its date: a pass observes a database once, so the numbers
order the observations of a database as `collected_at` does. `Newest` is what a replay takes.
`Evidence` EXTENDS `Rules`; what two passes do to one scope is `ScopeScan`'s.

### Chargeback
Sessions that ingest an export, statement by statement (SELECT of the former charges, INSERT or UPDATE of
a charge, DELETE and INSERT of its tag rows, commit, or a failure at any of them), and chargeback runs
that read charges, tags and costs by three SELECTs at READ COMMITTED. The loader, the aggregation by
canonical service, the strict `zip`, the attribution by the costs of input rows or by row count, the
grouping and the service that an insight displays (`Names`, with the canonical names that charges note on groups, in
the order they were read) are operators. A cost is one integer, negative for a refund, that stands for both amounts of a
row; a text that does not parse is the constant `NotADecimal`. Rows are picked out of an export by their numbers
(`SelectRows`), in their order. The id of a charge is the ingest that inserted it and the place of its bucket in that
ingest: like the sequence's number it is used once, also when the ingest fails. `Over` and `Put` are what a
session sees of what it wrote, over what is committed. Buckets two overlapping ingests share are in `raced` once the
second commits: only of the others does the newest export promise anything.

### Idempotency
A request to either endpoint arrives (`Arrive`), finds an answer in the cache (`Hit`) or does not (`Miss`), works
(`Work`, `WorkFails`) and stores its answer (`Put`, which expires and evicts). `Tick` is the clock, `Restart` empties
the store with its process. `get` and `put` are one step each, under the cache's lock; the work between them is not.
The dict is a function from the number of the put that inserted a key, which is the order of the dict: an
assignment to a key that is there keeps its place, and eviction takes the smallest number (`First`).

### MC modules and proof modules
The `MC_` modules give the constants that a `.cfg` cannot write, and the symmetry sets. The `_proofs`
modules hold theorems. Definitions whose comment says "variant with a fault" are never part of a
specification: each is what a plausible slip in the code would make of its neighbour, and with it in
place the property listed under "mutants" must fail.

## 3. The runs

| Run | Instance | What it shows |
|---|---|---|
| `inprocess_queue` | 4 messages, room for 3, 2 consumers, delays 0 and 2 | accounting, capacity, leases, delays, refinement to `WorkQueue`, no starvation |
| `pipeline_inline` | one process, 2 threads, a job of two accounts and a dry run | the inductive invariant `Inv`, limiter, answers and receipts under failed sends, scans, rules and crashes; every item is acked once scans recover |
| `pipeline_sqs` | 2 processes, 2 items of one account, 2 receives | the same safety under expired leases, double deliveries, queue and database errors, lost replies, crashes, purges |
| `pipeline_live` | 2 threads under a cap of one, SQS | items settle though no fault ever stops, and a job whose items were acked is evaluated unless a thread was cut short |
| `insight_serial` | 2 resources, 2 titles, every verdict, exceptions, rollbacks, PATCHes, one session | one row per resource; the log agrees with the table |
| `insight_overlap` | 2 sessions, 1 resource, 4 run ids | runs that wait for each other's rows all end, and what they leave is healed by the next lone run |
| `insight_ack_uncommitted` | the PATCH as it is | *violation*: the answered ack is not there |
| `scope_scan` | 2 sessions, 3 transactions, 4 targets, failing regions, deaths | retirement has its proof, clean reports are true, every session ends; the inductive invariant `ScanInv` |
| `idempotency` | 2 requests, 2 endpoints, 2 header values, 2 entries | the cap, answers of the own key only, retries replay |
| `evidence` | a database of six kinds on the days its verdict turns, or a volume, a snapshot and an instance; 2 passes, 2 changes, replays | an undisturbed scan tells the truth, orphans were missed by a full scan, facts are the newest, deadlines escalate |
| `chargeback` | 5 exports, 2 sessions, 3 ingests, 2 runs | the newest export replaces what it covers; quiet runs add up, in total and by tag, under the right names |
| `chargeback_untagged` | the same, one run | *violation*: cost without a tag is lost in mixed buckets |

Why the bounds are enough to be of interest. Two threads (sessions, consumers) give every pairwise
race; two receives let an item expire, come back and be parked; three transactions are needed for a
retirement (two successful scans) with a third that overlaps either of them; `MaxErrors = 1` opens
the circuit breaker within a two-region target; four run ids let two overlapping runs meet two rows that earlier
overlaps left, which is what it takes to wait in a circle (two DELETEs that each have one, or a DELETE
that has one and an UPDATE that has the other: both occur), and be followed by a lone one. Two passes let the second fail, or miss a job, over what the first left, and two changes
of the account fall into one pass or between two; a database is looked at on the day before and the day
of every turn of its verdict (alert window, EOL, third year, end of support), as nothing happens on the
others. Three ingests let two overlap and a third follow, with exports that shrink, change their tags,
share a canonical service, do not parse or mix currencies. Two cache entries for four keys make
evictions, expiry (`Ttl = 1`, four instants) and overwriting at capacity happen in every order.

Run ids are reused when nothing refers to them any more, so `insight_*` have no bound on the number of
runs; `CollectPipeline` and `InProcessQueue` have none on the number of deliveries, which are told
apart up to `CountCap` and `AttemptCap`. Bounds of the models themselves are
`MaxScans` (transactions that begin), `MaxPasses` and `MaxMoves` (`Evidence`), `MaxIngests` and `MaxRuns`
(`Chargeback`), `MaxTime` and `MaxAnswers` (`Idempotency`), and the sizes of the constant sets. The
largest runs have two to six million distinct states.
Deadlock is not checked: all these systems may come to rest, and the liveness properties say
what must have happened by then.

### Fairness, and why

- `Polling`, `Tick`: `_pool_loop` calls `receive` again whatever happened before; time passes.
- `WF(ThreadStep)`, `WF(SessionStep)`, `WF(RunStep)`: code that has started goes on until it ends or
  dies; lists from AWS are finite; Postgres wakes whoever waits for a lock.
- `SF(TakeRow)` (`insight_overlap`): Postgres queues those who wait for a row, so a session that is passed over again and
  again gets it in the end. A deadlock is detected, which is part of `WF(RunStep)`.
- `SF` on taking each message: a queue that owes a message delivers it in the end though threads come
  and go; for the in-process queue this is what `Delivered` shows. For SQS it is AWS's promise.
- `WF(Expire)`, `WF(Redrive)`: SQS applies its timeout and its redrive policy.
- `Recovery` (only in `pipeline_inline`): a scan that is tried again and again succeeds in the end.
  `pipeline_live` does without it.
- No fault is fair but the expiry of a lease nobody settles; the `Faults` of each `.cfg` are those a run has.
  `pipeline_inline` is without `lookup`, under which an item may never be acked (section 6), and with
  a death of the process, which `EveryItemAcked` exempts as it takes the queue along.
- `UncutJobEvaluated` says nothing of a job in `cut`: after a death, a database error or a lost reply between an ack and the
  end of the rules it stays unevaluated or 'running' for ever (section 6).
- `insight_overlap` is without `fail`: a run that dies ends, and `raise` and `doubt` add no wait.

## 4. What is proved

Each proof module proves an inductive invariant, or several, for **every** value of the constants that
satisfies the named `ASSUME`s of its module. These say what the code and its data are like: sets of faults,
positive caps, well-typed maps, finite sets of messages and workers; non-empty targets with at least one
resource type; batches without a message twice; resources of one type each, targets that list known jobs
(`FleetsAssumption`); exports that are sequences of rows with finitely many tags and an amount that is an integer
or `NotADecimal` (`ExportsAssumption`, `NotADecimalAssumption`); snapshots that name a volume, resources that have a state, volumes with a type and a
size, attached volumes that are there (`AccountAssumption`, what the AWS API says of an account); at least
one run id and one endpoint (`RunIdsAssumption`, `ScopesAssumption`). TLC evaluates these assumptions in
every run and checks on its instances the properties that are proved, and of the strengthenings `Inv`
and `ScanInv`; the others live in the proof modules. Two theorems have a hypothesis on top, named in
their statement and met by the run that checks the same property: `Solo`.

`CollectPipeline_proofs` (any jobs, items, threads, processes, both modes, any redrive budget, any faults):

- `Invariant`: `Spec => []Inv`. The safety properties are not inductive by themselves. `EvaluationHasProof`
  needs `ClaimHasProof` (a thread between the check and the UPDATE still has its proof, because runs
  are never taken away); `AckedMeansScanned` needs `AckHasScan`; `NoOrphan` needs `RowBeforeSend`;
  all of them need `ItemInHand`.
- From it `TypeCorrect`, `RowsComeFirst` (`NoOrphan`), `EvaluationProven` (`EvaluationHasProof`),
  `SingleEvaluator` (`OneEvaluator`), `AckedScanned` (`AckedMeansScanned`).
- The step from counting to proof ("as many scopes as items, hence all scopes") is the lemma that a
  finite set's image is no larger than the set and that a subset of full size is the set.

`ScopeScan_proofs` (any sessions, resources, targets, faults, number of transactions):

- `Invariant`: `Spec => []ScanInv`, from which `RetirementProven` (`RetiredHasProof`) and `TypeCorrect`.
- The argument: scopes are held by one session at a time and it writes to no other (`WritesHeld`); what
  a run saw has a `last_seen_at` no older than the run's start, committed, uncommitted and in the
  scan under way (`SawIsSeen`); hence what is older than the older of the two latest runs was seen by
  neither (`StaleIsUnseen`). A mark made in a transaction stays justified until the commit because
  other sessions commit runs of other scopes only (`MarksHaveProof`), and later runs that see the
  resource clear it. The lemma `StillUnseen` carries a mark over any further runs that missed the resource.
- `CleanReports` (`CleanReportMeansScanned`) needs `BehindIsScanned`: while a session has had no error,
  every scope behind the place of its loops has an uncommitted successful run of the session's own transaction.
  The circuit breaker ends the loops early, but never without an error. The commit publishes the runs.

`PipelineLimits_proofs` (on top of `CollectPipeline_proofs`):

- `LimiterCounts` (`LimiterExact`): the threads between acquire and release, as a set, grow and shrink by one
  thread exactly where the counter moves, and a crash empties both. No strengthening is needed but the
  types: the property is about sets of `pc` values, and the work is to show that no other step of
  `drain_once` enters or leaves them.
- `AnswersTrue` (`RequestAccountedFor`): an accepted request has sent everything and nothing is unsent; the
  mark `enqueue_error` and the answer "refused" come in one step, after the row.
- `HandlersAlone` (`OneHandler`): in inline mode a thread that may still settle its item has its lease, so no item is in two
  hands. It holds under every fault, a failing `_job_exists` included. The converse, that a leased item is in
  somebody's hands, is false (section 6) and no property.

`InProcessQueue_proofs` (any messages, batches, consumers, delays, capacity):

- The two lists are looked at as one sequence, ready followed by delayed, and `Partition` says that it has no
  duplicates and that it, the entries in flight and the acked ones are disjoint and together what was sent.
  A receive takes a prefix away, send and nack put something into the middle, promotion and the clock change nothing.
  `StaleAcked` (a receipt that is used again belongs to an acked message) makes leases inductive.
- From it `NothingLost` (`Accounted`, with the counts: a sequence without duplicates has as many elements as
  places), `CapacityKept`, `LeasesKept`, and the refinement `ImplementsContract` (`Spec => KeepsContract`):
  each method is one operation of `WorkQueue`, the clock a stutter.
- `DelaysKept` (`DelayHonoured`) adds that the delayed list is `Sorted`. Only then is what `_promote_due` takes, a
  prefix, all that is due, and only then does the count of the entries that are no later than a new one say
  where the sort puts it. The lemma `Prefix` (a set of places that has with a place all before it is an
  initial segment as long as the set is large) turns both counts into places.

`Evidence_proofs` (any fleet, volumes, snapshots, number of passes and days):

- `AbsenceInvariant`: a `volume_exists` that is KNOWN and false was written by a pass whose full volume scan did
  not return the volume; snapshots keep the name of their volume through changes and scans. From it
  `OrphanProven` (`OrphanWasMissed`), through all of `Rules`' `SnapshotOrphan`.
- `Types`, with `Shapes`: the facts of a resource are a function on the keys of its kind.
- `NewestRules` (`FactsFromNewest`). `Observed`: the passes number the observations of a database, so there is a newest, and
  a pass under way has none yet. `Held`: a pass holds a database as the API described it, from which both the facts
  and the observation are made, and `_payload_to_db` undoes `db_to_observation`. `Selected`: what a replay
  has read includes the newest, unless a pass has committed since. `Plain`: no correlation writes to a database.
- `Escalates` (`EscalatesOnly`) is about `Rules` and `Catalog`: lemmas on each table's dates (the year-three tier
  never before year one), on severities and on prices (the third year costs no less) make the verdict of every
  engine monotone in the day, for whatever facts the invariant allows.
- `QuietTruth` (`QuietScanTellsTruth`): `HeldAsIs` (while the account stands still a pass holds what is there,
  and all of what a finished job was to see), `ToldAsIs` (then the facts are the account's, with the correlation's
  own keys right once the volumes were scanned in full), `Attached` (what is attached to an instance
  is there). The rest is that each storage rule says of such facts what is wasted and nothing else.

`InsightRun_proofs` (any resources, titles, decisions, sessions, run ids, faults):

- `Types` (`TypeOK`): with `Locks` (a row is locked by one session at most, which deletes or updates it), `Listing` (what is
  listed was scanned) and `Fresh` (nothing is read before the first SELECT).
- `LoneRuns` (`LoneRunReplaces`), for any number of sessions: with `Running` (the row of a run under way is open),
  `Emissions` (a run inserts only its own rows, one per resource it judged) and `Alone` (while a run overlaps with none, its
  two DELETEs, row by row, meet every row there is).
- `OneRow` (`OneRowPerResource`) and `Ledger` (`LedgerTrue`), under `Solo` (one run at a time; overlaps do
  leave duplicates, section 6). The argument: what the run read before its DELETEs is still the table it diffs
  against, as a PATCH changes no fingerprint and no other run commits.
- No theorem is about acks: that they stand, or that "resolved" means a closed gap, is false
  (section 6).

`Idempotency_proofs` (any requests, endpoints, header values, TTL, capacity, number of answers):

- `CacheInv`: an entry is the latest answer to its key, no two have one key (`Entries`), and the latest answer
  of a lone request is in the store at the place of its own put until it expires or `MaxEntries` puts came after it
  (`Held`): eviction takes it only when the store is full and all other entries are younger, so that the put
  that evicts it is the one that the count of `MaxEntries` excludes. From it `Cap` (`WithinCap`), `OwnAnswers`
  (`AnswersOwnKey`) and `Retries` (`RetryReplays`, an action property).

`Chargeback_proofs` (any sessions, exports, catalog, tag keys, number of ingests and runs):

- A session is reasoned about on its record, apart from the others: `View` and `SeenTags` are what it sees,
  `Writes` says that it writes to charges of its own buckets only, `Found` that the charge it found is still the one
  of the bucket, `Replaced` that every bucket it is done with has one charge with the amount, the currency and the tag rows
  of its export. The last two except what is in `raced`: there the property is false, as two first ingests
  of one bucket leave two charges (section 6).
- `IngestsCorrect`: `Spec => []IngestInv`. A step of a session keeps its own `SessionInv` (`InsertStep`, `UpdateStep`) and
  touches no other record. Only a commit changes what the others see; `CommitStep` is the lemma that it keeps their
  invariants, because what is seen of a bucket that was not ingested stays the same (`SameFor`, `OtherSame`) and a
  bucket that was ingested joins `raced`. An UPDATE writes the columns that differ from what was *loaded*, on
  the row as it is *now*; `Found` makes the two the same (`UpdatedRow`). From it `Solo` (`SoloIngestsReplace`).
- `RunsCorrect` adds the runs: what a quiet run has read is what is stored (`QuietReads`). From both, `TypeCorrect`.
- `AddsUp` and `Tagged` (`QuietRunAddsUp`, `TaggedCosted`) equate sums over insights with sums over input rows.
  The charge of a bucket is the only one that gives to the groups of its service and period (`GroupFrom`); what is read of its
  tags and costs is what the rows have, at every index that has a tag row (`ReadOf`), so tags and costs have one
  length and the strict `zip` cannot raise. The amounts of a value and the rows that have it are then in bijection, by
  the index. Rows without the tag are not: their cost may be read as 0, which is the finding.
- The sums are folds, so the induction is over finite sets. It is done without an induction theorem: of the
  subsets for which a claim fails one has the least cardinality (`FiniteInduction`). On this rest that a sum is one of its terms
  and the sum of the others, whichever it is (`SumStep`, `SumRemove`), and that a bijection keeps it (`SumBijection`).

Only model-checked: all liveness, as temporal reasoning with fairness and ENABLED is out of the prover's
reach. Every safety property of every passing run is a theorem.

## 5. What is not modelled, and why

- Retention: it deletes rows by an age of months, when every verdict is `scope_stale` already; no modelled
  part reads what it deletes. PII and audit rows: single inserts that follow the scan's transaction.
- `force`, "scan already in progress" and `cleanup_stuck_runs`: on Postgres the 'running' row is never
  committed, so none of the three can be reached; a second session waits at its INSERT instead.
- Tenancy and authentication: enforced by the database per statement or checked per request.
- Observations of volumes, snapshots and instances (nothing replays them), dry-run replays, the dialects
  of cost exports, the coverage endpoint, the FOCUS context in payloads.
- Collect targets and onboarding: a CSV upsert by natural key; the pipeline starts from any targets.
- Pagination, retries and credentials of the AWS clients: what a scan sees is arbitrary in `ScopeScan`, and
  complete or failed in `Evidence`.
- Reads, the web UI, the text of titles, messages, metrics and logs.

## 6. Where code and documents disagree

Shown by a run (findings in `PROJECT.json`):

- The PATCH of an ack never commits (`routers/insights.py:281`, against lines 235-236).
- Cost of input rows without the tag is lost in a bucket where another row has tags
  (`focus_charges.py:169`, against `resolver.py:215`).

Met while modelling; no run shows them, and where a property would be false of them it is checked without or says
that it exempts them.

Pipeline:

- `_job_exists` stands outside the try block (`worker.py:303`), so its failure neither acks nor nacks, against
  "same nack path" and "acked or nacked on its own outcome" (`worker.py:14-16`, 286-287); in inline mode the item stays
  in flight for ever. `pipeline_sqs` and `pipeline_live` have this fault, where the lease runs out.
- A DeleteMessage that took effect and whose reply is lost skips the evaluation, and no delivery is left to make up for
  it (`worker.py:324`, against lines 34-37); `UncutJobEvaluated` exempts such a job.
- Deferrals by the per-account cap use up SQS receives, so an item may be parked without ever being
  scanned (`worker.py:316`, against `infra/sqs.tf:47-48`).
- A job whose last scope fails is complete and evaluated by nobody (`worker.py:327`, against `collect_jobs.py:85-87`).
- A failed run counts as done, so the ack of another item starts the evaluation before the failed item's
  retry (`collect_jobs.py:16` speaks of the last work item acked).
- A receipt used again after a *nack* ends the newer lease, although `collect_queue.py:139-140` calls it
  a no-op; no caller does it.
- A target that names a region twice makes two items of one scope, and its job is never complete (`routers/aws.py:60-80`).
- A death or database error after the claim leaves `evaluation_status` 'running' for ever.
- `--enqueue-all` in inline mode fills the queue of a process that ends (`cli/aws.py:108`).

Requests:

- Two overlapping requests with one key both work (`routers/aws.py:305-346`, against `idempotency.py:11-13`).
- Overwriting a key at capacity evicts an unrelated entry (`idempotency.py:87`).

Scan and facts:

- "retired <=> unseen by both" (`resources.py:130`) holds in one direction only: a scan that began
  early and waited may leave a resource unmarked that the next scan marks.
- "Partial progress survives" (`collectors/aws.py:497-498`): a flush is not a commit, so the regions of one
  target stand or fall together.
- A failed volume scan leaves `volume_exists` and `attached_volumes` of an earlier pass KNOWN
  (`collectors/aws.py:588`, against lines 586-587: "degrades the rules to INCONCLUSIVE").
- A volume and its snapshot made between the volume scan and the snapshot scan of one pass are an orphan
  until the next pass.
- A replay that overlaps a scan writes older facts over newer ones (`facts.py:3-5`).
- An empty description makes `snapshot_orphan` INCONCLUSIVE always; one volume is counted by both
  `ebs_unattached` and `ec2_stopped_with_storage` when it was detached between the jobs of a pass.
- The third-year tier of standalone PostgreSQL is counted from its EOL, that of Aurora from published dates.

Runner and chargeback:

- One INCONCLUSIVE run, or an evaluation that raises, loses the ack of an open gap (`repositories/insights.py:297`,
  against ADR-16, line 51, and `insights.py:178-181`).
- A resource that turns INCONCLUSIVE is recorded as resolved while its gap is open (`insight_events.py:96`, against
  lines 66-69).
- The split by tag is by the costs of the input rows, as its docstring says (`resolver.py:199-203`, proved as `Tagged`), while
  `docs/insights/chargeback.md:341-346`, `docs/data-model.md:217-221`, `docs/development/known-issues.md:108-113`
  and `docs/architecture.md:234-238` say by their number, 50 each instead of 3 and 97.
- The fallback for charges whose per-row costs were not read gives its canonical name to every group so far
  (`resolver.py:288-290`, against lines 234-236 and 485-487): an ingest that removes tags under a run makes the
  insight of another service display it. `ServiceDisplayed` is about runs without such an ingest.
- A retired resource keeps its insight (`runner.py:504`, against `insight_events.py:67-68`).
- A run that raises leaves its `insight_runs` row 'running' (`runner.py:499`).
- Overlapping runs of one rule leave duplicate rows until the next lone run (`runner.py:463-464`).
- A PATCH that did commit would lose its ack between a run's snapshot and its DELETE (`runner.py:517-520`).
- Overlapping runs may wait for each other's rows, and Postgres then fails one of them; its `insight_runs` row stays
  'running' (`runner.py:519-560`).
- The triage of an inconclusive record is wiped by each run.
- Two overlapping first ingests of a bucket leave two charges for ever: the amounts double, and the next
  ingest of it raises `MultipleResultsFound`.
- An ingest that commits between the three SELECTs of a run makes the strict `zip` raise: the run is
  'partial' and the account has no chargeback insights until the next.
- An ack on one period's chargeback insight spreads to the others, whose `stable_id` is the same
  (`insight_events.py:30-31`).
- A service that a corrected export no longer has keeps its charge; a mapping that the catalog gains between
  two ingests duplicates the cost (`focus_charges.py:66`).

## 7. Plan

1. *Done*: queue contract and in-process queue with the refinement proved; pipeline with its safety proved;
   region scan with the proofs of retirement and of clean reports; insight runner, facts, rules and replay, and the
   idempotency cache, FOCUS ingest and chargeback with every safety property proved.
2. Retention as a further actor, once something that is modelled reads what it deletes.
