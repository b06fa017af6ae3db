----------------------------- MODULE InsightRun -----------------------------
(***************************************************************************)
(* The runs of one resource rule (insights/runner.py, run_resource_rule):  *)
(* delete-and-replace of the rule's insights and inconclusives, the        *)
(* operator's acks carried over by stable_id (repositories/insights.py),   *)
(* the appeared/resolved events by fingerprint                             *)
(* (repositories/insight_events.py), and the PATCH that sets an ack        *)
(* (routers/insights.py).                                                  *)
(*                                                                         *)
(* A run is a session on Postgres, READ COMMITTED: it sees at each         *)
(* statement what is committed then and what it wrote itself, and others   *)
(* see its work at its commit.  A DELETE or an UPDATE locks its rows one   *)
(* after the other, in any order, waits for whoever holds the next one and *)
(* keeps what it has until its transaction ends.  Runs overlap when two    *)
(* workers evaluate two jobs, or an operator calls POST /insights/run      *)
(* meanwhile.                                                              *)
(*                                                                         *)
(* A row is an insight of a resource, with the title the facts gave it, or *)
(* the inconclusive record of a resource (title Doubt).  Retirement is not *)
(* here, for a run looks at no resource's retired_at.                      *)
(***************************************************************************)
EXTENDS Naturals, FiniteSets, Relation

CONSTANTS
  Resources,
  Titles,        \* the titles a gap may have as days and prices go by
  Doubt,         \* stands for the title of an inconclusive record
  NoGap,         \* the facts show no gap
  Absent,        \* the resource was never scanned
  Decisions,     \* the values of ack_status
  NoAck,         \* ack_status NULL
  Sessions,      \* who runs the rule
  RunIds,        \* the insight_runs rows that are told apart
  SharedSession, \* TRUE: operator and runs share one session, as in the tests
  Faults         \* the faults that may happen, a subset of FaultKinds

FaultKinds == {
  "doubt",      \* a scope goes unproven or stale, or a fact is missing
  "raise",      \* the evaluation of a resource raises
  "fail" }      \* a run dies or the database fails: rollback

ASSUME FaultsAssumption == Faults \subseteq FaultKinds
ASSUME SharedSessionAssumption ==
  SharedSession \in BOOLEAN /\ (SharedSession => \A s, v \in Sessions : s = v)
ASSUME RunIdsAssumption == RunIds # {}
ASSUME DistinctAssumption ==
  /\ {Doubt, NoGap, Absent} \cap Titles = {}
  /\ Doubt # NoGap /\ NoGap # Absent
  /\ NoAck \notin Decisions

VARIABLES
  facts,     \* per resource: the title its facts give, NoGap or Absent
  doubtful,  \* resources the rule can only be INCONCLUSIVE about
  rows,      \* the committed insights and inconclusives of the rule
  lastEvent, \* per fingerprint <<resource, title>>: its latest committed event
  runRow,    \* per session: the status of its latest insight_runs row
  pc,        \* where each session is in run_resource_rule
  run,       \* the insight_runs row of a session
  seen,      \* what it read: resources listed, fingerprints, acks, facts
  deleted,   \* rows it deleted, locked until it ends
  updated,   \* its versions of the rows of others, locked until it ends
  own,       \* rows it inserted, not committed yet
  alone,     \* history: no other session ran since it started
  decision   \* history: the operator's standing decision on each resource

world == <<facts, doubtful>>
store == <<rows, lastEvent, runRow, decision>>
session == <<pc, run, seen, deleted, updated, own, alone>>
vars == <<world, store, session>>

May(fault) == fault \in Faults
Verdicts == Titles \cup {NoGap}
Acks == Decisions \cup {NoAck}
Fingerprints == Resources \X Titles
Row == [run : RunIds, res : Resources, title : Titles \cup {Doubt}, ack : Acks]
Key(x) == <<x.run, x.res, x.title>>
Keys == RunIds \X Resources \X (Titles \cup {Doubt})
Insights(S) == {x \in S : x.title # Doubt}
FingerprintsOf(S) == {<<x.res, x.title>> : x \in Insights(S)}

Blank == [listed |-> {}, prints |-> {},
          acks |-> [r \in Resources |-> NoAck],
          facts |-> [r \in Resources |-> Absent],
          target |-> {}, judged |-> {}, errors |-> {}]
Snapshots == [listed : SUBSET Resources, prints : SUBSET Fingerprints,
              acks : [Resources -> Acks], facts : [Resources -> Verdicts \cup {Absent}],
              target : SUBSET Keys, judged : SUBSET Resources, errors : SUBSET Resources]
ControlPoints == {"idle", "list", "snapshot", "delete", "deleting", "purging",
                  "evaluate", "updating", "acking"}
KeysOf(S) == {Key(x) : x \in S}
TypeOK ==
  /\ facts \in [Resources -> Verdicts \cup {Absent}]
  /\ doubtful \subseteq Resources
  /\ rows \subseteq Row
  /\ lastEvent \in [Fingerprints -> {"none", "appeared", "resolved"}]
  /\ runRow \in [Sessions -> {"none", "running", "success", "partial"}]
  /\ pc \in [Sessions -> ControlPoints]
  /\ run \in [Sessions -> RunIds]
  /\ seen \in [Sessions -> Snapshots]
  /\ deleted \in [Sessions -> SUBSET Row] /\ updated \in [Sessions -> SUBSET Row]
  /\ own \in [Sessions -> SUBSET Row]
  /\ \A s \in Sessions :
       /\ seen[s].judged \subseteq seen[s].listed
       /\ deleted[s] \subseteq rows /\ KeysOf(updated[s]) \subseteq KeysOf(rows)
  /\ alone \in [Sessions -> BOOLEAN]
  /\ decision \in [Resources -> Acks]

Init ==
  /\ facts = [r \in Resources |-> Absent]
  /\ doubtful = {}
  /\ rows = {}
  /\ lastEvent = [f \in Fingerprints |-> "none"]
  /\ runRow = [s \in Sessions |-> "none"]
  /\ pc = [s \in Sessions |-> "idle"]
  /\ run \in [Sessions -> {CHOOSE n \in RunIds : TRUE}]
  /\ seen = [s \in Sessions |-> Blank]
  /\ deleted = [s \in Sessions |-> {}]
  /\ updated = [s \in Sessions |-> {}]
  /\ own = [s \in Sessions |-> {}]
  /\ alone = [s \in Sessions |-> TRUE]
  /\ decision = [r \in Resources |-> NoAck]

-----------------------------------------------------------------------------
(* The surroundings: scans that write facts, scopes, operators.            *)

\* A scan upserts the resource and its facts.
Observe(r) ==
  /\ \E t \in Verdicts : facts' = [facts EXCEPT ![r] = t]
  /\ UNCHANGED <<doubtful, store, session>>

Doubts(r) ==
  /\ May("doubt")
  /\ doubtful' = IF r \in doubtful THEN doubtful \ {r} ELSE doubtful \cup {r}
  /\ UNCHANGED <<facts, store, session>>

\* The rows a session holds.
Locked(s) == KeysOf(deleted[s] \cup updated[s])
Free(s, k) == \A v \in Sessions \ {s} : k \notin Locked(v)

\* PATCH /insights/{id}: flushed and answered, never committed; the UPDATE waits
\* for whoever holds the row.  Whoever shares the session sees it.
Patch(x, d) ==
  /\ x \in Insights(rows)
  /\ \A s \in Sessions : Key(x) \notin Locked(s)
  /\ SharedSession => \A s \in Sessions : pc[s] = "idle"
  /\ rows' = IF SharedSession THEN (rows \ {x}) \cup {[x EXCEPT !.ack = d]} ELSE rows
  /\ decision' = [decision EXCEPT ![x.res] = d]
  /\ UNCHANGED <<world, lastEvent, runRow, session>>

-----------------------------------------------------------------------------
(* run_resource_rule.                                                      *)

\* A new run is told apart from all that are under way, have a row, or had one that
\* a statement still aims at.
FreeRunIds ==
  RunIds \ ({x.run : x \in rows} \cup
             {k[1] : k \in UNION {seen[s].target : s \in Sessions}} \cup
             {run[s] : s \in {v \in Sessions : pc[v] # "idle"}})

\* The insight_runs row is committed on its own.
StartRun(s) ==
  /\ pc[s] = "idle"
  /\ \E n \in FreeRunIds : run' = [run EXCEPT ![s] = n]
  /\ runRow' = [runRow EXCEPT ![s] = "running"]
  /\ pc' = [pc EXCEPT ![s] = "list"]
  /\ alone' = [v \in Sessions |->
                 IF v = s THEN \A u \in Sessions : pc[u] = "idle"
                 ELSE alone[v] /\ pc[v] = "idle"]
  /\ UNCHANGED <<world, rows, lastEvent, decision, seen, deleted, updated, own>>

\* A step of s that writes nothing others can see.
Step(s, from, to) ==
  /\ pc[s] = from
  /\ pc' = [pc EXCEPT ![s] = to]
  /\ UNCHANGED <<world, store, run, alone>>

\* SELECT of all resources.
ListResources(s) ==
  /\ Step(s, "list", "snapshot")
  /\ seen' = [seen EXCEPT ![s].listed = {r \in Resources : facts[r] # Absent}]
  /\ UNCHANGED <<deleted, updated, own>>

\* snapshot_acks: the acked rows of a stable_id.
AckedRows(S, r) == {x \in Insights(S) : x.res = r /\ x.ack # NoAck}

\* Variant with a fault: the snapshot is taken after the delete.
PrintsAfterDelete(S) == {}

\* snapshot_rule.
Prints(S) == FingerprintsOf(S)

\* snapshot_rule and snapshot_acks, two SELECTs in a row.  The session keeps the
\* objects of the first, so an ack set between them is not seen by the second.
Snapshot(s) ==
  /\ Step(s, "snapshot", "delete")
  /\ \E f \in [Resources -> Acks] :
       /\ \A r \in Resources :
            IF AckedRows(rows, r) = {} THEN f[r] = NoAck
            ELSE \E x \in AckedRows(rows, r) : f[r] = x.ack
       /\ seen' = [seen EXCEPT ![s].prints = Prints(rows), ![s].acks = f]
  /\ UNCHANGED <<deleted, updated, own>>

\* Variant with a fault: the DELETE goes by the rows that snapshot_rule kept, one
\* per fingerprint.
DeleteInsightsOncePerPrint(s) ==
  /\ Step(s, "delete", "deleting")
  /\ seen' = [seen EXCEPT ![s].target =
       {Key(CHOOSE x \in rows : <<x.res, x.title>> = f) : f \in FingerprintsOf(rows)}]
  /\ UNCHANGED <<deleted, updated, own>>

\* DELETE of the rule's insights: the statement aims at those committed when it
\* starts; what is inserted meanwhile stays.
DeleteInsights(s) ==
  /\ Step(s, "delete", "deleting")
  /\ seen' = [seen EXCEPT ![s].target = KeysOf(Insights(rows))]
  /\ UNCHANGED <<deleted, updated, own>>

\* Variant with a fault: the inconclusives are not cleared.
DeleteDoubtsNever(s) ==
  /\ Step(s, "deleting", "purging")
  /\ seen[s].target = {}
  /\ UNCHANGED <<seen, deleted, updated, own>>

\* DELETE of the rule's inconclusives, once the first statement is through.
DeleteDoubts(s) ==
  /\ Step(s, "deleting", "purging")
  /\ seen[s].target = {}
  /\ seen' = [seen EXCEPT ![s].target = KeysOf(rows \ Insights(rows))]
  /\ UNCHANGED <<deleted, updated, own>>

\* Either DELETE takes its next row, in its newest version; one that has gone is
\* passed over.
DeleteRow(s, k) ==
  /\ pc[s] \in {"deleting", "purging"} /\ Step(s, pc[s], pc[s])
  /\ k \in seen[s].target /\ Free(s, k)
  /\ deleted' = [deleted EXCEPT ![s] = @ \cup {x \in rows : Key(x) = k}]
  /\ seen' = [seen EXCEPT ![s].target = @ \ {k}]
  /\ UNCHANGED <<updated, own>>

\* The bulk SELECT of the facts of the resources listed.
ReadFacts(s) ==
  /\ Step(s, "purging", "evaluate")
  /\ seen[s].target = {}
  /\ seen' = [seen EXCEPT ![s].facts =
       [r \in Resources |-> IF r \in seen[s].listed THEN facts[r] ELSE Absent]]
  /\ UNCHANGED <<deleted, updated, own>>

\* _evaluate_resource: INCONCLUSIVE without proof or facts, else what the facts
\* say, whether the resource is retired or not.
Emitted(s, r) ==
  IF r \in doubtful THEN {Doubt} ELSE {seen[s].facts[r]} \ {NoGap}

Evaluate(s, r) ==
  /\ Step(s, "evaluate", "evaluate")
  /\ r \in seen[s].listed \ seen[s].judged
  /\ own' = [own EXCEPT ![s] = @ \cup
       {[run |-> run[s], res |-> r, title |-> t, ack |-> NoAck] : t \in Emitted(s, r)}]
  /\ seen' = [seen EXCEPT ![s].judged = @ \cup {r}]
  /\ UNCHANGED <<deleted, updated>>

\* The exception of one resource is collected; the others go on.
EvaluateRaises(s, r) ==
  /\ May("raise")
  /\ Step(s, "evaluate", "evaluate")
  /\ r \in seen[s].listed \ seen[s].judged
  /\ seen' = [seen EXCEPT ![s].judged = @ \cup {r}, ![s].errors = @ \cup {r}]
  /\ UNCHANGED <<deleted, updated, own>>

\* reconcile_with_focus: it reads every insight of the rule that s sees and writes
\* the FOCUS context of those for which an ingest changed it; of the rows of others
\* any may be among them.
Reconcile(s) ==
  /\ Step(s, "evaluate", "updating")
  /\ seen[s].judged = seen[s].listed
  /\ \E K \in SUBSET KeysOf(Insights(rows \ deleted[s])) :
       seen' = [seen EXCEPT ![s].target = K]
  /\ UNCHANGED <<deleted, updated, own>>

\* apply_acks_to_rule touches the rows without an ack that the snapshot knows.
Acked(s, x) ==
  IF x.title # Doubt /\ x.ack = NoAck
  THEN [x EXCEPT !.ack = seen[s].acks[x.res]] ELSE x
ToAck(s, S) == {x \in S : Acked(s, x) # x}

\* Its SELECT; the rows it finds of other sessions may change or go before its
\* UPDATE.
ApplyAcks(s) ==
  /\ Step(s, "updating", "acking")
  /\ seen[s].target = {}
  /\ own' = [own EXCEPT ![s] = {Acked(s, x) : x \in @}]
  /\ seen' = [seen EXCEPT ![s].target = KeysOf(ToAck(s, rows \ deleted[s]))]
  /\ UNCHANGED <<deleted, updated>>

\* An UPDATE by id, of the context (not shown) or of the ack.
Written(s, x) ==
  IF pc[s] = "acking" THEN [x EXCEPT !.ack = seen[s].acks[x.res]] ELSE x

UpdateRow(s, k) ==
  /\ pc[s] \in {"updating", "acking"} /\ Step(s, pc[s], pc[s])
  /\ k \in seen[s].target /\ Free(s, k) /\ k \in KeysOf(rows)
  /\ updated' = [updated EXCEPT ![s] =
       {y \in @ : Key(y) # k} \cup {Written(s, x) : x \in {z \in rows : Key(z) = k}}]
  /\ seen' = [seen EXCEPT ![s].target = @ \ {k}]
  /\ UNCHANGED <<deleted, own>>

\* What s sees of the rule's rows: the committed ones, with what it did to them,
\* and its own.
Visible(s) ==
  {x \in rows \ deleted[s] : Key(x) \notin KeysOf(updated[s])} \cup updated[s] \cup own[s]

\* diff_and_record_events.
EventsOf(s) ==
  LET current == FingerprintsOf(Visible(s)) IN
  [f \in Fingerprints |->
     CASE f \in current \ seen[s].prints -> "appeared"
       [] f \in seen[s].prints \ current -> "resolved"
       [] OTHER -> lastEvent[f]]

\* The run looked at the resource, raised nothing and found no gap: the operator's
\* decision has served its time.
GapClosed(s, r) ==
  /\ r \in seen[s].judged \ seen[s].errors /\ seen[s].facts[r] = NoGap
  /\ r \notin {x.res : x \in own[s]}

\* Variant with a fault: the connection goes back to the pool inside its transaction.
EndSessionHoldsLocks(s) ==
  /\ pc' = [pc EXCEPT ![s] = "idle"]
  /\ seen' = [seen EXCEPT ![s] = Blank]
  /\ own' = [own EXCEPT ![s] = {}]
  /\ UNCHANGED <<world, run, alone, deleted, updated>>

EndSession(s) ==
  /\ pc' = [pc EXCEPT ![s] = "idle"]
  /\ seen' = [seen EXCEPT ![s] = Blank]
  /\ deleted' = [deleted EXCEPT ![s] = {}]
  /\ updated' = [updated EXCEPT ![s] = {}]
  /\ own' = [own EXCEPT ![s] = {}]
  /\ UNCHANGED <<world, run, alone>>

\* Events, the end of the insight_runs row, commit.
FinishRun(s) ==
  /\ pc[s] = "acking" /\ seen[s].target = {}
  /\ rows' = Visible(s)
  /\ lastEvent' = EventsOf(s)
  /\ runRow' = [runRow EXCEPT ![s] = IF seen[s].errors # {} THEN "partial" ELSE "success"]
  /\ decision' = [r \in Resources |-> IF GapClosed(s, r) THEN NoAck ELSE decision[r]]
  /\ EndSession(s)

\* An UPDATE finds its row gone (StaleDataError): rollback.
TargetGone(s) ==
  /\ pc[s] \in {"updating", "acking"}
  /\ \E k \in seen[s].target : Free(s, k) /\ k \notin KeysOf(rows)
  /\ EndSession(s)
  /\ UNCHANGED store

\* Postgres looks for cycles among those who wait and fails one of them.
WaitsFor(s) ==
  IF \E k \in seen[s].target : Free(s, k) THEN {}
  ELSE {v \in Sessions \ {s} : Locked(v) \cap seen[s].target # {}}

Deadlocked(s) ==
  TransitiveClosure([v, u \in Sessions |-> u \in WaitsFor(v)], Sessions)[s, s]

DeadlockVictim(s) ==
  /\ pc[s] # "idle" /\ Deadlocked(s)
  /\ EndSession(s)
  /\ UNCHANGED store

\* An exception out of the run: rollback; the insight_runs row stays 'running'.
RunFails(s) ==
  /\ May("fail")
  /\ pc[s] # "idle"
  /\ EndSession(s)
  /\ UNCHANGED store

TakeRow(s) == \E k \in seen[s].target : DeleteRow(s, k) \/ UpdateRow(s, k)

RunStep(s) ==
  \/ ListResources(s) \/ Snapshot(s) \/ DeleteInsights(s) \/ DeleteDoubts(s) \/ TakeRow(s)
  \/ ReadFacts(s) \/ \E r \in Resources : Evaluate(s, r) \/ EvaluateRaises(s, r)
  \/ Reconcile(s) \/ ApplyAcks(s) \/ FinishRun(s) \/ TargetGone(s) \/ DeadlockVictim(s)

Next ==
  \/ \E r \in Resources : Observe(r) \/ Doubts(r)
  \/ \E x \in rows, d \in Decisions : Patch(x, d)
  \/ \E s \in Sessions : StartRun(s) \/ RunStep(s) \/ RunFails(s)

Spec == Init /\ [][Next]_vars

\* A session that started works on.  Postgres queues who waits for a row: a newcomer
\* may be faster when the row is released, but not every time.
FairSpec == Spec /\ \A s \in Sessions : WF_vars(RunStep(s)) /\ SF_vars(TakeRow(s))

-----------------------------------------------------------------------------
(* Properties.                                                             *)

\* A rule has at most one row per resource: re-runs never accumulate duplicates
\* (runner.py:462-464).
OneRowPerResource ==
  \A x, y \in rows : x.res = y.res => x = y

\* The operator's decision on a resource stands on the row of its gap, whatever
\* happens to the title and whichever runs fail, until a run finds the gap closed,
\* and never shows on a gap it was not made for: "an operator's ack on a gap survives
\* every re-run" (ADR-16).
AckStands ==
  \A x \in Insights(rows) : x.ack = decision[x.res]

\* The event log is the ledger of the table: a fingerprint is there exactly when
\* its last event says it appeared (insight_events.py:52-116).
LedgerTrue ==
  \A f \in Fingerprints :
    lastEvent[f] = "appeared" <=> f \in FingerprintsOf(rows)

\* However many runs overlapped before and whatever they left behind, a run that
\* overlaps with none replaces it all: the table then holds what that run emitted,
\* one row per resource (runner.py:462-464).
Finishing(s) == pc[s] = "acking" /\ pc'[s] = "idle" /\ runRow'[s] # "running"
LoneRunReplaces ==
  [][\A s \in Sessions : Finishing(s) /\ alone[s] =>
       /\ \A x \in rows' : x.run = run[s]
       /\ \A x, y \in rows' : x.res = y.res => x = y]_vars

\* Nobody waits for ever, though a DELETE keeps the rows it has while it waits for
\* one that the other run deleted or updates: runs that overlap all come to their end.
EveryRunEnds == \A s \in Sessions : (pc[s] # "idle") ~> (pc[s] = "idle")
=============================================================================
