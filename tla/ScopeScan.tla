----------------------------- MODULE ScopeScan ------------------------------
(***************************************************************************)
(* The collector (collectors/aws.py): a session scans the regions and      *)
(* resource types of one target in one transaction, writes a source_run    *)
(* per scope (repositories/source_runs.py), bumps last_seen_at of what it  *)
(* sees and, after a successful scan, retires what the two latest          *)
(* successful scans of the scope did not see (repositories/resources.py).  *)
(*                                                                         *)
(* Sessions are worker threads, with one region each, or the CLI, with     *)
(* many.  On Postgres a session sees what is committed and what it wrote   *)
(* itself.  The 'running' row of a scope is under a unique index, so a     *)
(* second session waits at its INSERT for the end of the first             *)
(* transaction; started_at is the time its own transaction began.          *)
(*                                                                         *)
(* Time is counted in transactions begun: last_seen_at and started_at are  *)
(* only compared with one another.  The clocks of worker and database are  *)
(* taken to agree.                                                         *)
(***************************************************************************)
EXTENDS Naturals, Sequences, Relation

CONSTANTS
  Sessions,
  Resources,
  Regions, Types,
  ScopeOf,      \* the <<region, type>> a resource belongs to
  Targets,      \* what is scanned: regions, resource types, dry_run
  MaxErrors,    \* max_consecutive_region_errors
  MaxScans,     \* bound: transactions that begin
  Faults        \* the faults that may happen, a subset of FaultKinds

FaultKinds == {
  "region",     \* the AWS API fails in the middle of a scope
  "die" }       \* the process, the database or an unexpected bug ends the session

ASSUME ScanFaultsAssumption == Faults \subseteq FaultKinds
ASSUME ScanBoundsAssumption == MaxErrors \in Nat /\ MaxScans \in Nat
ASSUME TargetsAssumption ==
  /\ Targets \subseteq [regions : Seq(Regions), types : Seq(Types), dry : BOOLEAN]
  /\ Targets # {} /\ \A t \in Targets : Len(t.types) > 0
ASSUME ScopeOfAssumption == ScopeOf \in [Resources -> Regions \X Types]

VARIABLES
  clock,     \* transactions begun so far
  account,   \* the accounts row is committed
  lastSeen,  \* last_seen_at of each resource row; 0: no row
  retired,   \* resource rows with retired_at
  runs,      \* the committed source_runs, each with what its scan saw
  pc,        \* where each session is in collect_target
  start,     \* when its transaction began
  target,    \* what it scans
  at,        \* region and resource type it is at, by index
  errors,    \* result.errors is not empty
  bad,       \* region_had_error
  strikes,   \* consecutive_errors
  saw,       \* what the scope's scan saw so far
  tx         \* its uncommitted writes

store == <<account, lastSeen, retired, runs>>
progress == <<target, at, errors, bad, strikes>>
vars == <<clock, store, pc, start, progress, saw, tx>>

May(fault) == fault \in Faults

Scope(w) == <<target[w].regions[at[w].region], target[w].types[at[w].type]>>
Scopes == Regions \X Types

\* A source_run: its place in the loops tells apart those of one transaction.
Run == [scope : Scopes, start : Nat, nr : [region : Nat, type : Nat],
        status : {"success", "failed"}, saw : SUBSET Resources]

First == [region |-> 1, type |-> 1]
NoWrites == [account |-> FALSE, held |-> {}, bump |-> [r \in Resources |-> 0],
             retired |-> {}, runs |-> {}]
Tx == [account : BOOLEAN, held : SUBSET Scopes,
       bump : [Resources -> Nat], retired : SUBSET Resources, runs : SUBSET Run]

Init ==
  /\ clock = 0
  /\ account = FALSE
  /\ lastSeen = [r \in Resources |-> 0]
  /\ retired = {} /\ runs = {}
  /\ pc = [w \in Sessions |-> "idle"]
  /\ start = [w \in Sessions |-> 0]
  /\ target = [w \in Sessions |-> CHOOSE t \in Targets : TRUE]
  /\ at = [w \in Sessions |-> First]
  /\ errors = [w \in Sessions |-> FALSE]
  /\ bad = [w \in Sessions |-> FALSE]
  /\ strikes = [w \in Sessions |-> 0]
  /\ saw = [w \in Sessions |-> {}]
  /\ tx = [w \in Sessions |-> NoWrites]

TypeOK ==
  /\ clock \in 0..MaxScans
  /\ account \in BOOLEAN
  /\ lastSeen \in [Resources -> 0..clock]
  /\ retired \subseteq Resources /\ runs \subseteq Run
  /\ pc \in [Sessions -> {"idle", "find", "account", "next", "scan", "commit"}]
  /\ start \in [Sessions -> 0..clock]
  /\ target \in [Sessions -> Targets]
  /\ at \in [Sessions -> [region : Nat, type : Nat]]
  /\ errors \in [Sessions -> BOOLEAN]
  /\ bad \in [Sessions -> BOOLEAN]
  /\ strikes \in [Sessions -> 0..MaxErrors]
  /\ saw \in [Sessions -> SUBSET Resources]
  /\ tx \in [Sessions -> Tx]

-----------------------------------------------------------------------------
(* A transaction begins and ends.                                          *)

\* The first statement looks for the account; now() is fixed by it.
Begin(w, t) ==
  /\ pc[w] = "idle" /\ clock < MaxScans
  /\ clock' = clock + 1
  /\ start' = [start EXCEPT ![w] = clock + 1]
  /\ target' = [target EXCEPT ![w] = t]
  /\ pc' = [pc EXCEPT ![w] = "find"]
  /\ UNCHANGED <<store, at, errors, bad, strikes, saw, tx>>

\* The locks of w go, and with them what it did not commit.
End(w) ==
  /\ pc' = [pc EXCEPT ![w] = "idle"]
  /\ start' = [start EXCEPT ![w] = 0]
  /\ target' = [target EXCEPT ![w] = CHOOSE t \in Targets : TRUE]
  /\ at' = [at EXCEPT ![w] = First]
  /\ errors' = [errors EXCEPT ![w] = FALSE]
  /\ bad' = [bad EXCEPT ![w] = FALSE]
  /\ strikes' = [strikes EXCEPT ![w] = 0]
  /\ saw' = [saw EXCEPT ![w] = {}]
  /\ tx' = [tx EXCEPT ![w] = NoWrites]
  /\ UNCHANGED clock

\* Variant with a fault: the 'running' row was committed on its own.
DiesLeavingRow(w) ==
  /\ May("die")
  /\ pc[w] # "idle"
  /\ pc' = [pc EXCEPT ![w] = "idle"]
  /\ UNCHANGED <<clock, store, start, progress, saw, tx>>

\* The exception that leaves collect_target, or the death of the process.
Dies(w) ==
  /\ May("die")
  /\ pc[w] # "idle"
  /\ End(w)
  /\ UNCHANGED store

-----------------------------------------------------------------------------
(* accounts.get_or_create.                                                 *)

FindAccount(w) ==
  /\ pc[w] = "find"
  /\ pc' = [pc EXCEPT ![w] = IF account THEN "next" ELSE "account"]
  /\ UNCHANGED <<clock, store, start, progress, saw, tx>>

\* The unique index on (tenant, external id) makes a second INSERT wait.
AccountHeld(w) == {v \in Sessions \ {w} : tx[v].account}

InsertAccount(w) ==
  /\ pc[w] = "account"
  /\ AccountHeld(w) = {} /\ ~ account
  /\ tx' = [tx EXCEPT ![w].account = TRUE]
  /\ pc' = [pc EXCEPT ![w] = "next"]
  /\ UNCHANGED <<clock, store, start, progress, saw>>

\* Another session committed the account meanwhile: IntegrityError.
AccountTaken(w) ==
  /\ pc[w] = "account"
  /\ AccountHeld(w) = {} /\ account
  /\ End(w)
  /\ UNCHANGED store

-----------------------------------------------------------------------------
(* The loops over regions and resource types.                              *)

MoreRegions(w) == at[w].region <= Len(target[w].regions)

\* The circuit breaker is open: every region left is skipped and reported.
SkipRegions(w) ==
  /\ pc[w] = "next"
  /\ MoreRegions(w) /\ strikes[w] >= MaxErrors
  /\ errors' = [errors EXCEPT ![w] = TRUE]
  /\ pc' = [pc EXCEPT ![w] = "commit"]
  /\ UNCHANGED <<clock, store, start, target, at, bad, strikes, saw, tx>>

LoopEnds(w) ==
  /\ pc[w] = "next"
  /\ ~ MoreRegions(w)
  /\ pc' = [pc EXCEPT ![w] = "commit"]
  /\ UNCHANGED <<clock, store, start, progress, saw, tx>>

\* start_run: the INSERT of the 'running' row waits while another transaction has
\* one of the scope; no 'running' row is ever committed.
ScopeHeld(w) == {v \in Sessions \ {w} : Scope(w) \in tx[v].held}
MayScan(w) == pc[w] = "next" /\ MoreRegions(w) /\ strikes[w] < MaxErrors

StartRun(w) ==
  /\ MayScan(w)
  /\ ScopeHeld(w) = {}
  /\ tx' = [tx EXCEPT ![w].held = @ \cup {Scope(w)}]
  /\ saw' = [saw EXCEPT ![w] = {}]
  /\ pc' = [pc EXCEPT ![w] = "scan"]
  /\ UNCHANGED <<clock, store, start, progress>>

\* Variant with a fault: the worker's clock is ahead of the database's.
SeeAhead(w, r) ==
  /\ pc[w] = "scan"
  /\ ScopeOf[r] = Scope(w) /\ r \notin saw[w]
  /\ saw' = [saw EXCEPT ![w] = @ \cup {r}]
  /\ tx' = [tx EXCEPT ![w].bump[r] = clock + 1, ![w].retired = @ \ {r}]
  /\ UNCHANGED <<clock, store, pc, start, progress>>

\* upsert_resource: last_seen_at is now, retired_at is cleared.
See(w, r) ==
  /\ pc[w] = "scan"
  /\ ScopeOf[r] = Scope(w) /\ r \notin saw[w]
  /\ saw' = [saw EXCEPT ![w] = @ \cup {r}]
  /\ tx' = [tx EXCEPT ![w].bump[r] = clock, ![w].retired = @ \ {r}]
  /\ UNCHANGED <<clock, store, pc, start, progress>>

\* Variant with a fault: the report has the errors of the last scope only.
AdvanceForgets(w, failed) ==
  LET region == at[w].region
      type == at[w].type
  IN  /\ errors' = [errors EXCEPT ![w] = failed]
      /\ at' = [at EXCEPT ![w] = IF type < Len(target[w].types)
                                  THEN [region |-> region, type |-> type + 1]
                                  ELSE [region |-> region + 1, type |-> 1]]
      /\ pc' = [pc EXCEPT ![w] = "next"]
      /\ UNCHANGED <<clock, store, start, target, saw, bad, strikes>>

\* To the next resource type, or to the next region and the breaker's count.
Advance(w, failed) ==
  LET region == at[w].region
      type == at[w].type
      hadError == bad[w] \/ failed
  IN  /\ errors' = [errors EXCEPT ![w] = @ \/ failed]
      /\ IF type < Len(target[w].types)
         THEN /\ at' = [at EXCEPT ![w].type = type + 1]
              /\ bad' = [bad EXCEPT ![w] = hadError]
              /\ UNCHANGED strikes
         ELSE /\ at' = [at EXCEPT ![w] = [region |-> region + 1, type |-> 1]]
              /\ bad' = [bad EXCEPT ![w] = FALSE]
              /\ strikes' = [strikes EXCEPT ![w] = IF hadError THEN @ + 1 ELSE 0]
      /\ pc' = [pc EXCEPT ![w] = "next"]
      /\ UNCHANGED <<clock, store, start, target, saw>>

\* finish_run.
Finished(w, status) ==
  [scope |-> Scope(w), start |-> start[w], nr |-> at[w],
   status |-> status, saw |-> saw[w]]

Successes(S, s) == {x \in S : x.scope = s /\ x.status = "success"}

\* _recent_successful_runs: those with at most one of a later started_at; of
\* equals the code takes any.
Recent(S, s) ==
  {x \in Successes(S, s) :
     ~ \E y, z \in Successes(S, s) :
         y # z /\ y.start > x.start /\ z.start > x.start}

TwoRuns(S, s) == \E x, y \in Successes(S, s) : x # y

\* What w reads: its own rows over the committed ones.
SeenAt(w, r) == IF tx[w].bump[r] > 0 THEN tx[w].bump[r] ELSE lastSeen[r]
IsRetired(w, r) ==
  r \in tx[w].retired \/ (r \in retired /\ tx[w].bump[r] = 0)

\* Variant with a fault: unseen since before the newer of the two runs began.
StaleSinceLatest(w, S) ==
  {r \in Resources :
     /\ ScopeOf[r] = Scope(w)
     /\ SeenAt(w, r) > 0 /\ ~ IsRetired(w, r)
     /\ TwoRuns(S, Scope(w))
     /\ \E x \in Recent(S, Scope(w)) : SeenAt(w, r) < x.start}

\* retire_stale_resources: unseen since before the older of the two runs began.
Stale(w, S) ==
  {r \in Resources :
     /\ ScopeOf[r] = Scope(w)
     /\ SeenAt(w, r) > 0 /\ ~ IsRetired(w, r)
     /\ TwoRuns(S, Scope(w))
     /\ \A x \in Recent(S, Scope(w)) : SeenAt(w, r) < x.start}

\* The scan ran to completion.
ScanCompletes(w) ==
  LET S == runs \cup tx[w].runs \cup {Finished(w, "success")} IN
  /\ pc[w] = "scan"
  /\ tx' = [tx EXCEPT ![w].runs = @ \cup {Finished(w, "success")},
                      ![w].retired = @ \cup (IF target[w].dry THEN {} ELSE Stale(w, S))]
  /\ Advance(w, FALSE)

\* ClientError or BotoCoreError: the run fails, nothing is retired, the rows stay.
ScanFails(w) ==
  /\ May("region")
  /\ pc[w] = "scan"
  /\ tx' = [tx EXCEPT ![w].runs = @ \cup {Finished(w, "failed")}]
  /\ Advance(w, TRUE)

\* commit; a dry run is rolled back when its session closes.
Commit(w) ==
  /\ pc[w] = "commit" /\ ~ target[w].dry
  /\ account' = (account \/ tx[w].account)
  /\ lastSeen' = [r \in Resources |-> SeenAt(w, r)]
  /\ retired' = {r \in Resources : IsRetired(w, r)}
  /\ runs' = runs \cup tx[w].runs
  /\ End(w)

EndDryRun(w) ==
  /\ pc[w] = "commit" /\ target[w].dry
  /\ End(w)
  /\ UNCHANGED store

-----------------------------------------------------------------------------
(* Postgres looks for cycles among those who wait and fails one of them.    *)

WaitsFor(w) ==
  IF pc[w] = "account" THEN AccountHeld(w)
  ELSE IF MayScan(w) THEN ScopeHeld(w) ELSE {}

Deadlocked(w) ==
  TransitiveClosure([v, u \in Sessions |-> u \in WaitsFor(v)], Sessions)[w, w]

DeadlockVictim(w) ==
  /\ Deadlocked(w)
  /\ End(w)
  /\ UNCHANGED store

SessionStep(w) ==
  \/ FindAccount(w) \/ InsertAccount(w) \/ AccountTaken(w)
  \/ SkipRegions(w) \/ LoopEnds(w) \/ StartRun(w)
  \/ (\E r \in Resources : See(w, r)) \/ ScanCompletes(w) \/ ScanFails(w)
  \/ Commit(w) \/ EndDryRun(w) \/ DeadlockVictim(w)

Next ==
  \E w \in Sessions :
    (\E t \in Targets : Begin(w, t)) \/ SessionStep(w) \/ Dies(w)

Spec == Init /\ [][Next]_vars

\* A session goes on until it ends; the lists of the AWS API are finite.
FairSpec == Spec /\ \A w \in Sessions : WF_vars(SessionStep(w))

-----------------------------------------------------------------------------
(* Properties.                                                             *)

\* A resource is marked as gone only while the two latest successful scans of its
\* scope both did not see it, whatever overlapped, waited, failed or was rolled
\* back: comparing last_seen_at with the older started_at says as much (F-08,
\* resources.py:122-184), and whoever sees it again clears the mark.
Unseen(r, S) ==
  /\ TwoRuns(S, ScopeOf[r])
  /\ \A x \in Recent(S, ScopeOf[r]) : r \notin x.saw

RetiredHasProof == \A r \in retired : Unseen(r, runs)

\* A report without errors, on which the worker acks the item (worker.py:322-327),
\* means that every scope of the target has a committed successful scan of this
\* very transaction: no failed type, open breaker or lost transaction is taken for
\* a success (collectors/aws.py:534-656). It is about commits: a dry run, whose report
\* can be clean too, rolls back and leaves no scan behind.
CleanReportMeansScanned ==
  [][\A w \in Sessions : Commit(w) /\ ~ errors[w] =>
       \A i \in DOMAIN target[w].regions, k \in DOMAIN target[w].types :
         \E x \in runs' : /\ x.scope = <<target[w].regions[i], target[w].types[k]>>
                          /\ x.start = start[w] /\ x.status = "success"]_vars

\* Every session ends: those that wait for each other's scopes in opposite orders,
\* or for the row of a new account, do not wait for ever, and a session that died
\* leaves no row behind that blocks its scopes (source_runs.py:117-131).
EveryScanEnds == \A w \in Sessions : (pc[w] # "idle") ~> (pc[w] = "idle")

-----------------------------------------------------------------------------
(* The inductive invariant behind RetiredHasProof.                         *)

\* A session that is not in a transaction has written nothing; in a scan it is
\* within its loops and holds its scope.
InLoops ==
  \A w \in Sessions :
    /\ at[w].region >= 1 /\ at[w].type \in DOMAIN target[w].types
    /\ pc[w] = "idle" => at[w] = First /\ tx[w] = NoWrites
    /\ pc[w] # "idle" => start[w] > 0
    /\ pc[w] = "scan" => MoreRegions(w) /\ strikes[w] < MaxErrors
                         /\ Scope(w) \in tx[w].held

\* Scopes are held by one session at a time, and it writes to no other.
WritesHeld ==
  \A w \in Sessions :
    /\ \A v \in Sessions \ {w} : tx[v].held \cap tx[w].held = {}
    /\ \A r \in Resources :
         tx[w].bump[r] > 0 \/ r \in tx[w].retired => ScopeOf[r] \in tx[w].held
    /\ \A x \in tx[w].runs : x.scope \in tx[w].held

\* What a run saw, its last_seen_at says: committed, in a transaction, in a scan.
SawIsSeen ==
  /\ \A x \in runs : \A r \in x.saw :
       ScopeOf[r] = x.scope /\ lastSeen[r] >= x.start
  /\ \A w \in Sessions :
       /\ \A r \in Resources :
            tx[w].bump[r] > 0 => tx[w].bump[r] \in lastSeen[r]..clock
       /\ \A x \in tx[w].runs : \A r \in x.saw :
            ScopeOf[r] = x.scope /\ tx[w].bump[r] > 0 /\ tx[w].bump[r] >= x.start
       /\ pc[w] = "scan" => \A r \in saw[w] :
            /\ ScopeOf[r] = Scope(w) /\ r \notin tx[w].retired
            /\ tx[w].bump[r] > 0 /\ tx[w].bump[r] >= start[w]

\* What a session is about to mark has its proof among the runs it sees.
MarksHaveProof ==
  \A w \in Sessions : \A r \in tx[w].retired : Unseen(r, runs \cup tx[w].runs)

ScanInv ==
  TypeOK /\ InLoops /\ WritesHeld /\ SawIsSeen /\ MarksHaveProof /\ RetiredHasProof
=============================================================================
