------------------------------ MODULE Evidence ------------------------------
(***************************************************************************)
(* From an AWS account to the verdict of a rule: the passes that scan one  *)
(* region of one account (collectors/aws.py with the connectors aws_rds    *)
(* and aws_ec2), the facts, observations and source_runs they write, the   *)
(* replay of observations (cli/replay_facts.py), and the verdicts the      *)
(* rules draw from that (insights/runner.py, module Rules).                *)
(*                                                                         *)
(* A pass is one transaction; the account moves on between its jobs.  What *)
(* two passes do to one scope is in ScopeScan; here there is one at a time.*)
(* Time is in days; a pass and a replay each begin and end within one day. *)
(***************************************************************************)
EXTENDS Rules

CONSTANTS
  Dbs, Volumes, Snapshots, Instances,  \* what may exist in the account
  Versions,   \* engine versions a database may be upgraded to
  Region,     \* the region that is scanned
  Fleets,     \* accounts: the resources at first, the sequences of jobs passes are
              \* asked for, the days on which something happens
  MaxPasses,  \* bound on the passes
  MaxMoves    \* bound on the changes of the account

Resources == Dbs \cup Volumes \cup Snapshots \cup Instances

\* JOB_REGISTRY.
JOB_REGISTRY == {"rds", "ec2_volume", "ec2_snapshot", "ec2_instance"}
ASSUME FleetsAssumption ==
  \A f \in Fleets :
    /\ DOMAIN f.world = Resources
    /\ f.targets \subseteq Seq(JOB_REGISTRY)
    /\ f.days \in (SUBSET Nat) \ {{}}
ASSUME BoundsAssumption == MaxPasses \in Nat /\ MaxMoves \in Nat
\* A resource is of one type; a snapshot is of a volume.
ASSUME KindsAssumption ==
  /\ Dbs \cap (Volumes \cup Snapshots) = {}
  /\ Volumes \cap Snapshots = {}
  /\ Instances \cap (Dbs \cup Volumes \cup Snapshots) = {}
  /\ \A f \in Fleets : \A s \in Snapshots :
       "volume" \in DOMAIN f.world[s] /\ f.world[s].volume \in Volumes
\* Every resource has a state, a volume a type and a size; what is attached to an instance are
\* volumes that are there, and an instance that is not has none.
ASSUME AccountAssumption ==
  \A f \in Fleets :
    /\ \A r \in Resources : "state" \in DOMAIN f.world[r]
    /\ \A i \in Instances : "volumes" \in DOMAIN f.world[i]
    /\ \A v \in Volumes : f.world[v].state # "gone" =>
         {"size", "type"} \subseteq DOMAIN f.world[v] /\ f.world[v].size \in Nat
    /\ \A i \in Instances :
         \A v \in f.world[i].volumes :
           /\ f.world[i].state \notin {"none", "gone"}
           /\ v \in Volumes /\ f.world[v].state \notin {"none", "gone"}
JobOf(r) ==
  CASE r \in Dbs -> "rds" [] r \in Volumes -> "ec2_volume"
    [] r \in Snapshots -> "ec2_snapshot" [] OTHER -> "ec2_instance"
SourceOf(job) == IF job = "rds" THEN "aws_rds" ELSE "aws_ec2"

VARIABLES
  fleet,     \* the account, one of Fleets
  world,     \* per resource: its attributes and its state in AWS
  now,       \* the day
  moves,     \* how often the account changed
  facts,     \* per resource: its KNOWN facts, committed
  obs,       \* per database: its observations, each with the number of its pass
  success,   \* per job: the day of the latest successful source_run, or NoRun
  todo,      \* the jobs the pass under way has not run yet, Idle without a pass
  ran,       \* the jobs it ran, and whether each ended without an error
  raw,       \* what it saw of each resource, not committed yet
  passes,    \* how many began
  replay,    \* a replay under way: on, and the observations it selected
  still,     \* history: the account did not change since the latest pass began
  last,      \* history: the jobs of the latest pass, as in ran; none if it raised
  missed,    \* history: snapshots whose volume_exists is from a volume scan that ran
             \* to its end in the same pass and did not see the volume
  raced      \* history: databases last scanned while a replay was under way

account == <<fleet, world, now, moves>>
database == <<facts, obs, success>>
pass == <<todo, ran, raw, passes>>
history == <<still, last, missed, raced>>
vars == <<account, database, pass, replay, history>>

Idle == <<"none">>
NoRun == -1
Nothing == [x \in {} |-> x]    \* no facts, nothing seen
NoReplay == [on |-> FALSE, obs |-> [d \in Dbs |-> {}]]
Live(r) == world[r].state \notin {"none", "gone"}
InUse(v) == \E i \in Instances : Live(i) /\ v \in world[i].volumes

TypeOK ==
  /\ fleet \in Fleets /\ now \in fleet.days /\ moves \in 0..MaxMoves
  /\ \A r \in Resources :
       /\ DOMAIN world[r] = DOMAIN fleet.world[r]
       /\ DOMAIN facts[r] \subseteq
            EolKeys \cup VolumeKeys \cup SnapshotKeys
              \cup {"storage_tier", "attached_volumes"}
  /\ \A d \in Dbs : \A o \in obs[d] : o.at \in 1..passes
  /\ \A j \in JOB_REGISTRY : success[j] \in fleet.days \cup {NoRun}
  /\ todo = Idle => ran = Nothing /\ raw = Nothing
  /\ DOMAIN ran \subseteq JOB_REGISTRY
  /\ \A r \in DOMAIN raw : r \in Resources /\ JobOf(r) \in DOMAIN ran
  /\ passes \in 0..MaxPasses
  /\ \A d \in Dbs : replay.obs[d] \subseteq obs[d]
  /\ still \in BOOLEAN
  /\ missed \subseteq Snapshots /\ raced \subseteq Dbs

Init ==
  /\ fleet \in Fleets /\ world = fleet.world /\ moves = 0
  /\ now = CHOOSE d \in fleet.days : \A e \in fleet.days : d <= e
  /\ facts = [r \in Resources |-> Nothing]
  /\ obs = [d \in Dbs |-> {}]
  /\ success = [j \in JOB_REGISTRY |-> NoRun]
  /\ todo = Idle /\ ran = Nothing /\ raw = Nothing /\ passes = 0
  /\ replay = NoReplay
  /\ still = TRUE /\ last = Nothing
  /\ missed = {} /\ raced = {}

-----------------------------------------------------------------------------
(* The account.                                                            *)

\* What may become of a resource: it is made, changes its state, goes for good; a
\* snapshot is taken of a volume that is there.
Becomes(r) ==
  LET w == world[r] IN
  CASE r \in Dbs ->
         CASE w.state = "none" -> {[w EXCEPT !.state = "live"]}
           [] w.state = "live" -> {[w EXCEPT !.version = v] : v \in Versions}
           [] OTHER -> {}
    [] r \in Volumes ->
         CASE w.state = "none" -> {[w EXCEPT !.state = "live"]}
           [] w.state = "live" /\ ~ InUse(r) -> {[w EXCEPT !.state = "gone"]}
           [] OTHER -> {}
    [] r \in Snapshots ->
         CASE w.state = "none" /\ Live(w.volume) -> {[w EXCEPT !.state = "pending"]}
           [] w.state = "pending" -> {[w EXCEPT !.state = "completed"]}
           [] OTHER -> {}
    [] OTHER ->
         CASE w.state = "none" -> {[w EXCEPT !.state = "running"]}
           [] w.state = "gone" -> {}
           [] OTHER ->
                {[w EXCEPT !.state = s] : s \in {"running", "stopped"}}
                  \cup {[w EXCEPT !.volumes = @ \cup {v}] :
                          v \in {x \in Volumes : Live(x) /\ ~ InUse(x)}}
                  \cup {[w EXCEPT !.volumes = @ \ {v}] : v \in w.volumes}

Moves(r) ==
  /\ moves < MaxMoves /\ moves' = moves + 1
  /\ \E w \in Becomes(r) \ {world[r]} : world' = [world EXCEPT ![r] = w]
  /\ still' = FALSE
  /\ UNCHANGED <<fleet, now, database, pass, replay, last, missed, raced>>

Tick ==
  /\ todo = Idle /\ ~ replay.on
  /\ \E d \in fleet.days :
       d > now /\ (\A e \in fleet.days : e > now => d <= e) /\ now' = d
  /\ UNCHANGED <<fleet, world, moves, database, pass, replay, history>>

\* What DescribeDBInstances, DescribeVolumes, DescribeSnapshots and DescribeInstances
\* say of a resource, and the region the paginator adds.
Described(r) ==
  CASE r \in Volumes -> [world[r] EXCEPT !.state = IF InUse(r) THEN "in-use" ELSE "available"]
    [] r \in Dbs ->
         [engine |-> world[r].engine, version |-> world[r].version, class |-> world[r].class,
          region |-> Region]
    [] OTHER -> world[r]

\* collect_*: every resource of the type, whatever its state.
Collected(job) == {r \in Resources : JobOf(r) = job /\ Live(r)}

-----------------------------------------------------------------------------
(* Facts of an item (db_to_facts, volume_to_facts, snapshot_to_facts,      *)
(* instance_to_facts).  A value that is missing or empty is UNKNOWN.       *)

Known(f, empty) == [k \in DOMAIN f \ empty |-> f[k]]

DbFacts(x) ==
  LET known == x.class \in RDS_INSTANCE_CLASSES IN
  Known([engine |-> x.engine, engine_version |-> x.version, region |-> x.region,
         vcpu |-> IF known THEN VcpuForInstanceClass(x.class) ELSE 0],
        IF known THEN {} ELSE {"vcpu"})
VolumeFacts(x) ==
  [state |-> x.state, size_gb |-> x.size, volume_type |-> x.type, region |-> Region]
SnapshotFacts(x) ==
  Known([state |-> x.state, size_gb |-> x.size, storage_tier |-> x.tier,
         description |-> x.description, region |-> Region],
        {k \in {"storage_tier"} : x.tier = ""}
          \cup {k \in {"description"} : x.description = ""})
InstanceFacts(x) == [state |-> x.state, region |-> Region]

\* What an observation keeps of a database, which is all but the region, and the item
\* that replay makes of it.
db_to_observation(x) == [k \in DOMAIN x \ {"region"} |-> x[k]]
PayloadToDb(payload) ==
  [k \in DOMAIN payload \cup {"region"} |-> IF k = "region" THEN Region ELSE payload[k]]

FactsFactory(r, x) ==
  CASE r \in Dbs -> DbFacts(x) [] r \in Volumes -> VolumeFacts(x)
    [] r \in Snapshots -> SnapshotFacts(x) [] OTHER -> InstanceFacts(x)

\* Variant with a fault: a fact that is there is not overwritten.
InsertOnly(old, new, kept) ==
  [k \in DOMAIN new \cup DOMAIN old |-> IF k \in DOMAIN old THEN old[k] ELSE new[k]]

\* upsert_facts: the keys of what is new are overwritten; no fact is ever deleted, and
\* what is kept are the keys of old that new does not speak of.
Upsert(old, new, kept) ==
  [k \in DOMAIN new \cup (DOMAIN old \cap kept) |->
     IF k \in DOMAIN new THEN new[k] ELSE old[k]]

CorrelationKeys == {"volume_exists", "attached_volumes"}

\* Variant with a fault: a failed job looks like one that found less.
RanAtAll(job) == job \in DOMAIN ran

\* region_items_by_job: only jobs that ended without an error are in it.
Succeeded(job) == job \in DOMAIN ran /\ ran[job]
ItemsOf(job) == {r \in DOMAIN raw : JobOf(r) = job /\ Succeeded(job)}

\* correlation_facts, for one resource of the pass.
AttachedVolumes(r) ==
  {[id |-> v, type |-> raw[v].type, size |-> raw[v].size] :
     v \in raw[r].volumes \cap ItemsOf("ec2_volume")}
Correlated(r) ==
  IF ~ Succeeded("ec2_volume") \/ r \notin ItemsOf(JobOf(r)) THEN Nothing
  ELSE CASE r \in Snapshots -> [volume_exists |-> raw[r].volume \in ItemsOf("ec2_volume")]
         [] r \in Instances /\ raw[r].state = "stopped" ->
              [attached_volumes |-> AttachedVolumes(r)]
         [] OTHER -> Nothing

-----------------------------------------------------------------------------
(* A pass (collect_target, _run_region_job).                               *)

Begin(target) ==
  /\ todo = Idle /\ passes < MaxPasses
  /\ todo' = target /\ passes' = passes + 1
  /\ still' = TRUE
  /\ UNCHANGED <<account, database, ran, raw, replay, last, missed, raced>>

\* A job upserts what it sees; one that fails keeps what it saw before it failed.
ScanJob(job) ==
  /\ todo \notin {Idle, <<>>} /\ job = Head(todo)
  /\ todo' = Tail(todo)
  /\ \E ok \in BOOLEAN, seen \in SUBSET Collected(job) :
       /\ ok => seen = Collected(job)
       /\ raw' = [r \in DOMAIN raw \cup seen |->
                    IF r \in seen THEN Described(r) ELSE raw[r]]
       /\ ran' = [j \in DOMAIN ran \cup {job} |-> IF j = job THEN ok ELSE ran[j]]
  /\ UNCHANGED <<account, database, passes, replay, history>>

\* Variant with a fault: what a pass saw is there for the next.
EndPassKeepsItems == todo' = Idle /\ ran' = Nothing /\ raw' = raw

EndPass == todo' = Idle /\ ran' = Nothing /\ raw' = Nothing

\* The correlation post-pass, then the commit.
Commit ==
  /\ todo = <<>>
  /\ facts' = [r \in Resources |->
       LET old == IF r \notin DOMAIN raw THEN facts[r]
                  ELSE Upsert(facts[r], FactsFactory(r, raw[r]), CorrelationKeys)
       IN Upsert(old, Correlated(r), DOMAIN old)]
  /\ obs' = [d \in Dbs |->
       obs[d] \cup (IF d \in DOMAIN raw
                 THEN {[at |-> passes, payload |-> db_to_observation(raw[d])]} ELSE {})]
  /\ success' = [j \in JOB_REGISTRY |->
                   IF j \in DOMAIN ran /\ ran[j] THEN now ELSE success[j]]
  /\ EndPass
  /\ last' = ran
  /\ missed' = {s \in Snapshots :
       IF Correlated(s) = Nothing THEN s \in missed
       ELSE ran["ec2_volume"] /\ raw[s].volume \notin DOMAIN raw}
  /\ raced' = IF replay.on THEN raced \cup (Dbs \cap DOMAIN raw) ELSE raced \ DOMAIN raw
  /\ UNCHANGED <<account, passes, replay, still>>

\* An exception out of the pass: rollback.
PassFails ==
  /\ todo # Idle
  /\ EndPass
  /\ last' = Nothing
  /\ UNCHANGED <<account, database, passes, replay, still, missed, raced>>

-----------------------------------------------------------------------------
(* A replay (replay_observations): the SELECT of the observations, since a *)
(* date or all, then the upserts in their order and the commit.  A replay  *)
(* that selects none writes nothing.                                       *)

ReplayReads ==
  /\ ~ replay.on
  /\ \E since \in 1..MaxPasses :
       replay' = [on |-> TRUE,
                  obs |-> [d \in Dbs |-> {o \in obs[d] : o.at >= since}]]
  /\ \E d \in Dbs : replay'.obs[d] # {}
  /\ UNCHANGED <<account, database, pass, history>>

\* ORDER BY observed_at: the last of a set of observations of one database.
Newest(O) == CHOOSE o \in O : \A p \in O : p.at <= o.at

\* Variant with a fault: the newest observation is applied first.
ReplayedBackwards(d) ==
  CHOOSE o \in replay.obs[d] : \A p \in replay.obs[d] : o.at <= p.at

\* One upsert after the other: the facts of the last one stay.
Replayed(d) == Newest(replay.obs[d])

\* It waits for the rows a pass has written and not committed.
ReplayWrites ==
  /\ replay.on
  /\ \A d \in Dbs : replay.obs[d] # {} => d \notin DOMAIN raw
  /\ facts' = [r \in Resources |->
       IF r \notin Dbs \/ replay.obs[r] = {} THEN facts[r]
       ELSE Upsert(facts[r], DbFacts(PayloadToDb(Replayed(r).payload)), CorrelationKeys)]
  /\ replay' = NoReplay
  /\ UNCHANGED <<account, obs, success, pass, history>>

-----------------------------------------------------------------------------
Next ==
  \/ \E r \in Resources : Moves(r)
  \/ Tick
  \/ \E t \in fleet.targets : Begin(t)
  \/ \E j \in JOB_REGISTRY : ScanJob(j)
  \/ Commit \/ PassFails
  \/ ReplayReads \/ ReplayWrites

Spec == Init /\ [][Next]_vars

-----------------------------------------------------------------------------
(* Verdicts (runner.py, _scope_inconclusive and _evaluate_resource).       *)

\* DEFAULT_SCOPE_MAX_AGE, in days.
ScopeMaxAge == 1

\* latest_successful_run looks for the rule's source and the resource's own type.
ScopeProven(rule, r) ==
  RULE_SOURCES[rule] = SourceOf(JobOf(r)) /\ success[JobOf(r)] # NoRun
ScopeStale(r) == now - success[JobOf(r)] > ScopeMaxAge

\* The type whose namespace a rule reads; of other types it knows no fact.
TypeOf(rule) ==
  CASE rule \in EOL_RULES -> Dbs
    [] rule \in {"ebs_gp2_to_gp3", "ebs_unattached"} -> Volumes
    [] rule = "snapshot_orphan" -> Snapshots
    [] OTHER -> Instances

Verdict(rule, r) ==
  IF ~ ScopeProven(rule, r) THEN Inconclusive({"scope_not_proven"})
  ELSE IF ScopeStale(r) THEN Inconclusive({"scope_stale"})
  ELSE IF facts[r] = Nothing THEN Inconclusive({"<no facts>"})
  ELSE EvaluateFn(rule, IF r \in TypeOf(rule) THEN facts[r] ELSE Nothing, now)
-----------------------------------------------------------------------------
(* Properties.                                                             *)

\* What a storage rule is there to find, in the account itself.
Wasted(rule, r) ==
  CASE rule = "ebs_unattached" -> ~ InUse(r)
    [] rule = "ebs_gp2_to_gp3" ->
         world[r].type = "gp2" /\ Gp2Savings(VolumeFacts(world[r])) >= MinSavingsCents
    [] rule = "snapshot_orphan" ->
         /\ world[r].state = "completed" /\ ~ Live(world[r].volume)
         /\ world[r].description # "ami"
    [] OTHER -> world[r].state = "stopped" /\ world[r].volumes # {}

\* What it cannot tell: a type or tier without a price, an AMI without a description.
Untold(rule, r) ==
  CASE rule = "ebs_unattached" ->
         ~ InUse(r) /\ ~ Catalogued(EBS_PRICING_BY_REGION, world[r].type, Region)
    [] rule = "snapshot_orphan" ->
         \/ world[r].description = ""
         \/ /\ Wasted(rule, r)
            /\ world[r].tier \notin {"", "standard", "archive"}
    [] OTHER -> FALSE

\* When a pass ran every job that a storage rule rests on to its end, and the account
\* has not changed since it began, the rule finds exactly what is wasted, says which
\* resources it cannot tell of, and clears all others: through the facts, the
\* correlation post-pass, the scope and the catalog, whatever earlier passes left
\* behind (collectors/aws.py:581-599, snapshot_orphan/resolver.py:1-31).
RestsOn(rule) ==
  {JobOf(r) : r \in TypeOf(rule)}
    \cup {j \in {"ec2_volume"} : rule \in {"snapshot_orphan", "ec2_stopped_with_storage"}}
QuietScanTellsTruth ==
  still /\ todo = Idle =>
    \A rule \in RESOURCE_RULES \ EOL_RULES : \A r \in TypeOf(rule) :
      /\ Live(r) /\ ~ ScopeStale(r)
      /\ \A j \in RestsOn(rule) : j \in DOMAIN last /\ last[j]
      => Verdict(rule, r).kind =
           IF Untold(rule, r) THEN "inconclusive"
           ELSE IF Wasted(rule, r) THEN "match" ELSE "no_match"

\* Absence of proof is not proof of absence: whatever failed and whenever, a snapshot
\* is reported as an orphan only on a volume scan that ran to its end and did not see
\* its volume (aws_ec2/collector.py:494-500).
OrphanWasMissed ==
  \A s \in Snapshots : Verdict("snapshot_orphan", s).kind = "match" => s \in missed

\* The facts of a database are those of its newest observation, after any sequence of
\* passes, failures and replays, unless its last scan and a replay overlapped
\* (facts.py:3-5, cli/replay_facts.py:12-16).
FactsFromNewest ==
  \A d \in Dbs \ raced :
    obs[d] # {} => facts[d] = DbFacts(PayloadToDb(Newest(obs[d]).payload))

\* As days go by, with the same facts, no Extended Support verdict gets milder and no
\* amount smaller: end of support, third year and forced upgrade only add up
\* (eol.py:325-420).
EscalatesOnly ==
  [][now' # now =>
       \A rule \in EOL_RULES : \A d \in Dbs :
         LET before == EvaluateEol(rule, facts[d], now)
             after == EvaluateEol(rule, facts[d], now') IN
         Rank(before.severity) <= Rank(after.severity) /\ before.cents <= after.cents]_vars
=============================================================================
