-------------------------- MODULE Evidence_proofs --------------------------
(***************************************************************************)
(* Proofs for every account, sequence of passes and replays: a snapshot is *)
(* reported as an orphan only on a volume scan that ran to its end without *)
(* its volume; the facts of a database are those of its newest             *)
(* observation; no Extended Support verdict gets milder with the days; the *)
(* storage rules tell the truth about an account that stood still.         *)
(***************************************************************************)
EXTENDS Evidence, WellFoundedInduction, TLAPS

\* A snapshot names a volume, in the account and in what a pass saw of it.
VolumeNamed ==
  /\ DOMAIN world = Resources
  /\ \A s \in Snapshots :
       /\ "volume" \in DOMAIN world[s] /\ world[s].volume \in Volumes
       /\ s \in DOMAIN raw => raw[s].volume \in Volumes

\* A volume is missing in the facts of a snapshot only after such a scan.
AbsenceProven ==
  \A s \in Snapshots :
    "volume_exists" \in DOMAIN facts[s] => facts[s]["volume_exists"] \/ s \in missed

OrphanInv == VolumeNamed /\ AbsenceProven

-----------------------------------------------------------------------------
(* Operators.                                                              *)

\* No item fact is called volume_exists: only the correlation post-pass writes it
\* (collectors/aws.py, correlation_facts).
LEMMA OnlyCorrelationKnows ==
  ASSUME NEW r, NEW x
  PROVE  "volume_exists" \notin DOMAIN FactsFactory(r, x)
BY DEF FactsFactory, DbFacts, VolumeFacts, SnapshotFacts, InstanceFacts, Known

\* What an upsert leaves under a key the new facts do not speak of.
LEMMA UpsertKeeps ==
  ASSUME NEW old, NEW new, NEW kept, NEW k, k \notin DOMAIN new,
         k \in DOMAIN Upsert(old, new, kept)
  PROVE  k \in DOMAIN old /\ Upsert(old, new, kept)[k] = old[k]
BY DEF Upsert

\* The rule asks for the fact before it matches (snapshot_orphan/resolver.py).
LEMMA OrphanRests ==
  ASSUME NEW f, SnapshotOrphan(f).kind = "match"
  PROVE  "volume_exists" \in DOMAIN f /\ ~ f["volume_exists"]
BY DEF SnapshotOrphan, SnapshotKeys, Inconclusive, NoMatch

\* The job of a snapshot and that of its volume.
LEMMA Jobs ==
  /\ \A s \in Snapshots : JobOf(s) = "ec2_snapshot" /\ s \notin Dbs /\ s \notin Volumes
  /\ \A v \in Volumes : JobOf(v) = "ec2_volume"
BY KindsAssumption DEF JobOf

-----------------------------------------------------------------------------
(* The invariant.                                                          *)

LEMMA InitOrphanInv ==
  ASSUME Init
  PROVE  OrphanInv
<1>1. VolumeNamed
  BY FleetsAssumption, KindsAssumption DEF Init, VolumeNamed, Nothing
<1>2. AbsenceProven
  BY DEF Init, AbsenceProven, Nothing, Resources
<1>3. QED
  BY <1>1, <1>2 DEF OrphanInv

\* Names stay: a resource changes its state, a scan copies them.
LEMMA StepVolumeNamed ==
  ASSUME VolumeNamed, [Next]_vars
  PROVE  VolumeNamed'
<1> USE DEF VolumeNamed
<1>1. ASSUME NEW r \in Resources, Moves(r)  PROVE VolumeNamed'
  <2>1. PICK w \in Becomes(r) : world' = [world EXCEPT ![r] = w]
    BY <1>1 DEF Moves
  <2>2. r \in Snapshots => "volume" \in DOMAIN w /\ w.volume = world[r].volume
    <3>1. SUFFICES ASSUME r \in Snapshots
                   PROVE  "volume" \in DOMAIN w /\ w.volume = world[r].volume
      OBVIOUS
    <3>2. w \in {[world[r] EXCEPT !.state = x] : x \in {"pending", "completed"}}
      BY <2>1, <3>1, Jobs DEF Becomes
    <3>3. QED
      BY <3>1, <3>2
  <2>3. raw' = raw
    BY <1>1 DEF Moves, pass
  <2>4. QED
    BY <2>1, <2>2, <2>3
<1>2. ASSUME NEW j \in JOB_REGISTRY, ScanJob(j)  PROVE VolumeNamed'
  <2>1. PICK seen \in SUBSET Collected(j) :
          raw' = [r \in DOMAIN raw \cup seen |->
                    IF r \in seen THEN Described(r) ELSE raw[r]]
    BY <1>2 DEF ScanJob
  <2>2. \A s \in Snapshots : Described(s) = world[s]
    BY Jobs DEF Described
  <2>3. world' = world
    BY <1>2 DEF ScanJob, account
  <2>4. QED
    BY <2>1, <2>2, <2>3
<1>3. CASE Commit \/ PassFails
  BY <1>3 DEF Commit, PassFails, EndPass, Nothing, account
<1>4. CASE Tick \/ ReplayReads \/ ReplayWrites \/ \E t \in fleet.targets : Begin(t)
  BY <1>4 DEF Tick, ReplayReads, ReplayWrites, Begin, account, pass
<1>5. CASE UNCHANGED vars
  BY <1>5 DEF vars, account, pass
<1>6. QED
  BY <1>1, <1>2, <1>3, <1>4, <1>5 DEF Next

\* The commit of a pass: what it says of a volume rests on the volume job of the pass.
LEMMA CommitProves ==
  ASSUME OrphanInv, Commit
  PROVE  AbsenceProven'
<1>1. SUFFICES ASSUME NEW s \in Snapshots,
                      "volume_exists" \in DOMAIN facts'[s], ~ facts'[s]["volume_exists"]
               PROVE  s \in missed'
  BY DEF AbsenceProven
<1> DEFINE old == IF s \notin DOMAIN raw THEN facts[s]
                  ELSE Upsert(facts[s], FactsFactory(s, raw[s]), CorrelationKeys)
<1>2. facts'[s] = Upsert(old, Correlated(s), DOMAIN old)
  BY DEF Commit, Resources
<1>3. s \in missed' <=> IF Correlated(s) = Nothing THEN s \in missed
                        ELSE ran["ec2_volume"] /\ raw[s].volume \notin DOMAIN raw
  BY DEF Commit
<1>4. CASE Correlated(s) = Nothing
  <2>1. "volume_exists" \in DOMAIN old /\ facts'[s]["volume_exists"] = old["volume_exists"]
    BY <1>1, <1>2, <1>4, UpsertKeeps DEF Nothing
  <2>2. /\ "volume_exists" \in DOMAIN facts[s]
        /\ old["volume_exists"] = facts[s]["volume_exists"]
    BY <2>1, OnlyCorrelationKnows, UpsertKeeps
  <2>3. s \in missed
    BY <1>1, <2>1, <2>2 DEF OrphanInv, AbsenceProven
  <2>4. QED
    BY <1>3, <1>4, <2>3
<1>5. CASE Correlated(s) # Nothing
  <2>1. /\ Succeeded("ec2_volume")
        /\ s \in DOMAIN raw
        /\ Correlated(s) = [volume_exists |-> raw[s].volume \in ItemsOf("ec2_volume")]
    <3>1. Succeeded("ec2_volume") /\ s \in ItemsOf(JobOf(s))
      BY <1>5 DEF Correlated
    <3>2. Correlated(s) = [volume_exists |-> raw[s].volume \in ItemsOf("ec2_volume")]
      BY <3>1, KindsAssumption DEF Correlated
    <3>3. QED
      BY <3>1, <3>2 DEF ItemsOf
  <2>2. facts'[s]["volume_exists"] = (raw[s].volume \in ItemsOf("ec2_volume"))
    BY <1>2, <2>1 DEF Upsert
  <2>3. raw[s].volume \notin ItemsOf("ec2_volume")
    BY <1>1, <2>2
  <2>4. raw[s].volume \notin DOMAIN raw
    BY <2>1, <2>3, Jobs DEF ItemsOf, OrphanInv, VolumeNamed
  <2>5. QED
    BY <1>3, <1>5, <2>1, <2>4 DEF Succeeded
<1>6. QED
  BY <1>4, <1>5

\* A replay writes the facts of databases only.
LEMMA StepAbsenceProven ==
  ASSUME OrphanInv, [Next]_vars
  PROVE  AbsenceProven'
<1> USE DEF OrphanInv
<1>1. CASE Commit
  BY <1>1, CommitProves
<1>2. CASE ReplayWrites
  <2>1. \A s \in Snapshots : facts'[s] = facts[s]
    BY <1>2, Jobs DEF ReplayWrites, Resources
  <2>2. missed' = missed
    BY <1>2 DEF ReplayWrites, history
  <2>3. QED
    BY <2>1, <2>2 DEF AbsenceProven
<1>3. ASSUME UNCHANGED <<facts, missed>>  PROVE AbsenceProven'
  BY <1>3 DEF AbsenceProven
<1>4. ASSUME NEW r \in Resources, Moves(r)  PROVE AbsenceProven'
  BY <1>3, <1>4 DEF Moves, database
<1>5. ASSUME NEW j \in JOB_REGISTRY, ScanJob(j)  PROVE AbsenceProven'
  BY <1>3, <1>5 DEF ScanJob, database, history
<1>6. CASE Tick \/ PassFails \/ ReplayReads \/ \E t \in fleet.targets : Begin(t)
  BY <1>3, <1>6 DEF Tick, PassFails, ReplayReads, Begin, database, history
<1>7. CASE UNCHANGED vars
  BY <1>3, <1>7 DEF vars, database, history
<1>8. QED
  BY <1>1, <1>2, <1>4, <1>5, <1>6, <1>7 DEF Next

\* The strengthening holds in every state: facts that deny a volume come from a volume
\* scan that ran to its end in the pass of the snapshot (collectors/aws.py:581-599).
THEOREM AbsenceInvariant == Spec => []OrphanInv
<1>1. Init => OrphanInv
  BY InitOrphanInv
<1>2. OrphanInv /\ [Next]_vars => OrphanInv'
  BY StepVolumeNamed, StepAbsenceProven DEF OrphanInv
<1>3. QED
  BY <1>1, <1>2, PTL DEF Spec

\* Absence of proof is not proof of absence: only such a scan makes an orphan of a
\* snapshot, through jobs that fail, passes that roll back and replays
\* (aws_ec2/collector.py:494-500).
THEOREM OrphanProven == Spec => []OrphanWasMissed
<1>1. ASSUME OrphanInv  PROVE OrphanWasMissed
  <2>1. SUFFICES ASSUME NEW s \in Snapshots, Verdict("snapshot_orphan", s).kind = "match"
                 PROVE  s \in missed
    BY DEF OrphanWasMissed
  <2>2. \A reasons : Inconclusive(reasons).kind = "inconclusive"
    BY DEF Inconclusive, NoMatch
  <2>3. "snapshot_orphan" \notin EOL_RULES
    BY DEF EOL_RULES, CONFIG
  <2>4. s \in TypeOf("snapshot_orphan")
    BY <2>3 DEF TypeOf
  <2>5. Verdict("snapshot_orphan", s) = EvaluateFn("snapshot_orphan", facts[s], now)
    BY <2>1, <2>2, <2>4 DEF Verdict
  <2>6. EvaluateFn("snapshot_orphan", facts[s], now) = SnapshotOrphan(facts[s])
    BY <2>3 DEF EvaluateFn
  <2>7. "volume_exists" \in DOMAIN facts[s] /\ ~ facts[s]["volume_exists"]
    BY <2>1, <2>5, <2>6, OrphanRests
  <2>8. QED
    BY <1>1, <2>7 DEF OrphanInv, AbsenceProven
<1>2. QED
  BY <1>1, AbsenceInvariant, PTL

-----------------------------------------------------------------------------
(* Types.                                                                  *)

\* The keys a fact may have.
FactKeys == EolKeys \cup VolumeKeys \cup SnapshotKeys \cup {"storage_tier", "attached_volumes"}

\* What TypeOK rests on: the jobs left are jobs, a pass under way is counted, the
\* account has all its resources.
Shapes ==
  /\ todo \in Seq(JOB_REGISTRY) \cup {Idle}
  /\ todo # Idle => passes # 0
  /\ DOMAIN world = Resources

TypeInv == TypeOK /\ Shapes

LEMMA UpsertKeys ==
  ASSUME NEW old, NEW new, NEW kept, NEW K, DOMAIN old \subseteq K, DOMAIN new \subseteq K
  PROVE  DOMAIN Upsert(old, new, kept) \subseteq K
BY DEF Upsert

LEMMA ItemKeys ==
  ASSUME NEW r, NEW x
  PROVE  DOMAIN FactsFactory(r, x) \subseteq FactKeys
<1>1. DOMAIN DbFacts(x) \subseteq FactKeys
  BY DEF DbFacts, Known, FactKeys, EolKeys
<1>2. DOMAIN VolumeFacts(x) \subseteq FactKeys
  BY DEF VolumeFacts, FactKeys, VolumeKeys
<1>3. DOMAIN SnapshotFacts(x) \subseteq FactKeys
  BY DEF SnapshotFacts, Known, FactKeys, SnapshotKeys
<1>4. DOMAIN InstanceFacts(x) \subseteq FactKeys
  BY DEF InstanceFacts, FactKeys, VolumeKeys
<1>5. QED
  BY <1>1, <1>2, <1>3, <1>4 DEF FactsFactory

LEMMA CorrelatedKeys ==
  ASSUME NEW r
  PROVE  DOMAIN Correlated(r) \subseteq FactKeys
<1>1. Correlated(r) \in {Nothing, [volume_exists |-> raw[r].volume \in ItemsOf("ec2_volume")],
                         [attached_volumes |-> AttachedVolumes(r)]}
  BY DEF Correlated
<1>2. QED
  BY <1>1 DEF Nothing, FactKeys, SnapshotKeys

\* The account changes a value of a resource, never what it has values for.
LEMMA BecomesKeeps ==
  ASSUME NEW r, NEW w \in Becomes(r)
  PROVE  DOMAIN w = DOMAIN world[r]
<1>1. CASE r \in Dbs
  BY <1>1 DEF Becomes
<1>2. CASE r \notin Dbs /\ r \in Volumes
  BY <1>2 DEF Becomes
<1>3. CASE r \notin Dbs /\ r \notin Volumes /\ r \in Snapshots
  BY <1>3 DEF Becomes
<1>4. CASE r \notin Dbs /\ r \notin Volumes /\ r \notin Snapshots
  BY <1>4 DEF Becomes
<1>5. QED
  BY <1>1, <1>2, <1>3, <1>4

LEMMA JobsOfResources == \A r : JobOf(r) \in JOB_REGISTRY
BY DEF JobOf, JOB_REGISTRY

LEMMA IdleIsNoJob == Idle \notin Seq(JOB_REGISTRY)
<1>1. Idle[1] \notin JOB_REGISTRY /\ Len(Idle) = 1
  BY DEF Idle, JOB_REGISTRY
<1>2. \A s \in Seq(JOB_REGISTRY) : Len(s) = 1 => s[1] \in JOB_REGISTRY
  OBVIOUS
<1>3. QED
  BY <1>1, <1>2

LEMMA FirstDay ==
  ASSUME NEW f \in Fleets
  PROVE  (CHOOSE d \in f.days : \A e \in f.days : d <= e) \in f.days
<1>1. f.days \subseteq Nat /\ f.days # {}
  BY FleetsAssumption
<1>2. PICK d \in f.days : \A e \in f.days : ~ (<<e, d>> \in OpToRel(<, Nat))
  BY <1>1, NatLessThanWellFounded, WFMin
<1>3. \A e \in f.days : d <= e
  <2>1. \A e \in f.days : ~ (e < d)
    <3>1. TAKE e \in f.days
    <3>2. <<e, d>> \in Nat \X Nat
      BY <1>1
    <3>3. QED
      BY <1>2, <3>2, Zenon DEF OpToRel
  <2>2. QED
    BY <1>1, <2>1
<1>4. QED
  BY <1>3

LEMMA InitTypeInv ==
  ASSUME Init
  PROVE  TypeInv
<1>1. Shapes
  BY FleetsAssumption DEF Init, Shapes
<1>2. now \in fleet.days
  BY FirstDay DEF Init
<1>3. \A r \in Resources : DOMAIN world[r] = DOMAIN fleet.world[r] /\ DOMAIN facts[r] = {}
  BY DEF Init, Nothing
<1>4. \A d \in Dbs : obs[d] = {} /\ replay.obs[d] = {}
  BY DEF Init, NoReplay
<1>5. DOMAIN ran = {} /\ DOMAIN raw = {}
  BY DEF Init, Nothing
<1>6. \A j \in JOB_REGISTRY : success[j] = NoRun
  BY DEF Init
<1>7. TypeOK
  BY <1>2, <1>3, <1>4, <1>5, <1>6, BoundsAssumption DEF Init, TypeOK
<1>8. QED
  BY <1>1, <1>7 DEF TypeInv

LEMMA MovesTypes ==
  ASSUME TypeInv, NEW r \in Resources, Moves(r)
  PROVE  TypeInv'
<1> USE DEF TypeInv
<1>1. PICK w \in Becomes(r) : world' = [world EXCEPT ![r] = w]
  BY DEF Moves
<1>2. \A q \in Resources : DOMAIN world'[q] = DOMAIN world[q]
  BY <1>1, BecomesKeeps DEF Shapes
<1>3. DOMAIN world' = DOMAIN world
  BY <1>1
<1>4. /\ moves' = moves + 1 /\ moves < MaxMoves /\ still' = FALSE
      /\ UNCHANGED <<fleet, now, database, pass, replay, last, missed, raced>>
  BY DEF Moves
<1>5. moves' \in 0..MaxMoves
  BY <1>4, BoundsAssumption DEF TypeOK
<1>6. QED
  BY <1>2, <1>3, <1>4, <1>5 DEF TypeOK, Shapes, database, pass

LEMMA ScanTypes ==
  ASSUME TypeInv, NEW job \in JOB_REGISTRY, ScanJob(job)
  PROVE  TypeInv'
<1> USE DEF TypeInv
<1>1. PICK ok \in BOOLEAN, seen \in SUBSET Collected(job) :
        /\ raw' = [r \in DOMAIN raw \cup seen |->
                     IF r \in seen THEN Described(r) ELSE raw[r]]
        /\ ran' = [j \in DOMAIN ran \cup {job} |-> IF j = job THEN ok ELSE ran[j]]
  BY DEF ScanJob
<1>2. /\ todo \notin {Idle, <<>>} /\ todo' = Tail(todo)
      /\ UNCHANGED <<account, database, passes, replay, history>>
  BY DEF ScanJob
<1>3. todo' \in Seq(JOB_REGISTRY)
  BY <1>2 DEF Shapes
<1>4. Idle \notin Seq(JOB_REGISTRY)
  BY IdleIsNoJob
<1>5. DOMAIN ran' \subseteq JOB_REGISTRY
  BY <1>1 DEF TypeOK
<1>6. \A r \in DOMAIN raw' : r \in Resources /\ JobOf(r) \in DOMAIN ran'
  BY <1>1 DEF TypeOK, Collected
<1>7. QED
  BY <1>2, <1>3, <1>4, <1>5, <1>6 DEF TypeOK, Shapes, account, database, history

LEMMA CommitTypes ==
  ASSUME TypeInv, Commit
  PROVE  TypeInv'
<1> USE DEF TypeInv
<1>1. \A r \in Resources : DOMAIN facts'[r] \subseteq FactKeys
  <2>1. TAKE r \in Resources
  <2> DEFINE old == IF r \notin DOMAIN raw THEN facts[r]
                    ELSE Upsert(facts[r], FactsFactory(r, raw[r]), CorrelationKeys)
  <2>2. DOMAIN facts[r] \subseteq FactKeys
    BY DEF TypeOK, FactKeys
  <2>3. DOMAIN old \subseteq FactKeys
    BY <2>2, ItemKeys, UpsertKeys
  <2>4. facts'[r] = Upsert(old, Correlated(r), DOMAIN old)
    BY DEF Commit
  <2>5. QED
    BY <2>3, <2>4, CorrelatedKeys, UpsertKeys
<1>2. todo # Idle
  BY DEF Commit, Idle
<1>3. \A d \in Dbs : obs[d] \subseteq obs'[d] /\ \A o \in obs'[d] : o \in obs[d] \/ o.at = passes
  BY DEF Commit
<1>4. passes \in 1..MaxPasses
  BY <1>2, BoundsAssumption DEF TypeOK, Shapes
<1>5. \A d \in Dbs : (\A o \in obs'[d] : o.at \in 1..passes) /\ replay.obs[d] \subseteq obs'[d]
  BY <1>3, <1>4 DEF TypeOK
<1>6. \A j \in JOB_REGISTRY : success'[j] \in fleet.days \cup {NoRun}
  BY DEF Commit, TypeOK
<1>7. missed' \subseteq Snapshots /\ raced' \subseteq Dbs
  BY DEF Commit, TypeOK
<1>8. /\ todo' = Idle /\ ran' = Nothing /\ raw' = Nothing
      /\ UNCHANGED <<account, passes, replay, still>>
  BY DEF Commit, EndPass
<1>9. DOMAIN ran' = {} /\ DOMAIN raw' = {}
  BY <1>8 DEF Nothing
<1>10. QED
  BY <1>1, <1>5, <1>6, <1>7, <1>8, <1>9 DEF TypeOK, Shapes, account, FactKeys

LEMMA ReplayReadsTypes ==
  ASSUME TypeInv, ReplayReads
  PROVE  TypeInv'
<1> USE DEF TypeInv
<1>1. \A d \in Dbs : replay'.obs[d] \subseteq obs[d]
  BY DEF ReplayReads
<1>2. UNCHANGED <<account, database, pass, history>>
  BY DEF ReplayReads
<1>3. QED
  BY <1>1, <1>2 DEF TypeOK, Shapes, account, database, pass, history

LEMMA ReplayWritesTypes ==
  ASSUME TypeInv, ReplayWrites
  PROVE  TypeInv'
<1> USE DEF TypeInv
<1>1. \A r \in Resources : DOMAIN facts'[r] \subseteq FactKeys
  <2>1. \A x : DOMAIN DbFacts(x) \subseteq FactKeys
    BY DEF DbFacts, Known, FactKeys, EolKeys
  <2>2. TAKE r \in Resources
  <2>3. DOMAIN facts[r] \subseteq FactKeys
    BY DEF TypeOK, FactKeys
  <2>4. \/ facts'[r] = facts[r]
        \/ facts'[r] = Upsert(facts[r], DbFacts(PayloadToDb(Replayed(r).payload)),
                              CorrelationKeys)
    BY DEF ReplayWrites
  <2>5. QED
    BY <2>1, <2>3, <2>4, UpsertKeys
<1>2. \A d \in Dbs : replay'.obs[d] = {}
  BY DEF ReplayWrites, NoReplay
<1>3. UNCHANGED <<account, obs, success, pass, history>>
  BY DEF ReplayWrites
<1>4. QED
  BY <1>1, <1>2, <1>3 DEF TypeOK, Shapes, account, pass, history, FactKeys

LEMMA StepTypes ==
  ASSUME TypeInv, [Next]_vars
  PROVE  TypeInv'
<1> USE DEF TypeInv
<1>1. CASE Tick
  BY <1>1 DEF Tick, TypeOK, Shapes, database, pass, history
<1>2. ASSUME NEW t \in fleet.targets, Begin(t)  PROVE TypeInv'
  <2>1. t \in Seq(JOB_REGISTRY)
    BY FleetsAssumption DEF TypeOK
  <2>2. passes' \in 0..MaxPasses
    BY <1>2, BoundsAssumption DEF Begin, TypeOK
  <2>3. Idle \notin Seq(JOB_REGISTRY)
    BY IdleIsNoJob
  <2>4. \A d \in Dbs : \A o \in obs[d] : o.at \in 1..passes'
    BY <1>2 DEF Begin, TypeOK
  <2>5. QED
    BY <1>2, <2>1, <2>2, <2>3, <2>4 DEF Begin, TypeOK, Shapes, account, database
<1>3. CASE PassFails
  <2>1. DOMAIN ran' = {} /\ DOMAIN raw' = {}
    BY <1>3 DEF PassFails, EndPass, Nothing
  <2>2. QED
    BY <1>3, <2>1 DEF PassFails, EndPass, TypeOK, Shapes, account, database
<1>4. CASE UNCHANGED vars
  BY <1>4 DEF vars, TypeOK, Shapes, account, database, pass, history
<1>5. QED
  BY <1>1, <1>2, <1>3, <1>4, MovesTypes, ScanTypes, CommitTypes, ReplayReadsTypes,
     ReplayWritesTypes DEF Next

\* The facts, the observations and the account are of the shapes the module says, for
\* every account and number of passes (collectors/aws.py, facts.py).
THEOREM Types == Spec => []TypeOK
<1>1. TypeInv /\ [Next]_vars => TypeInv'
  BY StepTypes
<1>2. TypeInv => TypeOK
  BY DEF TypeInv
<1>3. QED
  BY InitTypeInv, <1>1, <1>2, PTL DEF Spec

-----------------------------------------------------------------------------
(* Facts and observations.                                                 *)

\* A pass observes a database once, so that the passes number its observations, and
\* there is a newest.
Observed ==
  \A d \in Dbs :
    /\ \A o, p \in obs[d] : o.at = p.at => o = p
    /\ todo # Idle => \A o \in obs[d] : o.at < passes
    /\ obs[d] # {} => Newest(obs[d]) \in obs[d]
    /\ \A o \in obs[d] : o.at <= Newest(obs[d]).at

\* What a pass holds of a database is what the API said of it.
Held ==
  \A d \in Dbs \cap DOMAIN raw :
    raw[d] = [engine |-> raw[d].engine, version |-> raw[d].version,
              class |-> raw[d].class, region |-> Region]

\* The facts of a database have no key that only the correlation writes, and its vCPUs
\* are a number.
Plain ==
  \A d \in Dbs :
    /\ facts[d] = [k \in DOMAIN facts[d] |-> facts[d][k]]
    /\ DOMAIN facts[d] \cap CorrelationKeys = {}
    /\ "vcpu" \in DOMAIN facts[d] => facts[d]["vcpu"] \in Nat

\* A replay that selected any observation of a database selected the newest, unless
\* there is one since.
Selected ==
  replay.on =>
    \A d \in Dbs \ raced : replay.obs[d] # {} => Newest(obs[d]) \in replay.obs[d]

FactsInv == TypeInv /\ Observed /\ Held /\ Plain /\ Selected /\ FactsFromNewest

LEMMA NewestIs ==
  ASSUME NEW O, NEW o \in O, \A p \in O : p.at <= o.at,
         \A p \in O : p.at \in Nat, \A p, q \in O : p.at = q.at => p = q
  PROVE  Newest(O) = o
<1>1. Newest(O) \in O /\ \A p \in O : p.at <= Newest(O).at
  BY DEF Newest
<1>2. Newest(O).at = o.at
  BY <1>1
<1>3. QED
  BY <1>1, <1>2

\* A replay makes of a stored observation the item that was stored.
LEMMA RoundTrip ==
  ASSUME NEW x,
         x = [engine |-> x.engine, version |-> x.version, class |-> x.class, region |-> Region]
  PROVE  PayloadToDb(db_to_observation(x)) = x
<1> DEFINE payload == db_to_observation(x)
<1>1. DOMAIN x = {"engine", "version", "class", "region"} /\ x.region = Region
  OBVIOUS
<1>2. /\ DOMAIN payload = {"engine", "version", "class"}
      /\ \A k \in DOMAIN payload : payload[k] = x[k]
  BY <1>1 DEF db_to_observation
<1>3. PayloadToDb(payload) =
        [k \in DOMAIN payload \cup {"region"} |-> IF k = "region" THEN Region ELSE payload[k]]
  BY DEF PayloadToDb
<1> HIDE DEF payload
<1>4. DOMAIN payload \cup {"region"} = DOMAIN x
  BY <1>1, <1>2
<1>5. PayloadToDb(payload) = [k \in DOMAIN x |-> x[k]]
  BY <1>1, <1>2, <1>3, <1>4
<1>6. x = [k \in DOMAIN x |-> x[k]]
  OBVIOUS
<1>7. QED
  BY <1>5, <1>6 DEF payload

LEMMA UpsertReplaces ==
  ASSUME NEW old, NEW new, NEW kept, DOMAIN old \cap kept = {},
         new = [k \in DOMAIN new |-> new[k]]
  PROVE  Upsert(old, new, kept) = new
BY DEF Upsert

LEMMA UpsertNothing ==
  ASSUME NEW old, old = [k \in DOMAIN old |-> old[k]]
  PROVE  Upsert(old, Nothing, DOMAIN old) = old
<1>1. DOMAIN Nothing = {}
  BY DEF Nothing
<1>2. QED
  BY <1>1 DEF Upsert

LEMMA KnownIs ==
  ASSUME NEW f, NEW empty
  PROVE  /\ DOMAIN Known(f, empty) = DOMAIN f \ empty
         /\ Known(f, empty) = [k \in DOMAIN Known(f, empty) |-> Known(f, empty)[k]]
         /\ \A k \in DOMAIN f \ empty : Known(f, empty)[k] = f[k]
BY DEF Known

\* What a database's item has facts of.
LEMMA DbFactsArePlain ==
  ASSUME NEW x
  PROVE  /\ DbFacts(x) = [k \in DOMAIN DbFacts(x) |-> DbFacts(x)[k]]
         /\ DOMAIN DbFacts(x) \cap CorrelationKeys = {}
         /\ "vcpu" \in DOMAIN DbFacts(x) => DbFacts(x)["vcpu"] \in Nat
<1>1. VcpuForInstanceClass(x.class) \in Nat
  BY DEF VcpuForInstanceClass
<1> DEFINE known == x.class \in RDS_INSTANCE_CLASSES
           f == [engine |-> x.engine, engine_version |-> x.version, region |-> x.region,
                 vcpu |-> IF known THEN VcpuForInstanceClass(x.class) ELSE 0]
           empty == IF known THEN {} ELSE {"vcpu"}
<1>2. DbFacts(x) = Known(f, empty)
  BY DEF DbFacts
<1>3. /\ DOMAIN f = {"engine", "engine_version", "region", "vcpu"}
      /\ f["vcpu"] \in Nat
  BY <1>1
<1> HIDE DEF f, empty
<1> DEFINE facts_of == Known(f, empty)
<1>4. /\ DOMAIN facts_of = DOMAIN f \ empty
      /\ facts_of = [k \in DOMAIN facts_of |-> facts_of[k]]
      /\ \A k \in DOMAIN f \ empty : facts_of[k] = f[k]
  BY KnownIs
<1> HIDE DEF facts_of
<1>5. /\ DOMAIN facts_of \cap CorrelationKeys = {}
      /\ "vcpu" \in DOMAIN facts_of => facts_of["vcpu"] \in Nat
  BY <1>3, <1>4 DEF CorrelationKeys
<1>6. QED
  BY <1>2, <1>4, <1>5 DEF facts_of

LEMMA InitFactsInv ==
  ASSUME Init
  PROVE  FactsInv
<1>1. Held /\ Plain
  BY DEF Init, Held, Plain, Nothing, Resources
<1>2. Observed /\ Selected /\ FactsFromNewest
  BY DEF Init, Observed, Selected, NoReplay, FactsFromNewest
<1>3. QED
  BY <1>1, <1>2, InitTypeInv DEF FactsInv

-----------------------------------------------------------------------------
\* What a commit does to a database: the facts of what the pass saw of it, under the
\* number of the pass.
LEMMA CommitEffect ==
  ASSUME FactsInv, Commit, NEW d \in Dbs
  PROVE  /\ facts'[d] = IF d \in DOMAIN raw THEN DbFacts(raw[d]) ELSE facts[d]
         /\ obs'[d] = obs[d] \cup
              (IF d \in DOMAIN raw
               THEN {[at |-> passes, payload |-> db_to_observation(raw[d])]} ELSE {})
<1> DEFINE old == IF d \notin DOMAIN raw THEN facts[d]
                  ELSE Upsert(facts[d], FactsFactory(d, raw[d]), CorrelationKeys)
<1>1. facts'[d] = Upsert(old, Correlated(d), DOMAIN old)
  BY DEF Commit, Resources
<1>2. Correlated(d) = Nothing
  BY KindsAssumption DEF Correlated
<1>3. FactsFactory(d, raw[d]) = DbFacts(raw[d])
  BY KindsAssumption DEF FactsFactory
<1>4. Upsert(facts[d], DbFacts(raw[d]), CorrelationKeys) = DbFacts(raw[d])
  BY DbFactsArePlain, UpsertReplaces DEF FactsInv, Plain
<1>5. old = IF d \in DOMAIN raw THEN DbFacts(raw[d]) ELSE facts[d]
  BY <1>3, <1>4
<1>6. old = [k \in DOMAIN old |-> old[k]]
  BY <1>5, DbFactsArePlain DEF FactsInv, Plain
<1> HIDE DEF old
<1>7. facts'[d] = old
  BY <1>1, <1>2, <1>6, UpsertNothing
<1>8. obs'[d] = obs[d] \cup
              (IF d \in DOMAIN raw
               THEN {[at |-> passes, payload |-> db_to_observation(raw[d])]} ELSE {})
  BY DEF Commit
<1>9. QED
  BY <1>5, <1>7, <1>8

LEMMA CommitObserves ==
  ASSUME FactsInv, Commit
  PROVE  /\ Observed'
         /\ \A d \in Dbs :
              IF d \in DOMAIN raw
              THEN Newest(obs'[d]) = [at |-> passes, payload |-> db_to_observation(raw[d])]
              ELSE obs'[d] = obs[d]
<1> USE DEF FactsInv
<1>1. todo # Idle /\ todo' = Idle
  BY DEF Commit, EndPass, Idle
<1>2. \A d \in Dbs \ DOMAIN raw : obs'[d] = obs[d]
  BY CommitEffect
<1>3. ASSUME NEW d \in Dbs \cap DOMAIN raw
      PROVE  LET new == [at |-> passes, payload |-> db_to_observation(raw[d])] IN
             /\ Newest(obs'[d]) = new /\ new \in obs'[d]
             /\ \A o, p \in obs'[d] : o.at = p.at => o = p
             /\ \A o \in obs'[d] : o.at <= new.at
  <2> DEFINE new == [at |-> passes, payload |-> db_to_observation(raw[d])]
  <2>1. obs'[d] = obs[d] \cup {new} /\ new.at = passes
    BY <1>3, CommitEffect
  <2> HIDE DEF new
  <2>2. passes \in Nat /\ \A o \in obs[d] : o.at \in Nat /\ o.at < passes
    BY <1>1, <1>3 DEF Observed, TypeInv, TypeOK
  <2>3. \A o \in obs'[d] : o.at \in Nat /\ o.at <= passes
    BY <2>1, <2>2
  <2>4. \A o, p \in obs'[d] : o.at = p.at => o = p
    BY <1>3, <2>1, <2>2 DEF Observed
  <2>5. Newest(obs'[d]) = new
    BY <2>1, <2>3, <2>4, NewestIs
  <2>6. QED
    BY <2>1, <2>3, <2>4, <2>5 DEF new
<1>4. Observed'
  <2>1. SUFFICES ASSUME NEW d \in Dbs
                 PROVE  /\ \A o, p \in obs'[d] : o.at = p.at => o = p
                        /\ obs'[d] # {} => Newest(obs'[d]) \in obs'[d]
                        /\ \A o \in obs'[d] : o.at <= Newest(obs'[d]).at
    BY <1>1 DEF Observed, Newest
  <2>2. CASE d \in DOMAIN raw
    BY <1>3, <2>2
  <2>3. CASE d \notin DOMAIN raw
    <3>1. obs'[d] = obs[d]
      BY <1>2, <2>3
    <3>2. QED
      BY <3>1 DEF Observed
  <2>4. QED
    BY <2>2, <2>3
<1>5. QED
  BY <1>2, <1>3, <1>4

\* After a commit the facts are those of what was just observed, and a replay that
\* was under way no longer speaks for what the pass saw.
LEMMA CommitFacts ==
  ASSUME FactsInv, Commit
  PROVE  Held' /\ Plain' /\ Selected' /\ FactsFromNewest'
<1> USE DEF FactsInv
<1>1. raw' = Nothing /\ replay' = replay
  BY DEF Commit, EndPass
<1>2. raced' = IF replay.on THEN raced \cup (Dbs \cap DOMAIN raw) ELSE raced \ DOMAIN raw
  BY DEF Commit
<1>3. Held'
  BY <1>1 DEF Held, Nothing
<1>4. Plain'
  <2>1. \A d \in Dbs : facts'[d] = facts[d] \/ \E x : facts'[d] = DbFacts(x)
    BY CommitEffect
  <2>2. QED
    BY <2>1, DbFactsArePlain DEF Plain
<1>5. Selected'
  <2>1. SUFFICES ASSUME replay.on, NEW d \in Dbs \ raced', replay.obs[d] # {}
                 PROVE  Newest(obs'[d]) \in replay.obs[d]
    BY <1>1 DEF Selected
  <2>2. d \notin raced /\ d \notin DOMAIN raw
    BY <1>2, <2>1
  <2>3. obs'[d] = obs[d]
    BY <2>2, CommitObserves
  <2>4. QED
    BY <2>1, <2>2, <2>3 DEF Selected
<1>6. FactsFromNewest'
  <2>1. SUFFICES ASSUME NEW d \in Dbs \ raced', obs'[d] # {}
                 PROVE  facts'[d] = DbFacts(PayloadToDb(Newest(obs'[d]).payload))
    BY DEF FactsFromNewest
  <2>2. CASE d \in DOMAIN raw
    <3>1. Newest(obs'[d]).payload = db_to_observation(raw[d])
      <4>1. Commit /\ FactsInv /\ d \in Dbs
        BY <2>1
      <4>2. Newest(obs'[d]) = [at |-> passes, payload |-> db_to_observation(raw[d])]
        BY <2>2, <4>1, CommitObserves, Zenon
      <4>3. QED
        BY <4>2
    <3>2. PayloadToDb(db_to_observation(raw[d])) = raw[d]
      BY <2>1, <2>2, RoundTrip DEF Held
    <3>3. QED
      BY <2>1, <2>2, <3>1, <3>2, CommitEffect
  <2>3. CASE d \notin DOMAIN raw
    <3>1. d \notin raced /\ obs'[d] = obs[d] /\ facts'[d] = facts[d]
      BY <1>2, <2>1, <2>3, CommitObserves, CommitEffect
    <3>2. QED
      BY <2>1, <3>1 DEF FactsFromNewest
  <2>4. QED
    BY <2>2, <2>3
<1>7. QED
  BY <1>3, <1>4, <1>5, <1>6

\* What a replay selects of a database are its observations from some pass on: all but
\* the newest may be left out.
LEMMA ReplayReadsFacts ==
  ASSUME FactsInv, ReplayReads
  PROVE  Observed' /\ Held' /\ Plain' /\ Selected' /\ FactsFromNewest'
<1> USE DEF FactsInv
<1>1. UNCHANGED <<account, database, pass, history>>
  BY DEF ReplayReads
<1>2. PICK since \in 1..MaxPasses :
        \A d \in Dbs : replay'.obs[d] = {o \in obs[d] : o.at >= since}
  BY DEF ReplayReads
<1>3. \A d \in Dbs : replay'.obs[d] # {} => Newest(obs[d]) \in replay'.obs[d]
  <2>1. SUFFICES ASSUME NEW d \in Dbs, NEW o \in replay'.obs[d]
                 PROVE  Newest(obs[d]) \in replay'.obs[d]
    OBVIOUS
  <2>2. o \in obs[d] /\ o.at >= since
    BY <1>2
  <2>3. Newest(obs[d]) \in obs[d] /\ o.at <= Newest(obs[d]).at
    BY <2>2 DEF Observed
  <2>4. o.at \in Nat /\ Newest(obs[d]).at \in Nat /\ since \in Nat
    BY <2>2, <2>3 DEF TypeInv, TypeOK
  <2>5. QED
    BY <1>2, <2>2, <2>3, <2>4
<1>4. Selected'
  BY <1>1, <1>3 DEF Selected, database
<1>5. Observed' /\ Held' /\ Plain' /\ FactsFromNewest'
  BY <1>1 DEF Observed, Held, Plain, FactsFromNewest, database, pass, history
<1>6. QED
  BY <1>4, <1>5

\* It writes the facts of the newest observation it selected: what they are already.
LEMMA ReplayWritesFacts ==
  ASSUME FactsInv, ReplayWrites
  PROVE  Observed' /\ Held' /\ Plain' /\ Selected' /\ FactsFromNewest'
<1> USE DEF FactsInv
<1>1. replay' = NoReplay /\ UNCHANGED <<account, obs, success, pass, history>>
  BY DEF ReplayWrites
<1>2. \A d \in Dbs :
        facts'[d] = IF replay.obs[d] = {} THEN facts[d]
                    ELSE DbFacts(PayloadToDb(Replayed(d).payload))
  <2>1. TAKE d \in Dbs
  <2>2. facts'[d] = IF replay.obs[d] = {} THEN facts[d]
                    ELSE Upsert(facts[d], DbFacts(PayloadToDb(Replayed(d).payload)),
                                CorrelationKeys)
    BY DEF ReplayWrites, Resources
  <2>3. \A x : Upsert(facts[d], DbFacts(x), CorrelationKeys) = DbFacts(x)
    BY DbFactsArePlain, UpsertReplaces DEF Plain
  <2>4. QED
    BY <2>2, <2>3
<1>3. Plain'
  <2>1. \A d \in Dbs : facts'[d] = facts[d] \/ \E x : facts'[d] = DbFacts(x)
    BY <1>2
  <2>2. QED
    BY <2>1, DbFactsArePlain DEF Plain
<1>4. Selected'
  BY <1>1 DEF Selected, NoReplay
<1>5. \A d \in Dbs \ raced : replay.obs[d] # {} => Replayed(d) = Newest(obs[d])
  <2>1. SUFFICES ASSUME NEW d \in Dbs \ raced, replay.obs[d] # {}
                 PROVE  Replayed(d) = Newest(obs[d])
    OBVIOUS
  <2>2. Newest(obs[d]) \in replay.obs[d]
    BY <2>1 DEF ReplayWrites, Selected
  <2>3. replay.obs[d] \subseteq obs[d]
    BY DEF TypeInv, TypeOK
  <2>4. \A p \in replay.obs[d] : p.at <= Newest(obs[d]).at /\ p.at \in Nat
    BY <2>3 DEF Observed, TypeInv, TypeOK
  <2>5. \A p, q \in replay.obs[d] : p.at = q.at => p = q
    BY <2>3 DEF Observed
  <2>6. QED
    BY <2>2, <2>4, <2>5, NewestIs DEF Replayed
<1>6. FactsFromNewest'
  <2>1. SUFFICES ASSUME NEW d \in Dbs \ raced, obs[d] # {}
                 PROVE  facts'[d] = DbFacts(PayloadToDb(Newest(obs[d]).payload))
    BY <1>1 DEF FactsFromNewest, history
  <2>2. QED
    BY <1>2, <1>5, <2>1 DEF FactsFromNewest
<1>7. Observed' /\ Held'
  BY <1>1 DEF Observed, Held, pass
<1>8. QED
  BY <1>3, <1>4, <1>6, <1>7

LEMMA ScanFacts ==
  ASSUME FactsInv, NEW job \in JOB_REGISTRY, ScanJob(job)
  PROVE  Observed' /\ Held' /\ Plain' /\ Selected' /\ FactsFromNewest'
<1> USE DEF FactsInv
<1>1. PICK seen \in SUBSET Collected(job) :
        raw' = [r \in DOMAIN raw \cup seen |-> IF r \in seen THEN Described(r) ELSE raw[r]]
  BY DEF ScanJob
<1>2. todo # Idle /\ UNCHANGED <<account, database, passes, replay, history>>
  BY DEF ScanJob
<1>3. \A d \in Dbs :
        Described(d) = [engine |-> world[d].engine, version |-> world[d].version,
                        class |-> world[d].class, region |-> Region]
  BY KindsAssumption DEF Described
<1>4. Held'
  BY <1>1, <1>3 DEF Held
<1>5. Observed' /\ Plain' /\ Selected' /\ FactsFromNewest'
  BY <1>2 DEF Observed, Plain, Selected, FactsFromNewest, database, history
<1>6. QED
  BY <1>4, <1>5

LEMMA StepFacts ==
  ASSUME FactsInv, [Next]_vars
  PROVE  FactsInv'
<1> USE DEF FactsInv
<1>1. TypeInv'
  BY StepTypes
<1>2. ASSUME UNCHANGED <<database, replay, raced, raw, passes>>, todo' \in {todo, Idle}
      PROVE  FactsInv'
  BY <1>1, <1>2 DEF Observed, Held, Plain, Selected, FactsFromNewest, database
<1>3. CASE \E r \in Resources : Moves(r)
  BY <1>2, <1>3 DEF Moves, pass
<1>4. CASE Tick
  BY <1>2, <1>4 DEF Tick, pass, history
<1>5. ASSUME NEW t \in fleet.targets, Begin(t)  PROVE FactsInv'
  <2>1. /\ passes' = passes + 1
        /\ UNCHANGED <<database, raw, replay, raced>>
    BY <1>5 DEF Begin
  <2>2. \A d \in Dbs : \A o \in obs[d] : o.at < passes'
    BY <2>1 DEF TypeInv, TypeOK
  <2>3. Observed'
    BY <2>1, <2>2 DEF Observed, database
  <2>4. Held' /\ Plain' /\ Selected' /\ FactsFromNewest'
    BY <2>1 DEF Held, Plain, Selected, FactsFromNewest, database
  <2>5. QED
    BY <1>1, <2>3, <2>4
<1>6. CASE Commit
  BY <1>1, <1>6, CommitFacts, CommitObserves
<1>7. CASE PassFails
  <2>1. raw' = Nothing /\ todo' = Idle /\ UNCHANGED <<database, replay, raced>>
    BY <1>7 DEF PassFails, EndPass
  <2>2. Held'
    BY <2>1 DEF Held, Nothing
  <2>3. Observed' /\ Plain' /\ Selected' /\ FactsFromNewest'
    BY <2>1 DEF Observed, Plain, Selected, FactsFromNewest, database
  <2>4. QED
    BY <1>1, <2>2, <2>3
<1>8. CASE UNCHANGED vars
  BY <1>2, <1>8 DEF vars, pass, history
<1>9. QED
  BY <1>1, <1>3, <1>4, <1>5, <1>6, <1>7, <1>8, ScanFacts, ReplayReadsFacts,
     ReplayWritesFacts DEF Next

THEOREM FactsInvariant == Spec => []FactsInv
BY InitFactsInv, StepFacts, PTL DEF Spec

\* The facts of a database are those of its newest observation, after any sequence of
\* passes, failures and replays, unless its last scan and a replay overlapped: a replay
\* selects the newest or nothing, and makes of it the item the scan saw
\* (facts.py:3-5, cli/replay_facts.py:12-16).
THEOREM NewestRules == Spec => []FactsFromNewest
<1>1. FactsInv => FactsFromNewest
  BY DEF FactsInv
<1>2. QED
  BY <1>1, FactsInvariant, PTL

-----------------------------------------------------------------------------
(* Extended Support with the days.                                         *)

\* The catalog dates every major version of every engine.
Dated(info) == info.eol \in Int /\ info.end \in Int /\ info.year3 \in Int

LEMMA EolIsDated ==
  ASSUME NEW a \in Int, NEW b \in Int, NEW c \in Int
  PROVE  Dated(Eol(a, b, c))
BY DEF Dated, Eol

LEMMA PostgresEndsAreDates ==
  ASSUME NEW m \in 11..15
  PROVE  PostgresEnds[m][1] \in Int /\ PostgresEnds[m][2] \in Int /\ PostgresEnds[m][3] \in Int
<1>1. CASE m = 11
  <2>1. PostgresEnds[m] = <<Date(2024, 2, 29), Date(2027, 3, 31), Date(2026, 4, 1)>>
    BY <1>1 DEF PostgresEnds
  <2>2. QED
    BY <2>1 DEF Date
<1>2. CASE m = 12
  <2>1. PostgresEnds[m] = <<Date(2025, 2, 28), Date(2028, 2, 29), Date(2027, 3, 1)>>
    BY <1>2 DEF PostgresEnds
  <2>2. QED
    BY <2>1 DEF Date
<1>3. CASE m = 13
  <2>1. PostgresEnds[m] = <<Date(2026, 2, 28), Date(2029, 2, 28), Date(2028, 3, 1)>>
    BY <1>3 DEF PostgresEnds
  <2>2. QED
    BY <2>1 DEF Date
<1>4. CASE m = 14
  <2>1. PostgresEnds[m] = <<Date(2027, 2, 28), Date(2030, 2, 28), Date(2029, 3, 1)>>
    BY <1>4 DEF PostgresEnds
  <2>2. QED
    BY <2>1 DEF Date
<1>5. CASE m = 15
  <2>1. PostgresEnds[m] = <<Date(2028, 2, 29), Date(2031, 2, 28), Date(2030, 3, 1)>>
    BY <1>5 DEF PostgresEnds
  <2>2. QED
    BY <2>1 DEF Date
<1>6. QED
  BY <1>1, <1>2, <1>3, <1>4, <1>5

LEMMA CatalogIsDated ==
  ASSUME NEW rule \in EOL_RULES, NEW engine \in DOMAIN CONFIG[rule],
         NEW m \in DOMAIN CONFIG[rule][engine]
  PROVE  Dated(CONFIG[rule][engine][m])
<1>1. \A k \in DOMAIN POSTGRES_EOL : Dated(POSTGRES_EOL[k])
  <2>1. SUFFICES ASSUME NEW k \in 11..15  PROVE Dated(POSTGRES_EOL[k])
    BY DEF POSTGRES_EOL
  <2>2. PostgresEnds[k][1] \in Int /\ PostgresEnds[k][2] \in Int
    BY PostgresEndsAreDates
  <2>3. POSTGRES_EOL[k] = Eol(PostgresEnds[k][1], PostgresEnds[k][2], PostgresEnds[k][1] + 730)
    BY DEF POSTGRES_EOL, ExtendedSupportYear3
  <2>4. QED
    BY <2>2, <2>3, EolIsDated
<1>2. \A k \in DOMAIN AURORA_POSTGRES_EOL : Dated(AURORA_POSTGRES_EOL[k])
  <2>1. SUFFICES ASSUME NEW k \in 11..15  PROVE Dated(AURORA_POSTGRES_EOL[k])
    BY DEF AURORA_POSTGRES_EOL
  <2>2. /\ PostgresEnds[k][1] \in Int /\ PostgresEnds[k][2] \in Int
        /\ PostgresEnds[k][3] \in Int
    BY PostgresEndsAreDates
  <2>3. AURORA_POSTGRES_EOL[k] =
          Eol(PostgresEnds[k][1], PostgresEnds[k][2], PostgresEnds[k][3])
    BY DEF AURORA_POSTGRES_EOL
  <2>4. QED
    BY <2>2, <2>3, EolIsDated
<1>3. \A k \in DOMAIN MYSQL_EOL : Dated(MYSQL_EOL[k])
  <2>1. TAKE k \in DOMAIN MYSQL_EOL
  <2>2. MYSQL_EOL[k] \in {Eol(Date(2024, 2, 29), Date(2029, 6, 30), Date(2026, 3, 1)),
                          Eol(Date(2026, 7, 31), Date(2029, 7, 31), Date(2028, 8, 1))}
    BY DEF MYSQL_EOL
  <2>3. /\ Dated(Eol(Date(2024, 2, 29), Date(2029, 6, 30), Date(2026, 3, 1)))
        /\ Dated(Eol(Date(2026, 7, 31), Date(2029, 7, 31), Date(2028, 8, 1)))
    <3>1. /\ Date(2024, 2, 29) \in Int /\ Date(2029, 6, 30) \in Int /\ Date(2026, 3, 1) \in Int
          /\ Date(2026, 7, 31) \in Int /\ Date(2029, 7, 31) \in Int /\ Date(2028, 8, 1) \in Int
      BY DEF Date
    <3>2. QED
      BY <3>1, EolIsDated
  <2>4. QED
    BY <2>2, <2>3
<1>4. \A k \in DOMAIN AURORA_MYSQL_EOL : Dated(AURORA_MYSQL_EOL[k])
  <2>1. TAKE k \in DOMAIN AURORA_MYSQL_EOL
  <2>2. AURORA_MYSQL_EOL[k] \in {Eol(Date(2024, 10, 31), Date(2029, 6, 30), Never),
                                 Eol(Date(2028, 4, 30), Date(2029, 7, 31), Never)}
    BY DEF AURORA_MYSQL_EOL
  <2>3. Never \in Int
    BY DEF Never, Date
  <2>4. /\ Dated(Eol(Date(2024, 10, 31), Date(2029, 6, 30), Never))
        /\ Dated(Eol(Date(2028, 4, 30), Date(2029, 7, 31), Never))
    <3>1. /\ Date(2024, 10, 31) \in Int /\ Date(2029, 6, 30) \in Int
          /\ Date(2028, 4, 30) \in Int /\ Date(2029, 7, 31) \in Int
      BY DEF Date
    <3>2. QED
      BY <2>3, <3>1, EolIsDated
  <2>5. QED
    BY <2>2, <2>4
<1>5. CONFIG[rule][engine] \in {POSTGRES_EOL, AURORA_POSTGRES_EOL, MYSQL_EOL, AURORA_MYSQL_EOL}
  <2>1. CONFIG[rule] \in {POSTGRES_MATCHER, MYSQL_MATCHER, AURORA_MATCHERS}
    BY DEF EOL_RULES, CONFIG
  <2>2. QED
    BY <2>1 DEF POSTGRES_MATCHER, MYSQL_MATCHER, AURORA_MATCHERS
<1>6. QED
  BY <1>1, <1>2, <1>3, <1>4, <1>5

\* The third-year price of a region is not below the first.
LEMMA PriceEscalates ==
  ASSUME NEW region
  PROVE  /\ EsPrice("year_1_2", region) \in Nat
         /\ EsPrice("year_3_plus", region) \in Nat
         /\ EsPrice("year_1_2", region) <= EsPrice("year_3_plus", region)
<1>1. \A r \in DOMAIN ES_PRICE_BY_REGION :
        /\ DOMAIN ES_PRICE_BY_REGION[r] = {"year_1_2", "year_3_plus"}
        /\ ES_PRICE_BY_REGION[r]["year_1_2"] \in Nat
        /\ ES_PRICE_BY_REGION[r]["year_3_plus"] \in Nat
        /\ ES_PRICE_BY_REGION[r]["year_1_2"] <= ES_PRICE_BY_REGION[r]["year_3_plus"]
  BY DEF ES_PRICE_BY_REGION
<1> DEFINE priced == IF region \in DOMAIN ES_PRICE_BY_REGION THEN region ELSE DefaultRegion
<1>2. priced \in DOMAIN ES_PRICE_BY_REGION
  BY DEF ES_PRICE_BY_REGION, DefaultRegion
<1>3. \A tier \in {"year_1_2", "year_3_plus"} :
        EsPrice(tier, region) = ES_PRICE_BY_REGION[priced][tier]
  BY <1>1 DEF EsPrice, Price, PricingRegion
<1> HIDE DEF priced
<1>4. QED
  BY <1>1, <1>2, <1>3

LEMMA SeverityEscalates ==
  ASSUME NEW info, Dated(info), NEW t \in Int, NEW u \in Int, t <= u
  PROVE  Rank(EolSeverity(info, t)) <= Rank(EolSeverity(info, u))
BY DEF Dated, EolSeverity, Rank, AlertWindowDays

LEMMA CentsEscalate ==
  ASSUME NEW info, Dated(info), NEW t \in Int, NEW u \in Int, t <= u,
         NEW vcpu \in Nat, NEW region
  PROVE  /\ EolCents(info, vcpu, region, t) \in Nat
         /\ EolCents(info, vcpu, region, u) \in Nat
         /\ EolCents(info, vcpu, region, t) <= EolCents(info, vcpu, region, u)
<1> DEFINE first == EsPrice("year_1_2", region)
           third == EsPrice("year_3_plus", region)
<1>1. first \in Nat /\ third \in Nat /\ first <= third
  BY PriceEscalates
<1>2. /\ EolCents(info, vcpu, region, t) = vcpu * (IF t >= info.year3 THEN third ELSE first) * 73
      /\ EolCents(info, vcpu, region, u) = vcpu * (IF u >= info.year3 THEN third ELSE first) * 73
  BY DEF EolCents, Tier
<1>3. t >= info.year3 => u >= info.year3
  BY DEF Dated
<1> HIDE DEF first, third
<1>4. vcpu * first \in Nat /\ vcpu * third \in Nat /\ vcpu * first <= vcpu * third
  BY <1>1
<1>5. QED
  BY <1>2, <1>3, <1>4

\* One verdict against a later one of the same facts.
Milder(v, w) == Rank(v.severity) <= Rank(w.severity) /\ v.cents <= w.cents

LEMMA VerdictEscalates ==
  ASSUME NEW info, Dated(info), NEW t \in Int, NEW u \in Int, t <= u,
         NEW vcpu \in Nat, NEW region
  PROVE  Milder(EolVerdict(info, vcpu, region, t), EolVerdict(info, vcpu, region, u))
<1>1. \A severity, cents, exact :
        /\ Match(severity, cents, exact).severity = severity
        /\ Match(severity, cents, exact).cents = cents
  BY DEF Match, NoMatch
<1>2. NoMatch.severity = "none" /\ NoMatch.cents = 0
  BY DEF NoMatch
<1> DEFINE sev(x) == EolSeverity(info, x)
           cents(x) == EolCents(info, vcpu, region, x)
<1>3. \A x : EolVerdict(info, vcpu, region, x) =
               IF sev(x) = "none" THEN NoMatch
               ELSE Match(sev(x), cents(x), region \in DOMAIN ES_PRICE_BY_REGION)
  BY DEF EolVerdict
<1>4. Rank(sev(t)) <= Rank(sev(u))
  BY SeverityEscalates
<1>5. cents(t) \in Nat /\ cents(u) \in Nat /\ cents(t) <= cents(u)
  BY CentsEscalate
<1>6. sev(u) = "none" => sev(t) = "none"
  BY DEF Dated, EolSeverity, AlertWindowDays
<1> HIDE DEF sev, cents
<1>7. QED
  BY <1>1, <1>2, <1>3, <1>4, <1>5, <1>6 DEF Milder

\* What becomes of one rule's verdict on one database's facts as the days go by.
LEMMA EvaluateEscalates ==
  ASSUME NEW rule \in EOL_RULES, NEW f, "vcpu" \in DOMAIN f => f["vcpu"] \in Nat,
         NEW t \in Int, NEW u \in Int, t <= u
  PROVE  Milder(EvaluateEol(rule, f, t), EvaluateEol(rule, f, u))
<1> DEFINE engine == f["engine"]
           majors == ParseMajor(engine, f["engine_version"])
           table == CONFIG[rule][engine]
           infos == {table[m] : m \in majors \cap DOMAIN table}
           info == CHOOSE i \in infos : TRUE
           foreign == "engine" \in DOMAIN f /\ engine \notin DOMAIN CONFIG[rule]
           untold == ~ (EolKeys \subseteq DOMAIN f)
<1>1. \A x : EvaluateEol(rule, f, x) =
               IF foreign THEN NoMatch
               ELSE IF untold THEN Inconclusive(EolKeys \ DOMAIN f)
               ELSE IF majors = {} THEN Inconclusive({"engine_version.malformed"})
               ELSE IF infos = {} THEN NoMatch
               ELSE EolVerdict(info, f["vcpu"], f["region"], x)
  BY DEF EvaluateEol
<1>2. \A reasons : /\ Milder(NoMatch, NoMatch)
                   /\ Milder(Inconclusive(reasons), Inconclusive(reasons))
  BY DEF Milder, NoMatch, Inconclusive, Rank
<1>3. ~ foreign /\ ~ untold /\ infos # {} =>
        Milder(EolVerdict(info, f["vcpu"], f["region"], t),
               EolVerdict(info, f["vcpu"], f["region"], u))
  <2>1. SUFFICES ASSUME ~ foreign, ~ untold, infos # {}
                 PROVE  Milder(EolVerdict(info, f["vcpu"], f["region"], t),
                               EolVerdict(info, f["vcpu"], f["region"], u))
    OBVIOUS
  <2>2. "engine" \in DOMAIN f /\ "vcpu" \in DOMAIN f
    BY <2>1 DEF EolKeys
  <2>3. info \in infos
    BY <2>1
  <2>4. PICK m \in DOMAIN table : info = table[m]
    BY <2>3
  <2>5. Dated(info)
    BY <2>1, <2>2, <2>4, CatalogIsDated
  <2>6. QED
    BY <2>2, <2>5, VerdictEscalates
<1> HIDE DEF engine, majors, infos, info, foreign, untold
<1>4. QED
  BY <1>1, <1>2, <1>3

\* As days go by, with the same facts, no Extended Support verdict gets milder and no
\* amount smaller: the dates of the catalog only add up, for any facts the passes
\* leave and any days (eol.py:325-420).
THEOREM Escalates == Spec => EscalatesOnly
<1>1. ASSUME FactsInv, [Next]_vars
      PROVE  now' # now =>
               \A rule \in EOL_RULES : \A d \in Dbs :
                 LET before == EvaluateEol(rule, facts[d], now)
                     after == EvaluateEol(rule, facts[d], now') IN
                 Rank(before.severity) <= Rank(after.severity) /\ before.cents <= after.cents
  <2>1. SUFFICES ASSUME now' # now, NEW rule \in EOL_RULES, NEW d \in Dbs
                 PROVE  Milder(EvaluateEol(rule, facts[d], now),
                               EvaluateEol(rule, facts[d], now'))
    BY DEF Milder
  <2>2. Tick
    BY <1>1, <2>1 DEF Next, vars, account, Moves, Begin, ScanJob, Commit, PassFails,
                      ReplayReads, ReplayWrites
  <2>3. now' > now /\ now \in fleet.days /\ now' \in fleet.days /\ fleet.days \subseteq Nat
    BY <1>1, <2>2, FleetsAssumption DEF Tick, FactsInv, TypeInv, TypeOK
  <2>4. "vcpu" \in DOMAIN facts[d] => facts[d]["vcpu"] \in Nat
    BY <1>1, <2>1 DEF FactsInv, Plain
  <2>5. now \in Int /\ now' \in Int /\ now <= now'
    BY <2>3
  <2>6. QED
    BY <2>1, <2>4, <2>5, EvaluateEscalates
<1>2. QED
  BY <1>1, FactsInvariant, PTL DEF Spec, EscalatesOnly

-----------------------------------------------------------------------------
(* A quiet scan tells the truth.                                           *)

\* What is attached to an instance that is there are volumes that are there.
Attached ==
  /\ \A v \in Volumes : world[v].state # "gone" =>
       {"size", "type"} \subseteq DOMAIN world[v] /\ world[v].size \in Nat
  /\ \A i \in Instances :
       \A v \in world[i].volumes : Live(i) /\ v \in Volumes /\ Live(v)

\* As long as the account stands still, a pass holds it as it is, and all of what a job
\* that ran to its end was to see.
HeldAsIs ==
  still =>
    /\ \A r \in DOMAIN raw : Live(r) /\ raw[r] = Described(r)
    /\ \A j \in DOMAIN ran : ran[j] => Collected(j) \subseteq DOMAIN raw

\* Facts f are those of an item, but for what the correlation adds.
Tells(f, item) ==
  /\ DOMAIN item \subseteq DOMAIN f
  /\ \A k \in DOMAIN item : f[k] = item[k]
  /\ DOMAIN f \ DOMAIN item \subseteq CorrelationKeys

\* What the correlation adds: whether the volume is there, what is attached.
Correlates(r, f) ==
  /\ r \in Snapshots =>
       /\ "volume_exists" \in DOMAIN f
       /\ f["volume_exists"] <=> Live(world[r].volume)
  /\ r \in Instances /\ world[r].state = "stopped" =>
       /\ "attached_volumes" \in DOMAIN f
       /\ f["attached_volumes"] = {} <=> world[r].volumes = {}

\* A job of the latest pass ran to its end.
Done(job) == job \in DOMAIN last /\ last[job]

\* Between passes, in an account that stands still, the facts are the account's.
ToldAsIs ==
  still /\ todo = Idle =>
    \A r \in Resources \ Dbs :
      Live(r) /\ Done(JobOf(r)) =>
        /\ success[JobOf(r)] # NoRun
        /\ Tells(facts[r], FactsFactory(r, Described(r)))
        /\ Done("ec2_volume") => Correlates(r, facts[r])

QuietInv == TypeInv /\ VolumeNamed /\ Attached /\ HeldAsIs /\ ToldAsIs

LEMMA ItemIsFunction ==
  ASSUME NEW r, NEW x
  PROVE  DOMAIN FactsFactory(r, x) \cap CorrelationKeys = {}
<1>1. DOMAIN DbFacts(x) \cap CorrelationKeys = {}
  BY DbFactsArePlain
<1>2. DOMAIN VolumeFacts(x) \cap CorrelationKeys = {}
  BY DEF VolumeFacts, CorrelationKeys
<1>3. DOMAIN SnapshotFacts(x) \cap CorrelationKeys = {}
  BY DEF SnapshotFacts, Known, CorrelationKeys
<1>4. DOMAIN InstanceFacts(x) \cap CorrelationKeys = {}
  BY DEF InstanceFacts, CorrelationKeys
<1>5. QED
  BY <1>1, <1>2, <1>3, <1>4 DEF FactsFactory

LEMMA CorrelatedIs ==
  ASSUME NEW r
  PROVE  DOMAIN Correlated(r) \subseteq CorrelationKeys
<1>1. Correlated(r) \in {Nothing, [volume_exists |-> raw[r].volume \in ItemsOf("ec2_volume")],
                         [attached_volumes |-> AttachedVolumes(r)]}
  BY DEF Correlated
<1>2. QED
  BY <1>1 DEF Nothing, CorrelationKeys

\* What is written of an item, before and with the correlation, tells the item.
LEMMA UpsertTells ==
  ASSUME NEW old, NEW item, NEW extra,
         DOMAIN item \cap CorrelationKeys = {}, DOMAIN extra \subseteq CorrelationKeys
  PROVE  LET first == Upsert(old, item, CorrelationKeys) IN
         Tells(Upsert(first, extra, DOMAIN first), item)
<1> DEFINE first == Upsert(old, item, CorrelationKeys)
           both == Upsert(first, extra, DOMAIN first)
<1>1. /\ DOMAIN item \subseteq DOMAIN first
      /\ DOMAIN first \subseteq DOMAIN item \cup CorrelationKeys
      /\ \A k \in DOMAIN item : first[k] = item[k]
  BY DEF Upsert
<1>2. /\ DOMAIN both = DOMAIN extra \cup DOMAIN first
      /\ \A k \in DOMAIN first \ DOMAIN extra : both[k] = first[k]
  BY DEF Upsert
<1> HIDE DEF first, both
<1>3. Tells(both, item)
  BY <1>1, <1>2 DEF Tells
<1>4. QED
  BY <1>3 DEF first, both

LEMMA InitQuietInv ==
  ASSUME Init
  PROVE  QuietInv
<1>1. TypeInv /\ VolumeNamed
  BY InitTypeInv, InitOrphanInv DEF OrphanInv
<1>2. Attached
  BY AccountAssumption DEF Init, Attached, Live
<1>3. HeldAsIs /\ ToldAsIs
  BY DEF Init, HeldAsIs, ToldAsIs, Done, Nothing
<1>4. QED
  BY <1>1, <1>2, <1>3 DEF QuietInv

\* A volume in use stays; an instance attaches only what is there.
LEMMA MovesAttached ==
  ASSUME QuietInv, NEW r \in Resources, Moves(r)
  PROVE  Attached'
<1>1. PICK w \in Becomes(r) : world' = [world EXCEPT ![r] = w]
  BY DEF Moves
<1>2. DOMAIN world = Resources
  BY DEF QuietInv, TypeInv, Shapes
<1>3. /\ "state" \in DOMAIN world[r]
      /\ r \in Instances => "volumes" \in DOMAIN world[r]
  BY AccountAssumption DEF QuietInv, TypeInv, TypeOK
<1>4. world'[r] = w /\ \A q \in Resources \ {r} : world'[q] = world[q]
  BY <1>1, <1>2
<1>5. CASE r \in Dbs
  BY <1>4, <1>5, KindsAssumption DEF QuietInv, Attached, Live, Resources
<1>6. CASE r \in Volumes
  <2>1. \/ world[r].state = "none" /\ w = [world[r] EXCEPT !.state = "live"]
        \/ /\ world[r].state = "live" /\ ~ InUse(r)
           /\ w = [world[r] EXCEPT !.state = "gone"]
    BY <1>1, <1>6, KindsAssumption DEF Becomes
  <2>2. /\ world[r].state # "gone"
        /\ {"size", "type"} \subseteq DOMAIN w /\ w.size \in Nat
    BY <1>6, <2>1 DEF QuietInv, Attached
  <2>3. \A i \in Instances : i # r /\ world'[i] = world[i]
    BY <1>4, <1>6, KindsAssumption DEF Resources
  <2>4. \A i \in Instances : r \notin world[i].volumes
    BY <1>6, <2>1 DEF QuietInv, Attached, Live, InUse
  <2>5. \A v \in Volumes \ {r} : world'[v] = world[v]
    BY <1>4 DEF Resources
  <2>6. QED
    BY <1>4, <1>6, <2>1, <2>2, <2>3, <2>4, <2>5 DEF QuietInv, Attached, Live
<1>7. CASE r \in Snapshots
  BY <1>4, <1>7, KindsAssumption DEF QuietInv, Attached, Live, Resources
<1>8. CASE r \in Instances
  <2>1. \A q \in Volumes \cup Instances : q # r => world'[q] = world[q]
    BY <1>4 DEF Resources
  <2>2. r \notin Volumes
    BY <1>8, KindsAssumption
  <2>3. \A v \in w.volumes : w.state \notin {"none", "gone"} /\ v \in Volumes /\ Live(v)
    <3>1. \A v \in world[r].volumes : Live(r) /\ v \in Volumes /\ Live(v)
      BY <1>8 DEF QuietInv, Attached
    <3>2. CASE world[r].state = "none"
      <4>1. w = [world[r] EXCEPT !.state = "running"]
        BY <1>1, <1>8, <3>2, KindsAssumption DEF Becomes
      <4>2. w.volumes = world[r].volumes
        BY <4>1
      <4>3. QED
        BY <3>1, <3>2, <4>2 DEF Live
    <3>3. CASE world[r].state # "none"
      <4>1. world[r].state # "gone"
        BY <1>1, <1>8, <3>3, KindsAssumption DEF Becomes
      <4>2. \/ w \in {[world[r] EXCEPT !.state = s] : s \in {"running", "stopped"}}
            \/ w \in {[world[r] EXCEPT !.volumes = @ \cup {v}] :
                         v \in {x \in Volumes : Live(x) /\ ~ InUse(x)}}
            \/ w \in {[world[r] EXCEPT !.volumes = @ \ {v}] : v \in world[r].volumes}
        BY <1>1, <1>8, <3>3, <4>1, KindsAssumption DEF Becomes
      <4>3. w.state \notin {"none", "gone"}
        BY <1>3, <3>3, <4>1, <4>2
      <4>4. \A v \in w.volumes : v \in Volumes /\ Live(v)
        BY <1>3, <1>8, <3>1, <4>2
      <4>5. QED
        BY <4>3, <4>4
    <3>4. QED
      BY <3>2, <3>3
  <2>4. QED
    BY <1>4, <1>8, <2>1, <2>2, <2>3 DEF QuietInv, Attached, Live
<1>9. QED
  BY <1>5, <1>6, <1>7, <1>8 DEF Resources

\* The correlation of a pass that ran the volume job to its end, of what it holds.
LEMMA CorrelationTells ==
  ASSUME QuietInv, still, NEW r \in DOMAIN raw \ Dbs, NEW f,
         Succeeded("ec2_volume"), Succeeded(JobOf(r)),
         \A k \in DOMAIN Correlated(r) : k \in DOMAIN f /\ f[k] = Correlated(r)[k]
  PROVE  Correlates(r, f)
<1>1. Live(r) /\ raw[r] = Described(r) /\ r \in Resources
  BY DEF QuietInv, HeldAsIs, TypeInv, TypeOK
<1>2. r \in ItemsOf(JobOf(r))
  BY DEF ItemsOf
<1>3. Collected("ec2_volume") \subseteq DOMAIN raw
  BY DEF QuietInv, HeldAsIs, Succeeded
<1>4. ItemsOf("ec2_volume") = {v \in Volumes : Live(v)}
  <2>1. \A v \in Resources : JobOf(v) = "ec2_volume" <=> v \in Volumes
    BY KindsAssumption DEF JobOf, Resources
  <2>2. Collected("ec2_volume") = {v \in Volumes : Live(v)}
    BY <2>1 DEF Collected, Resources
  <2>3. \A v \in DOMAIN raw : v \in Resources /\ Live(v)
    BY DEF QuietInv, HeldAsIs, TypeInv, TypeOK
  <2>4. QED
    BY <1>3, <2>1, <2>2, <2>3 DEF ItemsOf
<1>5. ASSUME r \in Snapshots
      PROVE  "volume_exists" \in DOMAIN f /\ (f["volume_exists"] <=> Live(world[r].volume))
  <2>1. raw[r].volume = world[r].volume /\ world[r].volume \in Volumes
    BY <1>1, <1>5, Jobs DEF QuietInv, VolumeNamed, Described
  <2>2. Correlated(r) = [volume_exists |-> raw[r].volume \in ItemsOf("ec2_volume")]
    BY <1>2, <1>5, KindsAssumption DEF Correlated
  <2>3. "volume_exists" \in DOMAIN f /\ f["volume_exists"] = (raw[r].volume \in ItemsOf("ec2_volume"))
    BY <2>2
  <2>4. QED
    BY <1>4, <2>1, <2>3
<1>6. ASSUME r \in Instances, world[r].state = "stopped"
      PROVE  /\ "attached_volumes" \in DOMAIN f
             /\ f["attached_volumes"] = {} <=> world[r].volumes = {}
  <2>1. raw[r] = world[r]
    BY <1>1, <1>6, KindsAssumption DEF Described
  <2>2. Correlated(r) = [attached_volumes |-> AttachedVolumes(r)]
    BY <1>2, <1>6, <2>1, KindsAssumption DEF Correlated
  <2>3. "attached_volumes" \in DOMAIN f /\ f["attached_volumes"] = AttachedVolumes(r)
    BY <2>2
  <2>4. world[r].volumes \subseteq ItemsOf("ec2_volume")
    BY <1>4, <1>6 DEF QuietInv, Attached
  <2>5. AttachedVolumes(r) = {} <=> world[r].volumes = {}
    BY <2>1, <2>4 DEF AttachedVolumes
  <2>6. QED
    BY <2>3, <2>5
<1>7. QED
  BY <1>5, <1>6 DEF Correlates

LEMMA CommitTells ==
  ASSUME QuietInv, Commit
  PROVE  ToldAsIs'
<1>1. /\ last' = ran
      /\ UNCHANGED <<fleet, world, now, moves, passes, replay, still>>
  BY DEF Commit, account
<1>2. SUFFICES ASSUME still, NEW r \in Resources \ Dbs, Live(r), Succeeded(JobOf(r))
               PROVE  /\ success'[JobOf(r)] # NoRun
                      /\ Tells(facts'[r], FactsFactory(r, Described(r)))
                      /\ Succeeded("ec2_volume") => Correlates(r, facts'[r])
  BY <1>1 DEF ToldAsIs, Done, Succeeded, Live, Described, InUse, Correlates
<1>3. success'[JobOf(r)] # NoRun
  <2>1. success'[JobOf(r)] = now
    BY <1>2, JobsOfResources DEF Commit, Succeeded
  <2>2. now \in Nat
    BY FleetsAssumption DEF QuietInv, TypeInv, TypeOK
  <2>3. QED
    BY <2>1, <2>2 DEF NoRun
<1>4. r \in DOMAIN raw /\ raw[r] = Described(r)
  <2>1. Collected(JobOf(r)) \subseteq DOMAIN raw
    BY <1>2 DEF QuietInv, HeldAsIs, Succeeded
  <2>2. r \in Collected(JobOf(r))
    BY <1>2 DEF Collected
  <2>3. QED
    BY <1>2, <2>1, <2>2 DEF QuietInv, HeldAsIs
<1> DEFINE item == FactsFactory(r, Described(r))
           first == Upsert(facts[r], item, CorrelationKeys)
<1>5. facts'[r] = Upsert(first, Correlated(r), DOMAIN first)
  BY <1>2, <1>4 DEF Commit
<1>6. Tells(facts'[r], item)
  BY <1>5, ItemIsFunction, CorrelatedIs, UpsertTells
<1>7. \A k \in DOMAIN Correlated(r) :
        k \in DOMAIN facts'[r] /\ facts'[r][k] = Correlated(r)[k]
  <2> HIDE DEF first
  <2>1. QED
    BY <1>5 DEF Upsert
<1>8. Succeeded("ec2_volume") => Correlates(r, facts'[r])
  BY <1>2, <1>4, <1>7, CorrelationTells
<1>9. QED
  BY <1>3, <1>6, <1>8

LEMMA ScanHolds ==
  ASSUME QuietInv, NEW job \in JOB_REGISTRY, ScanJob(job)
  PROVE  HeldAsIs' /\ ToldAsIs'
<1>1. PICK ok \in BOOLEAN, seen \in SUBSET Collected(job) :
        /\ ok => seen = Collected(job)
        /\ raw' = [r \in DOMAIN raw \cup seen |->
                     IF r \in seen THEN Described(r) ELSE raw[r]]
        /\ ran' = [j \in DOMAIN ran \cup {job} |-> IF j = job THEN ok ELSE ran[j]]
  BY DEF ScanJob
<1>2. /\ todo \notin {Idle, <<>>} /\ todo' = Tail(todo)
      /\ UNCHANGED <<account, database, passes, replay, history>>
  BY DEF ScanJob
<1>3. todo' # Idle
  BY <1>2, IdleIsNoJob DEF QuietInv, TypeInv, Shapes
<1>4. /\ \A r : Live(r)' = Live(r) /\ Described(r)' = Described(r)
      /\ \A j : Collected(j)' = Collected(j)
  BY <1>2 DEF Live, Described, InUse, Collected, account
<1>5. ASSUME still
      PROVE  /\ \A r \in DOMAIN raw' : Live(r) /\ raw'[r] = Described(r)
             /\ \A j \in DOMAIN ran' : ran'[j] => Collected(j) \subseteq DOMAIN raw'
  <2>1. \A r \in seen : Live(r)
    BY DEF Collected
  <2>2. \A r \in DOMAIN raw' : Live(r) /\ raw'[r] = Described(r)
    BY <1>1, <1>5, <2>1 DEF QuietInv, HeldAsIs
  <2>3. \A j \in DOMAIN ran' : ran'[j] => Collected(j) \subseteq DOMAIN raw'
    BY <1>1, <1>5 DEF QuietInv, HeldAsIs
  <2>4. QED
    BY <2>2, <2>3
<1>6. HeldAsIs'
  BY <1>2, <1>4, <1>5 DEF HeldAsIs, history
<1>7. ToldAsIs'
  BY <1>3 DEF ToldAsIs
<1>8. QED
  BY <1>6, <1>7

LEMMA StepQuiet ==
  ASSUME QuietInv, [Next]_vars
  PROVE  QuietInv'
<1>1. TypeInv' /\ VolumeNamed'
  BY StepTypes, StepVolumeNamed DEF QuietInv
<1>2. ASSUME world' = world  PROVE Attached'
  BY <1>2 DEF QuietInv, Attached, Live
<1>3. ASSUME world' = world
      PROVE  /\ \A r : Live(r)' = Live(r) /\ Described(r)' = Described(r)
             /\ \A j : Collected(j)' = Collected(j)
             /\ \A r, f : Correlates(r, f)' = Correlates(r, f)
  BY <1>3 DEF Live, Described, InUse, Collected, Correlates
<1>4. ASSUME UNCHANGED <<world, raw, ran, still>>  PROVE HeldAsIs'
  BY <1>3, <1>4 DEF QuietInv, HeldAsIs
<1>5. ASSUME UNCHANGED <<world, success, still, last>>, todo' = todo,
             \A r \in Resources \ Dbs : facts'[r] = facts[r]
      PROVE  ToldAsIs'
  BY <1>3, <1>5 DEF QuietInv, ToldAsIs, Done
<1>6. ASSUME NEW r \in Resources, Moves(r)  PROVE QuietInv'
  BY <1>1, <1>6, MovesAttached DEF QuietInv, Moves, HeldAsIs, ToldAsIs
<1>7. CASE Tick
  BY <1>1, <1>2, <1>4, <1>5, <1>7 DEF QuietInv, Tick, database, pass, history
<1>8. ASSUME NEW t \in fleet.targets, Begin(t)  PROVE QuietInv'
  <2>1. todo' # Idle
    BY <1>8, IdleIsNoJob, FleetsAssumption DEF Begin, QuietInv, TypeInv, TypeOK
  <2>2. DOMAIN raw' = {} /\ DOMAIN ran' = {}
    BY <1>8 DEF Begin, QuietInv, TypeInv, TypeOK, Nothing
  <2>3. HeldAsIs' /\ ToldAsIs'
    BY <2>1, <2>2 DEF HeldAsIs, ToldAsIs
  <2>4. QED
    BY <1>1, <1>2, <1>8, <2>3 DEF QuietInv, Begin, account
<1>9. ASSUME NEW j \in JOB_REGISTRY, ScanJob(j)  PROVE QuietInv'
  BY <1>1, <1>2, <1>9, ScanHolds DEF QuietInv, ScanJob, account
<1>10. CASE Commit
  <2>1. DOMAIN raw' = {} /\ DOMAIN ran' = {} /\ world' = world
    BY <1>10 DEF Commit, EndPass, Nothing, account
  <2>2. HeldAsIs'
    BY <2>1 DEF HeldAsIs
  <2>3. QED
    BY <1>1, <1>2, <1>10, <2>1, <2>2, CommitTells DEF QuietInv
<1>11. CASE PassFails
  <2>1. DOMAIN raw' = {} /\ DOMAIN ran' = {} /\ DOMAIN last' = {} /\ world' = world
    BY <1>11 DEF PassFails, EndPass, Nothing, account
  <2>2. HeldAsIs' /\ ToldAsIs'
    BY <2>1 DEF HeldAsIs, ToldAsIs, Done
  <2>3. QED
    BY <1>1, <1>2, <2>1, <2>2 DEF QuietInv
<1>12. CASE ReplayReads
  BY <1>1, <1>2, <1>4, <1>5, <1>12
     DEF QuietInv, ReplayReads, account, database, pass, history
<1>13. CASE ReplayWrites
  <2>1. \A r \in Resources \ Dbs : facts'[r] = facts[r]
    BY <1>13 DEF ReplayWrites
  <2>2. UNCHANGED <<world, raw, ran, still, success, last, todo>>
    BY <1>13 DEF ReplayWrites, account, pass, history
  <2>3. QED
    BY <1>1, <1>2, <1>4, <1>5, <2>1, <2>2 DEF QuietInv
<1>14. CASE UNCHANGED vars
  BY <1>1, <1>2, <1>4, <1>5, <1>14 DEF QuietInv, vars, account, database, pass, history
<1>15. QED
  BY <1>6, <1>7, <1>8, <1>9, <1>10, <1>11, <1>12, <1>13, <1>14 DEF Next

THEOREM QuietInvariant == Spec => []QuietInv
BY InitQuietInv, StepQuiet, PTL DEF Spec

-----------------------------------------------------------------------------
(* What each storage rule says of facts that tell its resource.            *)

LEMMA Kinds ==
  /\ NoMatch.kind = "no_match"
  /\ \A reasons : Inconclusive(reasons).kind = "inconclusive"
  /\ \A severity, cents, exact : Match(severity, cents, exact).kind = "match"
BY DEF NoMatch, Inconclusive, Match

LEMMA PricedIs ==
  ASSUME NEW grid, NEW type, NEW missing, NEW f
  PROVE  Priced(grid, type, missing, f).kind =
           IF Catalogued(grid, type, f["region"]) THEN "match" ELSE "inconclusive"
BY Kinds DEF Priced

\* The item of a volume, as the account has it.
LEMMA VolumeItem ==
  ASSUME QuietInv, NEW r \in Volumes, Live(r), NEW f,
         Tells(f, FactsFactory(r, Described(r)))
  PROVE  /\ VolumeKeys \subseteq DOMAIN f
         /\ f["state"] = IF InUse(r) THEN "in-use" ELSE "available"
         /\ f["volume_type"] = world[r].type
         /\ f["size_gb"] = world[r].size /\ world[r].size \in Nat
         /\ f["region"] = Region
<1>1. /\ {"state", "size", "type"} \subseteq DOMAIN world[r]
      /\ world[r].size \in Nat
  <2>1. "state" \in DOMAIN world[r]
    BY AccountAssumption DEF QuietInv, TypeInv, TypeOK, Resources
  <2>2. {"size", "type"} \subseteq DOMAIN world[r] /\ world[r].size \in Nat
    BY DEF QuietInv, Attached, Live
  <2>3. QED
    BY <2>1, <2>2
<1> DEFINE x == Described(r)
<1>2. x = [world[r] EXCEPT !.state = IF InUse(r) THEN "in-use" ELSE "available"]
  BY KindsAssumption DEF Described
<1> HIDE DEF x
<1>3. /\ x.state = IF InUse(r) THEN "in-use" ELSE "available"
      /\ x.type = world[r].type /\ x.size = world[r].size
  BY <1>1, <1>2
<1>4. FactsFactory(r, x) = VolumeFacts(x)
  BY KindsAssumption DEF FactsFactory
<1>5. /\ DOMAIN VolumeFacts(x) = VolumeKeys
      /\ VolumeFacts(x)["state"] = x.state /\ VolumeFacts(x)["size_gb"] = x.size
      /\ VolumeFacts(x)["volume_type"] = x.type /\ VolumeFacts(x)["region"] = Region
  BY DEF VolumeFacts, VolumeKeys
<1>6. Tells(f, VolumeFacts(x))
  BY <1>4 DEF x
<1>7. /\ VolumeKeys \subseteq DOMAIN f
      /\ \A k \in VolumeKeys : f[k] = VolumeFacts(x)[k]
  BY <1>5, <1>6 DEF Tells
<1>8. QED
  BY <1>1, <1>3, <1>5, <1>7 DEF VolumeKeys

LEMMA UnattachedTold ==
  ASSUME QuietInv, NEW r \in Volumes, Live(r), NEW f,
         Tells(f, FactsFactory(r, Described(r)))
  PROVE  EbsUnattached(f).kind =
           IF Untold("ebs_unattached", r) THEN "inconclusive"
           ELSE IF Wasted("ebs_unattached", r) THEN "match" ELSE "no_match"
<1>1. /\ VolumeKeys \subseteq DOMAIN f
      /\ f["state"] = IF InUse(r) THEN "in-use" ELSE "available"
      /\ f["volume_type"] = world[r].type /\ f["region"] = Region
  BY VolumeItem
<1>2. Untold("ebs_unattached", r) <=>
        ~ InUse(r) /\ ~ Catalogued(EBS_PRICING_BY_REGION, world[r].type, Region)
  BY DEF Untold
<1>3. Wasted("ebs_unattached", r) <=> ~ InUse(r)
  BY DEF Wasted
<1>4. QED
  BY <1>1, <1>2, <1>3, PricedIs, Kinds DEF EbsUnattached

\* Both amounts are whole numbers, and so is what is saved.
LEMMA SavingsAreInt ==
  ASSUME NEW f, f["size_gb"] \in Nat
  PROVE  Gp2Savings(f) \in Int
<1>1. \A t \in {"gp2", "gp3"} : Price(EBS_PRICING_BY_REGION, t, f["region"]) \in Nat
  <2>1. \A g \in DOMAIN EBS_PRICING_BY_REGION, t \in {"gp2", "gp3"} :
          /\ t \in DOMAIN EBS_PRICING_BY_REGION[g]
          /\ EBS_PRICING_BY_REGION[g][t] \in Nat
    BY DEF EBS_PRICING_BY_REGION
  <2>2. DefaultRegion \in DOMAIN EBS_PRICING_BY_REGION
    BY DEF EBS_PRICING_BY_REGION, DefaultRegion
  <2>3. \A t : PricingRegion(EBS_PRICING_BY_REGION, t, f["region"])
                 \in DOMAIN EBS_PRICING_BY_REGION
    BY <2>2 DEF PricingRegion
  <2>4. QED
    BY <2>1, <2>3 DEF Price
<1>2. \A price \in Nat : MonthlyCents(price, f["size_gb"]) \in Int
  BY DEF MonthlyCents
<1>3. QED
  BY <1>1, <1>2 DEF Gp2Savings

LEMMA Gp2Told ==
  ASSUME QuietInv, NEW r \in Volumes, Live(r), NEW f,
         Tells(f, FactsFactory(r, Described(r)))
  PROVE  EbsGp2ToGp3(f).kind =
           IF Untold("ebs_gp2_to_gp3", r) THEN "inconclusive"
           ELSE IF Wasted("ebs_gp2_to_gp3", r) THEN "match" ELSE "no_match"
<1>1. /\ VolumeKeys \subseteq DOMAIN f /\ f["region"] = Region
      /\ f["volume_type"] = world[r].type
      /\ f["size_gb"] = world[r].size /\ world[r].size \in Nat
  BY VolumeItem
<1>2. Gp2Keys \subseteq DOMAIN f
  BY <1>1 DEF Gp2Keys, VolumeKeys
<1>3. ~ Untold("ebs_gp2_to_gp3", r)
  BY DEF Untold
<1> DEFINE v == VolumeFacts(world[r])
<1>4. v["region"] = Region /\ v["size_gb"] = world[r].size
  BY DEF VolumeFacts
<1>5. Gp2Savings(v) = Gp2Savings(f)
  <2> HIDE DEF v
  <2>1. QED
    BY <1>1, <1>4 DEF Gp2Savings
<1>6. Wasted("ebs_gp2_to_gp3", r) <=>
        f["volume_type"] = "gp2" /\ Gp2Savings(f) >= MinSavingsCents
  BY <1>1, <1>5 DEF Wasted
<1>7. Gp2Savings(f) \in Int /\ MinSavingsCents \in Int
  BY <1>1, SavingsAreInt DEF MinSavingsCents
<1>8. Gp2Savings(f) < MinSavingsCents <=> ~ (Gp2Savings(f) >= MinSavingsCents)
  BY <1>7
<1>9. QED
  BY <1>2, <1>3, <1>6, <1>8, Kinds DEF EbsGp2ToGp3

\* The grids price the two tiers a snapshot can have in every region.
LEMMA TiersPriced ==
  ASSUME NEW tier
  PROVE  Catalogued(EBS_SNAPSHOT_PRICING_BY_REGION, tier, Region)
           <=> tier \in {"standard", "archive"}
<1>1. \A g \in DOMAIN EBS_SNAPSHOT_PRICING_BY_REGION :
        DOMAIN EBS_SNAPSHOT_PRICING_BY_REGION[g] = {"standard", "archive"}
  BY DEF EBS_SNAPSHOT_PRICING_BY_REGION
<1>2. PricingRegion(EBS_SNAPSHOT_PRICING_BY_REGION, tier, Region)
        \in DOMAIN EBS_SNAPSHOT_PRICING_BY_REGION
  BY DEF PricingRegion, DefaultRegion, EBS_SNAPSHOT_PRICING_BY_REGION
<1>3. QED
  BY <1>1, <1>2 DEF Catalogued

LEMMA OrphanTold ==
  ASSUME QuietInv, NEW r \in Snapshots, Live(r), NEW f,
         Tells(f, FactsFactory(r, Described(r))), Correlates(r, f)
  PROVE  SnapshotOrphan(f).kind =
           IF Untold("snapshot_orphan", r) THEN "inconclusive"
           ELSE IF Wasted("snapshot_orphan", r) THEN "match" ELSE "no_match"
<1> DEFINE x == world[r]
           item == SnapshotFacts(x)
<1>1. Tells(f, item)
  BY Jobs DEF FactsFactory, Described
<1>2. /\ {"state", "size_gb", "region"} \subseteq DOMAIN item
      /\ DOMAIN item \subseteq {"state", "size_gb", "region", "storage_tier", "description"}
      /\ "storage_tier" \in DOMAIN item <=> x.tier # ""
      /\ "description" \in DOMAIN item <=> x.description # ""
      /\ item["state"] = x.state /\ item["region"] = Region
      /\ x.tier # "" => item["storage_tier"] = x.tier
      /\ x.description # "" => item["description"] = x.description
  BY DEF SnapshotFacts, Known
<1>3. "volume_exists" \in DOMAIN f /\ (f["volume_exists"] <=> Live(x.volume))
  BY DEF Correlates
<1> HIDE DEF item
<1>4. /\ {"state", "size_gb", "region"} \subseteq DOMAIN f
      /\ "storage_tier" \in DOMAIN f <=> x.tier # ""
      /\ "description" \in DOMAIN f <=> x.description # ""
      /\ f["state"] = x.state /\ f["region"] = Region
      /\ x.tier # "" => f["storage_tier"] = x.tier
      /\ x.description # "" => f["description"] = x.description
  BY <1>1, <1>2 DEF Tells, CorrelationKeys
<1>5. Wasted("snapshot_orphan", r) <=>
        x.state = "completed" /\ ~ Live(x.volume) /\ x.description # "ami"
  BY DEF Wasted
<1>6. Untold("snapshot_orphan", r) <=>
        \/ x.description = ""
        \/ Wasted("snapshot_orphan", r) /\ x.tier \notin {"", "standard", "archive"}
  BY DEF Untold
<1>7. CASE x.description = ""
  <2>1. ~ (SnapshotKeys \subseteq DOMAIN f)
    BY <1>4, <1>7 DEF SnapshotKeys
  <2>2. QED
    BY <1>6, <1>7, <2>1, Kinds DEF SnapshotOrphan
<1>8. CASE x.description # "" /\ ~ Wasted("snapshot_orphan", r)
  <2>1. SnapshotKeys \subseteq DOMAIN f
    BY <1>3, <1>4, <1>8 DEF SnapshotKeys
  <2>2. f["state"] # "completed" \/ f["volume_exists"] \/ f["description"] = "ami"
    BY <1>3, <1>4, <1>5, <1>8
  <2>3. QED
    BY <1>6, <1>8, <2>1, <2>2, Kinds DEF SnapshotOrphan
<1>9. CASE x.description # "" /\ Wasted("snapshot_orphan", r)
  <2>1. SnapshotKeys \subseteq DOMAIN f
    BY <1>3, <1>4, <1>9 DEF SnapshotKeys
  <2>2. ~ (f["state"] # "completed" \/ f["volume_exists"] \/ f["description"] = "ami")
    BY <1>3, <1>4, <1>5, <1>9
  <2>3. StorageTier(f) = IF x.tier = "" THEN "standard" ELSE x.tier
    BY <1>4 DEF StorageTier
  <2>4. Catalogued(EBS_SNAPSHOT_PRICING_BY_REGION, StorageTier(f), f["region"])
          <=> x.tier \in {"", "standard", "archive"}
    BY <1>4, <2>3, TiersPriced
  <2>5. SnapshotOrphan(f) = Priced(EBS_SNAPSHOT_PRICING_BY_REGION, StorageTier(f),
                                   "snapshot_tier_price_missing", f)
    BY <2>1, <2>2 DEF SnapshotOrphan
  <2>6. QED
    BY <1>6, <1>9, <2>4, <2>5, PricedIs
<1>10. QED
  BY <1>7, <1>8, <1>9

LEMMA StoppedTold ==
  ASSUME QuietInv, NEW r \in Instances, Live(r), NEW f,
         Tells(f, FactsFactory(r, Described(r))), Correlates(r, f)
  PROVE  Ec2StoppedWithStorage(f).kind =
           IF Untold("ec2_stopped_with_storage", r) THEN "inconclusive"
           ELSE IF Wasted("ec2_stopped_with_storage", r) THEN "match" ELSE "no_match"
<1>1. Tells(f, InstanceFacts(world[r]))
  BY KindsAssumption DEF FactsFactory, Described
<1>2. /\ {"state", "region"} \subseteq DOMAIN f
      /\ f["state"] = world[r].state
  BY <1>1 DEF Tells, InstanceFacts
<1>3. /\ Wasted("ec2_stopped_with_storage", r) <=>
           world[r].state = "stopped" /\ world[r].volumes # {}
      /\ ~ Untold("ec2_stopped_with_storage", r)
  BY DEF Wasted, Untold
<1>4. world[r].state = "stopped" =>
        /\ "attached_volumes" \in DOMAIN f
        /\ f["attached_volumes"] = {} <=> world[r].volumes = {}
  BY DEF Correlates
<1>5. QED
  BY <1>2, <1>3, <1>4, Kinds DEF Ec2StoppedWithStorage

\* When a pass ran every job that a storage rule rests on to its end and the account
\* has not changed since, the rule finds exactly what is wasted: for every account,
\* whatever failed before and whatever earlier passes and replays left behind
\* (collectors/aws.py:581-599, snapshot_orphan/resolver.py:1-31).
THEOREM QuietTruth == Spec => []QuietScanTellsTruth
<1>1. ASSUME QuietInv  PROVE QuietScanTellsTruth
  <2>1. SUFFICES ASSUME still, todo = Idle,
                        NEW rule \in RESOURCE_RULES \ EOL_RULES, NEW r \in TypeOf(rule),
                        Live(r), ~ ScopeStale(r), \A j \in RestsOn(rule) : Done(j)
                 PROVE  Verdict(rule, r).kind =
                          IF Untold(rule, r) THEN "inconclusive"
                          ELSE IF Wasted(rule, r) THEN "match" ELSE "no_match"
    BY DEF QuietScanTellsTruth, Done
  <2>2. rule \in {"ebs_gp2_to_gp3", "ebs_unattached", "snapshot_orphan",
                  "ec2_stopped_with_storage"}
    BY <2>1 DEF RESOURCE_RULES
  <2>3. r \in TypeOf(rule) /\ r \in (Volumes \cup Snapshots \cup Instances) \ Dbs
    BY <2>1, <2>2, KindsAssumption DEF TypeOf
  <2>4. r \in Resources \ Dbs /\ Done(JobOf(r))
    BY <2>1, <2>3 DEF Resources, RestsOn
  <2>5. /\ success[JobOf(r)] # NoRun
        /\ Tells(facts[r], FactsFactory(r, Described(r)))
        /\ Done("ec2_volume") => Correlates(r, facts[r])
    BY <1>1, <2>1, <2>4 DEF QuietInv, ToldAsIs
  <2>6. ScopeProven(rule, r)
    <3>1. RULE_SOURCES[rule] = "aws_ec2"
      BY <2>1 DEF RULE_SOURCES
    <3>2. JobOf(r) # "rds"
      BY <2>3, KindsAssumption DEF JobOf
    <3>3. QED
      BY <2>5, <3>1, <3>2 DEF ScopeProven, SourceOf
  <2>7. facts[r] # Nothing
    <3>1. \A x : "region" \in DOMAIN FactsFactory(r, x)
      BY <2>3 DEF FactsFactory, VolumeFacts, SnapshotFacts, InstanceFacts, Known
    <3>2. "region" \in DOMAIN facts[r]
      BY <2>5, <3>1 DEF Tells
    <3>3. QED
      BY <3>2 DEF Nothing
  <2>8. Verdict(rule, r) = EvaluateFn(rule, facts[r], now)
    BY <2>1, <2>3, <2>6, <2>7 DEF Verdict
  <2>9. CASE rule = "ebs_unattached"
    <3>1. r \in Volumes
      BY <2>1, <2>3, <2>9 DEF TypeOf
    <3>2. EvaluateFn(rule, facts[r], now) = EbsUnattached(facts[r])
      BY <2>1, <2>9 DEF EvaluateFn
    <3>3. QED
      BY <1>1, <2>1, <2>5, <2>8, <2>9, <3>1, <3>2, UnattachedTold
  <2>10. CASE rule = "ebs_gp2_to_gp3"
    <3>1. r \in Volumes
      BY <2>1, <2>3, <2>10 DEF TypeOf
    <3>2. EvaluateFn(rule, facts[r], now) = EbsGp2ToGp3(facts[r])
      BY <2>1, <2>10 DEF EvaluateFn
    <3>3. QED
      BY <1>1, <2>1, <2>5, <2>8, <2>10, <3>1, <3>2, Gp2Told
  <2>11. CASE rule = "snapshot_orphan"
    <3>1. r \in Snapshots
      BY <2>1, <2>3, <2>11 DEF TypeOf
    <3>2. EvaluateFn(rule, facts[r], now) = SnapshotOrphan(facts[r])
      BY <2>1, <2>11 DEF EvaluateFn
    <3>3. Done("ec2_volume")
      BY <2>1, <2>11 DEF RestsOn
    <3>4. QED
      BY <1>1, <2>1, <2>5, <2>8, <2>11, <3>1, <3>2, <3>3, OrphanTold
  <2>12. CASE rule = "ec2_stopped_with_storage"
    <3>1. r \in Instances
      BY <2>1, <2>3, <2>12 DEF TypeOf
    <3>2. EvaluateFn(rule, facts[r], now) = Ec2StoppedWithStorage(facts[r])
      BY <2>1, <2>12 DEF EvaluateFn
    <3>3. Done("ec2_volume")
      BY <2>1, <2>12 DEF RestsOn
    <3>4. QED
      BY <1>1, <2>1, <2>5, <2>8, <2>12, <3>1, <3>2, <3>3, StoppedTold
  <2>13. QED
    BY <2>2, <2>9, <2>10, <2>11, <2>12
<1>2. QED
  BY <1>1, QuietInvariant, PTL
=============================================================================
