------------------------- MODULE InsightRun_proofs -------------------------
(***************************************************************************)
(* Proofs about the runs of one rule, for every set of resources, titles,  *)
(* decisions, sessions and run ids.  Types, the row locks and what a run   *)
(* that overlaps with none leaves hold however many sessions run; one row  *)
(* per resource and the ledger are proved, as the run that checks them has *)
(* it, for one session.                                                    *)
(***************************************************************************)
EXTENDS InsightRun, TLAPS

-----------------------------------------------------------------------------
(* Types and locks.                                                        *)

\* A row is locked by one session at most.
Locks == \A s, v \in Sessions : s # v => Locked(s) \cap Locked(v) = {}

\* What a run listed was scanned, and its facts say so too when it evaluates.
Listing ==
  \A s \in Sessions : \A r \in seen[s].listed :
    /\ facts[r] # Absent
    /\ pc[s] = "evaluate" => seen[s].facts[r] # Absent

\* Before the first SELECT a session has nothing.
Fresh ==
  \A s \in Sessions : pc[s] \in {"idle", "list"} =>
    seen[s] = Blank /\ deleted[s] = {} /\ updated[s] = {} /\ own[s] = {}

TypeInv == TypeOK /\ Locks /\ Listing /\ Fresh

LEMMA BlankType == Blank \in Snapshots
BY DEF Blank, Snapshots, Acks

LEMMA FingerprintTypes ==
  ASSUME NEW S \in SUBSET Row
  PROVE  FingerprintsOf(S) \subseteq Fingerprints
BY DEF FingerprintsOf, Fingerprints, Insights, Row

LEMMA KeyTypes == \A S \in SUBSET Row : KeysOf(S) \in SUBSET Keys
BY DEF Row, Key, Keys, KeysOf

\* An ack changes nothing else of a row.
LEMMA AckType ==
  ASSUME NEW x \in Row, NEW a \in Acks
  PROVE  LET y == [x EXCEPT !.ack = a] IN
         /\ y \in Row /\ Key(y) = Key(x) /\ y.ack = a
         /\ y.run = x.run /\ y.res = x.res /\ y.title = x.title
BY DEF Row, Key

\* An ack carried over, in the session's own rows or by an UPDATE.
LEMMA CarriedType ==
  ASSUME TypeOK, NEW s \in Sessions, NEW x \in Row
  PROVE  /\ Acked(s, x) \in Row /\ Acked(s, x).run = x.run
         /\ Acked(s, x).res = x.res /\ Acked(s, x).title = x.title
         /\ Written(s, x) \in Row /\ Key(Written(s, x)) = Key(x)
<1>1. x.res \in Resources
  BY DEF Row
<1>2. seen[s].acks[x.res] \in Acks
  BY <1>1 DEF TypeOK, Snapshots
<1>3. QED
  BY <1>2, AckType DEF Acked, Written

\* The end of a session, whatever becomes of its rows.
LEMMA EndSessionTypes ==
  ASSUME TypeInv, NEW s \in Sessions, EndSession(s)
  PROVE  /\ facts' = facts /\ doubtful' = doubtful /\ run' = run /\ alone' = alone
         /\ pc' \in [Sessions -> ControlPoints] /\ seen' \in [Sessions -> Snapshots]
         /\ deleted' \in [Sessions -> SUBSET Row] /\ updated' \in [Sessions -> SUBSET Row]
         /\ own' \in [Sessions -> SUBSET Row]
         /\ pc'[s] = "idle" /\ seen'[s] = Blank
         /\ deleted'[s] = {} /\ updated'[s] = {} /\ own'[s] = {}
         /\ \A v \in Sessions \ {s} :
              /\ pc'[v] = pc[v] /\ seen'[v] = seen[v]
              /\ deleted'[v] = deleted[v] /\ updated'[v] = updated[v] /\ own'[v] = own[v]
BY BlankType DEF TypeInv, TypeOK, EndSession, world, ControlPoints

LEMMA EndSessionRest ==
  ASSUME TypeInv, NEW s \in Sessions, EndSession(s)
  PROVE  Locks' /\ Listing' /\ Fresh'
<1> USE EndSessionTypes
<1>1. Locks'
  BY DEF TypeInv, Locks, Locked, KeysOf
<1>2. Listing'
  BY DEF TypeInv, Listing, Blank
<1>3. Fresh'
  BY DEF TypeInv, Fresh
<1>4. QED
  BY <1>1, <1>2, <1>3

LEMMA SessionFields ==
  ASSUME TypeOK, NEW s \in Sessions
  PROVE  /\ seen[s] \in Snapshots /\ seen[s].listed \subseteq Resources
         /\ seen[s].prints \subseteq Fingerprints /\ seen[s].acks \in [Resources -> Acks]
         /\ seen[s].facts \in [Resources -> Verdicts \cup {Absent}]
         /\ seen[s].target \subseteq Keys /\ seen[s].judged \subseteq seen[s].listed
         /\ seen[s].errors \subseteq Resources
         /\ deleted[s] \subseteq rows /\ KeysOf(updated[s]) \subseteq KeysOf(rows)
         /\ deleted[s] \subseteq Row /\ updated[s] \subseteq Row /\ own[s] \subseteq Row
         /\ run[s] \in RunIds /\ pc[s] \in ControlPoints
BY DEF TypeOK, Snapshots

\* The parts of a session that a step keeps.
LEMMA KeptParts ==
  ASSUME TypeInv, NEW s \in Sessions
  PROVE  /\ deleted[s] \in SUBSET Row /\ updated[s] \in SUBSET Row /\ own[s] \in SUBSET Row
         /\ deleted = [deleted EXCEPT ![s] = deleted[s]]
         /\ updated = [updated EXCEPT ![s] = updated[s]]
         /\ own = [own EXCEPT ![s] = own[s]]
BY SessionFields DEF TypeInv, TypeOK

\* A step of s that writes nothing others can see: what the other sessions have stays.
Private(s) ==
  /\ UNCHANGED <<world, store, run, alone>>
  /\ pc' \in [Sessions -> ControlPoints] /\ pc'[s] \notin {"idle", "list"}
  /\ seen' \in [Sessions -> Snapshots]
  /\ deleted' \in [Sessions -> SUBSET Row] /\ updated' \in [Sessions -> SUBSET Row]
  /\ own' \in [Sessions -> SUBSET Row]
  /\ \A v \in Sessions \ {s} :
       /\ pc'[v] = pc[v] /\ seen'[v] = seen[v]
       /\ deleted'[v] = deleted[v] /\ updated'[v] = updated[v] /\ own'[v] = own[v]

\* It takes no lock.
SameLocks(s) == deleted'[s] = deleted[s] /\ updated'[s] = updated[s]

LEMMA PrivateTypes ==
  ASSUME TypeInv, NEW s \in Sessions, Private(s),
         seen'[s].judged \subseteq seen'[s].listed,
         deleted'[s] \subseteq rows, KeysOf(updated'[s]) \subseteq KeysOf(rows),
         \A v \in Sessions \ {s} : KeysOf(deleted'[s] \cup updated'[s]) \cap Locked(v) = {},
         \A r \in seen'[s].listed :
           facts[r] # Absent /\ (pc'[s] = "evaluate" => seen'[s].facts[r] # Absent)
  PROVE  TypeInv'
<1>1. facts' = facts /\ rows' = rows
  BY DEF Private, world, store
<1>2. \A v \in Sessions :
        /\ seen'[v].judged \subseteq seen'[v].listed
        /\ deleted'[v] \subseteq rows' /\ KeysOf(updated'[v]) \subseteq KeysOf(rows')
  BY <1>1 DEF TypeInv, TypeOK, Private
<1>3. TypeOK'
  BY <1>2 DEF TypeInv, TypeOK, Private, world, store
<1>4. Locks'
  BY DEF TypeInv, Locks, Private, Locked
<1>5. Listing'
  BY <1>1 DEF TypeInv, Listing, Private
<1>6. Fresh'
  BY DEF TypeInv, Fresh, Private
<1>7. QED
  BY <1>3, <1>4, <1>5, <1>6 DEF TypeInv

\* A step that takes no lock either.
LEMMA UnlockedTypes ==
  ASSUME TypeInv, NEW s \in Sessions, Private(s), SameLocks(s),
         seen'[s].judged \subseteq seen'[s].listed,
         \A r \in seen'[s].listed :
           facts[r] # Absent /\ (pc'[s] = "evaluate" => seen'[s].facts[r] # Absent)
  PROVE  TypeInv'
<1>1. deleted'[s] \subseteq rows /\ KeysOf(updated'[s]) \subseteq KeysOf(rows)
  BY SessionFields DEF TypeInv, SameLocks
<1>2. \A v \in Sessions \ {s} : KeysOf(deleted'[s] \cup updated'[s]) \cap Locked(v) = {}
  BY DEF TypeInv, SameLocks, Locks, Locked
<1>3. QED
  BY <1>1, <1>2, PrivateTypes

\* A new value for what a session has seen, deleted, updated and inserted.
LEMMA PrivateStep ==
  ASSUME TypeInv, NEW s \in Sessions, NEW from, NEW to, Step(s, from, to),
         to \in ControlPoints \ {"idle", "list"},
         seen'[s] \in Snapshots, seen' = [seen EXCEPT ![s] = seen'[s]],
         deleted'[s] \in SUBSET Row, deleted' = [deleted EXCEPT ![s] = deleted'[s]],
         updated'[s] \in SUBSET Row, updated' = [updated EXCEPT ![s] = updated'[s]],
         own'[s] \in SUBSET Row, own' = [own EXCEPT ![s] = own'[s]]
  PROVE  Private(s) /\ pc[s] = from /\ pc'[s] = to
BY DEF TypeInv, TypeOK, Step, Private

\* A step that changes no more than what the session has seen.
LEMMA ReadingStep ==
  ASSUME TypeInv, NEW s \in Sessions, NEW from, NEW to, Step(s, from, to),
         to \in ControlPoints \ {"idle", "list"}, NEW q \in Snapshots,
         seen' = [seen EXCEPT ![s] = q], UNCHANGED <<deleted, updated, own>>
  PROVE  /\ Private(s) /\ pc[s] = from /\ pc'[s] = to
         /\ seen'[s] = q /\ SameLocks(s) /\ own'[s] = own[s]
<1>1. seen'[s] = q
  BY DEF TypeInv, TypeOK
<1>2. QED
  BY <1>1, KeptParts, PrivateStep DEF SameLocks

-----------------------------------------------------------------------------
(* Each step keeps the types and the locks.                                *)

LEMMA InitTypes == Init => TypeInv
<1>1. SUFFICES ASSUME Init PROVE TypeInv
  OBVIOUS
<1>2. (CHOOSE n \in RunIds : TRUE) \in RunIds
  BY RunIdsAssumption
<1>3. run \in [Sessions -> RunIds]
  BY <1>1, <1>2 DEF Init
<1>4. TypeOK
  BY <1>1, <1>3, BlankType DEF Init, TypeOK, Acks, Blank, ControlPoints, KeysOf
<1>5. Locks /\ Listing /\ Fresh
  BY <1>1 DEF Init, Locks, Locked, KeysOf, Listing, Fresh, Blank
<1>6. QED
  BY <1>4, <1>5 DEF TypeInv

LEMMA SurroundingTypes ==
  ASSUME TypeInv, NEW r \in Resources, Observe(r) \/ Doubts(r)
  PROVE  TypeInv'
<1> USE DEF store, session
<1>1. TypeOK' /\ (\A q \in Resources : facts[q] # Absent => facts'[q] # Absent)
  BY DistinctAssumption DEF TypeInv, TypeOK, Observe, Doubts, Verdicts
<1>2. Locks' /\ Fresh'
  BY DEF TypeInv, Locks, Locked, Fresh, Observe, Doubts
<1>3. /\ pc' = pc /\ seen' = seen
  BY DEF Observe, Doubts
<1>4. Listing'
  BY <1>1, <1>3, SessionFields DEF TypeInv, Listing
<1>5. QED
  BY <1>1, <1>2, <1>4 DEF TypeInv

\* What the PATCH does to the rows: whoever shares the session holds none of them.
LEMMA Patched ==
  ASSUME TypeInv, NEW x \in rows, NEW d \in Decisions, Patch(x, d)
  PROVE  /\ rows' \subseteq Row /\ x \in Row
         /\ rows' = rows \/ \A s \in Sessions : pc[s] = "idle"
         /\ \A s \in Sessions :
              deleted[s] \subseteq rows' /\ KeysOf(updated[s]) \subseteq KeysOf(rows')
         /\ \A y \in rows' : \E z \in rows :
              /\ y.res = z.res /\ y.title = z.title
              /\ y = z \/ (z = x /\ y = [x EXCEPT !.ack = d])
         /\ \A z \in rows : \E y \in rows' : y.res = z.res /\ y.title = z.title
<1>1. d \in Acks /\ x \in Row /\ rows \subseteq Row
  BY DEF Acks, TypeInv, TypeOK
<1> DEFINE y == [x EXCEPT !.ack = d]
<1>2. y \in Row /\ y.res = x.res /\ y.title = x.title
  BY <1>1, AckType
<1> HIDE DEF y
<1>3. \/ rows' = rows
      \/ rows' = (rows \ {x}) \cup {y} /\ \A s \in Sessions : pc[s] = "idle"
  BY DEF Patch, y
<1>4. \A s \in Sessions :
        deleted[s] \subseteq rows' /\ KeysOf(updated[s]) \subseteq KeysOf(rows')
  <2>1. CASE rows' = rows
    BY <2>1, SessionFields DEF TypeInv
  <2>2. CASE \A s \in Sessions : pc[s] = "idle"
    BY <2>2 DEF TypeInv, Fresh, KeysOf
  <2>3. QED
    BY <1>3, <2>1, <2>2
<1>5. \A w \in rows' : \E z \in rows :
        w.res = z.res /\ w.title = z.title /\ (w = z \/ (z = x /\ w = y))
  BY <1>2, <1>3
<1>6. \A z \in rows : \E w \in rows' : w.res = z.res /\ w.title = z.title
  BY <1>2, <1>3
<1>7. rows' \subseteq Row /\ (rows' = rows \/ \A s \in Sessions : pc[s] = "idle")
  BY <1>1, <1>2, <1>3
<1>8. QED
  BY <1>1, <1>4, <1>5, <1>6, <1>7 DEF y

LEMMA PatchTypes ==
  ASSUME TypeInv, NEW x \in rows, NEW d \in Decisions, Patch(x, d)
  PROVE  TypeInv'
<1>1. TypeOK
  BY DEF TypeInv
<1>2. decision' \in [Resources -> Acks]
  BY <1>1, Patched DEF Patch, TypeOK, Acks
<1>3. /\ facts' = facts /\ doubtful' = doubtful /\ lastEvent' = lastEvent /\ runRow' = runRow
      /\ pc' = pc /\ run' = run /\ seen' = seen /\ deleted' = deleted /\ updated' = updated
      /\ own' = own /\ alone' = alone
  BY DEF Patch, world, session
<1>4. TypeOK'
  BY <1>1, <1>2, <1>3, Patched DEF TypeOK
<1>5. Locks' /\ Listing' /\ Fresh'
  BY <1>3 DEF TypeInv, Locks, Locked, Listing, Fresh
<1>6. QED
  BY <1>4, <1>5 DEF TypeInv

LEMMA StartRunTypes ==
  ASSUME TypeInv, NEW s \in Sessions, StartRun(s)
  PROVE  TypeInv'
<1>1. PICK n \in RunIds : run' = [run EXCEPT ![s] = n]
  BY DEF StartRun, FreeRunIds
<1>2. /\ facts' = facts /\ doubtful' = doubtful /\ rows' = rows /\ lastEvent' = lastEvent
      /\ decision' = decision /\ seen' = seen /\ deleted' = deleted /\ updated' = updated
      /\ own' = own /\ runRow' = [runRow EXCEPT ![s] = "running"]
      /\ pc' = [pc EXCEPT ![s] = "list"] /\ pc[s] = "idle"
  BY DEF StartRun, world
<1>3. alone' \in [Sessions -> BOOLEAN]
  <2>1. \A v \in Sessions : (IF v = s THEN \A u \in Sessions : pc[u] = "idle"
                             ELSE alone[v] /\ pc[v] = "idle") \in BOOLEAN
    BY DEF TypeInv, TypeOK
  <2>2. QED
    BY <2>1 DEF StartRun
<1>4. TypeOK'
  BY <1>1, <1>2, <1>3 DEF TypeInv, TypeOK, ControlPoints
<1>5. /\ pc'[s] = "list" /\ \A v \in Sessions \ {s} : pc'[v] = pc[v]
  BY <1>2 DEF TypeInv, TypeOK
<1>6. Locks' /\ Listing' /\ Fresh'
  BY <1>2, <1>5 DEF TypeInv, Locks, Locked, Listing, Fresh
<1>7. QED
  BY <1>4, <1>6 DEF TypeInv

\* SELECT of all resources: those that were scanned.
LEMMA ListResourcesEffect ==
  ASSUME TypeInv, NEW s \in Sessions, ListResources(s)
  PROVE  /\ Private(s) /\ SameLocks(s) /\ pc[s] = "list" /\ pc'[s] = "snapshot"
         /\ own'[s] = {} /\ updated'[s] = {}
         /\ seen'[s].listed = {r \in Resources : facts[r] # Absent} /\ seen'[s].judged = {}
<1> DEFINE q == [seen[s] EXCEPT !.listed = {r \in Resources : facts[r] # Absent}]
<1>1. /\ seen[s] \in Snapshots /\ seen[s] = Blank /\ own[s] = {} /\ updated[s] = {}
      /\ Step(s, "list", "snapshot")
  BY SessionFields DEF TypeInv, Fresh, ListResources, Step
<1>2. q \in Snapshots
  BY <1>1 DEF Snapshots
<1>3. q.listed = {r \in Resources : facts[r] # Absent} /\ q.judged = {}
  BY <1>1 DEF Blank
<1>4. seen' = [seen EXCEPT ![s] = q] /\ UNCHANGED <<deleted, updated, own>>
  BY DEF ListResources
<1> HIDE DEF q
<1>5. "snapshot" \in ControlPoints \ {"idle", "list"}
  BY DEF ControlPoints
<1>6. /\ Private(s) /\ pc[s] = "list" /\ pc'[s] = "snapshot"
      /\ seen'[s] = q /\ SameLocks(s) /\ own'[s] = own[s]
  BY <1>1, <1>2, <1>4, <1>5, ReadingStep
<1>7. QED
  BY <1>1, <1>3, <1>6 DEF SameLocks

LEMMA ListResourcesTypes ==
  ASSUME TypeInv, NEW s \in Sessions, ListResources(s)
  PROVE  TypeInv'
BY ListResourcesEffect, UnlockedTypes

\* snapshot_rule and snapshot_acks.
LEMMA SnapshotEffect ==
  ASSUME TypeInv, NEW s \in Sessions, Snapshot(s)
  PROVE  /\ Private(s) /\ SameLocks(s) /\ pc[s] = "snapshot" /\ pc'[s] = "delete"
         /\ own'[s] = own[s]
         /\ seen'[s].listed = seen[s].listed /\ seen'[s].judged = seen[s].judged
         /\ seen'[s].prints = FingerprintsOf(rows)
<1>1. PICK f \in [Resources -> Acks] :
        seen' = [seen EXCEPT ![s].prints = Prints(rows), ![s].acks = f]
  BY DEF Snapshot
<1> DEFINE q == [seen[s] EXCEPT !.prints = Prints(rows), !.acks = f]
<1>2. Prints(rows) \subseteq Fingerprints
  BY FingerprintTypes DEF Prints, TypeInv, TypeOK
<1>3. q \in Snapshots
  BY <1>2, SessionFields DEF TypeInv, Snapshots
<1>4. /\ q.listed = seen[s].listed /\ q.judged = seen[s].judged
      /\ q.prints = FingerprintsOf(rows)
  BY SessionFields DEF TypeInv, Snapshots, Prints
<1>5. /\ seen' = [seen EXCEPT ![s] = q] /\ UNCHANGED <<deleted, updated, own>>
      /\ Step(s, "snapshot", "delete")
  BY <1>1 DEF Snapshot, TypeInv, TypeOK
<1> HIDE DEF q
<1>6. "delete" \in ControlPoints \ {"idle", "list"}
  BY DEF ControlPoints
<1>7. /\ Private(s) /\ pc[s] = "snapshot" /\ pc'[s] = "delete"
      /\ seen'[s] = q /\ SameLocks(s) /\ own'[s] = own[s]
  BY <1>3, <1>5, <1>6, ReadingStep
<1>8. QED
  BY <1>4, <1>7

LEMMA SnapshotTypes ==
  ASSUME TypeInv, NEW s \in Sessions, Snapshot(s)
  PROVE  TypeInv'
BY SnapshotEffect, UnlockedTypes, SessionFields DEF TypeInv, Listing

\* A statement that starts, and aims at the rows T.
LEMMA Aims ==
  ASSUME TypeInv, NEW s \in Sessions, NEW from, NEW to, Step(s, from, to),
         to \in ControlPoints \ {"idle", "list", "evaluate"}, NEW T \in SUBSET Keys,
         seen' = [seen EXCEPT ![s].target = T], UNCHANGED <<deleted, updated, own>>
  PROVE  /\ Private(s) /\ SameLocks(s) /\ pc[s] = from /\ pc'[s] = to
         /\ own'[s] = own[s] /\ seen'[s].judged = seen[s].judged
         /\ seen'[s].prints = seen[s].prints /\ seen'[s].target = T
         /\ TypeInv'
<1> DEFINE q == [seen[s] EXCEPT !.target = T]
<1>1. q \in Snapshots
  BY SessionFields DEF TypeInv, Snapshots
<1>2. /\ q.listed = seen[s].listed /\ q.judged = seen[s].judged
      /\ q.prints = seen[s].prints /\ q.target = T
  BY SessionFields DEF TypeInv, Snapshots
<1>3. seen' = [seen EXCEPT ![s] = q]
  OBVIOUS
<1> HIDE DEF q
<1>4. /\ Private(s) /\ pc[s] = from /\ pc'[s] = to
      /\ seen'[s] = q /\ SameLocks(s) /\ own'[s] = own[s]
  BY <1>1, <1>3, ReadingStep
<1>5. TypeInv'
  BY <1>2, <1>4, UnlockedTypes, SessionFields DEF TypeInv, Listing
<1>6. QED
  BY <1>2, <1>4, <1>5

\* The two DELETEs aim at the insights and at the inconclusives committed then.
LEMMA DeleteInsightsEffect ==
  ASSUME TypeInv, NEW s \in Sessions, DeleteInsights(s)
  PROVE  /\ Private(s) /\ SameLocks(s) /\ pc[s] = "delete" /\ pc'[s] = "deleting"
         /\ own'[s] = own[s] /\ seen'[s].judged = seen[s].judged
         /\ seen'[s].prints = seen[s].prints /\ seen'[s].target = KeysOf(Insights(rows))
         /\ TypeInv'
<1>1. Insights(rows) \in SUBSET Row
  BY DEF Insights, TypeInv, TypeOK
<1>2. KeysOf(Insights(rows)) \in SUBSET Keys
  BY <1>1, KeyTypes
<1>3. "deleting" \in ControlPoints \ {"idle", "list", "evaluate"}
  BY DEF ControlPoints
<1>4. QED
  BY <1>2, <1>3, Aims DEF DeleteInsights

LEMMA DeleteDoubtsEffect ==
  ASSUME TypeInv, NEW s \in Sessions, DeleteDoubts(s)
  PROVE  /\ Private(s) /\ SameLocks(s) /\ pc[s] = "deleting" /\ pc'[s] = "purging"
         /\ own'[s] = own[s] /\ seen'[s].judged = seen[s].judged
         /\ seen'[s].prints = seen[s].prints /\ seen[s].target = {}
         /\ seen'[s].target = KeysOf(rows \ Insights(rows))
         /\ TypeInv'
<1>1. rows \ Insights(rows) \in SUBSET Row
  BY DEF TypeInv, TypeOK
<1>2. KeysOf(rows \ Insights(rows)) \in SUBSET Keys
  BY <1>1, KeyTypes
<1>3. "purging" \in ControlPoints \ {"idle", "list", "evaluate"}
  BY DEF ControlPoints
<1> DEFINE T == KeysOf(rows \ Insights(rows))
<1>4. /\ Step(s, "deleting", "purging") /\ UNCHANGED <<deleted, updated, own>>
      /\ seen[s].target = {} /\ seen' = [seen EXCEPT ![s].target = T]
  BY DEF DeleteDoubts
<1> HIDE DEF T
<1>5. T \in SUBSET Keys
  BY <1>2 DEF T
<1>6. /\ Private(s) /\ SameLocks(s) /\ pc[s] = "deleting" /\ pc'[s] = "purging"
      /\ own'[s] = own[s] /\ seen'[s].judged = seen[s].judged
      /\ seen'[s].prints = seen[s].prints /\ seen'[s].target = T /\ TypeInv'
  BY <1>3, <1>4, <1>5, Aims
<1>7. QED
  BY <1>4, <1>6 DEF T

\* A row taken is one that no other session holds.
LEMMA TargetLess ==
  ASSUME TypeInv, NEW s \in Sessions, NEW k
  PROVE  LET q == [seen[s] EXCEPT !.target = @ \ {k}] IN
         /\ q \in Snapshots /\ q.listed = seen[s].listed /\ q.judged = seen[s].judged
         /\ q.prints = seen[s].prints /\ q.facts = seen[s].facts
         /\ q.target = seen[s].target \ {k}
BY SessionFields DEF TypeInv, Snapshots

LEMMA DeleteRowEffect ==
  ASSUME TypeInv, NEW s \in Sessions, NEW k \in seen[s].target, DeleteRow(s, k)
  PROVE  /\ Private(s) /\ pc[s] \in {"deleting", "purging"} /\ pc'[s] = pc[s]
         /\ own'[s] = own[s] /\ seen'[s].judged = seen[s].judged
         /\ seen'[s].prints = seen[s].prints /\ seen'[s].target = seen[s].target \ {k}
         /\ updated'[s] = updated[s] /\ deleted'[s] = deleted[s] \cup {x \in rows : Key(x) = k}
         /\ TypeInv'
<1> DEFINE q == [seen[s] EXCEPT !.target = @ \ {k}]
           D == deleted[s] \cup {x \in rows : Key(x) = k}
<1>1. /\ q \in Snapshots /\ q.listed = seen[s].listed /\ q.judged = seen[s].judged
      /\ q.prints = seen[s].prints /\ q.target = seen[s].target \ {k}
  BY TargetLess
<1>2. seen' = [seen EXCEPT ![s] = q] /\ seen'[s] = q
  BY DEF DeleteRow, TypeInv, TypeOK
<1>3. D \in SUBSET Row /\ D \subseteq rows
  BY SessionFields DEF TypeInv, TypeOK
<1>4. /\ deleted' = [deleted EXCEPT ![s] = D] /\ deleted'[s] = D
      /\ updated' = updated /\ own' = own
      /\ Step(s, pc[s], pc[s]) /\ pc[s] \in {"deleting", "purging"}
  BY DEF DeleteRow, TypeInv, TypeOK
<1>5. \A v \in Sessions \ {s} : KeysOf(D \cup updated[s]) \cap Locked(v) = {}
  <2>1. KeysOf(D \cup updated[s]) \subseteq Locked(s) \cup {k}
    BY DEF KeysOf, Locked
  <2>2. \A v \in Sessions \ {s} : k \notin Locked(v)
    BY DEF DeleteRow, Free
  <2>3. QED
    BY <2>1, <2>2 DEF TypeInv, Locks
<1> HIDE DEF q, D
<1>6. Private(s) /\ pc'[s] = pc[s]
  <2>1. pc[s] \in ControlPoints \ {"idle", "list"}
    BY <1>4 DEF ControlPoints
  <2>2. /\ updated'[s] \in SUBSET Row /\ updated' = [updated EXCEPT ![s] = updated'[s]]
        /\ own'[s] \in SUBSET Row /\ own' = [own EXCEPT ![s] = own'[s]]
    BY <1>4, KeptParts
  <2>3. /\ seen'[s] \in Snapshots /\ seen' = [seen EXCEPT ![s] = seen'[s]]
        /\ deleted'[s] \in SUBSET Row /\ deleted' = [deleted EXCEPT ![s] = deleted'[s]]
    BY <1>1, <1>2, <1>3, <1>4
  <2>4. Step(s, pc[s], pc[s])
    BY <1>4
  <2>5. QED
    BY <2>1, <2>2, <2>3, <2>4, PrivateStep
<1>7. updated'[s] = updated[s] /\ own'[s] = own[s]
  BY <1>4
<1>8. KeysOf(updated[s]) \subseteq KeysOf(rows) /\ seen[s].judged \subseteq seen[s].listed
  BY SessionFields DEF TypeInv
<1>9. \A r \in seen[s].listed : facts[r] # Absent
  BY DEF TypeInv, Listing
<1>10. TypeInv'
  BY <1>1, <1>2, <1>3, <1>4, <1>5, <1>6, <1>7, <1>8, <1>9, PrivateTypes
<1>11. QED
  BY <1>1, <1>2, <1>4, <1>6, <1>7, <1>10 DEF D

LEMMA UpdateRowEffect ==
  ASSUME TypeInv, NEW s \in Sessions, NEW k \in seen[s].target, UpdateRow(s, k)
  PROVE  /\ Private(s) /\ pc[s] \in {"updating", "acking"} /\ pc'[s] = pc[s]
         /\ own'[s] = own[s] /\ seen'[s].judged = seen[s].judged
         /\ seen'[s].prints = seen[s].prints /\ seen'[s].target = seen[s].target \ {k}
         /\ deleted'[s] = deleted[s]
         /\ TypeInv'
<1> DEFINE q == [seen[s] EXCEPT !.target = @ \ {k}]
           W == {Written(s, x) : x \in {z \in rows : Key(z) = k}}
           U == {y \in updated[s] : Key(y) # k} \cup W
<1>1. /\ q \in Snapshots /\ q.listed = seen[s].listed /\ q.judged = seen[s].judged
      /\ q.prints = seen[s].prints /\ q.target = seen[s].target \ {k}
  BY TargetLess
<1>2. seen' = [seen EXCEPT ![s] = q] /\ seen'[s] = q
  BY DEF UpdateRow, TypeInv, TypeOK
<1>3. W \subseteq Row /\ \A y \in W : Key(y) = k
  BY CarriedType DEF TypeInv, TypeOK
<1>4. /\ updated' = [updated EXCEPT ![s] = U] /\ updated'[s] = U
      /\ deleted' = deleted /\ own' = own /\ k \in KeysOf(rows)
      /\ Step(s, pc[s], pc[s]) /\ pc[s] \in {"updating", "acking"}
  BY DEF UpdateRow, TypeInv, TypeOK
<1> HIDE DEF W
<1>5. U \in SUBSET Row /\ KeysOf(U) \subseteq KeysOf(updated[s]) \cup {k}
  BY <1>3, SessionFields DEF TypeInv, KeysOf
<1>6. \A v \in Sessions \ {s} : KeysOf(deleted[s] \cup U) \cap Locked(v) = {}
  <2>1. KeysOf(deleted[s] \cup U) \subseteq Locked(s) \cup {k}
    BY <1>5 DEF KeysOf, Locked
  <2>2. \A v \in Sessions \ {s} : k \notin Locked(v)
    BY DEF UpdateRow, Free
  <2>3. QED
    BY <2>1, <2>2 DEF TypeInv, Locks
<1> HIDE DEF q, U
<1>7. Private(s) /\ pc'[s] = pc[s]
  <2>1. pc[s] \in ControlPoints \ {"idle", "list"}
    BY <1>4 DEF ControlPoints
  <2>2. /\ deleted'[s] \in SUBSET Row /\ deleted' = [deleted EXCEPT ![s] = deleted'[s]]
        /\ own'[s] \in SUBSET Row /\ own' = [own EXCEPT ![s] = own'[s]]
    BY <1>4, KeptParts
  <2>3. /\ seen'[s] \in Snapshots /\ seen' = [seen EXCEPT ![s] = seen'[s]]
        /\ updated'[s] \in SUBSET Row /\ updated' = [updated EXCEPT ![s] = updated'[s]]
    BY <1>1, <1>2, <1>4, <1>5
  <2>4. Step(s, pc[s], pc[s])
    BY <1>4
  <2>5. QED
    BY <2>1, <2>2, <2>3, <2>4, PrivateStep
<1>8. deleted'[s] = deleted[s] /\ own'[s] = own[s]
  BY <1>4
<1>9. /\ KeysOf(U) \subseteq KeysOf(rows) /\ deleted[s] \subseteq rows
      /\ seen[s].judged \subseteq seen[s].listed
  BY <1>4, <1>5, SessionFields DEF TypeInv
<1>10. \A r \in seen[s].listed : facts[r] # Absent
  BY DEF TypeInv, Listing
<1>11. TypeInv'
  BY <1>1, <1>2, <1>4, <1>6, <1>7, <1>8, <1>9, <1>10, PrivateTypes
<1>12. QED
  BY <1>1, <1>2, <1>4, <1>7, <1>8, <1>11

\* The SELECT of the facts.
LEMMA ReadFactsEffect ==
  ASSUME TypeInv, NEW s \in Sessions, ReadFacts(s)
  PROVE  /\ Private(s) /\ SameLocks(s) /\ pc[s] = "purging" /\ pc'[s] = "evaluate"
         /\ own'[s] = own[s] /\ seen'[s].judged = seen[s].judged
         /\ seen'[s].prints = seen[s].prints /\ seen[s].target = {}
         /\ TypeInv'
<1> DEFINE known == [r \in Resources |-> IF r \in seen[s].listed THEN facts[r] ELSE Absent]
           q == [seen[s] EXCEPT !.facts = known]
<1>1. known \in [Resources -> Verdicts \cup {Absent}]
  BY DEF TypeInv, TypeOK
<1>2. \A r \in seen[s].listed : known[r] # Absent /\ facts[r] # Absent
  BY SessionFields DEF TypeInv, Listing
<1> HIDE DEF known
<1>3. q \in Snapshots
  BY <1>1, SessionFields DEF TypeInv, Snapshots
<1>4. /\ q.listed = seen[s].listed /\ q.judged = seen[s].judged /\ q.facts = known
      /\ q.prints = seen[s].prints
  BY SessionFields DEF TypeInv, Snapshots
<1>5. /\ seen' = [seen EXCEPT ![s] = q] /\ UNCHANGED <<deleted, updated, own>>
      /\ Step(s, "purging", "evaluate") /\ seen[s].target = {}
  BY DEF ReadFacts, known
<1> HIDE DEF q
<1>6. /\ Private(s) /\ pc[s] = "purging" /\ pc'[s] = "evaluate"
      /\ seen'[s] = q /\ SameLocks(s) /\ own'[s] = own[s]
  BY <1>3, <1>5, ReadingStep DEF ControlPoints
<1>7. TypeInv'
  BY <1>2, <1>4, <1>6, UnlockedTypes, SessionFields DEF TypeInv
<1>8. QED
  BY <1>4, <1>5, <1>6, <1>7

\* The facts of a listed resource are a title or no gap, so what a run emits is a row.
LEMMA EmittedTypes ==
  ASSUME TypeInv, NEW s \in Sessions, pc[s] = "evaluate", NEW r \in seen[s].listed
  PROVE  /\ r \in Resources /\ Emitted(s, r) \subseteq Titles \cup {Doubt}
         /\ \A t, u \in Emitted(s, r) : t = u
<1>1. /\ r \in Resources /\ seen[s].facts[r] \in Verdicts \cup {Absent}
      /\ seen[s].facts[r] # Absent
  BY SessionFields DEF TypeInv, Listing
<1>2. QED
  BY <1>1 DEF Emitted, Verdicts

EmittedRows(s, r) ==
  {[run |-> run[s], res |-> r, title |-> t, ack |-> NoAck] : t \in Emitted(s, r)}

\* The evaluation of a resource adds its rows, or none when it raises.
LEMMA EvaluateEffect ==
  ASSUME TypeInv, NEW s \in Sessions, NEW r \in Resources,
         Evaluate(s, r) \/ EvaluateRaises(s, r)
  PROVE  /\ Private(s) /\ SameLocks(s) /\ pc[s] = "evaluate" /\ pc'[s] = "evaluate"
         /\ r \in seen[s].listed \ seen[s].judged
         /\ EmittedRows(s, r) \subseteq Row
         /\ own'[s] = own[s] \/ own'[s] = own[s] \cup EmittedRows(s, r)
         /\ seen'[s].listed = seen[s].listed /\ seen'[s].judged = seen[s].judged \cup {r}
         /\ seen'[s].prints = seen[s].prints /\ seen'[s].target = seen[s].target
         /\ seen'[s].facts = seen[s].facts
<1>1. /\ pc[s] = "evaluate" /\ r \in seen[s].listed \ seen[s].judged
      /\ Step(s, "evaluate", "evaluate") /\ deleted' = deleted /\ updated' = updated
  BY DEF Evaluate, EvaluateRaises, Step
<1>2. EmittedRows(s, r) \subseteq Row
  BY <1>1, EmittedTypes, SessionFields DEF EmittedRows, TypeInv, Row, Acks
<1>3. PICK e \in SUBSET Resources :
        seen' = [seen EXCEPT ![s] = [seen[s] EXCEPT !.judged = @ \cup {r}, !.errors = e]]
  <2>1. CASE Evaluate(s, r)
    <3>1. seen[s].errors \in SUBSET Resources
      BY SessionFields DEF TypeInv
    <3>2. [seen[s] EXCEPT !.judged = @ \cup {r}]
            = [seen[s] EXCEPT !.judged = @ \cup {r}, !.errors = seen[s].errors]
      BY SessionFields DEF TypeInv, Snapshots
    <3>3. seen' = [seen EXCEPT ![s] = [seen[s] EXCEPT !.judged = @ \cup {r}]]
      BY <2>1 DEF Evaluate
    <3>4. QED
      BY <3>1, <3>2, <3>3
  <2>2. CASE EvaluateRaises(s, r)
    <3>1. seen[s].errors \cup {r} \in SUBSET Resources
      BY SessionFields DEF TypeInv
    <3>2. seen' = [seen EXCEPT ![s] =
                     [seen[s] EXCEPT !.judged = @ \cup {r}, !.errors = seen[s].errors \cup {r}]]
      BY <2>2 DEF EvaluateRaises, TypeInv, TypeOK
    <3>3. QED
      BY <3>1, <3>2
  <2>3. QED
    BY <2>1, <2>2
<1> DEFINE q == [seen[s] EXCEPT !.judged = @ \cup {r}, !.errors = e]
<1>4. q \in Snapshots
  BY SessionFields DEF TypeInv, Snapshots
<1>5. /\ q.listed = seen[s].listed /\ q.judged = seen[s].judged \cup {r}
      /\ q.facts = seen[s].facts /\ q.prints = seen[s].prints /\ q.target = seen[s].target
  BY SessionFields DEF TypeInv, Snapshots
<1>6. seen'[s] = q /\ seen' = [seen EXCEPT ![s] = q]
  BY <1>3 DEF TypeInv, TypeOK
<1> HIDE DEF q
<1>7. /\ own'[s] = own[s] \/ own'[s] = own[s] \cup EmittedRows(s, r)
      /\ own' = [own EXCEPT ![s] = own'[s]]
  BY DEF Evaluate, EvaluateRaises, EmittedRows, TypeInv, TypeOK
<1>8. own'[s] \in SUBSET Row
  BY <1>2, <1>7, KeptParts
<1>9. Private(s) /\ pc'[s] = "evaluate"
  BY <1>1, <1>4, <1>6, <1>7, <1>8, KeptParts, PrivateStep DEF ControlPoints
<1>10. QED
  BY <1>1, <1>2, <1>5, <1>6, <1>7, <1>9 DEF SameLocks

LEMMA EvaluateTypes ==
  ASSUME TypeInv, NEW s \in Sessions, NEW r \in Resources,
         Evaluate(s, r) \/ EvaluateRaises(s, r)
  PROVE  TypeInv'
<1>1. seen'[s].judged \subseteq seen'[s].listed
  BY EvaluateEffect, SessionFields DEF TypeInv
<1>2. \A p \in seen'[s].listed : facts[p] # Absent /\ seen'[s].facts[p] # Absent
  BY EvaluateEffect DEF TypeInv, Listing
<1>3. Private(s) /\ SameLocks(s)
  BY EvaluateEffect
<1>4. QED
  BY <1>1, <1>2, <1>3, UnlockedTypes

\* What the reconciliation may write is not what the run deleted.
LEMMA ReconcileEffect ==
  ASSUME TypeInv, NEW s \in Sessions, Reconcile(s)
  PROVE  /\ Private(s) /\ SameLocks(s) /\ pc[s] = "evaluate" /\ pc'[s] = "updating"
         /\ own'[s] = own[s] /\ seen'[s].judged = seen[s].judged
         /\ seen'[s].prints = seen[s].prints
         /\ seen'[s].target \subseteq KeysOf(rows \ deleted[s])
         /\ TypeInv'
<1>1. PICK K \in SUBSET KeysOf(Insights(rows \ deleted[s])) :
        seen' = [seen EXCEPT ![s].target = K]
  BY DEF Reconcile
<1>2. rows \ deleted[s] \in SUBSET Row
  BY DEF TypeInv, TypeOK
<1>3. K \subseteq KeysOf(rows \ deleted[s]) /\ K \in SUBSET Keys
  BY <1>2, KeyTypes DEF Insights, KeysOf
<1>4. "updating" \in ControlPoints \ {"idle", "list", "evaluate"}
  BY DEF ControlPoints
<1>5. /\ Step(s, "evaluate", "updating") /\ UNCHANGED <<deleted, updated, own>>
  BY DEF Reconcile
<1>6. /\ Private(s) /\ SameLocks(s) /\ pc[s] = "evaluate" /\ pc'[s] = "updating"
      /\ own'[s] = own[s] /\ seen'[s].judged = seen[s].judged
      /\ seen'[s].prints = seen[s].prints /\ seen'[s].target = K /\ TypeInv'
  BY <1>1, <1>3, <1>4, <1>5, Aims
<1>7. QED
  BY <1>3, <1>6

\* apply_acks_to_rule up to its UPDATE.
LEMMA ApplyAcksEffect ==
  ASSUME TypeInv, NEW s \in Sessions, ApplyAcks(s)
  PROVE  /\ Private(s) /\ SameLocks(s) /\ pc[s] = "updating" /\ pc'[s] = "acking"
         /\ own'[s] = {Acked(s, x) : x \in own[s]}
         /\ seen'[s].judged = seen[s].judged /\ seen'[s].prints = seen[s].prints
         /\ seen'[s].target \subseteq KeysOf(rows \ deleted[s])
         /\ TypeInv'
<1> DEFINE T == KeysOf(ToAck(s, rows \ deleted[s]))
           q == [seen[s] EXCEPT !.target = T]
           O == {Acked(s, x) : x \in own[s]}
<1>1. ToAck(s, rows \ deleted[s]) \in SUBSET Row
  BY DEF ToAck, TypeInv, TypeOK
<1>2. T \subseteq KeysOf(rows \ deleted[s]) /\ T \in SUBSET Keys
  BY <1>1, KeyTypes DEF ToAck, KeysOf
<1> HIDE DEF T
<1>3. q \in Snapshots
  BY <1>2, SessionFields DEF TypeInv, Snapshots
<1>4. /\ q.listed = seen[s].listed /\ q.judged = seen[s].judged /\ q.target = T
      /\ q.prints = seen[s].prints
  BY SessionFields DEF TypeInv, Snapshots
<1>5. O \subseteq Row
  BY CarriedType, SessionFields DEF TypeInv
<1> HIDE DEF O
<1>6. /\ seen'[s] = q /\ seen' = [seen EXCEPT ![s] = q]
      /\ own' = [own EXCEPT ![s] = O] /\ own'[s] = O
  BY DEF ApplyAcks, TypeInv, TypeOK, T, O
<1>7. deleted' = deleted /\ updated' = updated /\ Step(s, "updating", "acking")
  BY DEF ApplyAcks
<1> HIDE DEF q
<1>8. Private(s) /\ pc[s] = "updating" /\ pc'[s] = "acking"
  BY <1>3, <1>5, <1>6, <1>7, KeptParts, PrivateStep DEF ControlPoints
<1>9. SameLocks(s)
  BY <1>7 DEF SameLocks
<1>10. TypeInv'
  BY <1>4, <1>6, <1>8, <1>9, UnlockedTypes, SessionFields DEF TypeInv, Listing
<1>11. QED
  BY <1>2, <1>4, <1>6, <1>8, <1>9, <1>10 DEF O

\* A row another session holds outlives the commit of the run that ends.
LEMMA OthersHeldStay ==
  ASSUME TypeInv, NEW s \in Sessions, FinishRun(s), NEW x \in rows,
         NEW v \in Sessions \ {s}, Key(x) \in Locked(v)
  PROVE  x \in rows'
<1>1. Key(x) \notin Locked(s)
  BY DEF TypeInv, Locks
<1>2. x \in rows \ deleted[s] /\ Key(x) \notin KeysOf(updated[s])
  BY <1>1 DEF Locked, KeysOf
<1>3. QED
  BY <1>2 DEF FinishRun, Visible

LEMMA OthersLocksStay ==
  ASSUME TypeInv, NEW s \in Sessions, FinishRun(s), NEW v \in Sessions \ {s}
  PROVE  deleted[v] \subseteq rows' /\ KeysOf(updated[v]) \subseteq KeysOf(rows')
<1>1. ASSUME NEW x \in deleted[v] PROVE x \in rows'
  <2>1. x \in rows /\ Key(x) \in Locked(v)
    BY SessionFields DEF TypeInv, Locked, KeysOf
  <2>2. QED
    BY <2>1, OthersHeldStay
<1>2. ASSUME NEW k \in KeysOf(updated[v]) PROVE k \in KeysOf(rows')
  <2>1. PICK x \in rows : Key(x) = k
    BY SessionFields DEF TypeInv, KeysOf
  <2>2. Key(x) \in Locked(v)
    BY <2>1 DEF Locked, KeysOf
  <2>3. x \in rows'
    BY <2>2, OthersHeldStay
  <2>4. QED
    BY <2>1, <2>3 DEF KeysOf
<1>3. QED
  BY <1>1, <1>2

LEMMA FinishRunTypes ==
  ASSUME TypeInv, NEW s \in Sessions, FinishRun(s)
  PROVE  TypeInv'
<1>1. EndSession(s)
  BY DEF FinishRun
<1>2. rows' \subseteq Row
  BY SessionFields DEF FinishRun, Visible, TypeInv, TypeOK
<1>3. lastEvent' \in [Fingerprints -> {"none", "appeared", "resolved"}]
  <2>1. ASSUME NEW f \in Fingerprints
        PROVE  lastEvent'[f] \in {"none", "appeared", "resolved"}
    BY DEF FinishRun, EventsOf, TypeInv, TypeOK
  <2>2. lastEvent' = [f \in Fingerprints |-> lastEvent'[f]]
    BY DEF FinishRun, EventsOf
  <2>3. QED
    BY <2>1, <2>2
<1>4. /\ runRow' \in [Sessions -> {"none", "running", "success", "partial"}]
      /\ decision' \in [Resources -> Acks]
  BY DEF FinishRun, TypeInv, TypeOK, Acks
<1>5. \A v \in Sessions :
        /\ deleted'[v] \subseteq rows' /\ KeysOf(updated'[v]) \subseteq KeysOf(rows')
        /\ seen'[v].judged \subseteq seen'[v].listed
  <2>1. deleted'[s] = {} /\ KeysOf(updated'[s]) = {} /\ seen'[s].judged = {}
    BY <1>1, EndSessionTypes DEF KeysOf, Blank
  <2>2. ASSUME NEW v \in Sessions \ {s}
        PROVE  /\ deleted'[v] \subseteq rows' /\ KeysOf(updated'[v]) \subseteq KeysOf(rows')
               /\ seen'[v].judged \subseteq seen'[v].listed
    BY <1>1, EndSessionTypes, OthersLocksStay, SessionFields DEF TypeInv
  <2>3. QED
    BY <2>1, <2>2
<1>6. TypeOK'
  BY <1>1, <1>2, <1>3, <1>4, <1>5, EndSessionTypes DEF TypeInv, TypeOK
<1>7. QED
  BY <1>1, <1>6, EndSessionRest DEF TypeInv

LEMMA RollbackTypes ==
  ASSUME TypeInv, NEW s \in Sessions, TargetGone(s) \/ DeadlockVictim(s) \/ RunFails(s)
  PROVE  TypeInv'
<1>1. EndSession(s) /\ rows' = rows /\ lastEvent' = lastEvent /\ runRow' = runRow
      /\ decision' = decision
  BY DEF TargetGone, DeadlockVictim, RunFails, store
<1>2. \A v \in Sessions :
        /\ deleted'[v] \subseteq rows /\ KeysOf(updated'[v]) \subseteq KeysOf(rows)
        /\ seen'[v].judged \subseteq seen'[v].listed
  <2>1. deleted'[s] = {} /\ KeysOf(updated'[s]) = {} /\ seen'[s].judged = {}
    BY <1>1, EndSessionTypes DEF KeysOf, Blank
  <2>2. ASSUME NEW v \in Sessions \ {s}
        PROVE  /\ deleted'[v] \subseteq rows /\ KeysOf(updated'[v]) \subseteq KeysOf(rows)
               /\ seen'[v].judged \subseteq seen'[v].listed
    BY <1>1, EndSessionTypes, SessionFields DEF TypeInv
  <2>3. QED
    BY <2>1, <2>2
<1>3. TypeOK'
  BY <1>1, <1>2, EndSessionTypes DEF TypeInv, TypeOK
<1>4. QED
  BY <1>1, <1>3, EndSessionRest DEF TypeInv

LEMMA TypesStep == TypeInv /\ [Next]_vars => TypeInv'
<1>1. SUFFICES ASSUME TypeInv, [Next]_vars PROVE TypeInv'
  OBVIOUS
<1>2. CASE \E r \in Resources : Observe(r) \/ Doubts(r)
  BY <1>1, <1>2, SurroundingTypes
<1>3. CASE \E x \in rows, d \in Decisions : Patch(x, d)
  BY <1>1, <1>3, PatchTypes
<1>4. ASSUME NEW s \in Sessions, StartRun(s) \/ RunStep(s) \/ RunFails(s)
      PROVE  TypeInv'
  BY <1>1, <1>4, StartRunTypes, ListResourcesTypes, SnapshotTypes, DeleteInsightsEffect,
     DeleteDoubtsEffect, DeleteRowEffect, UpdateRowEffect, ReadFactsEffect, EvaluateTypes,
     ReconcileEffect, ApplyAcksEffect, FinishRunTypes, RollbackTypes
     DEF RunStep, TakeRow
<1>5. CASE UNCHANGED vars
  BY <1>1, <1>5 DEF vars, world, store, session, TypeInv, TypeOK, Locks, Locked, Listing, Fresh
<1>6. QED
  BY <1>1, <1>2, <1>3, <1>4, <1>5 DEF Next

\* The tables and the sessions have their types, and no two sessions hold a row
\* at once (the row locks of Postgres).
THEOREM Types == Spec => []TypeOK
<1>1. TypeInv => TypeOK
  BY DEF TypeInv
<1>2. QED
  BY <1>1, InitTypes, TypesStep, PTL DEF Spec

-----------------------------------------------------------------------------
(* What a run that overlaps with none leaves.                              *)

\* The insight_runs row of a run under way is still open.
Running == \A s \in Sessions : pc[s] # "idle" => runRow[s] = "running"

\* What a run inserts: its own rows, one of a resource it judged.
Emissions ==
  \A s \in Sessions :
    /\ \A x \in own[s] : x.run = run[s] /\ x.res \in seen[s].judged
    /\ \A x, y \in own[s] : x.res = y.res => x = y

\* What the DELETEs of a run that overlaps with none have done so far: all insights,
\* then all inconclusives; nothing is left to update.
Cleared(s) ==
  /\ updated[s] = {}
  /\ pc[s] = "deleting" =>
       \A x \in Insights(rows) : x \in deleted[s] \/ Key(x) \in seen[s].target
  /\ pc[s] = "purging" =>
       /\ Insights(rows) \subseteq deleted[s]
       /\ \A x \in rows \ Insights(rows) : x \in deleted[s] \/ Key(x) \in seen[s].target
  /\ pc[s] \in {"evaluate", "updating", "acking"} => rows = deleted[s]
  /\ pc[s] \in {"updating", "acking"} => seen[s].target = {}

Alone ==
  \A s \in Sessions : pc[s] # "idle" /\ alone[s] =>
    (\A v \in Sessions \ {s} : pc[v] = "idle") /\ Cleared(s)

LoneInv == TypeInv /\ Running /\ Emissions /\ Alone

LEMMA InitLone == Init => LoneInv
<1>1. ASSUME Init PROVE Running /\ Emissions /\ Alone
  BY <1>1 DEF Init, Running, Emissions, Alone
<1>2. QED
  BY <1>1, InitTypes DEF LoneInv

LEMMA LoneSurroundings ==
  ASSUME LoneInv, NEW r \in Resources, Observe(r) \/ Doubts(r)
  PROVE  Running' /\ Emissions' /\ Alone'
BY DEF LoneInv, Running, Emissions, Alone, Cleared, Observe, Doubts, store, session

\* A decision changes no row that a run under way sees.
LEMMA LonePatch ==
  ASSUME LoneInv, NEW x \in rows, NEW d \in Decisions, Patch(x, d)
  PROVE  Running' /\ Emissions' /\ Alone'
<1>1. /\ runRow' = runRow /\ pc' = pc /\ run' = run /\ seen' = seen /\ deleted' = deleted
      /\ updated' = updated /\ own' = own /\ alone' = alone
  BY DEF Patch, session
<1>2. rows' = rows \/ \A s \in Sessions : pc[s] = "idle"
  BY Patched DEF LoneInv
<1>3. QED
  BY <1>1, <1>2 DEF LoneInv, Running, Emissions, Alone, Cleared

LEMMA LoneStart ==
  ASSUME LoneInv, NEW s \in Sessions, StartRun(s)
  PROVE  Running' /\ Emissions' /\ Alone'
<1>1. PICK n \in FreeRunIds : run' = [run EXCEPT ![s] = n]
  BY DEF StartRun
<1>2. /\ pc[s] = "idle" /\ pc'[s] = "list" /\ runRow'[s] = "running"
      /\ rows' = rows /\ seen' = seen /\ deleted' = deleted /\ updated' = updated
      /\ own' = own /\ own[s] = {} /\ updated[s] = {}
      /\ \A v \in Sessions \ {s} :
           pc'[v] = pc[v] /\ run'[v] = run[v] /\ runRow'[v] = runRow[v]
  BY <1>1 DEF LoneInv, TypeInv, TypeOK, Fresh, StartRun
<1>3. /\ alone'[s] => \A v \in Sessions \ {s} : pc[v] = "idle"
      /\ \A v \in Sessions \ {s} : alone'[v] => pc[v] = "idle"
  BY DEF StartRun
<1>4. Running'
  BY <1>2 DEF LoneInv, Running
<1>5. Emissions'
  BY <1>2 DEF LoneInv, Emissions
<1>6. Cleared(s)'
  BY <1>2 DEF Cleared
<1>7. Alone'
  BY <1>2, <1>3, <1>6 DEF Alone
<1>8. QED
  BY <1>4, <1>5, <1>7

\* A step that writes nothing others can see.
LEMMA LonePrivate ==
  ASSUME LoneInv, NEW s \in Sessions, Private(s), pc[s] # "idle",
         \A x \in own'[s] : x.run = run[s] /\ x.res \in seen'[s].judged,
         \A x, y \in own'[s] : x.res = y.res => x = y,
         alone[s] => Cleared(s)'
  PROVE  Running' /\ Emissions' /\ Alone'
<1>1. rows' = rows /\ runRow' = runRow /\ run' = run /\ alone' = alone
  BY DEF Private, store
<1>2. /\ pc'[s] # "idle"
      /\ \A v \in Sessions \ {s} :
           /\ pc'[v] = pc[v] /\ seen'[v] = seen[v]
           /\ deleted'[v] = deleted[v] /\ updated'[v] = updated[v] /\ own'[v] = own[v]
  BY DEF Private
<1>3. Running'
  BY <1>1, <1>2 DEF LoneInv, Running
<1>4. Emissions'
  BY <1>1, <1>2 DEF LoneInv, Emissions
<1>5. ASSUME NEW v \in Sessions, pc'[v] # "idle", alone'[v]
      PROVE  (\A u \in Sessions \ {v} : pc'[u] = "idle") /\ Cleared(v)'
  <2>1. v = s
    BY <1>1, <1>2, <1>5 DEF LoneInv, Alone
  <2>2. QED
    BY <1>1, <1>2, <1>5, <2>1 DEF LoneInv, Alone
<1>6. Alone'
  BY <1>5 DEF Alone
<1>7. QED
  BY <1>3, <1>4, <1>6

\* A step of a run that is alone finds what its DELETEs have done so far.
LEMMA AloneCleared ==
  ASSUME LoneInv, NEW s \in Sessions, pc[s] # "idle", alone[s]
  PROVE  Cleared(s)
BY DEF LoneInv, Alone

\* A step that inserts nothing.
LEMMA LoneQuiet ==
  ASSUME LoneInv, NEW s \in Sessions, Private(s), pc[s] # "idle", own'[s] = own[s],
         seen'[s].judged = seen[s].judged, alone[s] => Cleared(s)'
  PROVE  Running' /\ Emissions' /\ Alone'
BY LonePrivate DEF LoneInv, Emissions

LEMMA LoneReads ==
  ASSUME LoneInv, NEW s \in Sessions, ListResources(s) \/ Snapshot(s)
  PROVE  Running' /\ Emissions' /\ Alone'
<1>1. CASE ListResources(s)
  <2>1. /\ Private(s) /\ pc[s] = "list" /\ pc'[s] = "snapshot" /\ own'[s] = {}
        /\ updated'[s] = {}
    BY <1>1, ListResourcesEffect DEF LoneInv
  <2>2. Cleared(s)'
    BY <2>1 DEF Cleared
  <2>3. QED
    BY <2>1, <2>2, LonePrivate
<1>2. CASE Snapshot(s)
  <2>1. /\ Private(s) /\ SameLocks(s) /\ pc[s] = "snapshot" /\ pc'[s] = "delete"
        /\ own'[s] = own[s] /\ seen'[s].judged = seen[s].judged
    BY <1>2, SnapshotEffect DEF LoneInv
  <2>2. alone[s] => Cleared(s)'
    BY <2>1, AloneCleared DEF Cleared, SameLocks
  <2>3. QED
    BY <2>1, <2>2, LoneQuiet
<1>3. QED
  BY <1>1, <1>2

\* Each DELETE aims at all there is, and no row comes or goes while nobody else runs.
LEMMA LoneDelete ==
  ASSUME LoneInv, NEW s \in Sessions,
         DeleteInsights(s) \/ DeleteDoubts(s) \/ ReadFacts(s)
  PROVE  Running' /\ Emissions' /\ Alone'
<1>1. /\ Private(s) /\ SameLocks(s) /\ pc[s] # "idle"
      /\ own'[s] = own[s] /\ seen'[s].judged = seen[s].judged
  BY DeleteInsightsEffect, DeleteDoubtsEffect, ReadFactsEffect DEF LoneInv
<1>2. rows' = rows
  BY <1>1 DEF Private, store
<1>3. ASSUME alone[s] PROVE Cleared(s)'
  <2>1. Cleared(s)
    BY <1>1, <1>3, AloneCleared
  <2>2. CASE DeleteInsights(s)
    <3>1. pc'[s] = "deleting" /\ seen'[s].target = KeysOf(Insights(rows))
      BY <2>2, DeleteInsightsEffect DEF LoneInv
    <3>2. QED
      BY <1>1, <1>2, <2>1, <3>1 DEF Cleared, SameLocks, KeysOf
  <2>3. CASE DeleteDoubts(s)
    <3>1. /\ pc[s] = "deleting" /\ pc'[s] = "purging" /\ seen[s].target = {}
          /\ seen'[s].target = KeysOf(rows \ Insights(rows))
      BY <2>3, DeleteDoubtsEffect DEF LoneInv
    <3>2. Insights(rows) \subseteq deleted[s]
      BY <2>1, <3>1 DEF Cleared
    <3>3. \A x \in rows \ Insights(rows) : Key(x) \in seen'[s].target
      BY <3>1 DEF KeysOf
    <3>4. QED
      BY <1>1, <1>2, <2>1, <3>1, <3>2, <3>3 DEF Cleared, SameLocks
  <2>4. CASE ReadFacts(s)
    <3>1. pc[s] = "purging" /\ pc'[s] = "evaluate" /\ seen[s].target = {}
      BY <2>4, ReadFactsEffect DEF LoneInv
    <3>2. rows = deleted[s]
      BY <2>1, <3>1, SessionFields DEF Cleared, LoneInv, TypeInv
    <3>3. QED
      BY <1>1, <1>2, <2>1, <3>1, <3>2 DEF Cleared, SameLocks
  <2>5. QED
    BY <2>2, <2>3, <2>4
<1>4. QED
  BY <1>1, <1>3, LoneQuiet

\* A run that is alone takes the rows it aims at, and has none to update.
LEMMA LoneTake ==
  ASSUME LoneInv, NEW s \in Sessions, NEW k \in seen[s].target,
         DeleteRow(s, k) \/ UpdateRow(s, k)
  PROVE  Running' /\ Emissions' /\ Alone'
<1>1. /\ Private(s) /\ pc[s] # "idle"
      /\ own'[s] = own[s] /\ seen'[s].judged = seen[s].judged
  BY DeleteRowEffect, UpdateRowEffect DEF LoneInv
<1>2. rows' = rows
  BY <1>1 DEF Private, store
<1>3. ASSUME alone[s] PROVE Cleared(s)'
  <2>1. Cleared(s)
    BY <1>1, <1>3, AloneCleared
  <2>2. CASE DeleteRow(s, k)
    <3>1. /\ pc[s] \in {"deleting", "purging"} /\ pc'[s] = pc[s] /\ updated'[s] = updated[s]
          /\ seen'[s].target = seen[s].target \ {k}
          /\ deleted'[s] = deleted[s] \cup {x \in rows : Key(x) = k}
      BY <2>2, DeleteRowEffect DEF LoneInv
    <3>2. \A x \in rows : x \in deleted[s] \/ Key(x) \in seen[s].target =>
            x \in deleted'[s] \/ Key(x) \in seen'[s].target
      BY <3>1
    <3>3. Insights(rows) \subseteq rows
      BY DEF Insights
    <3>4. QED
      BY <1>2, <2>1, <3>1, <3>2, <3>3 DEF Cleared
  <2>3. CASE UpdateRow(s, k)
    <3>1. pc[s] \in {"updating", "acking"}
      BY <2>3, UpdateRowEffect DEF LoneInv
    <3>2. QED
      BY <2>1, <3>1 DEF Cleared
  <2>4. QED
    BY <2>2, <2>3
<1>4. QED
  BY <1>1, <1>3, LoneQuiet

LEMMA LoneEvaluate ==
  ASSUME LoneInv, NEW s \in Sessions, NEW r \in Resources,
         Evaluate(s, r) \/ EvaluateRaises(s, r)
  PROVE  Running' /\ Emissions' /\ Alone'
<1>1. /\ Private(s) /\ SameLocks(s) /\ pc[s] = "evaluate" /\ pc'[s] = "evaluate"
      /\ r \in seen[s].listed \ seen[s].judged /\ rows' = rows
      /\ own'[s] = own[s] \/ own'[s] = own[s] \cup EmittedRows(s, r)
      /\ seen'[s].judged = seen[s].judged \cup {r}
  BY EvaluateEffect DEF LoneInv, Private, store
<1>2. \A x \in EmittedRows(s, r) : x.run = run[s] /\ x.res = r
  BY DEF EmittedRows
<1>3. \A x, y \in EmittedRows(s, r) : x = y
  BY <1>1, EmittedTypes DEF EmittedRows, LoneInv
<1>4. \A x \in own[s] : x.run = run[s] /\ x.res \in seen[s].judged
  BY DEF LoneInv, Emissions
<1>5. \A x, y \in own[s] : x.res = y.res => x = y
  BY DEF LoneInv, Emissions
<1>6. \A x \in own'[s] : x.run = run[s] /\ x.res \in seen'[s].judged
  BY <1>1, <1>2, <1>4
<1>7. \A x, y \in own'[s] : x.res = y.res => x = y
  BY <1>1, <1>2, <1>3, <1>4, <1>5
<1>8. alone[s] => Cleared(s)'
  BY <1>1, AloneCleared DEF Cleared, SameLocks
<1>9. QED
  BY <1>1, <1>6, <1>7, <1>8, LonePrivate

\* With every row deleted no row of others is left to update.
LEMMA LoneReconcile ==
  ASSUME LoneInv, NEW s \in Sessions, Reconcile(s)
  PROVE  Running' /\ Emissions' /\ Alone'
<1>1. /\ Private(s) /\ SameLocks(s) /\ pc[s] = "evaluate" /\ pc'[s] = "updating"
      /\ own'[s] = own[s] /\ seen'[s].judged = seen[s].judged
      /\ seen'[s].target \subseteq KeysOf(rows \ deleted[s])
      /\ rows' = rows
  BY ReconcileEffect DEF LoneInv, Private, store
<1>2. ASSUME alone[s] PROVE Cleared(s)'
  <2>1. Cleared(s)
    BY <1>1, <1>2, AloneCleared
  <2>2. rows = deleted[s]
    BY <1>1, <2>1 DEF Cleared
  <2>3. seen'[s].target = {}
    BY <1>1, <2>2 DEF KeysOf
  <2>4. QED
    BY <1>1, <2>1, <2>2, <2>3 DEF Cleared, SameLocks
<1>3. QED
  BY <1>1, <1>2, LoneQuiet

LEMMA LoneAcks ==
  ASSUME LoneInv, NEW s \in Sessions, ApplyAcks(s)
  PROVE  Running' /\ Emissions' /\ Alone'
<1>1. /\ Private(s) /\ SameLocks(s) /\ pc[s] = "updating" /\ pc'[s] = "acking"
      /\ own'[s] = {Acked(s, x) : x \in own[s]} /\ seen'[s].judged = seen[s].judged
      /\ seen'[s].target \subseteq KeysOf(rows \ deleted[s])
      /\ rows' = rows
  BY ApplyAcksEffect DEF LoneInv, Private, store
<1>2. \A x \in own[s] : Acked(s, x).run = x.run /\ Acked(s, x).res = x.res
  BY CarriedType, SessionFields DEF LoneInv, TypeInv
<1>3. \A x \in own[s] : x.run = run[s] /\ x.res \in seen[s].judged
  BY DEF LoneInv, Emissions
<1>4. \A x, y \in own[s] : x.res = y.res => x = y
  BY DEF LoneInv, Emissions
<1>5. \A x \in own'[s] : x.run = run[s] /\ x.res \in seen'[s].judged
  BY <1>1, <1>2, <1>3
<1>6. \A x, y \in own'[s] : x.res = y.res => x = y
  BY <1>1, <1>2, <1>4
<1>7. ASSUME alone[s] PROVE Cleared(s)'
  <2>1. Cleared(s)
    BY <1>1, <1>7, AloneCleared
  <2>2. rows = deleted[s]
    BY <1>1, <2>1 DEF Cleared
  <2>3. seen'[s].target = {}
    BY <1>1, <2>2 DEF KeysOf
  <2>4. QED
    BY <1>1, <2>1, <2>2, <2>3 DEF Cleared, SameLocks
<1>8. QED
  BY <1>1, <1>5, <1>6, <1>7, LonePrivate

\* Who ends, with or without a commit, was not alone with anyone.
LEMMA LoneFinish ==
  ASSUME LoneInv, NEW s \in Sessions,
         FinishRun(s) \/ TargetGone(s) \/ DeadlockVictim(s) \/ RunFails(s)
  PROVE  Running' /\ Emissions' /\ Alone'
<1>1. EndSession(s)
  BY DEF FinishRun, TargetGone, DeadlockVictim, RunFails
<1>2. /\ run' = run /\ alone' = alone /\ pc'[s] = "idle" /\ own'[s] = {}
      /\ \A v \in Sessions \ {s} :
           /\ pc'[v] = pc[v] /\ seen'[v] = seen[v]
           /\ deleted'[v] = deleted[v] /\ updated'[v] = updated[v] /\ own'[v] = own[v]
  BY <1>1, EndSessionTypes DEF LoneInv
<1>3. pc[s] # "idle"
  BY DEF FinishRun, TargetGone, DeadlockVictim, RunFails
<1>4. \A v \in Sessions \ {s} : runRow'[v] = runRow[v]
  BY DEF FinishRun, TargetGone, DeadlockVictim, RunFails, store, LoneInv, TypeInv, TypeOK
<1>5. \A v \in Sessions \ {s} : pc[v] # "idle" => ~ alone[v]
  BY <1>3 DEF LoneInv, Alone
<1>6. Running'
  BY <1>2, <1>4 DEF LoneInv, Running
<1>7. Emissions'
  BY <1>2 DEF LoneInv, Emissions
<1>8. Alone'
  BY <1>2, <1>5 DEF Alone
<1>9. QED
  BY <1>6, <1>7, <1>8

LEMMA LoneStep == LoneInv /\ [Next]_vars => LoneInv'
<1>1. SUFFICES ASSUME LoneInv, [Next]_vars PROVE LoneInv'
  OBVIOUS
<1>2. TypeInv'
  BY <1>1, TypesStep DEF LoneInv
<1>3. CASE \E r \in Resources : Observe(r) \/ Doubts(r)
  BY <1>1, <1>2, <1>3, LoneSurroundings DEF LoneInv
<1>4. CASE \E x \in rows, d \in Decisions : Patch(x, d)
  BY <1>1, <1>2, <1>4, LonePatch DEF LoneInv
<1>5. ASSUME NEW s \in Sessions, StartRun(s) \/ RunStep(s) \/ RunFails(s)
      PROVE  Running' /\ Emissions' /\ Alone'
  BY <1>1, <1>5, LoneStart, LoneReads, LoneDelete, LoneTake, LoneEvaluate, LoneReconcile,
     LoneAcks, LoneFinish DEF RunStep, TakeRow
<1>6. CASE UNCHANGED vars
  <2>1. Running' /\ Emissions' /\ Alone'
    BY <1>1, <1>6 DEF vars, world, store, session, LoneInv, Running, Emissions, Alone, Cleared
  <2>2. QED
    BY <1>2, <2>1 DEF LoneInv
<1>7. QED
  BY <1>1, <1>2, <1>3, <1>4, <1>5, <1>6 DEF Next, LoneInv

\* The commit of a run that was alone: all rows are those it emitted.
LEMMA LoneCommit ==
  ASSUME LoneInv, NEW s \in Sessions, FinishRun(s), alone[s]
  PROVE  /\ rows' = own[s] /\ Visible(s) = own[s]
         /\ \A x \in rows' : x.run = run[s]
         /\ \A x, y \in rows' : x.res = y.res => x = y
<1>1. pc[s] = "acking"
  BY DEF FinishRun
<1>2. Cleared(s)
  BY <1>1, AloneCleared
<1>3. Visible(s) = own[s]
  BY <1>1, <1>2 DEF Cleared, Visible
<1>4. /\ \A x \in own[s] : x.run = run[s]
      /\ \A x, y \in own[s] : x.res = y.res => x = y
  BY DEF LoneInv, Emissions
<1>5. QED
  BY <1>3, <1>4 DEF FinishRun

\* Whoever ends otherwise leaves its insight_runs row open.
LEMMA OnlyFinishRunFinishes ==
  ASSUME LoneInv, [Next]_vars, NEW s \in Sessions, Finishing(s)
  PROVE  FinishRun(s)
<1>1. pc[s] = "acking" /\ pc'[s] = "idle" /\ runRow'[s] # runRow[s]
  BY DEF Finishing, LoneInv, Running
<1>2. CASE \E r \in Resources : Observe(r) \/ Doubts(r)
  BY <1>1, <1>2 DEF Observe, Doubts, session
<1>3. CASE \E x \in rows, d \in Decisions : Patch(x, d)
  BY <1>1, <1>3 DEF Patch, session
<1>4. ASSUME NEW v \in Sessions, StartRun(v) \/ RunStep(v) \/ RunFails(v)
      PROVE  FinishRun(s)
  <2>1. CASE StartRun(v)
    <3>1. pc' = [pc EXCEPT ![v] = "list"]
      BY <2>1 DEF StartRun
    <3>2. QED
      BY <1>1, <3>1 DEF LoneInv, TypeInv, TypeOK
  <2>2. CASE \/ ListResources(v) \/ Snapshot(v) \/ DeleteInsights(v) \/ DeleteDoubts(v)
             \/ TakeRow(v) \/ ReadFacts(v) \/ Reconcile(v) \/ ApplyAcks(v)
             \/ \E r \in Resources : Evaluate(v, r) \/ EvaluateRaises(v, r)
    <3>1. runRow' = runRow
      BY <2>2 DEF ListResources, Snapshot, DeleteInsights, DeleteDoubts, TakeRow, DeleteRow,
                  UpdateRow, ReadFacts, Reconcile, ApplyAcks, Evaluate, EvaluateRaises, Step, store
    <3>2. QED
      BY <1>1, <3>1
  <2>3. CASE TargetGone(v) \/ DeadlockVictim(v) \/ RunFails(v)
    <3>1. runRow' = runRow
      BY <2>3 DEF TargetGone, DeadlockVictim, RunFails, store
    <3>2. QED
      BY <1>1, <3>1
  <2>4. CASE FinishRun(v)
    <3>1. pc' = [pc EXCEPT ![v] = "idle"]
      BY <2>4 DEF FinishRun, EndSession
    <3>2. v = s
      BY <1>1, <3>1 DEF LoneInv, TypeInv, TypeOK
    <3>3. QED
      BY <2>4, <3>2
  <2>5. QED
    BY <1>4, <2>1, <2>2, <2>3, <2>4 DEF RunStep
<1>5. CASE UNCHANGED vars
  BY <1>1, <1>5 DEF vars, session
<1>6. QED
  BY <1>2, <1>3, <1>4, <1>5 DEF Next

\* Whatever runs overlapped before and whatever they left, the next run that overlaps
\* with none replaces it all by what it emitted (runner.py:462-464).
THEOREM LoneRuns == Spec => LoneRunReplaces
<1>1. ASSUME LoneInv, [Next]_vars
      PROVE  [\A s \in Sessions : Finishing(s) /\ alone[s] =>
                /\ \A x \in rows' : x.run = run[s]
                /\ \A x, y \in rows' : x.res = y.res => x = y]_vars
  BY <1>1, OnlyFinishRunFinishes, LoneCommit
<1>2. QED
  BY <1>1, InitLone, LoneStep, PTL DEF Spec, LoneRunReplaces

-----------------------------------------------------------------------------
(* One session: the table and its event log.                               *)

\* One run of the rule at a time.
Solo == \A s, v \in Sessions : s = v

\* What snapshot_rule read is still the table when the run diffs against it.
PrintsKnown ==
  \A s \in Sessions : pc[s] \notin {"idle", "list", "snapshot"} =>
    seen[s].prints = FingerprintsOf(rows)

TableInv ==
  /\ LoneInv /\ (\A s \in Sessions : alone[s])
  /\ OneRowPerResource /\ LedgerTrue /\ PrintsKnown

LEMMA InitTable == Init => TableInv
<1>1. ASSUME Init
      PROVE  /\ \A s \in Sessions : alone[s]
             /\ OneRowPerResource /\ LedgerTrue /\ PrintsKnown
  BY <1>1 DEF Init, OneRowPerResource, LedgerTrue, PrintsKnown, FingerprintsOf, Insights
<1>2. QED
  BY <1>1, InitLone DEF TableInv

\* A PATCH changes no fingerprint.
LEMMA TablePatch ==
  ASSUME TableInv, NEW x \in rows, NEW d \in Decisions, Patch(x, d)
  PROVE  OneRowPerResource' /\ LedgerTrue' /\ PrintsKnown' /\ \A s \in Sessions : alone'[s]
<1>1. TypeInv
  BY DEF TableInv, LoneInv
<1>2. /\ lastEvent' = lastEvent /\ pc' = pc /\ seen' = seen /\ alone' = alone
  BY DEF Patch, session
<1>3. /\ \A y \in rows' : \E z \in rows :
           /\ y.res = z.res /\ y.title = z.title
           /\ y = z \/ (z = x /\ y = [x EXCEPT !.ack = d])
      /\ \A z \in rows : \E y \in rows' : y.res = z.res /\ y.title = z.title
  BY <1>1, Patched
<1>4. OneRowPerResource'
  <2>1. d \in Acks /\ x \in Row
    BY <1>1 DEF Acks, TypeInv, TypeOK
  <2>2. [x EXCEPT !.ack = d].res = x.res
    BY <2>1, AckType
  <2>3. rows' = (rows \ {x}) \cup {[x EXCEPT !.ack = d]} \/ rows' = rows
    BY DEF Patch
  <2>4. QED
    BY <2>2, <2>3 DEF TableInv, OneRowPerResource
<1>5. FingerprintsOf(rows') = FingerprintsOf(rows)
  BY <1>3 DEF FingerprintsOf, Insights
<1>6. LedgerTrue' /\ PrintsKnown'
  BY <1>2, <1>5 DEF TableInv, LedgerTrue, PrintsKnown
<1>7. QED
  BY <1>2, <1>4, <1>6 DEF TableInv

\* A step of the session that writes nothing others can see.
LEMMA TablePrivate ==
  ASSUME Solo, TableInv, NEW s \in Sessions, Private(s),
         pc'[s] # "snapshot" => seen'[s].prints = FingerprintsOf(rows)
  PROVE  OneRowPerResource' /\ LedgerTrue' /\ PrintsKnown' /\ \A v \in Sessions : alone'[v]
<1>1. rows' = rows /\ lastEvent' = lastEvent /\ alone' = alone
  BY DEF Private, store
<1>2. PrintsKnown'
  BY <1>1 DEF Solo, PrintsKnown
<1>3. QED
  BY <1>1, <1>2 DEF TableInv, OneRowPerResource, LedgerTrue

LEMMA TableRun ==
  ASSUME Solo, TableInv, NEW s \in Sessions,
         \/ ListResources(s) \/ Snapshot(s) \/ DeleteInsights(s) \/ DeleteDoubts(s) \/ TakeRow(s)
         \/ ReadFacts(s) \/ \E r \in Resources : Evaluate(s, r) \/ EvaluateRaises(s, r)
         \/ Reconcile(s) \/ ApplyAcks(s)
  PROVE  OneRowPerResource' /\ LedgerTrue' /\ PrintsKnown' /\ \A v \in Sessions : alone'[v]
<1>1. TypeInv
  BY DEF TableInv, LoneInv
<1>2. CASE ListResources(s)
  BY <1>1, <1>2, ListResourcesEffect, TablePrivate
<1>3. CASE Snapshot(s)
  BY <1>1, <1>3, SnapshotEffect, TablePrivate
<1>4. CASE \/ DeleteInsights(s) \/ DeleteDoubts(s) \/ TakeRow(s) \/ ReadFacts(s)
           \/ \E r \in Resources : Evaluate(s, r) \/ EvaluateRaises(s, r)
           \/ Reconcile(s) \/ ApplyAcks(s)
  <2>1. /\ Private(s) /\ pc[s] \notin {"idle", "list", "snapshot"}
        /\ seen'[s].prints = seen[s].prints
    <3>1. CASE DeleteInsights(s) \/ DeleteDoubts(s) \/ ReadFacts(s)
      BY <1>1, <3>1, DeleteInsightsEffect, DeleteDoubtsEffect, ReadFactsEffect
    <3>2. CASE TakeRow(s)
      BY <1>1, <3>2, DeleteRowEffect, UpdateRowEffect DEF TakeRow
    <3>3. CASE \E r \in Resources : Evaluate(s, r) \/ EvaluateRaises(s, r)
      BY <1>1, <3>3, EvaluateEffect
    <3>4. CASE Reconcile(s) \/ ApplyAcks(s)
      BY <1>1, <3>4, ReconcileEffect, ApplyAcksEffect
    <3>5. QED
      BY <1>4, <3>1, <3>2, <3>3, <3>4
  <2>2. QED
    BY <2>1, TablePrivate DEF TableInv, PrintsKnown
<1>5. QED
  BY <1>2, <1>3, <1>4

\* The commit: the events are the difference of the table before and after.
LEMMA TableFinish ==
  ASSUME Solo, TableInv, NEW s \in Sessions, FinishRun(s)
  PROVE  OneRowPerResource' /\ LedgerTrue' /\ PrintsKnown' /\ \A v \in Sessions : alone'[v]
<1>1. TypeInv /\ LoneInv /\ alone[s]
  BY DEF TableInv, LoneInv
<1>2. EndSession(s) /\ pc[s] = "acking"
  BY DEF FinishRun
<1>3. pc'[s] = "idle" /\ alone' = alone
  BY <1>1, <1>2, EndSessionTypes
<1>4. OneRowPerResource'
  BY <1>1, LoneCommit DEF OneRowPerResource
<1>5. PrintsKnown'
  BY <1>3 DEF Solo, PrintsKnown
<1>6. FingerprintsOf(rows') = FingerprintsOf(Visible(s))
  BY DEF FinishRun
<1>7. seen[s].prints = FingerprintsOf(rows)
  BY <1>2 DEF TableInv, PrintsKnown
<1>8. ASSUME NEW f \in Fingerprints
      PROVE  lastEvent'[f] = "appeared" <=> f \in FingerprintsOf(Visible(s))
  <2> DEFINE current == FingerprintsOf(Visible(s))
  <2> HIDE DEF current
  <2>1. lastEvent'[f] = (CASE f \in current \ seen[s].prints -> "appeared"
                           [] f \in seen[s].prints \ current -> "resolved"
                           [] OTHER -> lastEvent[f])
    BY DEF FinishRun, EventsOf, current
  <2>2. CASE f \in current \ seen[s].prints
    BY <2>1, <2>2 DEF current
  <2>3. CASE f \in seen[s].prints \ current
    BY <2>1, <2>3 DEF current
  <2>4. CASE ~ (f \in current \ seen[s].prints) /\ ~ (f \in seen[s].prints \ current)
    <3>1. lastEvent'[f] = lastEvent[f]
      BY <2>1, <2>4
    <3>2. lastEvent[f] = "appeared" <=> f \in seen[s].prints
      BY <1>7 DEF TableInv, LedgerTrue
    <3>3. QED
      BY <2>4, <3>1, <3>2 DEF current
  <2>5. QED
    BY <2>2, <2>3, <2>4
<1>9. LedgerTrue'
  BY <1>6, <1>8 DEF LedgerTrue
<1>10. QED
  BY <1>3, <1>4, <1>5, <1>9 DEF TableInv

LEMMA TableEdges ==
  ASSUME Solo, TableInv, NEW s \in Sessions,
         StartRun(s) \/ TargetGone(s) \/ DeadlockVictim(s) \/ RunFails(s)
  PROVE  OneRowPerResource' /\ LedgerTrue' /\ PrintsKnown' /\ \A v \in Sessions : alone'[v]
<1>1. rows' = rows /\ lastEvent' = lastEvent
  BY DEF StartRun, TargetGone, DeadlockVictim, RunFails, store
<1>2. TypeOK
  BY DEF TableInv, LoneInv, TypeInv
<1>3. pc'[s] \in {"idle", "list"}
  BY <1>2 DEF StartRun, TargetGone, DeadlockVictim, RunFails, EndSession, TypeOK
<1>4. PrintsKnown'
  BY <1>3 DEF Solo, PrintsKnown
<1>5. \A v \in Sessions : alone'[v]
  <2>1. CASE StartRun(s)
    BY <2>1 DEF StartRun, Solo
  <2>2. CASE TargetGone(s) \/ DeadlockVictim(s) \/ RunFails(s)
    BY <2>2 DEF TargetGone, DeadlockVictim, RunFails, EndSession, TableInv
  <2>3. QED
    BY <2>1, <2>2
<1>6. QED
  BY <1>1, <1>4, <1>5 DEF TableInv, OneRowPerResource, LedgerTrue

LEMMA TableStep == Solo /\ TableInv /\ [Next]_vars => TableInv'
<1>1. SUFFICES ASSUME Solo, TableInv, [Next]_vars PROVE TableInv'
  OBVIOUS
<1>2. LoneInv'
  BY <1>1, LoneStep DEF TableInv
<1>3. CASE (\E r \in Resources : Observe(r) \/ Doubts(r)) \/ UNCHANGED vars
  <2>1. rows' = rows /\ lastEvent' = lastEvent /\ pc' = pc /\ seen' = seen /\ alone' = alone
    BY <1>3 DEF Observe, Doubts, vars, store, session
  <2>2. QED
    BY <1>1, <1>2, <2>1 DEF TableInv, OneRowPerResource, LedgerTrue, PrintsKnown
<1>4. CASE \E x \in rows, d \in Decisions : Patch(x, d)
  BY <1>1, <1>2, <1>4, TablePatch DEF TableInv
<1>5. ASSUME NEW s \in Sessions, StartRun(s) \/ RunStep(s) \/ RunFails(s)
      PROVE  OneRowPerResource' /\ LedgerTrue' /\ PrintsKnown' /\ \A v \in Sessions : alone'[v]
  <2>1. CASE StartRun(s) \/ TargetGone(s) \/ DeadlockVictim(s) \/ RunFails(s)
    BY <1>1, <2>1, TableEdges
  <2>2. CASE FinishRun(s)
    BY <1>1, <2>2, TableFinish
  <2>3. CASE
         \/ ListResources(s) \/ Snapshot(s) \/ DeleteInsights(s) \/ DeleteDoubts(s) \/ TakeRow(s)
         \/ ReadFacts(s) \/ \E r \in Resources : Evaluate(s, r) \/ EvaluateRaises(s, r)
         \/ Reconcile(s) \/ ApplyAcks(s)
    BY <1>1, <2>3, TableRun
  <2>4. QED
    BY <1>5, <2>1, <2>2, <2>3 DEF RunStep
<1>6. QED
  BY <1>1, <1>2, <1>3, <1>4, <1>5 DEF Next, TableInv

LEMMA TableInvariant == ASSUME Solo PROVE Spec => []TableInv
BY InitTable, TableStep, PTL DEF Spec

\* Runs one at a time never leave two rows of a resource, whatever they found, raised or
\* rolled back (runner.py:462-464).
THEOREM OneRow == ASSUME Solo PROVE Spec => []OneRowPerResource
<1>1. TableInv => OneRowPerResource
  BY DEF TableInv
<1>2. QED
  BY <1>1, TableInvariant, PTL

\* The event log is the ledger of the table: exactly the fingerprints that are there
\* appeared last (insight_events.py:52-116).
THEOREM Ledger == ASSUME Solo PROVE Spec => []LedgerTrue
<1>1. TableInv => LedgerTrue
  BY DEF TableInv
<1>2. QED
  BY <1>1, TableInvariant, PTL
=============================================================================
