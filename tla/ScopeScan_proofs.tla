-------------------------- MODULE ScopeScan_proofs --------------------------
(***************************************************************************)
(* Proofs that retirement has its two scans and that a report without      *)
(* errors has a successful scan of every scope, for every set of sessions, *)
(* resources, targets and any number of transactions.                      *)
(***************************************************************************)
EXTENDS ScopeScan, TLAPS

-----------------------------------------------------------------------------
(* The two latest successful runs of a scope.                              *)

\* A run that is among the two latest of more runs was so among fewer.
LEMMA RecentOfUnion ==
  ASSUME NEW S, NEW T, NEW s
  PROVE  /\ Recent(S \cup T, s) \subseteq Recent(S, s) \cup T
         /\ TwoRuns(S, s) => TwoRuns(S \cup T, s)
BY DEF Recent, Successes, TwoRuns

\* Runs of another scope, and failed ones, make no difference.
LEMMA OtherRuns ==
  ASSUME NEW S, NEW T, NEW s,
         \A x \in T : ~ (x.scope = s /\ x.status = "success")
  PROVE  /\ Recent(S \cup T, s) = Recent(S, s)
         /\ TwoRuns(S \cup T, s) <=> TwoRuns(S, s)
<1>1. Successes(S \cup T, s) = Successes(S, s)
  BY DEF Successes
<1>2. QED
  BY <1>1 DEF Recent, TwoRuns

\* Further runs that did not see the resource leave it unseen.
LEMMA StillUnseen ==
  ASSUME NEW r \in Resources, NEW S, NEW T, Unseen(r, S),
         \A x \in T : x.scope = ScopeOf[r] /\ x.status = "success" => r \notin x.saw
  PROVE  Unseen(r, S \cup T)
<1>1. SUFFICES ASSUME NEW x \in Recent(S \cup T, ScopeOf[r])
               PROVE  r \notin x.saw
  BY RecentOfUnion DEF Unseen
<1>2. x.scope = ScopeOf[r] /\ x.status = "success"
  BY DEF Recent, Successes
<1>3. x \in Recent(S, ScopeOf[r]) \/ x \in T
  BY RecentOfUnion
<1>4. QED
  BY <1>2, <1>3 DEF Unseen

-----------------------------------------------------------------------------
(* Types and the loops.                                                    *)

\* What the assumptions say of the constants.
LEMMA Bounds ==
  /\ MaxErrors \in Nat /\ MaxScans \in Nat
  /\ First \in [region : Nat, type : Nat] /\ First.region = 1 /\ First.type = 1
  /\ (CHOOSE t \in Targets : TRUE) \in Targets
  /\ \A t \in Targets : /\ t.regions \in Seq(Regions) /\ t.types \in Seq(Types)
                        /\ t.dry \in BOOLEAN /\ 1 \in DOMAIN t.types
  /\ NoWrites \in Tx
<1>1. \A t \in Targets : /\ t.regions \in Seq(Regions) /\ t.types \in Seq(Types)
                         /\ t.dry \in BOOLEAN /\ Len(t.types) > 0
  BY TargetsAssumption
<1>2. \A t \in Targets : 1 \in DOMAIN t.types
  BY <1>1
<1>3. NoWrites \in Tx
  BY DEF NoWrites, Tx
<1>4. QED
  BY <1>1, <1>2, <1>3, TargetsAssumption, ScanBoundsAssumption DEF First

\* A scope that is being scanned is one.
LEMMA ScopeInScopes ==
  ASSUME TypeOK, InLoops, NEW w \in Sessions, MoreRegions(w)
  PROVE  Scope(w) \in Scopes
<1>1. target[w] \in Targets /\ at[w] \in [region : Nat, type : Nat]
  BY DEF TypeOK
<1>2. /\ target[w].regions \in Seq(Regions) /\ target[w].types \in Seq(Types)
  BY <1>1, Bounds
<1>3. at[w].region \in 1..Len(target[w].regions)
  BY <1>1, <1>2 DEF InLoops, MoreRegions
<1>4. at[w].type \in DOMAIN target[w].types
  BY DEF InLoops
<1>5. QED
  BY <1>2, <1>3, <1>4 DEF Scope, Scopes

\* A session's end leaves it with nothing.
LEMMA EndTypes ==
  ASSUME TypeOK, InLoops, NEW w \in Sessions, End(w)
  PROVE  /\ clock' = clock
         /\ pc' \in [Sessions -> {"idle", "find", "account", "next", "scan", "commit"}]
         /\ start' \in [Sessions -> 0..clock] /\ target' \in [Sessions -> Targets]
         /\ at' \in [Sessions -> [region : Nat, type : Nat]]
         /\ errors' \in [Sessions -> BOOLEAN] /\ bad' \in [Sessions -> BOOLEAN]
         /\ strikes' \in [Sessions -> 0..MaxErrors]
         /\ saw' \in [Sessions -> SUBSET Resources] /\ tx' \in [Sessions -> Tx]
<1> USE Bounds DEF TypeOK, End
<1>1. clock \in Nat
  OBVIOUS
<1>2. QED
  BY <1>1

\* A session that has ended is back before its loops.
LEMMA EndLoops ==
  ASSUME TypeOK, InLoops, NEW w \in Sessions, End(w)
  PROVE  InLoops'
<1>1. /\ at'[w] = First /\ tx'[w] = NoWrites /\ pc'[w] = "idle"
      /\ target'[w] \in Targets
  BY Bounds DEF TypeOK, End
<1>2. \A v \in Sessions \ {w} :
        /\ pc'[v] = pc[v] /\ start'[v] = start[v] /\ target'[v] = target[v]
        /\ at'[v] = at[v] /\ tx'[v] = tx[v] /\ strikes'[v] = strikes[v]
  BY DEF TypeOK, End
<1>3. /\ at'[w].region >= 1 /\ at'[w].type \in DOMAIN target'[w].types
      /\ ~ (pc'[w] = "scan")
  BY <1>1, Bounds
<1>4. ASSUME NEW v \in Sessions \ {w}
      PROVE  /\ at'[v].region >= 1 /\ at'[v].type \in DOMAIN target'[v].types
             /\ pc'[v] = "idle" => at'[v] = First /\ tx'[v] = NoWrites
             /\ pc'[v] # "idle" => start'[v] > 0
             /\ pc'[v] = "scan" => MoreRegions(v)' /\ strikes'[v] < MaxErrors
                                    /\ Scope(v)' \in tx'[v].held
  BY <1>2 DEF InLoops, MoreRegions, Scope
<1>5. QED
  BY <1>1, <1>3, <1>4 DEF InLoops

\* What a session writes in a scan is typed.
LEMMA ScanTypes ==
  ASSUME TypeOK, InLoops, NEW w \in Sessions, pc[w] = "scan"
  PROVE  /\ \A status \in {"success", "failed"} : Finished(w, status) \in Run
         /\ Scope(w) \in Scopes
         /\ \A failed \in BOOLEAN : Advance(w, failed) =>
              /\ errors' \in [Sessions -> BOOLEAN] /\ bad' \in [Sessions -> BOOLEAN]
              /\ strikes' \in [Sessions -> 0..MaxErrors]
              /\ at' \in [Sessions -> [region : Nat, type : Nat]]
              /\ \A v \in Sessions :
                   /\ at'[v].region >= 1 /\ at'[v].type \in DOMAIN target[v].types
                   /\ v # w => at'[v] = at[v]
<1>1. MoreRegions(w) /\ strikes[w] < MaxErrors
  BY DEF InLoops
<1>2. Scope(w) \in Scopes
  BY <1>1, ScopeInScopes
<1>3. \A status \in {"success", "failed"} : Finished(w, status) \in Run
  BY <1>2 DEF Finished, Run, TypeOK
<1>4. ASSUME NEW failed \in BOOLEAN, Advance(w, failed)
      PROVE  /\ errors' \in [Sessions -> BOOLEAN] /\ bad' \in [Sessions -> BOOLEAN]
             /\ strikes' \in [Sessions -> 0..MaxErrors]
             /\ at' \in [Sessions -> [region : Nat, type : Nat]]
             /\ \A v \in Sessions :
                  /\ at'[v].region >= 1 /\ at'[v].type \in DOMAIN target[v].types
                  /\ v # w => at'[v] = at[v]
  <2>1. /\ at[w] \in [region : Nat, type : Nat]
        /\ \A v \in Sessions : target[v].types \in Seq(Types) /\ 1 \in DOMAIN target[v].types
    BY Bounds DEF TypeOK
  <2>2. errors' \in [Sessions -> BOOLEAN] /\ bad' \in [Sessions -> BOOLEAN]
    BY <1>4 DEF Advance, TypeOK
  <2>3. strikes' \in [Sessions -> 0..MaxErrors]
    <3>1. strikes[w] + 1 \in 0..MaxErrors /\ 0 \in 0..MaxErrors
      BY <1>1, Bounds DEF TypeOK
    <3>2. \/ strikes' = strikes
          \/ strikes' = [strikes EXCEPT ![w] = strikes[w] + 1]
          \/ strikes' = [strikes EXCEPT ![w] = 0]
      BY <1>4 DEF Advance
    <3>3. QED
      BY <3>1, <3>2 DEF TypeOK
  <2>4. CASE at[w].type < Len(target[w].types)
    <3>1. at' = [at EXCEPT ![w].type = at[w].type + 1]
      BY <1>4, <2>4 DEF Advance
    <3>2. at[w].type + 1 \in DOMAIN target[w].types
      BY <2>1, <2>4 DEF InLoops
    <3>3. [at[w] EXCEPT !.type = at[w].type + 1] \in [region : Nat, type : Nat]
      BY <2>1
    <3>4. at' \in [Sessions -> [region : Nat, type : Nat]]
      BY <3>1, <3>3 DEF TypeOK
    <3>5. at'[w].region = at[w].region /\ at'[w].type = at[w].type + 1
      BY <2>1, <3>1 DEF TypeOK
    <3>6. \A v \in Sessions : v # w => at'[v] = at[v]
      BY <3>1 DEF TypeOK
    <3>7. \A v \in Sessions : at'[v].region >= 1 /\ at'[v].type \in DOMAIN target[v].types
      BY <3>2, <3>5, <3>6 DEF InLoops
    <3>8. QED
      BY <2>2, <2>3, <3>4, <3>6, <3>7
  <2>5. CASE ~ (at[w].type < Len(target[w].types))
    <3>1. at' = [at EXCEPT ![w] = [region |-> at[w].region + 1, type |-> 1]]
      BY <1>4, <2>5 DEF Advance
    <3>2. [region |-> at[w].region + 1, type |-> 1] \in [region : Nat, type : Nat]
      BY <2>1
    <3>3. at' \in [Sessions -> [region : Nat, type : Nat]]
      BY <3>1, <3>2 DEF TypeOK
    <3>4. at'[w].region = at[w].region + 1 /\ at'[w].type = 1
      BY <3>1 DEF TypeOK
    <3>5. \A v \in Sessions : v # w => at'[v] = at[v]
      BY <3>1 DEF TypeOK
    <3>6. \A v \in Sessions : at'[v].region >= 1 /\ at'[v].type \in DOMAIN target[v].types
      BY <2>1, <3>4, <3>5 DEF InLoops
    <3>7. QED
      BY <2>2, <2>3, <3>3, <3>5, <3>6
  <2>6. QED
    BY <2>4, <2>5
<1>5. QED
  BY <1>2, <1>3, <1>4

\* One session's transaction is replaced, and the others' stand.
LEMMA TxUpdate ==
  ASSUME tx \in [Sessions -> Tx], NEW w \in Sessions, NEW y \in Tx,
         tx' = [tx EXCEPT ![w] = y]
  PROVE  tx' \in [Sessions -> Tx] /\ tx'[w] = y /\ \A v \in Sessions \ {w} : tx'[v] = tx[v]
OBVIOUS

\* The end of a scan writes its run and, after a success, marks what is stale.
LEMMA ScanStep ==
  ASSUME TypeOK, InLoops, NEW w \in Sessions, ScanCompletes(w) \/ ScanFails(w)
  PROVE  \E status \in {"success", "failed"}, D \in SUBSET Resources :
           /\ Finished(w, status) \in Run
           /\ tx' = [tx EXCEPT ![w] = [@ EXCEPT !.runs = tx[w].runs \cup {Finished(w, status)},
                                          !.retired = tx[w].retired \cup D]]
           /\ D # {} => /\ status = "success"
                        /\ D \subseteq Stale(w, runs \cup (tx[w].runs \cup {Finished(w, status)}))
<1>1. pc[w] = "scan" /\ tx[w] \in Tx
  BY DEF ScanCompletes, ScanFails, TypeOK
<1>2. CASE ScanCompletes(w)
  <2> DEFINE S == runs \cup tx[w].runs \cup {Finished(w, "success")}
             D == IF target[w].dry THEN {} ELSE Stale(w, S)
  <2>1. Finished(w, "success") \in Run
    BY <1>1, ScanTypes
  <2>2. S = runs \cup (tx[w].runs \cup {Finished(w, "success")})
    OBVIOUS
  <2>3. D \in SUBSET Resources /\ D \subseteq Stale(w, S)
    BY DEF Stale
  <2>4. tx' = [tx EXCEPT ![w] = [@ EXCEPT !.runs = tx[w].runs \cup {Finished(w, "success")},
                                          !.retired = tx[w].retired \cup D]]
    BY <1>2 DEF ScanCompletes, TypeOK
  <2>5. QED
    BY <2>1, <2>2, <2>3, <2>4
<1>3. CASE ScanFails(w)
  <2>1. Finished(w, "failed") \in Run
    BY <1>1, ScanTypes
  <2>2. tx' = [tx EXCEPT ![w] = [@ EXCEPT !.runs = tx[w].runs \cup {Finished(w, "failed")},
                                          !.retired = tx[w].retired \cup {}]]
    <3> DEFINE R == tx[w].runs \cup {Finished(w, "failed")}
    <3>1. tx' = [tx EXCEPT ![w] = [tx[w] EXCEPT !.runs = R]]
      BY <1>1, <1>3 DEF ScanFails, TypeOK
    <3>2. [tx[w] EXCEPT !.runs = R]
            = [tx[w] EXCEPT !.runs = R, !.retired = tx[w].retired \cup {}]
      BY <1>1 DEF Tx
    <3>3. QED
      BY <3>1, <3>2
  <2>3. QED
    BY <2>1, <2>2
<1>4. QED
  BY <1>2, <1>3

\* No step leaves the types or the loops.
LEMMA StepTypes ==
  ASSUME TypeOK, InLoops, SawIsSeen, [Next]_vars
  PROVE  TypeOK' /\ InLoops'
<1> USE Bounds
<1>1. clock \in Nat /\ \A v \in Sessions : tx[v] \in Tx /\ target[v] \in Targets
  BY DEF TypeOK
<1>2. CASE UNCHANGED vars
  BY <1>2 DEF TypeOK, InLoops, MoreRegions, Scope, vars, store, progress
<1>3. ASSUME NEW w \in Sessions, NEW t \in Targets, Begin(w, t)
      PROVE  TypeOK' /\ InLoops'
  <2>1. TypeOK'
    BY <1>1, <1>3 DEF TypeOK, Begin, store
  <2>2. /\ at' = at /\ tx' = tx /\ strikes' = strikes /\ at[w] = First
        /\ pc'[w] = "find" /\ start'[w] > 0 /\ target'[w] = t
    BY <1>1, <1>3 DEF TypeOK, InLoops, Begin
  <2>3. \A v \in Sessions \ {w} :
          pc'[v] = pc[v] /\ start'[v] = start[v] /\ target'[v] = target[v]
    BY <1>3 DEF TypeOK, Begin
  <2>4. InLoops'
    BY <1>1, <2>2, <2>3 DEF InLoops, MoreRegions, Scope
  <2>5. QED
    BY <2>1, <2>4
<1>4. ASSUME NEW w \in Sessions, End(w), UNCHANGED store
      PROVE  TypeOK' /\ InLoops'
  <2>1. TypeOK'
    BY <1>1, <1>4, EndTypes DEF TypeOK, store
  <2>2. InLoops'
    BY <1>4, EndLoops
  <2>3. QED
    BY <2>1, <2>2
<1>5. ASSUME NEW w \in Sessions, Commit(w)
      PROVE  TypeOK' /\ InLoops'
  <2>1. \A r \in Resources : SeenAt(w, r) \in 0..clock
    BY <1>1 DEF SeenAt, SawIsSeen, TypeOK, Tx
  <2>2. TypeOK'
    <3>1. lastSeen' \in [Resources -> 0..clock']
      BY <1>1, <1>5, <2>1, EndTypes DEF Commit
    <3>2. runs' \subseteq Run /\ retired' \subseteq Resources /\ account' \in BOOLEAN
      BY <1>1, <1>5 DEF Commit, TypeOK, Tx
    <3>3. QED
      BY <1>1, <1>5, <3>1, <3>2, EndTypes DEF TypeOK, Commit
  <2>3. InLoops'
    BY <1>5, EndLoops DEF Commit
  <2>4. QED
    BY <2>2, <2>3
<1>6. ASSUME NEW w \in Sessions, FindAccount(w) \/ LoopEnds(w) \/ SkipRegions(w)
      PROVE  TypeOK' /\ InLoops'
  BY <1>1, <1>6 DEF TypeOK, InLoops, MoreRegions, Scope, FindAccount, LoopEnds,
       SkipRegions, store, progress
<1>7. ASSUME NEW w \in Sessions, InsertAccount(w)
      PROVE  TypeOK' /\ InLoops'
  <2>1. tx' \in [Sessions -> Tx]
    <3> DEFINE y == [tx[w] EXCEPT !.account = TRUE]
    <3>1. y \in Tx /\ tx' = [tx EXCEPT ![w] = y]
      BY <1>1, <1>7 DEF InsertAccount, Tx
    <3>2. QED
      BY <3>1, TxUpdate DEF TypeOK
  <2>2. QED
    BY <1>1, <1>7, <2>1 DEF TypeOK, InLoops, MoreRegions, Scope, InsertAccount, store, progress
<1>8. ASSUME NEW w \in Sessions, StartRun(w)
      PROVE  TypeOK' /\ InLoops'
  <2>1. Scope(w) \in Scopes
    BY <1>8, ScopeInScopes DEF StartRun, MayScan
  <2>2. tx' \in [Sessions -> Tx] /\ tx'[w].held = tx[w].held \cup {Scope(w)}
    <3> DEFINE y == [tx[w] EXCEPT !.held = tx[w].held \cup {Scope(w)}]
    <3>1. y \in Tx /\ y.held = tx[w].held \cup {Scope(w)}
      BY <1>1, <2>1 DEF Tx
    <3>2. tx' = [tx EXCEPT ![w] = y]
      BY <1>8 DEF StartRun
    <3>3. QED
      BY <3>1, <3>2, TxUpdate DEF TypeOK
  <2>3. TypeOK'
    BY <1>1, <1>8, <2>2 DEF TypeOK, StartRun, store, progress
  <2>4. Scope(w)' = Scope(w) /\ Scope(w) \in tx'[w].held
    BY <1>8, <2>2 DEF StartRun, Scope, progress
  <2>5. InLoops'
    BY <1>1, <1>8, <2>4 DEF TypeOK, InLoops, MoreRegions, Scope, MayScan, StartRun, store, progress
  <2>6. QED
    BY <2>3, <2>5
<1>9. ASSUME NEW w \in Sessions, NEW r \in Resources, See(w, r)
      PROVE  TypeOK' /\ InLoops'
  <2>1. tx' \in [Sessions -> Tx] /\ tx'[w].held = tx[w].held
    BY <1>1, <1>9 DEF See, TypeOK, Tx
  <2>2. QED
    BY <1>1, <1>9, <2>1 DEF TypeOK, InLoops, MoreRegions, Scope, See, store, progress
<1>10. ASSUME NEW w \in Sessions, ScanCompletes(w) \/ ScanFails(w)
       PROVE  TypeOK' /\ InLoops'
  <2>1. pc[w] = "scan"
    BY <1>10 DEF ScanCompletes, ScanFails
  <2>2. PICK failed \in BOOLEAN : Advance(w, failed)
    BY <1>10 DEF ScanCompletes, ScanFails
  <2>3. PICK status \in {"success", "failed"}, D \in SUBSET Resources :
          /\ Finished(w, status) \in Run
          /\ tx' = [tx EXCEPT ![w] = [@ EXCEPT !.runs = tx[w].runs \cup {Finished(w, status)},
                                          !.retired = tx[w].retired \cup D]]
    BY <1>10, ScanStep
  <2>a. /\ tx' \in [Sessions -> Tx] /\ tx'[w].held = tx[w].held
        /\ \A v \in Sessions \ {w} : tx'[v] = tx[v]
    <3> DEFINE y == [tx[w] EXCEPT !.runs = tx[w].runs \cup {Finished(w, status)},
                                  !.retired = tx[w].retired \cup D]
    <3>1. y \in Tx /\ y.held = tx[w].held
      <4>1. tx[w] \in Tx /\ Finished(w, status) \in Run
        BY <1>1, <2>3
      <4>2. tx[w].runs \cup {Finished(w, status)} \in SUBSET Run
        BY <4>1 DEF Tx
      <4>3. tx[w].retired \cup D \in SUBSET Resources
        BY <4>1 DEF Tx
      <4>4. QED
        BY <4>1, <4>2, <4>3 DEF Tx
    <3>2. tx' = [tx EXCEPT ![w] = y]
      BY <2>3
    <3>3. QED
      BY <3>1, <3>2, TxUpdate DEF TypeOK
  <2>4. TypeOK'
    <3>1. tx' \in [Sessions -> Tx]
      BY <2>a
    <3>2. /\ errors' \in [Sessions -> BOOLEAN] /\ bad' \in [Sessions -> BOOLEAN]
          /\ strikes' \in [Sessions -> 0..MaxErrors]
          /\ at' \in [Sessions -> [region : Nat, type : Nat]]
      BY <2>1, <2>2, ScanTypes
    <3>3. /\ pc' = [pc EXCEPT ![w] = "next"] /\ start' = start /\ target' = target
          /\ saw' \in [Sessions -> SUBSET Resources]
      BY <2>2 DEF Advance, TypeOK
    <3>4. /\ clock' = clock /\ account' = account /\ lastSeen' = lastSeen
          /\ retired' = retired /\ runs' = runs
      BY <2>2 DEF Advance, store
    <3>5. QED
      BY <3>1, <3>2, <3>3, <3>4 DEF TypeOK
  <2>5. tx'[w].held = tx[w].held /\ \A v \in Sessions \ {w} : tx'[v] = tx[v]
    BY <2>a
  <2>6. InLoops'
    <3>1. /\ pc' = [pc EXCEPT ![w] = "next"] /\ start' = start /\ target' = target
          /\ \A v \in Sessions : v # w => strikes'[v] = strikes[v]
      BY <2>2 DEF Advance, TypeOK
    <3>2. \A v \in Sessions :
            /\ at'[v].region >= 1 /\ at'[v].type \in DOMAIN target[v].types
            /\ v # w => at'[v] = at[v]
      BY <2>1, <2>2, ScanTypes
    <3>3. pc'[w] = "next" /\ pc[w] # "idle" /\ \A v \in Sessions \ {w} : pc'[v] = pc[v]
      BY <2>1, <3>1 DEF TypeOK
    <3>4. \A v \in Sessions : v # w => Scope(v)' = Scope(v)
      BY <3>1, <3>2 DEF Scope
    <3>5. \A v \in Sessions \ {w} :
            /\ (pc[v] # "idle") = (pc'[v] # "idle") /\ strikes'[v] = strikes[v]
            /\ tx'[v].held = tx[v].held
      BY <2>5, <3>1, <3>3
    <3>6. QED
      BY <2>5, <3>1, <3>2, <3>3, <3>4, <3>5 DEF InLoops, MoreRegions
  <2>7. QED
    BY <2>4, <2>6
<1>11. QED
  BY <1>2, <1>3, <1>4, <1>5, <1>6, <1>7, <1>8, <1>9, <1>10
     DEF Next, SessionStep, Dies, AccountTaken, EndDryRun, DeadlockVictim

-----------------------------------------------------------------------------
(* Sessions write to the scopes they hold.                                 *)

Steps(w) ==
  (\E t \in Targets : Begin(w, t)) \/ SessionStep(w) \/ Dies(w)

\* What a step of w writes in its transaction.
LEMMA Writes ==
  ASSUME TypeOK, InLoops, NEW w \in Sessions, Steps(w)
  PROVE  /\ \A v \in Sessions \ {w} :
              /\ tx'[v] = tx[v] /\ pc'[v] = pc[v] /\ saw'[v] = saw[v]
              /\ start'[v] = start[v] /\ target'[v] = target[v] /\ at'[v] = at[v]
         /\ \/ End(w) /\ (UNCHANGED store \/ Commit(w))
            \/ tx' = tx /\ pc'[w] # "scan" /\ UNCHANGED store
            \/ InsertAccount(w)
            \/ StartRun(w)
            \/ \E r \in Resources : See(w, r)
            \/ ScanCompletes(w) \/ ScanFails(w)
<1> USE DEF TypeOK
<1>1. CASE \E t \in Targets : Begin(w, t)
  BY <1>1 DEF Begin
<1>2. CASE FindAccount(w) \/ SkipRegions(w) \/ LoopEnds(w)
  BY <1>2 DEF FindAccount, SkipRegions, LoopEnds, progress
<1>3. CASE End(w) /\ (UNCHANGED store \/ Commit(w))
  BY <1>3 DEF End
<1>4. CASE InsertAccount(w)
  BY <1>4 DEF InsertAccount, progress
<1>5. CASE StartRun(w)
  BY <1>5 DEF StartRun, progress
<1>6. CASE \E r \in Resources : See(w, r)
  BY <1>6 DEF See, progress
<1>7. CASE ScanCompletes(w) \/ ScanFails(w)
  <2>1. PICK failed \in BOOLEAN : Advance(w, failed)
    BY <1>7 DEF ScanCompletes, ScanFails
  <2>2. pc[w] = "scan"
    BY <1>7 DEF ScanCompletes, ScanFails
  <2>3. \A v \in Sessions \ {w} : at'[v] = at[v]
    BY <2>1, <2>2, ScanTypes
  <2>4. \A v \in Sessions \ {w} : tx'[v] = tx[v]
    BY <1>7 DEF ScanCompletes, ScanFails
  <2>5. QED
    BY <1>7, <2>1, <2>3, <2>4 DEF Advance
<1>8. QED
  BY <1>1, <1>2, <1>3, <1>4, <1>5, <1>6, <1>7
     DEF Steps, SessionStep, Dies, AccountTaken, EndDryRun, DeadlockVictim, Commit

\* Every step leaves the scopes to one holder each, who writes to no other.
LEMMA StepWritesHeld ==
  ASSUME TypeOK, InLoops, WritesHeld, NEW w \in Sessions, Steps(w)
  PROVE  WritesHeld'
<1>1. /\ \A v \in Sessions \ {w} : tx'[v] = tx[v]
      /\ \A v \in Sessions : tx[v] \in Tx
  BY Writes DEF TypeOK
<1>2. CASE tx' = tx
  BY <1>2 DEF WritesHeld
<1>3. CASE End(w)
  <2>1. tx'[w] = NoWrites
    BY <1>3 DEF End, TypeOK
  <2>2. QED
    BY <1>1, <2>1 DEF WritesHeld, NoWrites
<1>4. CASE InsertAccount(w)
  <2>1. /\ tx'[w].held = tx[w].held /\ tx'[w].bump = tx[w].bump
        /\ tx'[w].retired = tx[w].retired /\ tx'[w].runs = tx[w].runs
    BY <1>1, <1>4 DEF InsertAccount, TypeOK, Tx
  <2>2. QED
    BY <1>1, <2>1 DEF WritesHeld
<1>5. CASE StartRun(w)
  <2>1. /\ tx'[w].held = tx[w].held \cup {Scope(w)} /\ tx'[w].bump = tx[w].bump
        /\ tx'[w].retired = tx[w].retired /\ tx'[w].runs = tx[w].runs
    BY <1>1, <1>5 DEF StartRun, TypeOK, Tx
  <2>2. \A v \in Sessions \ {w} : Scope(w) \notin tx[v].held
    BY <1>5 DEF StartRun, ScopeHeld
  <2>3. QED
    BY <1>1, <2>1, <2>2 DEF WritesHeld
<1>6. ASSUME NEW r \in Resources, See(w, r)
      PROVE  WritesHeld'
  <2>1. /\ tx'[w].held = tx[w].held /\ tx'[w].bump = [tx[w].bump EXCEPT ![r] = clock]
        /\ tx'[w].retired = tx[w].retired \ {r} /\ tx'[w].runs = tx[w].runs
    BY <1>1, <1>6 DEF See, TypeOK, Tx
  <2>2. ScopeOf[r] \in tx[w].held /\ tx[w].bump \in [Resources -> Nat]
    BY <1>1, <1>6 DEF See, InLoops, Tx
  <2>3. QED
    BY <1>1, <2>1, <2>2 DEF WritesHeld
<1>7. CASE ScanCompletes(w) \/ ScanFails(w)
  <2>1. PICK status \in {"success", "failed"}, D \in SUBSET Resources :
          /\ tx' = [tx EXCEPT ![w] = [@ EXCEPT !.runs = tx[w].runs \cup {Finished(w, status)},
                                          !.retired = tx[w].retired \cup D]]
          /\ D # {} =>
               D \subseteq Stale(w, runs \cup (tx[w].runs \cup {Finished(w, status)}))
    BY <1>7, ScanStep
  <2>2. /\ tx'[w].held = tx[w].held /\ tx'[w].bump = tx[w].bump
        /\ tx'[w].retired = tx[w].retired \cup D
        /\ tx'[w].runs = tx[w].runs \cup {Finished(w, status)}
    BY <1>1, <2>1 DEF TypeOK, Tx
  <2>3. Scope(w) \in tx[w].held
    BY <1>7 DEF ScanCompletes, ScanFails, InLoops
  <2>4. \A r \in D : ScopeOf[r] = Scope(w)
    BY <2>1 DEF Stale
  <2>5. Finished(w, status).scope = Scope(w)
    BY DEF Finished
  <2>6. QED
    BY <1>1, <2>2, <2>3, <2>4, <2>5 DEF WritesHeld
<1>8. QED
  BY <1>2, <1>3, <1>4, <1>5, <1>6, <1>7, Writes

-----------------------------------------------------------------------------
(* What a run saw, last_seen_at says.                                      *)

\* SawIsSeen for the committed runs, and for one session.
SawCommitted ==
  \A x \in runs : \A r \in x.saw : ScopeOf[r] = x.scope /\ lastSeen[r] >= x.start

SawIn(w) ==
  /\ \A r \in Resources :
       tx[w].bump[r] > 0 => tx[w].bump[r] \in lastSeen[r]..clock
  /\ \A x \in tx[w].runs : \A r \in x.saw :
       ScopeOf[r] = x.scope /\ tx[w].bump[r] > 0 /\ tx[w].bump[r] >= x.start
  /\ pc[w] = "scan" => \A r \in saw[w] :
       /\ ScopeOf[r] = Scope(w) /\ r \notin tx[w].retired
       /\ tx[w].bump[r] > 0 /\ tx[w].bump[r] >= start[w]

\* Every step keeps last_seen_at at what the runs saw.
LEMMA StepSawIsSeen ==
  ASSUME TypeOK, InLoops, WritesHeld, SawIsSeen, NEW w \in Sessions, Steps(w)
  PROVE  SawIsSeen'
<1>1. SawCommitted /\ \A v \in Sessions : SawIn(v)
  BY DEF SawIsSeen, SawCommitted, SawIn
<1>2. SUFFICES SawCommitted' /\ \A v \in Sessions : SawIn(v)'
  BY DEF SawIsSeen, SawCommitted, SawIn
<1>3. /\ \A v \in Sessions \ {w} :
            /\ tx'[v] = tx[v] /\ pc'[v] = pc[v] /\ saw'[v] = saw[v]
            /\ start'[v] = start[v] /\ target'[v] = target[v] /\ at'[v] = at[v]
      /\ clock' \in {clock, clock + 1} /\ clock \in Nat
      /\ lastSeen \in [Resources -> 0..clock]
      /\ \A v \in Sessions :
           tx[v] \in Tx /\ saw[v] \subseteq Resources /\ start[v] \in 0..clock
  <2>1. clock' \in {clock, clock + 1}
    BY DEF Steps, SessionStep, Begin, Dies, End, FindAccount, InsertAccount, AccountTaken,
         SkipRegions, LoopEnds, StartRun, See, ScanCompletes, ScanFails, Advance,
         Commit, EndDryRun, DeadlockVictim
  <2>2. QED
    BY <2>1, Writes DEF TypeOK
<1>4. ASSUME UNCHANGED <<lastSeen, runs>>
      PROVE  SawCommitted' /\ \A v \in Sessions \ {w} : SawIn(v)'
  <2>1. SawCommitted'
    BY <1>1, <1>4 DEF SawCommitted
  <2>2. ASSUME NEW v \in Sessions \ {w}
        PROVE  SawIn(v)'
    <3>1. Scope(v)' = Scope(v)
      BY <1>3 DEF Scope
    <3>2. \A r \in Resources : tx[v].bump[r] \in Nat /\ lastSeen[r] \in Nat
      BY <1>3 DEF Tx
    <3>3. QED
      BY <1>1, <1>3, <1>4, <3>1, <3>2 DEF SawIn
  <2>3. QED
    BY <2>1, <2>2
<1>5. CASE End(w) /\ UNCHANGED store
  <2>1. tx'[w] = NoWrites /\ pc'[w] = "idle"
    BY <1>5 DEF End, TypeOK
  <2>2. SawIn(w)'
    BY <2>1 DEF SawIn, NoWrites
  <2>3. QED
    BY <1>4, <1>5, <2>2 DEF store
<1>6. CASE Commit(w)
  <2>1. tx'[w] = NoWrites /\ pc'[w] = "idle"
    BY <1>6 DEF Commit, End, TypeOK
  <2>2. SawIn(w)'
    BY <2>1 DEF SawIn, NoWrites
  <2>3. /\ \A r \in Resources : lastSeen'[r] = SeenAt(w, r)
        /\ runs' = runs \cup tx[w].runs /\ clock' = clock
    BY <1>6 DEF Commit, End
  <2>4. \A v \in Sessions, r \in Resources : tx[v].bump[r] \in Nat /\ lastSeen[r] \in Nat
    BY <1>3 DEF Tx
  <2>5. runs \subseteq Run /\ \A v \in Sessions : tx[v].runs \subseteq Run
    BY <1>3 DEF TypeOK, Tx
  <2>6. SawCommitted'
    <3>1. ASSUME NEW x \in runs', NEW r \in x.saw
          PROVE  ScopeOf[r] = x.scope /\ lastSeen'[r] >= x.start
      <4>1. x \in Run /\ r \in Resources /\ x.start \in Nat
        BY <2>3, <2>5, <3>1 DEF Run
      <4>2. CASE x \in runs
        BY <1>1, <2>3, <2>4, <4>1, <4>2 DEF SawCommitted, SawIn, SeenAt
      <4>3. CASE x \in tx[w].runs
        BY <1>1, <2>3, <2>4, <4>1, <4>3 DEF SawIn, SeenAt
      <4>4. QED
        BY <2>3, <4>2, <4>3
    <3>2. QED
      BY <3>1 DEF SawCommitted
  <2>7. ASSUME NEW v \in Sessions \ {w}
        PROVE  SawIn(v)'
    <3>1. Scope(v)' = Scope(v)
      BY <1>3 DEF Scope
    <3>2. ASSUME NEW r \in Resources, tx[v].bump[r] > 0
          PROVE  lastSeen'[r] = lastSeen[r]
      <4>1. ScopeOf[r] \in tx[v].held /\ ScopeOf[r] \notin tx[w].held
        BY <3>2 DEF WritesHeld
      <4>2. ~ (tx[w].bump[r] > 0)
        BY <4>1 DEF WritesHeld
      <4>3. QED
        BY <2>3, <4>2 DEF SeenAt
    <3>3. QED
      BY <1>1, <1>3, <2>3, <2>4, <3>1, <3>2 DEF SawIn
  <2>8. QED
    BY <2>2, <2>6, <2>7
<1>7. CASE tx' = tx /\ pc'[w] # "scan" /\ UNCHANGED store
  <2>1. \A r \in Resources : tx[w].bump[r] \in Nat /\ lastSeen[r] \in Nat
    BY <1>3 DEF Tx
  <2>2. SawIn(w)'
    BY <1>1, <1>3, <1>7, <2>1 DEF SawIn, store
  <2>3. QED
    BY <1>4, <1>7, <2>2 DEF store
<1>8. CASE InsertAccount(w)
  <2>1. /\ tx'[w].bump = tx[w].bump /\ tx'[w].runs = tx[w].runs
        /\ pc'[w] # "scan" /\ clock' = clock /\ UNCHANGED store
    BY <1>3, <1>8 DEF InsertAccount, TypeOK, Tx, store
  <2>2. SawIn(w)'
    BY <1>1, <2>1 DEF SawIn, store
  <2>3. QED
    BY <1>4, <2>1, <2>2 DEF store
<1>9. CASE StartRun(w)
  <2>1. /\ tx'[w].bump = tx[w].bump /\ tx'[w].runs = tx[w].runs
        /\ saw'[w] = {} /\ clock' = clock /\ UNCHANGED store
    BY <1>3, <1>9 DEF StartRun, TypeOK, Tx, store
  <2>2. SawIn(w)'
    BY <1>1, <2>1 DEF SawIn, store
  <2>3. QED
    BY <1>4, <2>1, <2>2 DEF store
<1>10. ASSUME NEW r \in Resources, See(w, r)
       PROVE  SawCommitted' /\ \A v \in Sessions : SawIn(v)'
  <2>1. /\ tx'[w].bump = [tx[w].bump EXCEPT ![r] = clock]
        /\ tx'[w].retired = tx[w].retired \ {r} /\ tx'[w].runs = tx[w].runs
        /\ saw'[w] = saw[w] \cup {r} /\ clock' = clock /\ UNCHANGED <<store, start>>
        /\ ScopeOf[r] = Scope(w) /\ Scope(w)' = Scope(w) /\ pc[w] = "scan"
    BY <1>3, <1>10 DEF See, TypeOK, Tx, store, Scope, progress
  <2>2. /\ \A q \in Resources : tx[w].bump[q] \in Nat /\ lastSeen[q] \in 0..clock
        /\ tx[w].bump \in [Resources -> Nat]
        /\ \A x \in tx[w].runs : x.saw \subseteq Resources /\ x.start \in Nat
    BY <1>3 DEF Tx, Run
  <2>3. start[w] > 0 /\ start[w] <= clock
    BY <1>3, <2>1 DEF InLoops
  <2>4. \A q \in Resources : tx[w].bump[q] > 0 => tx[w].bump[q] <= clock
    BY <1>1, <1>3, <2>2 DEF SawIn
  <2>5. \A q \in Resources \ {r} : tx'[w].bump[q] = tx[w].bump[q]
    BY <2>1, <2>2
  <2>6. tx'[w].bump[r] = clock
    BY <2>1, <2>2
  <2>7. \A q \in Resources :
          tx'[w].bump[q] > 0 => tx'[w].bump[q] \in lastSeen'[q]..clock'
    BY <1>1, <1>3, <2>1, <2>2, <2>5, <2>6 DEF SawIn, store
  <2>8. ASSUME NEW x \in tx'[w].runs, NEW q \in x.saw
        PROVE  ScopeOf[q] = x.scope /\ tx'[w].bump[q] > 0 /\ tx'[w].bump[q] >= x.start
    <3>1. /\ ScopeOf[q] = x.scope /\ tx[w].bump[q] > 0 /\ tx[w].bump[q] >= x.start
          /\ q \in Resources /\ x.start \in Nat
      BY <1>1, <2>1, <2>2, <2>8 DEF SawIn
    <3>2. QED
      BY <1>3, <2>2, <2>4, <2>5, <2>6, <3>1
  <2>9. ASSUME NEW q \in saw'[w]
        PROVE  /\ ScopeOf[q] = Scope(w)' /\ q \notin tx'[w].retired
               /\ tx'[w].bump[q] > 0 /\ tx'[w].bump[q] >= start'[w]
    <3>1. CASE q = r
      BY <1>3, <2>1, <2>3, <2>6, <3>1
    <3>2. CASE q # r
      BY <1>1, <1>3, <2>1, <2>2, <2>5, <2>9, <3>2 DEF SawIn
    <3>3. QED
      BY <3>1, <3>2
  <2>10. SawIn(w)'
    BY <2>7, <2>8, <2>9 DEF SawIn
  <2>11. QED
    BY <1>4, <2>1, <2>10 DEF store
<1>11. CASE ScanCompletes(w) \/ ScanFails(w)
  <2>1. PICK status \in {"success", "failed"}, D \in SUBSET Resources :
          tx' = [tx EXCEPT ![w] = [@ EXCEPT !.runs = tx[w].runs \cup {Finished(w, status)},
                                            !.retired = tx[w].retired \cup D]]
    BY <1>11, ScanStep
  <2>2. /\ tx'[w].bump = tx[w].bump
        /\ tx'[w].runs = tx[w].runs \cup {Finished(w, status)}
    BY <1>3, <2>1 DEF TypeOK, Tx
  <2>3. /\ pc[w] = "scan" /\ pc'[w] = "next" /\ clock' = clock /\ UNCHANGED store
    BY <1>11 DEF ScanCompletes, ScanFails, Advance, TypeOK
  <2>4. /\ Finished(w, status).scope = Scope(w) /\ Finished(w, status).start = start[w]
        /\ Finished(w, status).saw = saw[w]
    BY DEF Finished
  <2>5. \A r \in saw[w] :
          ScopeOf[r] = Scope(w) /\ tx[w].bump[r] > 0 /\ tx[w].bump[r] >= start[w]
    BY <1>1, <2>3 DEF SawIn
  <2>6. SawIn(w)'
    BY <1>1, <2>2, <2>3, <2>4, <2>5 DEF SawIn, store
  <2>7. QED
    BY <1>4, <2>3, <2>6 DEF store
<1>12. QED
  BY <1>5, <1>6, <1>7, <1>8, <1>9, <1>10, <1>11, Writes

-----------------------------------------------------------------------------
(* Marks have their proof, in a transaction and once committed.            *)

\* What a scan finds stale, none of the two latest runs saw.
LEMMA StaleIsUnseen ==
  ASSUME TypeOK, SawIsSeen, NEW w \in Sessions, pc[w] = "scan",
         NEW status \in {"success", "failed"},
         NEW r \in Stale(w, runs \cup (tx[w].runs \cup {Finished(w, status)}))
  PROVE  Unseen(r, runs \cup (tx[w].runs \cup {Finished(w, status)}))
<1> DEFINE S == runs \cup (tx[w].runs \cup {Finished(w, status)})
<1>1. /\ r \in Resources /\ ScopeOf[r] = Scope(w) /\ TwoRuns(S, Scope(w))
      /\ \A x \in Recent(S, Scope(w)) : SeenAt(w, r) < x.start
  BY DEF Stale
<1>2. /\ tx[w] \in Tx /\ tx[w].bump[r] \in Nat /\ lastSeen[r] \in Nat
      /\ clock \in Nat /\ start[w] \in Nat /\ runs \subseteq Run
  BY <1>1 DEF TypeOK, Tx
<1>3. ASSUME NEW x \in Recent(S, Scope(w)), r \in x.saw
      PROVE  FALSE
  <2>1. x \in S
    BY <1>3 DEF Recent, Successes
  <2>2. CASE x \in runs
    <3>1. x.start \in Nat /\ lastSeen[r] >= x.start
      BY <1>2, <1>3, <2>2 DEF SawIsSeen, Run
    <3>2. tx[w].bump[r] > 0 => tx[w].bump[r] >= lastSeen[r]
      BY <1>1 DEF SawIsSeen
    <3>3. SeenAt(w, r) >= lastSeen[r] /\ SeenAt(w, r) \in Nat
      BY <1>2, <3>2 DEF SeenAt
    <3>4. SeenAt(w, r) < x.start
      BY <1>1, <1>3
    <3>5. QED
      BY <1>2, <3>1, <3>3, <3>4
  <2>3. CASE x \in tx[w].runs
    <3>1. x.start \in Nat /\ tx[w].bump[r] > 0 /\ tx[w].bump[r] >= x.start
      BY <1>2, <1>3, <2>3 DEF SawIsSeen, Run, Tx
    <3>2. SeenAt(w, r) = tx[w].bump[r] /\ SeenAt(w, r) < x.start
      BY <1>1, <1>3, <3>1 DEF SeenAt
    <3>3. QED
      BY <1>2, <3>1, <3>2
  <2>4. CASE x = Finished(w, status)
    <3>1. x.start = start[w] /\ x.saw = saw[w]
      BY <2>4 DEF Finished
    <3>2. tx[w].bump[r] > 0 /\ tx[w].bump[r] >= start[w]
      BY <1>3, <3>1 DEF SawIsSeen
    <3>3. SeenAt(w, r) = tx[w].bump[r] /\ SeenAt(w, r) < x.start
      BY <1>1, <1>3, <3>2 DEF SeenAt
    <3>4. QED
      BY <1>2, <3>1, <3>2, <3>3
  <2>5. QED
    BY <2>1, <2>2, <2>3, <2>4
<1>4. QED
  BY <1>1, <1>3 DEF Unseen

\* Every step leaves the uncommitted and the committed marks with their proof.
LEMMA StepMarks ==
  ASSUME TypeOK, InLoops, WritesHeld, SawIsSeen, MarksHaveProof, RetiredHasProof,
         NEW w \in Sessions, Steps(w)
  PROVE  MarksHaveProof' /\ RetiredHasProof'
<1>1. /\ \A v \in Sessions \ {w} : tx'[v] = tx[v]
      /\ \A v \in Sessions : tx[v] \in Tx
      /\ retired \subseteq Resources /\ runs \subseteq Run
  BY Writes DEF TypeOK
<1>2. ASSUME UNCHANGED store, NEW M, tx'[w].retired \subseteq tx[w].retired \cup M,
             \A r \in tx'[w].retired : Unseen(r, runs \cup tx'[w].runs)
      PROVE  MarksHaveProof' /\ RetiredHasProof'
  <2>1. RetiredHasProof'
    BY <1>2 DEF RetiredHasProof, Unseen, TwoRuns, Recent, Successes, store
  <2>2. ASSUME NEW v \in Sessions, NEW r \in tx'[v].retired
        PROVE  Unseen(r, runs' \cup tx'[v].runs)
    BY <1>1, <1>2, <2>2 DEF MarksHaveProof, store
  <2>3. QED
    BY <2>1, <2>2 DEF MarksHaveProof, Unseen, TwoRuns, Recent, Successes
<1>3. ASSUME UNCHANGED store, tx'[w].retired \subseteq tx[w].retired,
             tx'[w].runs = tx[w].runs
      PROVE  MarksHaveProof' /\ RetiredHasProof'
  BY <1>2, <1>3 DEF MarksHaveProof
<1>4. CASE End(w) /\ UNCHANGED store
  <2>1. tx'[w].retired = {}
    BY <1>4 DEF End, TypeOK, NoWrites
  <2>2. QED
    BY <1>2, <1>4, <2>1
<1>5. CASE Commit(w)
  <2>1. /\ tx'[w].retired = {} /\ runs' = runs \cup tx[w].runs
        /\ retired' = {r \in Resources : IsRetired(w, r)}
    BY <1>5 DEF Commit, End, TypeOK, NoWrites
  <2>2. ASSUME NEW v \in Sessions, NEW r \in tx'[v].retired
        PROVE  Unseen(r, runs' \cup tx'[v].runs)
    <3>1. v # w /\ tx'[v] = tx[v]
      BY <1>1, <2>1, <2>2
    <3>2. r \in Resources /\ ScopeOf[r] \in tx[v].held
      BY <1>1, <2>2, <3>1 DEF WritesHeld, Tx
    <3>3. \A x \in tx[w].runs : x.scope # ScopeOf[r]
      BY <3>1, <3>2 DEF WritesHeld
    <3>4. Unseen(r, runs \cup tx[v].runs)
      BY <2>2, <3>1 DEF MarksHaveProof
    <3>5. Unseen(r, (runs \cup tx[v].runs) \cup tx[w].runs)
      BY <3>2, <3>3, <3>4, StillUnseen
    <3>6. (runs \cup tx[v].runs) \cup tx[w].runs = runs' \cup tx'[v].runs
      BY <2>1, <3>1
    <3>7. QED
      BY <3>5, <3>6
  <2>3. ASSUME NEW r \in retired'
        PROVE  Unseen(r, runs')
    <3>1. r \in Resources /\ IsRetired(w, r)
      BY <2>1, <2>3
    <3>2. CASE r \in tx[w].retired
      BY <2>1, <3>2 DEF MarksHaveProof
    <3>3. CASE r \in retired /\ tx[w].bump[r] = 0
      <4>1. Unseen(r, runs)
        BY <3>3 DEF RetiredHasProof
      <4>2. \A x \in tx[w].runs : r \notin x.saw
        BY <3>3 DEF SawIsSeen
      <4>3. QED
        BY <2>1, <3>1, <4>1, <4>2, StillUnseen
    <3>4. QED
      BY <3>1, <3>2, <3>3 DEF IsRetired
  <2>4. QED
    BY <2>2, <2>3 DEF MarksHaveProof, RetiredHasProof, Unseen, TwoRuns, Recent, Successes
<1>6. CASE tx' = tx /\ UNCHANGED store
  BY <1>3, <1>6
<1>7. CASE InsertAccount(w) \/ StartRun(w)
  <2>1. /\ tx'[w].retired = tx[w].retired /\ tx'[w].runs = tx[w].runs
        /\ UNCHANGED store
    BY <1>1, <1>7 DEF InsertAccount, StartRun, TypeOK, Tx
  <2>2. QED
    BY <1>3, <2>1
<1>8. ASSUME NEW r \in Resources, See(w, r)
      PROVE  MarksHaveProof' /\ RetiredHasProof'
  <2>1. /\ tx'[w].retired = tx[w].retired \ {r} /\ tx'[w].runs = tx[w].runs
        /\ UNCHANGED store
    BY <1>1, <1>8 DEF See, TypeOK, Tx
  <2>2. QED
    BY <1>3, <2>1
<1>9. CASE ScanCompletes(w) \/ ScanFails(w)
  <2>1. PICK status \in {"success", "failed"}, D \in SUBSET Resources :
          /\ tx' = [tx EXCEPT ![w] = [@ EXCEPT !.runs = tx[w].runs \cup {Finished(w, status)},
                                               !.retired = tx[w].retired \cup D]]
          /\ D # {} =>
               D \subseteq Stale(w, runs \cup (tx[w].runs \cup {Finished(w, status)}))
    BY <1>9, ScanStep
  <2>2. /\ tx'[w].retired = tx[w].retired \cup D
        /\ tx'[w].runs = tx[w].runs \cup {Finished(w, status)}
    BY <1>1, <2>1 DEF TypeOK, Tx
  <2>3. pc[w] = "scan" /\ UNCHANGED store
    BY <1>9 DEF ScanCompletes, ScanFails, Advance
  <2>4. ASSUME NEW r \in tx[w].retired
        PROVE  Unseen(r, runs \cup tx'[w].runs)
    <3>1. r \in Resources /\ Unseen(r, runs \cup tx[w].runs)
      BY <1>1 DEF Tx, MarksHaveProof
    <3>2. r \notin Finished(w, status).saw
      BY <2>3 DEF SawIsSeen, Finished
    <3>3. Unseen(r, (runs \cup tx[w].runs) \cup {Finished(w, status)})
      BY <3>1, <3>2, StillUnseen
    <3>4. (runs \cup tx[w].runs) \cup {Finished(w, status)} = runs \cup tx'[w].runs
      BY <2>2
    <3>5. QED
      BY <3>3, <3>4
  <2>5. ASSUME NEW r \in D
        PROVE  Unseen(r, runs \cup tx'[w].runs)
    BY <2>1, <2>2, <2>3, StaleIsUnseen
  <2>6. QED
    BY <1>2, <2>2, <2>3, <2>4, <2>5
<1>10. QED
  BY <1>4, <1>5, <1>6, <1>7, <1>8, <1>9, Writes

-----------------------------------------------------------------------------
(* The theorems.                                                           *)

\* Nothing is written and nothing seen at the start.
LEMMA InitInv == Init => ScanInv
<1> SUFFICES ASSUME Init PROVE ScanInv
  OBVIOUS
<1>1. TypeOK
  <2> USE Bounds DEF Init
  <2>0. clock \in 0..MaxScans
    OBVIOUS
  <2>1. account \in BOOLEAN
    BY Zenon
  <2>2. lastSeen \in [Resources -> 0..clock]
    OBVIOUS
  <2>3. retired \subseteq Resources /\ runs \subseteq Run
    OBVIOUS
  <2>4. /\ pc \in [Sessions -> {"idle", "find", "account", "next", "scan", "commit"}]
        /\ start \in [Sessions -> 0..clock]
        /\ at \in [Sessions -> [region : Nat, type : Nat]]
    OBVIOUS
  <2>5. target \in [Sessions -> Targets]
    OBVIOUS
  <2>6. /\ errors \in [Sessions -> BOOLEAN] /\ bad \in [Sessions -> BOOLEAN]
        /\ strikes \in [Sessions -> 0..MaxErrors]
    OBVIOUS
  <2>7. saw \in [Sessions -> SUBSET Resources] /\ tx \in [Sessions -> Tx]
    OBVIOUS
  <2>8. QED
    BY <2>0, <2>1, <2>2, <2>3, <2>4, <2>5, <2>6, <2>7 DEF TypeOK
<1>2. ASSUME NEW w \in Sessions
      PROVE  /\ at[w] = First /\ tx[w] = NoWrites /\ pc[w] = "idle"
             /\ target[w] \in Targets
  BY Bounds DEF Init
<1>3. InLoops
  BY <1>2, Bounds DEF InLoops
<1>4. WritesHeld /\ SawIsSeen /\ MarksHaveProof /\ RetiredHasProof
  BY DEF Init, WritesHeld, SawIsSeen, MarksHaveProof, RetiredHasProof, NoWrites
<1>5. QED
  BY <1>1, <1>3, <1>4 DEF ScanInv

\* Every step of every session keeps ScanInv.
LEMMA StepInv == ScanInv /\ [Next]_vars => ScanInv'
<1> SUFFICES ASSUME ScanInv, [Next]_vars PROVE ScanInv'
  OBVIOUS
<1>1. TypeOK' /\ InLoops'
  BY StepTypes DEF ScanInv
<1>2. CASE UNCHANGED vars
  BY <1>1, <1>2 DEF ScanInv, WritesHeld, SawIsSeen, MarksHaveProof, RetiredHasProof,
       Unseen, TwoRuns, Recent, Successes, Scope, vars, store, progress
<1>3. ASSUME NEW w \in Sessions, Steps(w)
      PROVE  WritesHeld' /\ SawIsSeen' /\ MarksHaveProof' /\ RetiredHasProof'
  BY <1>3, StepWritesHeld, StepSawIsSeen, StepMarks DEF ScanInv
<1>4. QED
  BY <1>1, <1>2, <1>3 DEF ScanInv, Next, Steps

\* ScanInv holds of every reachable state.
THEOREM Invariant == Spec => []ScanInv
<1>1. QED
  BY InitInv, StepInv, PTL DEF Spec

\* The types of the collector's state hold, last_seen_at never ahead of the clock.
THEOREM TypeCorrect == Spec => []TypeOK
<1>1. ScanInv => TypeOK
  BY DEF ScanInv
<1>2. QED
  BY <1>1, Invariant, PTL

\* A resource is marked as gone only while the two latest successful scans of its
\* scope did not see it: what retire_stale_resources decides inside a transaction
\* is still so when another session's transactions committed around it.
THEOREM RetirementProven == Spec => []RetiredHasProof
<1>1. ScanInv => RetiredHasProof
  BY DEF ScanInv
<1>2. QED
  BY <1>1, Invariant, PTL

-----------------------------------------------------------------------------
(* A report without errors.                                                *)

\* A run of w's transaction that proves the scan of its region i and type k.
Proves(x, w, i, k) ==
  /\ x.scope = <<target[w].regions[i], target[w].types[k]>>
  /\ x.start = start[w] /\ x.status = "success"

\* As long as nothing failed, everything behind the loops' place is scanned; without
\* an error the loops end only at the end of the regions.
BehindIsScanned ==
  \A w \in Sessions :
    ~ errors[w] =>
      /\ \A i \in DOMAIN target[w].regions, k \in DOMAIN target[w].types :
           i < at[w].region \/ (i = at[w].region /\ k < at[w].type) =>
             \E x \in tx[w].runs : Proves(x, w, i, k)
      /\ pc[w] = "commit" => ~ MoreRegions(w)

\* A session at the start of its loops has nothing behind it.
NoneBehindFirst ==
  \A w \in Sessions : target[w] \in Targets /\ at[w] = First =>
    \A i \in DOMAIN target[w].regions, k \in DOMAIN target[w].types :
      ~ (i < at[w].region \/ (i = at[w].region /\ k < at[w].type))

LEMMA NothingBehind == NoneBehindFirst
<1>1. SUFFICES ASSUME NEW w \in Sessions, target[w] \in Targets, at[w] = First,
                      NEW i \in DOMAIN target[w].regions, NEW k \in DOMAIN target[w].types
               PROVE  ~ (i < at[w].region \/ (i = at[w].region /\ k < at[w].type))
  BY DEF NoneBehindFirst
<1>2. target[w].regions \in Seq(Regions) /\ target[w].types \in Seq(Types)
  BY <1>1, Bounds
<1>3. i \in Nat \ {0} /\ k \in Nat \ {0}
  BY <1>1, <1>2
<1>4. QED
  BY <1>1, <1>3, Bounds

\* A session that neither moves nor writes a run has the same behind it.
LEMMA SameBehind ==
  ASSUME BehindIsScanned, NEW v \in Sessions, ~ errors[v], tx'[v].runs = tx[v].runs,
         start'[v] = start[v], target'[v] = target[v], at'[v] = at[v],
         pc'[v] = "commit" => ~ MoreRegions(v)
  PROVE  /\ \A i \in DOMAIN target'[v].regions, k \in DOMAIN target'[v].types :
              i < at'[v].region \/ (i = at'[v].region /\ k < at'[v].type) =>
                \E x \in tx'[v].runs : Proves(x, v, i, k)'
         /\ pc'[v] = "commit" => ~ MoreRegions(v)'
<1>1. ASSUME NEW i \in DOMAIN target[v].regions, NEW k \in DOMAIN target[v].types,
             i < at[v].region \/ (i = at[v].region /\ k < at[v].type)
      PROVE  \E x \in tx'[v].runs : Proves(x, v, i, k)'
  <2>1. PICK x \in tx[v].runs : Proves(x, v, i, k)
    BY <1>1 DEF BehindIsScanned
  <2>2. Proves(x, v, i, k)'
    BY <2>1 DEF Proves
  <2>3. QED
    BY <2>1, <2>2
<1>2. MoreRegions(v)' = MoreRegions(v)
  BY DEF MoreRegions
<1>3. QED
  BY <1>1, <1>2

\* One more type, or one more region, is behind it after a step of the loops.
LEMMA AdvanceBehind ==
  ASSUME TypeOK, InLoops, NEW w \in Sessions, Advance(w, FALSE),
         NEW i \in DOMAIN target[w].regions, NEW k \in DOMAIN target[w].types,
         i < at'[w].region \/ (i = at'[w].region /\ k < at'[w].type)
  PROVE  \/ i < at[w].region \/ (i = at[w].region /\ k < at[w].type)
         \/ i = at[w].region /\ k = at[w].type
<1>1. /\ target[w].regions \in Seq(Regions) /\ target[w].types \in Seq(Types)
      /\ at \in [Sessions -> [region : Nat, type : Nat]]
  BY Bounds DEF TypeOK
<1>2. /\ i \in Nat /\ k \in 1..Len(target[w].types)
      /\ at[w].region \in Nat /\ at[w].type \in 1..Len(target[w].types)
  BY <1>1 DEF InLoops
<1>3. CASE at[w].type < Len(target[w].types)
  <2>1. at'[w].region = at[w].region /\ at'[w].type = at[w].type + 1
    BY <1>1, <1>3 DEF Advance
  <2>2. QED
    BY <1>2, <2>1
<1>4. CASE ~ (at[w].type < Len(target[w].types))
  <2>1. at'[w].region = at[w].region + 1 /\ at'[w].type = 1
    BY <1>1, <1>4 DEF Advance
  <2>2. Len(target[w].types) \in Nat
    BY <1>1
  <2>3. QED
    BY <1>2, <1>4, <2>1, <2>2
<1>5. QED
  BY <1>3, <1>4

\* A successful scan puts its run behind the place it leaves.
LEMMA CompletesBehind ==
  ASSUME TypeOK, InLoops, BehindIsScanned, NEW w \in Sessions, ScanCompletes(w)
  PROVE  ~ errors'[w] =>
           /\ \A i \in DOMAIN target'[w].regions, k \in DOMAIN target'[w].types :
                i < at'[w].region \/ (i = at'[w].region /\ k < at'[w].type) =>
                  \E x \in tx'[w].runs : Proves(x, w, i, k)'
           /\ pc'[w] = "commit" => ~ MoreRegions(w)'
<1>1. Advance(w, FALSE)
  BY DEF ScanCompletes
<1>2. /\ errors'[w] = errors[w] /\ pc'[w] = "next"
      /\ target' = target /\ start' = start
  BY <1>1 DEF Advance, TypeOK
<1>3. tx'[w].runs = tx[w].runs \cup {Finished(w, "success")}
  BY DEF ScanCompletes, TypeOK, Tx
<1>4. SUFFICES ASSUME ~ errors[w],
                      NEW i \in DOMAIN target[w].regions, NEW k \in DOMAIN target[w].types,
                      i < at'[w].region \/ (i = at'[w].region /\ k < at'[w].type)
               PROVE  \E x \in tx'[w].runs : Proves(x, w, i, k)
  BY <1>2 DEF Proves
<1>5. CASE i < at[w].region \/ (i = at[w].region /\ k < at[w].type)
  BY <1>3, <1>4, <1>5 DEF BehindIsScanned
<1>6. CASE i = at[w].region /\ k = at[w].type
  <2>1. Proves(Finished(w, "success"), w, i, k)
    BY <1>6 DEF Proves, Finished, Scope
  <2>2. QED
    BY <1>3, <2>1
<1>7. QED
  BY <1>1, <1>4, <1>5, <1>6, AdvanceBehind

LEMMA StepBehind ==
  ASSUME ScanInv, BehindIsScanned, [Next]_vars
  PROVE  BehindIsScanned'
<1> USE DEF ScanInv
<1>1. CASE UNCHANGED vars
  BY <1>1 DEF BehindIsScanned, Proves, MoreRegions, vars, progress
<1>2. ASSUME NEW w \in Sessions, Steps(w)  PROVE BehindIsScanned'
  <2>1. SUFFICES ASSUME NEW v \in Sessions, ~ errors'[v]
                 PROVE  /\ \A i \in DOMAIN target'[v].regions,
                              k \in DOMAIN target'[v].types :
                             i < at'[v].region \/ (i = at'[v].region /\ k < at'[v].type) =>
                               \E x \in tx'[v].runs : Proves(x, v, i, k)'
                        /\ pc'[v] = "commit" => ~ MoreRegions(v)'
    BY DEF BehindIsScanned
  <2>2. CASE v # w
    <3>1. /\ tx'[v] = tx[v] /\ pc'[v] = pc[v] /\ start'[v] = start[v]
          /\ target'[v] = target[v] /\ at'[v] = at[v]
      BY <1>2, <2>1, <2>2, Writes
    <3>2. errors'[v] = errors[v]
      BY <1>2, <2>1, <2>2
         DEF Steps, SessionStep, Begin, Dies, End, FindAccount, InsertAccount, AccountTaken,
             SkipRegions, LoopEnds, StartRun, See, ScanCompletes, ScanFails, Advance, Commit,
             EndDryRun, DeadlockVictim, TypeOK, progress
    <3>3. pc'[v] = "commit" => ~ MoreRegions(v)
      BY <2>1, <3>1, <3>2 DEF BehindIsScanned
    <3>4. QED
      BY <2>1, <3>1, <3>2, <3>3, SameBehind
  <2>3. CASE v = w
    <3>1. ASSUME at'[w] = First, pc'[w] # "commit"
          PROVE  /\ \A i \in DOMAIN target'[w].regions, k \in DOMAIN target'[w].types :
                      i < at'[w].region \/ (i = at'[w].region /\ k < at'[w].type) =>
                        \E x \in tx'[w].runs : Proves(x, w, i, k)'
                 /\ pc'[w] = "commit" => ~ MoreRegions(w)'
      <4>1. TypeOK'
        BY <1>2, StepTypes DEF Next, Steps
      <4>2. target'[w] \in Targets
        BY <4>1 DEF TypeOK
      <4>3. NoneBehindFirst'
        BY NothingBehind, PTL
      <4>4. QED
        BY <3>1, <4>2, <4>3 DEF NoneBehindFirst
    <3>2. CASE \E t \in Targets : Begin(w, t)
      BY <2>3, <3>1, <3>2 DEF Begin, InLoops, TypeOK
    <3>3. CASE End(w)
      BY <2>3, <3>1, <3>3 DEF End, TypeOK
    <3>4. CASE FindAccount(w) \/ LoopEnds(w)
      <4>1. /\ UNCHANGED <<start, target, at, errors, tx>>
            /\ pc'[w] = "commit" => ~ MoreRegions(w)
        BY <3>4 DEF FindAccount, LoopEnds, progress, TypeOK
      <4>2. QED
        BY <2>1, <2>3, <4>1, SameBehind
    <3>5. CASE InsertAccount(w) \/ StartRun(w) \/ \E r \in Resources : See(w, r)
      <4>1. tx'[w].runs = tx[w].runs
        <5>1. tx \in [Sessions -> Tx]
          BY DEF TypeOK
        <5>2. CASE InsertAccount(w)
          BY <5>1, <5>2 DEF InsertAccount, Tx
        <5>3. CASE StartRun(w)
          BY <5>1, <5>3 DEF StartRun, Tx
        <5>4. ASSUME NEW r \in Resources, See(w, r)  PROVE tx'[w].runs = tx[w].runs
          BY <5>1, <5>4 DEF See, Tx
        <5>5. QED
          BY <3>5, <5>2, <5>3, <5>4
      <4>2. pc'[w] # "commit"
        BY <3>5 DEF InsertAccount, StartRun, See, TypeOK
      <4>3. UNCHANGED <<start, target, at, errors>>
        BY <3>5 DEF InsertAccount, StartRun, See, progress
      <4>4. QED
        BY <2>1, <2>3, <4>1, <4>2, <4>3, SameBehind
    <3>6. CASE SkipRegions(w) \/ ScanFails(w)
      BY <2>1, <2>3, <3>6 DEF SkipRegions, ScanFails, Advance, TypeOK
    <3>7. CASE ScanCompletes(w)
      BY <2>1, <2>3, <3>7, CompletesBehind
    <3>8. QED
      BY <1>2, <2>3, <3>2, <3>3, <3>4, <3>5, <3>6, <3>7
         DEF Steps, SessionStep, Dies, AccountTaken, Commit, EndDryRun, DeadlockVictim
  <2>4. QED
    BY <2>2, <2>3
<1>3. QED
  BY <1>1, <1>2 DEF Next, Steps

LEMMA InitBehind == Init => BehindIsScanned
<1> SUFFICES ASSUME Init  PROVE BehindIsScanned
  OBVIOUS
<1>1. ASSUME NEW w \in Sessions
      PROVE  at[w] = First /\ pc[w] = "idle" /\ target[w] \in Targets
  BY Bounds DEF Init
<1>2. QED
  BY <1>1, NothingBehind DEF BehindIsScanned, NoneBehindFirst

\* A report without errors means that every scope of the target has a committed
\* successful scan of this very transaction, whatever failed, waited or was rolled back
\* before (collectors/aws.py:534-656).
THEOREM CleanReports == Spec => CleanReportMeansScanned
<1>1. ScanInv /\ BehindIsScanned /\ [Next]_vars => (ScanInv /\ BehindIsScanned)'
  BY StepInv, StepBehind
<1>2. ASSUME ScanInv, BehindIsScanned
      PROVE  \A w \in Sessions : Commit(w) /\ ~ errors[w] =>
               \A i \in DOMAIN target[w].regions, k \in DOMAIN target[w].types :
                 \E x \in runs' : /\ x.scope = <<target[w].regions[i], target[w].types[k]>>
                                  /\ x.start = start[w] /\ x.status = "success"
  <2>1. SUFFICES ASSUME NEW w \in Sessions, Commit(w), ~ errors[w],
                        NEW i \in DOMAIN target[w].regions, NEW k \in DOMAIN target[w].types
                 PROVE  \E x \in runs' : Proves(x, w, i, k)
    BY DEF Proves
  <2>2. pc[w] = "commit" /\ runs' = runs \cup tx[w].runs
    BY <2>1 DEF Commit
  <2>3. i < at[w].region
    <3>1. ~ (at[w].region <= Len(target[w].regions))
      BY <1>2, <2>1, <2>2 DEF BehindIsScanned, MoreRegions
    <3>2. target[w].regions \in Seq(Regions) /\ at[w].region \in Nat
      BY <1>2, Bounds DEF ScanInv, TypeOK
    <3>3. QED
      BY <2>1, <3>1, <3>2
  <2>4. PICK x \in tx[w].runs : Proves(x, w, i, k)
    BY <1>2, <2>1, <2>3 DEF BehindIsScanned
  <2>5. QED
    BY <2>2, <2>4
<1>3. QED
  BY InitInv, InitBehind, <1>1, <1>2, PTL DEF Spec, CleanReportMeansScanned
=============================================================================
