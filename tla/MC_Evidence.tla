---------------------------- MODULE MC_Evidence ----------------------------
(***************************************************************************)
(* Evidence on two kinds of account: one database, on the days where its   *)
(* verdict turns, and a volume with a snapshot and an instance.            *)
(***************************************************************************)
EXTENDS Evidence, TLC

Gone == [state |-> "gone"]
World(d, v, s, i) == ("db" :> d) @@ ("vol" :> v) @@ ("snap" :> s) @@ ("inst" :> i)
Db(engine, version, class) ==
  [state |-> "live", engine |-> engine, version |-> version, class |-> class]
MCDbs ==
  {Db("mysql", <<8, 0, 35>>, <<"m5", "large">>), Db("mysql", <<8, 0, 35>>, <<"m9", "large">>),
   Db("postgres", <<11, 22>>, <<"t3", "micro">>),
   Db("aurora-mysql", <<5, 7, AuroraTag, 2, 11>>, <<"r6g", "2xlarge">>),
   Db("aurora-postgresql", <<11, 9>>, <<"r5", "large">>),
   Db("oracle-ee", <<19>>, <<"m5", "large">>)}
MCVersions == {<<8, 4, 1>>, <<NotDigits>>}

\* The day before each turn and the day of it.
Turns(info) ==
  {info.eol - AlertWindowDays, info.eol, info.year3, info.end + 1} \ {Never}
DaysOf(db) ==
  IF db.engine = "oracle-ee" THEN {Date(2026, 7, 19)}
  ELSE LET major == CHOOSE m \in ParseMajor(db.engine, db.version) : TRUE
           rule == CHOOSE r \in EOL_RULES : db.engine \in DOMAIN CONFIG[r]
       IN UNION {{t - 1, t} : t \in Turns(CONFIG[rule][db.engine][major])}

Volume(type, size) == [state |-> "live", type |-> type, size |-> size]
MCVolumes == {Volume("gp2", 8000), Volume("io3", 100)}
Snapshot(description, tier) ==
  [state |-> "completed", description |-> description, tier |-> tier, volume |-> "vol",
   size |-> 100]
MCSnapshots == {Snapshot("ami", ""), Snapshot("", "standard"), Snapshot("text", "cold")}

\* A small volume and a plain snapshot, or one of them not.
Pairs ==
  {<<Volume("gp2", 20), s>> : s \in MCSnapshots}
    \cup {<<v, Snapshot("text", "standard")>> : v \in MCVolumes \cup {Volume("gp2", 20)}}

\* A snapshot that is there, or an instance that is and has the volume.
Starts(pair) ==
  {World(Gone, pair[1], pair[2], [state |-> "none", volumes |-> {}]),
   World(Gone, pair[1], [pair[2] EXCEPT !.state = "none"],
         [state |-> "stopped", volumes |-> {"vol"}]),
   World(Gone, [pair[1] EXCEPT !.state = "none"], [pair[2] EXCEPT !.state = "none"],
         [state |-> "running", volumes |-> {}])}

MCFleets ==
  {[world |-> World(d, Gone, Gone @@ [volume |-> "vol"], Gone @@ [volumes |-> {}]),
    targets |-> {<<"rds">>}, days |-> DaysOf(d)] : d \in MCDbs}
  \cup
  {[world |-> w, days |-> {1, 3},
    targets |-> {<<"ec2_volume", "ec2_snapshot", "ec2_instance">>, <<"ec2_snapshot">>}] :
     w \in UNION {Starts(p) : p \in Pairs}}
=============================================================================
