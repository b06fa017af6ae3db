\* Two passes over a database on the days its verdict turns, with replays, or over a
\* volume, its snapshot and an instance, with jobs that fail and an account that changes.
SPECIFICATION Spec
CONSTANTS
  Dbs = {"db"}
  Volumes = {"vol"}
  Snapshots = {"snap"}
  Instances = {"inst"}
  Versions <- MCVersions
  Region = "eu-west-1"
  Fleets <- MCFleets
  MaxPasses = 2
  MaxMoves = 2
INVARIANTS TypeOK QuietScanTellsTruth OrphanWasMissed FactsFromNewest
PROPERTIES EscalatesOnly
CHECK_DEADLOCK FALSE
