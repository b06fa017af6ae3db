-------------------------------- MODULE Rules --------------------------------
(***************************************************************************)
(* The seven resource rules as pure functions of a resource's facts: the   *)
(* Extended Support rules (constat_core/insights/eol.py with the matchers  *)
(* of rds_eol, mysql_eol and aurora_eol) and the storage rules             *)
(* (constat_core/insights/storage.py with ebs_gp2_to_gp3, ebs_unattached,  *)
(* snapshot_orphan, and ec2_stopped_with_storage).                         *)
(*                                                                         *)
(* The facts of a resource are a function whose domain is the keys that    *)
(* are KNOWN.  An engine version is the sequence of its dotted parts.      *)
(***************************************************************************)
EXTENDS Catalog, Sequences, FiniteSets

NotDigits == -1   \* a part of a version that is no number
AuroraTag == -2   \* the part "mysql_aurora"

\* What a rule says of a resource: insights and inconclusive_reasons.
NoMatch ==
  [kind |-> "no_match", reasons |-> {}, severity |-> "none", cents |-> 0, exact |-> TRUE]
Inconclusive(reasons) == [NoMatch EXCEPT !.kind = "inconclusive", !.reasons = reasons]
Match(severity, cents, exact) ==
  [NoMatch EXCEPT !.kind = "match", !.severity = severity, !.cents = cents, !.exact = exact]

Rank(severity) ==
  CASE severity = "none" -> 0 [] severity = "INFO" -> 1
    [] severity = "WARNING" -> 2 [] OTHER -> 3

-----------------------------------------------------------------------------
(* Extended Support.                                                       *)

AlertWindowDays == 90

\* The matchers of the rules: engines, each with the table of its majors.
POSTGRES_MATCHER == [postgres |-> POSTGRES_EOL]
MYSQL_MATCHER == [mysql |-> MYSQL_EOL]
AURORA_MATCHERS ==
  [engine \in {"aurora-mysql", "aurora-postgresql"} |->
     IF engine = "aurora-mysql" THEN AURORA_MYSQL_EOL ELSE AURORA_POSTGRES_EOL]
CONFIG ==
  [rds_eol |-> POSTGRES_MATCHER, mysql_eol |-> MYSQL_MATCHER, aurora_eol |-> AURORA_MATCHERS]

Digits(v, n) == Len(v) >= n /\ \A k \in 1..n : v[k] >= 0
AfterAuroraTag(v) ==
  LET tags == {k \in DOMAIN v : v[k] = AuroraTag} IN
  IF tags = {} THEN v
  ELSE SubSeq(v, (CHOOSE k \in tags : \A j \in tags : k <= j) + 1, Len(v))

\* parse_major of the engine's matcher: the major, or nothing.
ParseMajor(engine, version) ==
  LET v == IF engine = "aurora-mysql" THEN AfterAuroraTag(version) ELSE version IN
  CASE engine = "mysql" -> IF Digits(v, 2) THEN {<<v[1], v[2]>>} ELSE {}
    [] OTHER -> IF Digits(v, 1) THEN {v[1]} ELSE {}

\* Variant with a fault: what is past the end of Extended Support is out of the table.
SeverityWithinSupport(info, today) ==
  IF today > info.end \/ info.eol - today > AlertWindowDays THEN "none"
  ELSE IF info.eol - today <= 0 THEN "CRITICAL" ELSE "WARNING"

\* The branches in their order: forced upgrade, beyond the alert window, in
\* Extended Support, within the window.
EolSeverity(info, today) ==
  IF today > info.end THEN "CRITICAL"
  ELSE IF info.eol - today > AlertWindowDays THEN "none"
  ELSE IF info.eol - today <= 0 THEN "CRITICAL"
  ELSE "WARNING"

\* _make_insight: vCPUs x rate of the tier x 730 hours.
EolCents(info, vcpu, region, today) == vcpu * EsPrice(Tier(info, today), region) * 73

EolVerdict(info, vcpu, region, today) ==
  IF EolSeverity(info, today) = "none" THEN NoMatch
  ELSE Match(EolSeverity(info, today), EolCents(info, vcpu, region, today),
             region \in DOMAIN ES_PRICE_BY_REGION)

EolKeys == {"engine", "engine_version", "vcpu", "region"}

\* evaluate_eol.  An engine the rule knows not to be its own ends it before the
\* other gates.
EvaluateEol(rule, facts, today) ==
  LET engine == facts["engine"]
      majors == ParseMajor(engine, facts["engine_version"])
      table == CONFIG[rule][engine]
      infos == {table[m] : m \in majors \cap DOMAIN table}
  IN
  IF "engine" \in DOMAIN facts /\ engine \notin DOMAIN CONFIG[rule] THEN NoMatch
  ELSE IF ~ (EolKeys \subseteq DOMAIN facts) THEN Inconclusive(EolKeys \ DOMAIN facts)
  ELSE IF majors = {} THEN Inconclusive({"engine_version.malformed"})
  ELSE IF infos = {} THEN NoMatch
  ELSE EolVerdict(CHOOSE i \in infos : TRUE, facts["vcpu"], facts["region"], today)

-----------------------------------------------------------------------------
(* Storage.                                                                *)

\* From $50 and from $500 a month.
StorageSeverity(cents) ==
  IF cents >= 50000 THEN "CRITICAL" ELSE IF cents >= 5000 THEN "WARNING" ELSE "INFO"

\* evaluate_storage, once should_emit is TRUE: a price, or what is missing for one.
Priced(grid, type, missing, facts) ==
  LET region == facts["region"]
      cents == MonthlyCents(Price(grid, type, region), facts["size_gb"])
  IN IF ~ Catalogued(grid, type, region) THEN Inconclusive({missing})
     ELSE Match(StorageSeverity(cents), cents, PriceRegionExact(grid, type, region))

VolumeKeys == {"state", "size_gb", "volume_type", "region"}
EbsUnattached(facts) ==
  IF ~ (VolumeKeys \subseteq DOMAIN facts) THEN Inconclusive(VolumeKeys \ DOMAIN facts)
  ELSE IF facts["state"] # "available" THEN NoMatch
  ELSE Priced(EBS_PRICING_BY_REGION, facts["volume_type"], "volume_type_price_missing", facts)

\* Savings of less than $0.50 a month are noise.
MinSavingsCents == 50
Gp2Keys == {"volume_type", "size_gb", "region"}
Gp2Savings(facts) ==
  LET cost(type) ==
        MonthlyCents(Price(EBS_PRICING_BY_REGION, type, facts["region"]), facts["size_gb"])
  IN cost("gp2") - cost("gp3")
EbsGp2ToGp3(facts) ==
  IF ~ (Gp2Keys \subseteq DOMAIN facts) THEN Inconclusive(Gp2Keys \ DOMAIN facts)
  ELSE IF facts["volume_type"] # "gp2" \/ Gp2Savings(facts) < MinSavingsCents THEN NoMatch
  ELSE Match(StorageSeverity(Gp2Savings(facts)), Gp2Savings(facts),
             \A t \in {"gp2", "gp3"} :
               PriceRegionExact(EBS_PRICING_BY_REGION, t, facts["region"]))

\* The description is "ami" when it names an AMI.
SnapshotKeys == {"state", "size_gb", "volume_exists", "description", "region"}
StorageTier(facts) ==
  IF "storage_tier" \in DOMAIN facts THEN facts["storage_tier"] ELSE "standard"
SnapshotOrphan(facts) ==
  IF ~ (SnapshotKeys \subseteq DOMAIN facts) THEN Inconclusive(SnapshotKeys \ DOMAIN facts)
  ELSE IF \/ facts["state"] # "completed"
          \/ facts["volume_exists"]
          \/ facts["description"] = "ami" THEN NoMatch
  ELSE Priced(EBS_SNAPSHOT_PRICING_BY_REGION, StorageTier(facts),
              "snapshot_tier_price_missing", facts)

\* The volumes of a stopped instance are a set of [id, type, size]; those without a
\* price are left out of the sum.
PricedVolumes(facts) ==
  {v \in facts["attached_volumes"] :
     Catalogued(EBS_PRICING_BY_REGION, v.type, facts["region"])}
AttachedCents(facts) ==
  LET cents(v) ==
        MonthlyCents(Price(EBS_PRICING_BY_REGION, v.type, facts["region"]), v.size)
      total[S \in SUBSET PricedVolumes(facts)] ==
        IF S = {} THEN 0
        ELSE LET v == CHOOSE x \in S : TRUE IN cents(v) + total[S \ {v}]
  IN total[PricedVolumes(facts)]
Ec2StoppedWithStorage(facts) ==
  IF "state" \notin DOMAIN facts THEN Inconclusive({"state"})
  ELSE IF facts["state"] # "stopped" THEN NoMatch
  ELSE IF "region" \notin DOMAIN facts THEN Inconclusive({"region"})
  ELSE IF "attached_volumes" \notin DOMAIN facts THEN Inconclusive({"attached_volumes"})
  ELSE IF facts["attached_volumes"] = {} THEN NoMatch
  ELSE Match(StorageSeverity(AttachedCents(facts)), AttachedCents(facts),
             \A v \in PricedVolumes(facts) :
               PriceRegionExact(EBS_PRICING_BY_REGION, v.type, facts["region"]))

-----------------------------------------------------------------------------
(* The registry of the runner.                                             *)

EOL_RULES == DOMAIN CONFIG
RESOURCE_RULES ==
  EOL_RULES \cup {"ebs_gp2_to_gp3", "ebs_unattached", "snapshot_orphan",
                  "ec2_stopped_with_storage"}
RULE_SOURCES ==
  [rule \in RESOURCE_RULES |-> IF rule \in EOL_RULES THEN "aws_rds" ELSE "aws_ec2"]
EvaluateFn(rule, facts, today) ==
  CASE rule \in EOL_RULES -> EvaluateEol(rule, facts, today)
    [] rule = "ebs_gp2_to_gp3" -> EbsGp2ToGp3(facts)
    [] rule = "ebs_unattached" -> EbsUnattached(facts)
    [] rule = "snapshot_orphan" -> SnapshotOrphan(facts)
    [] OTHER -> Ec2StoppedWithStorage(facts)
=============================================================================
