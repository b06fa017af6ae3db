------------------------------- MODULE Catalog -------------------------------
(***************************************************************************)
(* The reference data the rules price and date with (constat_core.catalog, *)
(* aws.py and ebs.py).  A date is its proleptic Gregorian day number,      *)
(* money is whole: rates of Extended Support in tenths of a cent per vCPU  *)
(* and hour, storage in thousandths of a cent per GB and month.            *)
(***************************************************************************)
EXTENDS Integers

\* date.toordinal of Python.
Date(y, m, d) ==
  LET leap == y % 4 = 0 /\ (y % 100 # 0 \/ y % 400 = 0)
      before == <<0, 31, 59, 90, 120, 151, 181, 212, 243, 273, 304, 334>>
  IN 365 * (y - 1) + (y - 1) \div 4 - (y - 1) \div 100 + (y - 1) \div 400
       + before[m] + (IF m > 2 /\ leap THEN 1 ELSE 0) + d

-----------------------------------------------------------------------------
(* End of standard support, end of Extended Support, start of year 3.      *)

\* year_3_start of an engine without a third-year price.
Never == Date(9999, 12, 31)
Eol(eol, end, year3) == [eol |-> eol, end |-> end, year3 |-> year3]

\* Standalone PostgreSQL has no published date: two times 365 days after its EOL.
ExtendedSupportYear3(eol) == eol + 730
PostgresEnds ==
  [m \in 11..15 |->
     CASE m = 11 -> <<Date(2024, 2, 29), Date(2027, 3, 31), Date(2026, 4, 1)>>
       [] m = 12 -> <<Date(2025, 2, 28), Date(2028, 2, 29), Date(2027, 3, 1)>>
       [] m = 13 -> <<Date(2026, 2, 28), Date(2029, 2, 28), Date(2028, 3, 1)>>
       [] m = 14 -> <<Date(2027, 2, 28), Date(2030, 2, 28), Date(2029, 3, 1)>>
       [] OTHER  -> <<Date(2028, 2, 29), Date(2031, 2, 28), Date(2030, 3, 1)>>]
POSTGRES_EOL ==
  [m \in 11..15 |->
     LET d == PostgresEnds[m] IN Eol(d[1], d[2], ExtendedSupportYear3(d[1]))]
AURORA_POSTGRES_EOL ==
  [m \in 11..15 |-> LET d == PostgresEnds[m] IN Eol(d[1], d[2], d[3])]
MYSQL_EOL ==
  [m \in {<<5, 7>>, <<8, 0>>} |->
     IF m = <<5, 7>> THEN Eol(Date(2024, 2, 29), Date(2029, 6, 30), Date(2026, 3, 1))
                     ELSE Eol(Date(2026, 7, 31), Date(2029, 7, 31), Date(2028, 8, 1))]
AURORA_MYSQL_EOL ==
  [m \in {2, 3} |->
     IF m = 2 THEN Eol(Date(2024, 10, 31), Date(2029, 6, 30), Never)
              ELSE Eol(Date(2028, 4, 30), Date(2029, 7, 31), Never)]

\* extended_support_tier and engine_extended_support_tier.
Tier(info, today) == IF today >= info.year3 THEN "year_3_plus" ELSE "year_1_2"

-----------------------------------------------------------------------------
(* Prices, by region; a region without a grid is priced on the default's.  *)

DefaultRegion == "us-east-1"
ES_PRICE_BY_REGION ==
  [r \in {"us-east-1", "eu-west-1", "eu-west-3"} |->
     CASE r = "us-east-1" -> [year_1_2 |-> 100, year_3_plus |-> 200]
       [] r = "eu-west-1" -> [year_1_2 |-> 112, year_3_plus |-> 224]
       [] OTHER           -> [year_1_2 |-> 118, year_3_plus |-> 235]]
EBS_PRICING_BY_REGION ==
  [r \in {"us-east-1", "eu-west-1", "eu-west-3"} |->
     CASE r = "us-east-1" ->
            [gp2 |-> 10000, gp3 |-> 8000, io1 |-> 12500, io2 |-> 12500,
             st1 |-> 4500, sc1 |-> 1500, standard |-> 5000]
       [] r = "eu-west-1" ->
            [gp2 |-> 11000, gp3 |-> 8800, io1 |-> 13800, io2 |-> 13800,
             st1 |-> 5000, sc1 |-> 1680, standard |-> 5500]
       [] OTHER ->
            [gp2 |-> 11600, gp3 |-> 9280, io1 |-> 14500, io2 |-> 14500,
             st1 |-> 5300, sc1 |-> 1740, standard |-> 5800]]
EBS_SNAPSHOT_PRICING_BY_REGION ==
  [r \in {"us-east-1", "eu-west-1", "eu-west-3"} |->
     IF r = "eu-west-3" THEN [standard |-> 5300, archive |-> 1325]
                        ELSE [standard |-> 5000, archive |-> 1250]]

\* The region whose grid prices a type: the resource's own when it has the type.
PricingRegion(grid, type, region) ==
  IF region \in DOMAIN grid /\ type \in DOMAIN grid[region] THEN region ELSE DefaultRegion

\* ebs_price_per_gb_month, ebs_snapshot_price_per_gb_month; None is no price.
Catalogued(grid, type, region) ==
  type \in DOMAIN grid[PricingRegion(grid, type, region)]
Price(grid, type, region) == grid[PricingRegion(grid, type, region)][type]

\* es_price_per_vcpu_hour.
EsPrice(tier, region) == Price(ES_PRICE_BY_REGION, tier, region)

\* price_region_exact.
PriceRegionExact(grid, type, region) == PricingRegion(grid, type, region) = region

\* A monthly amount in cents, rounded.
MonthlyCents(price, size) == (price * size + 500) \div 1000

-----------------------------------------------------------------------------
(* vCPUs of an RDS instance class <<family, size>>.                        *)

SizesOfT == {"micro", "small", "medium", "large", "xlarge", "2xlarge"}
SizesOfMR == {"large", "xlarge", "2xlarge", "4xlarge", "8xlarge", "12xlarge",
              "16xlarge", "24xlarge"}
RDS_INSTANCE_CLASSES ==
  ({"t3", "t4g"} \X SizesOfT)
    \cup ({"m5", "m6i", "m6g", "m7g", "r5", "r6i", "r6g", "r7g"} \X SizesOfMR)

\* vcpu_for_instance_class, of a class the catalog has.
VcpuForInstanceClass(class) ==
  CASE class[2] = "xlarge"   -> 4
    [] class[2] = "2xlarge"  -> 8
    [] class[2] = "4xlarge"  -> 16
    [] class[2] = "8xlarge"  -> 32
    [] class[2] = "12xlarge" -> 48
    [] class[2] = "16xlarge" -> 64
    [] class[2] = "24xlarge" -> 96
    [] OTHER -> 2
=============================================================================
