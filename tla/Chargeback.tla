----------------------------- MODULE Chargeback -----------------------------
(***************************************************************************)
(* From a FOCUS export to the cost of a tag: the ingest (constat_focus     *)
(* loader and aggregator, repositories/focus_charges.py, cli/focus.py) and *)
(* the chargeback run (insights/runner.py, constat_chargeback), as         *)
(* transactions that overlap on Postgres under READ COMMITTED.             *)
(*                                                                         *)
(* Nothing in the schema keeps two charges of one bucket apart.  An amount *)
(* stands for the billed and for the amortized cost of a row, which take   *)
(* the same way.  What a run does to acks and to the event log, and what   *)
(* two runs do to each other, is in InsightRun: there is one at a time     *)
(* here.                                                                   *)
(***************************************************************************)
EXTENDS Integers, FiniteSets, SequencesExt

CONSTANTS
  Sessions,     \* sessions that ingest
  Exports,      \* the exports of the account: their rows, in order
  Canonical,    \* the service catalog: native names to canonical ones
  TagKeys,      \* tag keys runs are asked for
  NotADecimal,  \* the text of an amount that does not parse
  MaxIngests, MaxRuns   \* bounds on the ingests and the runs that begin

\* A row has the columns that are read here; an amount is an integer (a refund's is
\* negative) or does not parse.
ASSUME ExportsAssumption ==
  \A e \in Exports :
    /\ e \in Seq(ToSet(e))
    /\ \A r \in ToSet(e) :
         /\ DOMAIN r = {"service", "period", "currency", "cost", "tags"}
         /\ r.cost \in Int \cup {NotADecimal}
         /\ IsFiniteSet(DOMAIN r.tags)
ASSUME NotADecimalAssumption == NotADecimal \notin Int
ASSUME BoundsAssumption == MaxIngests \in Nat /\ MaxRuns \in Nat

VARIABLES
  charges,    \* focus_charges, committed: id -> charge
  tagRows,    \* focus_charge_tags, committed
  insights,   \* the chargeback rows of insights, committed
  names,      \* the service that each of these displays, by its group
  ingest,     \* per session: the ingest under way
  ingests,    \* how many began; also the sequence of the ids
  run,        \* the run under way
  runs,       \* how many began
  newest,     \* history: per bucket, the rows of the export committed last
  raced,      \* history: buckets another session committed during that ingest
  done        \* history: the tag key of the run committed last, if nothing was ingested
              \* since it began

stored == <<charges, tagRows>>
history == <<newest, raced, done>>
vars == <<stored, insights, names, ingest, ingests, run, runs, history>>

-----------------------------------------------------------------------------
(* Loader and aggregator.                                                  *)

FOCUS_VALID_CURRENCIES ==
  {"USD", "EUR", "GBP", "JPY", "AUD", "CAD", "CHF", "CNY", "INR", "BRL", "SGD", "NZD"}

\* The rows whose numbers are in S, in their order.
SelectRows(rows, S) ==
  [i \in 1..Cardinality(S) |-> rows[CHOOSE k \in S : Cardinality({j \in S : j <= k}) = i]]

\* _row_to_charge: a row without a known currency raises, an amount that does not
\* parse is 0.
Raises(r) == r.currency \notin FOCUS_VALID_CURRENCIES
Parsed(r) == [r EXCEPT !.cost = IF @ = NotADecimal THEN 0 ELSE @]

\* Variant with a fault: no row is skipped.
LoadAll(rows) == [k \in DOMAIN rows |-> Parsed(rows[k])]

\* load_focus: a row that raises is skipped.
Load(rows) ==
  LET valid == SelectRows(rows, {k \in DOMAIN rows : ~ Raises(rows[k])})
  IN [k \in DOMAIN valid |-> Parsed(valid[k])]

\* service_canonical or service.
ServiceOf(r) == IF r.service \in DOMAIN Canonical THEN Canonical[r.service] ELSE r.service

\* aggregate_for_storage: the buckets in the order of their first rows.
BucketOf(r) == [service |-> ServiceOf(r), period |-> r.period]
RowsOf(rows, b) == SelectRows(rows, {k \in DOMAIN rows : BucketOf(rows[k]) = b})
Buckets(rows) ==
  LET first == SelectRows(rows, {k \in DOMAIN rows :
                 \A j \in 1..(k - 1) : BucketOf(rows[j]) # BucketOf(rows[k])})
  IN [i \in DOMAIN first |-> BucketOf(first[i])]
Sum(rows) == SumFunction([k \in DOMAIN rows |-> rows[k].cost])
\* Variant with a fault: the rows of a bucket are summed whatever their currency.
NeverMixed(rows) == FALSE

MixesCurrencies(rows) ==
  \E i, j \in DOMAIN rows :
    BucketOf(rows[i]) = BucketOf(rows[j]) /\ rows[i].currency # rows[j].currency

\* The native name most rows have, of these the first one.
Mode(rows) ==
  LET votes(name) == Cardinality({i \in DOMAIN rows : rows[i].service = name})
      k == CHOOSE i \in DOMAIN rows :
             \A j \in DOMAIN rows :
               \/ votes(rows[i].service) > votes(rows[j].service)
               \/ votes(rows[i].service) = votes(rows[j].service) /\ i <= j
  IN rows[k].service
Charge(rows) ==
  [bucket |-> BucketOf(rows[1]), native |-> Mode(rows), currency |-> rows[1].currency,
   cost |-> Sum(rows)]

\* _write_per_row_tags: a row per input row, key and value, with the cost of the input
\* row; none for an input row without tags.
TagRows(id, n, rows) ==
  UNION {{[charge |-> id, by |-> n, index |-> k, key |-> key, value |-> rows[k].tags[key],
           cost |-> rows[k].cost] : key \in DOMAIN rows[k].tags} : k \in DOMAIN rows}

-----------------------------------------------------------------------------
(* An ingest (ingest_focus_file, upsert_aggregated), one transaction.      *)

NoIngest == [phase |-> "idle"]
Ingesting(s) == ingest[s].phase # "idle"
NoRun == [phase |-> "idle"]
NoId == <<0, 0>>
None == "none"   \* no tag key

Init ==
  /\ charges = <<>> /\ tagRows = {} /\ insights = {} /\ names = <<>>
  /\ ingest = [s \in Sessions |-> NoIngest] /\ ingests = 0
  /\ run = NoRun /\ runs = 0
  /\ newest = <<>> /\ raced = {} /\ done = {}

\* What is written over what is stored.
Over(f, g) == [x \in DOMAIN f \cup DOMAIN g |-> IF x \in DOMAIN f THEN f[x] ELSE g[x]]
Put(f, a, v) == [x \in DOMAIN f \cup {a} |-> IF x = a THEN v ELSE f[x]]

\* What a session sees: what is committed, and what it wrote.
Charges(s) == Over(ingest[s].new, charges)
TagRowsSeen(s) == (tagRows \ ingest[s].deleted) \cup ingest[s].inserted
BucketsIn(s) == {BucketOf(r) : r \in ToSet(ingest[s].rows)}
Current(s) == Head(ingest[s].todo)
CurrentRows(s) == RowsOf(ingest[s].rows, Current(s))

\* An export that mixes currencies in a bucket raises before anything is written.
BeginIngest(s) ==
  /\ ~ Ingesting(s) /\ ingests < MaxIngests
  /\ \E e \in Exports :
       /\ ~ MixesCurrencies(Load(e))
       /\ ingest' = [ingest EXCEPT ![s] =
            [phase |-> "row", n |-> ingests + 1, rows |-> Load(e), todo |-> Buckets(Load(e)),
             found |-> NoId, loaded |-> {}, seen |-> {}, new |-> <<>>, deleted |-> {},
             inserted |-> {}, raced |-> {}]]
  /\ ingests' = ingests + 1
  /\ UNCHANGED <<stored, insights, names, run, runs, history>>

Matches(s) == {id \in DOMAIN Charges(s) : Charges(s)[id].bucket = Current(s)}

\* An id of its own for each charge an ingest inserts.
NewId(s) == <<ingest[s].n, Len(ingest[s].todo)>>

InsertCharge(s) ==
  /\ ingest[s].phase = "row" /\ ingest[s].todo # <<>> /\ Matches(s) = {}
  /\ ingest' = [ingest EXCEPT
       ![s].new = Put(@, NewId(s), Charge(CurrentRows(s))),
       ![s].inserted = @ \cup TagRows(NewId(s), ingest[s].n, CurrentRows(s)),
       ![s].todo = Tail(@)]
  /\ UNCHANGED <<stored, insights, names, ingests, run, runs, history>>

\* The SELECT; with two charges of the bucket it raises (IngestFails).
FindCharge(s) ==
  /\ ingest[s].phase = "row" /\ ingest[s].todo # <<>>
  /\ \E id \in Matches(s) :
       /\ Matches(s) = {id}
       /\ ingest' = [ingest EXCEPT ![s].phase = "delete", ![s].found = id,
                                   ![s].loaded = {Charges(s)[id]}]
  /\ UNCHANGED <<stored, insights, names, ingests, run, runs, history>>

\* Variant with a fault: the tag rows of the charge are kept.
NothingToDelete(s) == {}

\* The tag rows a DELETE that starts now will delete.
ToDelete(s) == {t \in TagRowsSeen(s) : t.charge = ingest[s].found}

\* The DELETE takes its snapshot, and waits for a session that deleted some of it.
StartDelete(s) ==
  /\ ingest[s].phase = "delete"
  /\ ingest' = [ingest EXCEPT ![s].phase = "update", ![s].seen = ToDelete(s)]
  /\ UNCHANGED <<stored, insights, names, ingests, run, runs, history>>

\* The columns that differ from what was loaded are written, on the row as it is now.
Updated(s, loaded) ==
  LET row == Charges(s)[ingest[s].found]
      charge == Charge(CurrentRows(s)) IN
  [row EXCEPT !.cost = IF charge.cost = loaded.cost THEN @ ELSE charge.cost,
              !.currency = IF charge.currency = loaded.currency THEN @ ELSE charge.currency]

\* The flush: the DELETE is done, the charge updated if a column of it changed, the tag
\* rows inserted.
UpdateCharge(s) ==
  LET id == ingest[s].found
      row == Updated(s, CHOOSE c \in ingest[s].loaded : TRUE)
      writes == row # Charges(s)[id] IN
  /\ ingest[s].phase = "update"
  /\ \A o \in Sessions \ {s} : Ingesting(o) =>
       /\ ingest[s].seen \cap ingest[o].deleted = {}
       /\ ~ (writes /\ id \in DOMAIN ingest[o].new)
  /\ ingest' = [ingest EXCEPT
       ![s].phase = "row",
       ![s].new = IF writes THEN Put(@, id, row) ELSE @,
       ![s].deleted = @ \cup ingest[s].seen,
       ![s].inserted = (@ \ ingest[s].seen) \cup TagRows(id, ingest[s].n, CurrentRows(s)),
       ![s].todo = Tail(@)]
  /\ UNCHANGED <<stored, insights, names, ingests, run, runs, history>>

CommitIngest(s) ==
  /\ ingest[s].phase = "row" /\ ingest[s].todo = <<>>
  /\ charges' = Charges(s)
  /\ tagRows' = TagRowsSeen(s)
  /\ ingest' = [o \in Sessions |->
       IF o = s THEN NoIngest
       ELSE IF Ingesting(o)
       THEN [ingest[o] EXCEPT !.raced = @ \cup (BucketsIn(s) \cap BucketsIn(o))] ELSE NoIngest]
  /\ newest' = Over([b \in BucketsIn(s) |-> RowsOf(ingest[s].rows, b)], newest)
  /\ raced' = (raced \ BucketsIn(s)) \cup ingest[s].raced
  /\ run' = IF run = NoRun THEN run ELSE [run EXCEPT !.quiet = FALSE]
  /\ done' = {}
  /\ UNCHANGED <<insights, names, ingests, runs>>

\* Two charges of one bucket (MultipleResultsFound), a deadlock, a lost connection:
\* the session is closed without a commit.
IngestFails(s) ==
  /\ Ingesting(s)
  /\ ingest' = [ingest EXCEPT ![s] = NoIngest]
  /\ UNCHANGED <<stored, insights, names, ingests, run, runs, history>>

-----------------------------------------------------------------------------
(* A run (run_chargeback): the charges of the account, their tags and the  *)
(* costs of the input rows are three SELECTs.                              *)

RunStarts ==
  /\ run = NoRun /\ runs < MaxRuns
  /\ \E key \in TagKeys \cup {None} :
       run' = [phase |-> "charges", key |-> key, charges |-> <<>>, tags |-> <<>>,
               costs |-> <<>>, quiet |-> TRUE]
  /\ runs' = runs + 1
  /\ UNCHANGED <<stored, insights, names, ingest, ingests, history>>

ReadCharges ==
  /\ run.phase = "charges"
  /\ run' = [run EXCEPT !.phase = "tags", !.charges = charges]
  /\ UNCHANGED <<stored, insights, names, ingest, ingests, runs, history>>

TagRowsOf(id) == {t \in tagRows : t.charge = id}

\* Variant with a fault: only as many as the rows that have tags.
IndexesWithoutGaps(rows) == 1..Cardinality({t.index : t \in rows})

\* The indexes of the input rows, up to the largest, without a gap.
Indexes(rows) == UNION {1..t.index : t \in rows}

\* Every way to pick one of options[k] for each k.
Picks(options) ==
  {f \in [DOMAIN options -> UNION {options[k] : k \in DOMAIN options}] :
     \A k \in DOMAIN options : f[k] \in options[k]}

\* _load_per_row_tags_for: the tags of each input row, {} for an index without any; the
\* last read of two values of a key, which overlapping ingests leave.
TagDicts(id) ==
  LET At(k) == {t \in TagRowsOf(id) : t.index = k}
      ValuesOf(k) == [key \in {t.key : t \in At(k)} |-> {t.value : t \in {u \in At(k) : u.key = key}}]
  IN Picks([k \in Indexes(TagRowsOf(id)) |-> Picks(ValuesOf(k))])

\* _load_per_row_costs_for: the first read of their costs, 0 for an index without any.
RowCosts(id) ==
  LET At(k) == {t \in TagRowsOf(id) : t.index = k}
  IN Picks([k \in Indexes(TagRowsOf(id)) |-> IF At(k) = {} THEN {0} ELSE {t.cost : t \in At(k)}])

ReadTags ==
  /\ run.phase = "tags"
  /\ \E d \in Picks([id \in DOMAIN run.charges |-> TagDicts(id)]) :
       run' = [run EXCEPT !.phase = "costs", !.tags = d]
  /\ UNCHANGED <<stored, insights, names, ingest, ingests, runs, history>>

ReadCosts ==
  /\ run.phase = "costs"
  /\ \E c \in Picks([id \in DOMAIN run.charges |-> RowCosts(id)]) :
       run' = [run EXCEPT !.phase = "emit", !.costs = c]
  /\ UNCHANGED <<stored, insights, names, ingest, ingests, runs, history>>

UNTAGGED == "__untagged__"
ValueOf(tags, key) ==
  IF key \in DOMAIN tags /\ tags[key] # "" THEN tags[key] ELSE UNTAGGED

\* _focus_charge_to_pydantic: the row with what was read of its input rows.
FocusCharge(id) ==
  LET c == run.charges[id] IN
  [id |-> id, bucket |-> c.bucket, native |-> c.native, currency |-> c.currency,
   cost |-> c.cost, tags |-> run.tags[id], costs |-> run.costs[id]]

\* What one charge gives to a service and a tag value, once per index.
Amount(k, service, value, cost) ==
  [index |-> k, service |-> service, value |-> value, cost |-> cost]

\* _attribute_row_count, on tags whose costs were not read: by the number of rows, on
\* the native name.
ByRowCount(c) ==
  LET tagged == {k \in DOMAIN c.tags : run.key \in DOMAIN c.tags[k]} IN
  IF tagged = {} THEN {Amount(0, c.native, UNTAGGED, c.cost)}
  ELSE {Amount(k, c.native, c.tags[k][run.key], c.cost \div Cardinality(tagged)) : k \in tagged}

\* aggregate_by_tag, for one charge.
ByTag(c) ==
  IF DOMAIN c.costs # {}
  THEN {Amount(k, c.bucket.service, ValueOf(c.tags[k], run.key), c.costs[k]) : k \in DOMAIN c.costs}
  ELSE IF DOMAIN c.tags # {} THEN ByRowCount(c)
  ELSE {Amount(0, c.bucket.service, UNTAGGED, c.cost)}

\* aggregate_by_period, for one charge.
ByPeriod(c) == {Amount(0, c.bucket.service, None, c.cost)}

\* The amounts of all charges, each under its charge's period and currency.
AllAmounts ==
  UNION {{[charge |-> c, a |-> a] : a \in IF run.key # None THEN ByTag(c) ELSE ByPeriod(c)} :
         c \in {FocusCharge(id) : id \in DOMAIN run.charges}}

\* AggregatedCost, a sum for each service, period, currency and tag value.
Group(x) ==
  [service |-> x.a.service, period |-> x.charge.bucket.period,
   currency |-> x.charge.currency, value |-> x.a.value]
Aggregated ==
  LET all == AllAmounts IN
  {[group |-> g, cost |-> SumFunction([x \in {y \in all : Group(y) = g} |-> x.a.cost])] :
   g \in {Group(x) : x \in all}}

\* build_insights.
Insights == {[group |-> a.group, key |-> run.key, cost |-> a.cost] : a \in Aggregated}

\* service_canonical of a charge, if its service is in the catalog.
HasCanonical(c) == \E name \in DOMAIN Canonical : Canonical[name] = c.bucket.service
GroupsOf(c) ==
  {Group([charge |-> c, a |-> a]) : a \in IF run.key # None THEN ByTag(c) ELSE ByPeriod(c)}
TakesFallback(c) == run.key # None /\ DOMAIN c.costs = {} /\ DOMAIN c.tags # {}

\* Variant with a fault: every charge notes its canonical name on every group so far.
NotedOnAll(order, g) ==
  {k \in DOMAIN order : HasCanonical(order[k]) /\ \E j \in 1..k : g \in GroupsOf(order[j])}

\* bucket_canonical and display_service, the charges read in this order: a charge notes
\* its canonical name on its own groups, one that takes the fallback on every group so
\* far; the last one noted is displayed.
Noted(order, g) ==
  {k \in DOMAIN order :
     /\ HasCanonical(order[k])
     /\ \/ g \in GroupsOf(order[k])
        \/ TakesFallback(order[k]) /\ \E j \in 1..k : g \in GroupsOf(order[j])}
Names(order) ==
  [g \in {a.group : a \in Aggregated} |->
     IF Noted(order, g) = {} THEN g.service ELSE order[Max(Noted(order, g))].bucket.service]

\* zip(strict=True): the tags and the costs of a charge do not belong together.
Mismatched ==
  run.key # None /\ \E id \in DOMAIN run.charges :
    DOMAIN run.costs[id] # {} /\ DOMAIN run.tags[id] # DOMAIN run.costs[id]

\* The previous rows are deleted; an account that raised is left without any, and the
\* run is 'partial'.  The charges were read in any order.
RunCommits ==
  /\ run.phase = "emit"
  /\ insights' = IF Mismatched THEN {} ELSE Insights
  /\ \E order \in SetToSeqs({FocusCharge(id) : id \in DOMAIN run.charges}) :
       names' = IF Mismatched THEN <<>> ELSE Names(order)
  /\ run' = NoRun
  /\ done' = IF run.quiet THEN {run.key} ELSE {}
  /\ UNCHANGED <<stored, ingest, ingests, runs, newest, raced>>

RunFails ==
  /\ run # NoRun
  /\ run' = NoRun
  /\ UNCHANGED <<stored, insights, names, ingest, ingests, runs, history>>

-----------------------------------------------------------------------------
Ingest(s) ==
  \/ BeginIngest(s) \/ InsertCharge(s) \/ FindCharge(s) \/ StartDelete(s)
  \/ UpdateCharge(s) \/ CommitIngest(s) \/ IngestFails(s)
Run == RunStarts \/ ReadCharges \/ ReadTags \/ ReadCosts \/ RunCommits \/ RunFails
Next == Run \/ \E s \in Sessions : Ingest(s)
Spec == Init /\ [][Next]_vars

-----------------------------------------------------------------------------
(* Properties.                                                             *)

\* Stored amounts are amounts, in a currency that is known; a tag row has its charge.
TypeOK ==
  /\ \A id \in DOMAIN charges :
       /\ DOMAIN charges[id] = {"bucket", "native", "currency", "cost"}
       /\ charges[id].currency \in FOCUS_VALID_CURRENCIES
       /\ charges[id].cost \in Int
  /\ \A t \in tagRows :
       /\ DOMAIN t = {"charge", "by", "index", "key", "value", "cost"}
       /\ t.charge \in DOMAIN charges
       /\ t.index \in Nat \ {0} /\ t.cost \in Int
  /\ \A x \in insights : x.cost \in Int /\ x.key \in TagKeys \cup {None}
  /\ DOMAIN names = {x.group : x \in insights}
  /\ \A s \in Sessions : ingest[s].phase \in {"idle", "row", "delete", "update"}
  /\ ingests \in 0..MaxIngests /\ runs \in 0..MaxRuns
  /\ run.phase \in {"idle", "charges", "tags", "costs", "emit"}
  /\ DOMAIN newest = {charges[id].bucket : id \in DOMAIN charges}
  /\ raced \subseteq DOMAIN newest

\* An export ingested again replaces what an earlier one said of its buckets
\* (upsert_aggregated: "the source of truth is the new ingest"): one charge with the
\* amount of the newest rows and the tag rows of these and no others, however ingests
\* interleaved and failed.  Where another session committed the bucket during the
\* newest ingest it is not so, until an ingest without one.
SoloIngestsReplace ==
  \A b \in DOMAIN newest \ raced :
    LET ids == {id \in DOMAIN charges : charges[id].bucket = b} IN
    /\ Cardinality(ids) = 1
    /\ \A id \in ids :
         /\ charges[id].cost = Sum(newest[b])
         /\ charges[id].currency = newest[b][1].currency
         /\ {<<t.index, t.key, t.value, t.cost>> : t \in TagRowsOf(id)} =
              UNION {{<<k, key, newest[b][k].tags[key], newest[b][k].cost>> :
                        key \in DOMAIN newest[b][k].tags} : k \in DOMAIN newest[b]}
         /\ \A t, u \in TagRowsOf(id) : t.by = u.by

\* The input rows behind what is stored, by bucket and number.
InputRows == UNION {{<<b, k>> : k \in DOMAIN newest[b]} : b \in DOMAIN newest}
RowAt(p) == newest[p[1]][p[2]]
Total(S) == SumFunction([p \in S |-> RowAt(p).cost])
Shown(S) == SumFunction([x \in S |-> x.cost])
Currencies == {RowAt(p).currency : p \in InputRows}

\* What the insights of place b show in a currency, and the rows they should show.
Shows(x, b, currency) ==
  x.group.service = b.service /\ x.group.period = b.period /\ x.group.currency = currency
At(p, b) == BucketOf(RowAt(p)) = b
Has(p, key, v) == ValueOf(RowAt(p).tags, key) = v

\* A run that nothing was ingested under adds up: for each service, period and
\* currency the input rows of the newest exports, each counted once.
QuietRunAddsUp ==
  done = {None} /\ raced = {} =>
    \A b \in DOMAIN newest, c \in Currencies :
      Shown({x \in insights : Shows(x, b, c)}) =
        Total({p \in InputRows : At(p, b) /\ RowAt(p).currency = c})

\* And by tag: each value of the key is given the amounts of the rows that have it,
\* in the place and the currency of the row (aggregate_by_tag, since migration 0020:
\* 3 EUR web + 97 EUR api is 3 and 97).  Four documents still give each value a share by
\* its number of rows, 50 each (docs/insights/chargeback.md:341-346 and others).
TaggedCosted ==
  raced = {} =>
    \A key \in done \ {None} : \A b \in DOMAIN newest, c \in Currencies :
      \A v \in {ValueOf(RowAt(p).tags, key) : p \in InputRows} \ {UNTAGGED} :
        Shown({x \in insights : Shows(x, b, c) /\ x.group.value = v}) =
          Total({p \in InputRows : At(p, b) /\ RowAt(p).currency = c /\ Has(p, key, v)})

\* An insight displays the canonical name of its own service, "else the native service
\* name" (build_insights): charges that take the fallback give theirs to every group
\* so far (resolver.py:288-290), but of a charge with tags the costs are there too,
\* unless an ingest commits between the two SELECTs.
ServiceDisplayed ==
  done # {} =>
    \A g \in DOMAIN names :
      names[g] = IF g.service \in DOMAIN Canonical THEN Canonical[g.service] ELSE g.service

\* aggregate_by_tag: "1 row web (3 EUR) + 1 row untagged (97 EUR) -> web=3, untagged=97".
UntaggedCosted ==
  raced = {} =>
    \A key \in done \ {None} : \A b \in DOMAIN newest, c \in Currencies :
      Shown({x \in insights : Shows(x, b, c) /\ x.group.value = UNTAGGED}) =
        Total({p \in InputRows : At(p, b) /\ RowAt(p).currency = c /\ Has(p, key, UNTAGGED)})
=============================================================================
