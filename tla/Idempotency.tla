----------------------------- MODULE Idempotency -----------------------------
(***************************************************************************)
(* The cache of answers by Idempotency-Key (idempotency.py) and the two    *)
(* endpoints that use it, POST /collect/aws and POST /insights/run: look   *)
(* up, work, store the answer.  The work itself is in CollectPipeline and  *)
(* InsightRun.                                                             *)
(*                                                                         *)
(* get and put hold the lock of the cache, the work between them does not: *)
(* requests with one key that overlap all miss and all work.               *)
(***************************************************************************)
EXTENDS Naturals, FiniteSets, Functions

CONSTANTS
  Requests,    \* requests that may be under way together
  Scopes,      \* the endpoints
  HeaderKeys,  \* values of the Idempotency-Key header
  NoKey,       \* a request without the header
  Ttl, MaxEntries,
  MaxTime, MaxAnswers   \* bounds

ASSUME KeysAssumption == NoKey \notin HeaderKeys
ASSUME ScopesAssumption == Scopes # {}
ASSUME SizesAssumption == Ttl \in Nat /\ MaxEntries \in Nat \ {0}

VARIABLES
  now,
  store,    \* _store: the entries by the number of the put that inserted the key, in
            \* which order the dict has them
  pc,       \* where a request is: "idle", "lookup", "work" or "cache"
  request,  \* its endpoint and header
  answers,  \* history: how many answers were cached
  latest    \* history: per key, the latest answer cached since the process started

vars == <<now, store, pc, request, answers, latest>>

\* Variant with a fault: the header alone.
HeaderOnly(scope, key) == key

make_cache_key(scope, key) == <<scope, key>>
KeyOf(r) == make_cache_key(request[r].scope, request[r].key)

Init ==
  /\ now = 0 /\ store = <<>> /\ answers = 0 /\ latest = <<>>
  /\ pc = [r \in Requests |-> "idle"]
  /\ request = [r \in Requests |-> [scope |-> CHOOSE s \in Scopes : TRUE, key |-> NoKey]]

Tick == now < MaxTime /\ now' = now + 1 /\ UNCHANGED <<store, pc, request, answers, latest>>

\* Variant with a fault: an entry lasts one tick longer.
ExpiredLate(entry) == now - entry.at > Ttl + 1

Expired(entry) == now - entry.at > Ttl

Arrive(r) ==
  /\ pc[r] = "idle"
  /\ \E s \in Scopes, k \in HeaderKeys \cup {NoKey} :
       request' = [request EXCEPT ![r] = [scope |-> s, key |-> k]]
  /\ pc' = [pc EXCEPT ![r] = IF request'[r].key = NoKey THEN "work" ELSE "lookup"]
  /\ UNCHANGED <<now, store, answers, latest>>

\* What get finds for the request: the entries of its key that have not expired.
Found(r) == {i \in DOMAIN store : store[i].key = KeyOf(r) /\ ~ Expired(store[i])}

\* get finds the answer, which is the response.
Hit(r) ==
  /\ pc[r] = "lookup"
  /\ Found(r) # {}
  /\ pc' = [pc EXCEPT ![r] = "idle"]
  /\ UNCHANGED <<now, store, request, answers, latest>>

\* get finds nothing, and drops an entry that is expired.
Miss(r) ==
  /\ pc[r] = "lookup"
  /\ Found(r) = {}
  /\ store' = Restrict(store, {i \in DOMAIN store : store[i].key # KeyOf(r)})
  /\ pc' = [pc EXCEPT ![r] = "work"]
  /\ UNCHANGED <<now, request, answers, latest>>

\* The job is enqueued, the rule has run.
Work(r) ==
  /\ pc[r] = "work"
  /\ pc' = [pc EXCEPT ![r] = IF request[r].key = NoKey THEN "idle" ELSE "cache"]
  /\ UNCHANGED <<now, store, request, answers, latest>>

\* 4xx and 503 are not cached.
WorkFails(r) ==
  /\ pc[r] = "work"
  /\ pc' = [pc EXCEPT ![r] = "idle"]
  /\ UNCHANGED <<now, store, request, answers, latest>>

First(S) == {i \in S : \A j \in S : i <= j}

\* Variants with a fault: the newest entry is evicted, room is made too late.
EvictNewest(entries) ==
  IF Cardinality(DOMAIN entries) < MaxEntries THEN entries
  ELSE Restrict(entries, {i \in DOMAIN entries : \E j \in DOMAIN entries : i < j})
EvictLate(entries) ==
  IF Cardinality(DOMAIN entries) <= MaxEntries THEN entries
  ELSE Restrict(entries, DOMAIN entries \ First(DOMAIN entries))

\* The first entry of the dict makes room.
Evict(entries) ==
  IF Cardinality(DOMAIN entries) < MaxEntries THEN entries
  ELSE Restrict(entries, DOMAIN entries \ First(DOMAIN entries))

\* An entry whose key is there keeps its place.
Assign(entries, entry) ==
  IF \E i \in DOMAIN entries : entries[i].key = entry.key
  THEN [i \in DOMAIN entries |-> IF entries[i].key = entry.key THEN entry ELSE entries[i]]
  ELSE [i \in DOMAIN entries \cup {entry.body} |->
          IF i = entry.body THEN entry ELSE entries[i]]

\* put, and the answer goes out.
Put(r) ==
  LET entry == [key |-> KeyOf(r), at |-> now, body |-> answers + 1, for |-> request[r]]
      fresh == Restrict(store, {i \in DOMAIN store : ~ Expired(store[i])})
      first == KeyOf(r) \notin DOMAIN latest \/ Expired(latest[KeyOf(r)])
  IN
  /\ pc[r] = "cache" /\ answers < MaxAnswers
  /\ store' = Assign(Evict(fresh), entry)
  /\ pc' = [pc EXCEPT ![r] = "idle"]
  /\ answers' = answers + 1
  /\ latest' = [k \in DOMAIN latest \cup {entry.key} |->
                  IF k = entry.key THEN [at |-> now, body |-> entry.body, lone |-> first]
                  ELSE latest[k]]
  /\ UNCHANGED <<now, request>>

\* The process restarts with an empty cache; its requests die with it.
Restart ==
  /\ store' = <<>> /\ latest' = <<>>
  /\ pc' = [r \in Requests |-> "idle"]
  /\ UNCHANGED <<now, request, answers>>

Next ==
  \/ Tick \/ Restart
  \/ \E r \in Requests :
       Arrive(r) \/ Hit(r) \/ Miss(r) \/ Work(r) \/ WorkFails(r) \/ Put(r)

Spec == Init /\ [][Next]_vars

-----------------------------------------------------------------------------
(* Properties.                                                             *)

\* The cache stays within its cap, with one entry for a key (MAX_ENTRIES).
WithinCap ==
  /\ Cardinality(DOMAIN store) <= MaxEntries
  /\ \A i, j \in DOMAIN store : store[i].key = store[j].key => i = j

\* A request is answered from the cache only with the answer to a request of its own
\* endpoint and header, cached no longer than the TTL ago.
AnswersOwnKey ==
  \A r \in Requests : pc[r] = "lookup" =>
    \A i \in Found(r) :
      /\ store[i].for = request[r]
      /\ now - store[i].at <= Ttl

\* Retry within the TTL: the cached response, no second run (idempotency.py:11-13), as
\* long as the process lives, fewer than MaxEntries answers were cached since, and no
\* request of the same key overlapped the first, whose entry then keeps the place in the
\* order of eviction it had.
RetryReplays ==
  [][\A r \in Requests :
       pc[r] = "lookup" /\ KeyOf(r) \in DOMAIN latest =>
         LET a == latest[KeyOf(r)] IN
         a.lone /\ now - a.at <= Ttl /\ answers - a.body < MaxEntries
           => /\ pc'[r] # "work"
              /\ \E i \in Found(r) : store[i].body = a.body]_vars
=============================================================================
