------------------------ MODULE Idempotency_proofs ------------------------
(***************************************************************************)
(* Proofs about the cache of answers, for every set of requests, scopes    *)
(* and header values, every TTL and capacity, and any number of answers.   *)
(***************************************************************************)
EXTENDS Idempotency, FiniteSetTheorems, WellFoundedInduction, TLAPS

-----------------------------------------------------------------------------
(* The dict: eviction and assignment.                                      *)

\* The dict has a first entry.
LEMMA FirstExists ==
  ASSUME NEW S \in SUBSET Nat, S # {}
  PROVE  \E i \in First(S) : i \in S
<1>1. PICK x \in S : \A y \in S : ~ (<<y, x>> \in OpToRel(<, Nat))
  BY NatLessThanWellFounded, WFMin
<1>2. \A y \in S : ~ (y < x)
  <2>1. \A y \in S : <<y, x>> \in Nat \X Nat
    OBVIOUS
  <2>2. QED
    BY <1>1, <2>1, Zenon DEF OpToRel
<1>3. \A y \in S : x <= y
  BY <1>2
<1>4. QED
  BY <1>3 DEF First

\* Eviction makes room for one, at the cost of the first entry only.
LEMMA Evicted ==
  ASSUME NEW f, DOMAIN f \subseteq Nat, IsFiniteSet(DOMAIN f), Cardinality(DOMAIN f) <= MaxEntries
  PROVE  /\ DOMAIN Evict(f) \subseteq DOMAIN f
         /\ \A i \in DOMAIN Evict(f) : Evict(f)[i] = f[i]
         /\ IsFiniteSet(DOMAIN Evict(f)) /\ Cardinality(DOMAIN Evict(f)) < MaxEntries
         /\ Cardinality(DOMAIN f) < MaxEntries => Evict(f) = f
         /\ DOMAIN f \ First(DOMAIN f) \subseteq DOMAIN Evict(f)
<1>1. Cardinality(DOMAIN f) \in Nat /\ MaxEntries \in Nat /\ MaxEntries > 0
  BY FS_CardinalityType, SizesAssumption
<1>2. CASE Cardinality(DOMAIN f) < MaxEntries
  BY <1>2 DEF Evict
<1>3. CASE ~ (Cardinality(DOMAIN f) < MaxEntries)
  <2> DEFINE D == DOMAIN f \ First(DOMAIN f)
  <2>1. Evict(f) = [i \in D |-> f[i]]
    BY <1>3 DEF Evict, Restrict
  <2>2. DOMAIN f # {}
    BY <1>1, <1>3, FS_EmptySet
  <2>3. PICK i \in First(DOMAIN f) : i \in DOMAIN f
    BY <2>2, FirstExists
  <2>4. D \subseteq DOMAIN f \ {i}
    BY <2>3
  <2>5. IsFiniteSet(DOMAIN f \ {i}) /\ Cardinality(DOMAIN f \ {i}) = Cardinality(DOMAIN f) - 1
    BY <2>3, FS_RemoveElement
  <2> HIDE DEF D
  <2>6. IsFiniteSet(D) /\ Cardinality(D) <= Cardinality(DOMAIN f \ {i})
    BY <2>4, <2>5, FS_Subset
  <2>7. Cardinality(D) \in Nat
    BY <2>6, FS_CardinalityType
  <2>8. Cardinality(D) < MaxEntries
    BY <1>1, <2>5, <2>6, <2>7
  <2>9. DOMAIN Evict(f) = D /\ \A j \in D : Evict(f)[j] = f[j]
    BY <2>1
  <2>10. DOMAIN f \ First(DOMAIN f) \subseteq DOMAIN Evict(f)
    BY <2>9 DEF D
  <2>11. QED
    BY <1>3, <2>4, <2>6, <2>8, <2>9, <2>10
<1>4. QED
  BY <1>2, <1>3

\* An assignment changes the entry of its key, or adds it at the end.
LEMMA Assigned ==
  ASSUME NEW f, NEW e, DOMAIN f \subseteq Nat, IsFiniteSet(DOMAIN f), Cardinality(DOMAIN f) < MaxEntries,
         e.body \notin DOMAIN f,
         \A i, j \in DOMAIN f : f[i].key = f[j].key => i = j
  PROVE  LET g == Assign(f, e) IN
         /\ DOMAIN g \subseteq DOMAIN f \cup {e.body}
         /\ IsFiniteSet(DOMAIN g) /\ Cardinality(DOMAIN g) <= MaxEntries
         /\ \A i \in DOMAIN g : g[i] = e \/ (i \in DOMAIN f /\ g[i] = f[i] /\ f[i].key # e.key)
         /\ \A i, j \in DOMAIN g : g[i].key = g[j].key => i = j
         /\ \A i \in DOMAIN f : f[i].key # e.key => i \in DOMAIN g /\ g[i] = f[i]
         /\ (\A i \in DOMAIN f : f[i].key # e.key) => e.body \in DOMAIN g /\ g[e.body] = e
<1> DEFINE g == Assign(f, e)
<1>1. /\ IsFiniteSet(DOMAIN f \cup {e.body})
      /\ Cardinality(DOMAIN f \cup {e.body}) = Cardinality(DOMAIN f) + 1
  BY FS_AddElement
<1>2. Cardinality(DOMAIN f) \in Nat /\ MaxEntries \in Nat
  BY FS_CardinalityType, SizesAssumption
<1>3. CASE \E i \in DOMAIN f : f[i].key = e.key
  <2>1. g = [i \in DOMAIN f |-> IF f[i].key = e.key THEN e ELSE f[i]]
    BY <1>3 DEF Assign
  <2>2. DOMAIN g = DOMAIN f /\ \A i \in DOMAIN f : g[i] = IF f[i].key = e.key THEN e ELSE f[i]
    BY <2>1
  <2> HIDE DEF g
  <2>3. \A i, j \in DOMAIN g : g[i].key = g[j].key => i = j
    BY <2>2
  <2>4. IsFiniteSet(DOMAIN g) /\ Cardinality(DOMAIN g) <= MaxEntries
    BY <1>2, <2>2
  <2>5. QED
    BY <1>3, <2>2, <2>3, <2>4 DEF g
<1>4. CASE \A i \in DOMAIN f : f[i].key # e.key
  <2>1. g = [i \in DOMAIN f \cup {e.body} |-> IF i = e.body THEN e ELSE f[i]]
    BY <1>4 DEF Assign
  <2>2. /\ DOMAIN g = DOMAIN f \cup {e.body}
        /\ g[e.body] = e /\ \A i \in DOMAIN f : g[i] = f[i]
    BY <2>1
  <2> HIDE DEF g
  <2>3. \A i, j \in DOMAIN g : g[i].key = g[j].key => i = j
    BY <1>4, <2>2
  <2>4. IsFiniteSet(DOMAIN g) /\ Cardinality(DOMAIN g) <= MaxEntries
    <3>1. Cardinality(DOMAIN g) = Cardinality(DOMAIN f) + 1
      BY <1>1, <2>2
    <3>2. QED
      BY <1>1, <1>2, <2>2, <3>1
  <2>5. QED
    BY <1>4, <2>2, <2>3, <2>4 DEF g
<1>5. QED
  BY <1>3, <1>4

-----------------------------------------------------------------------------
(* The invariant.                                                          *)

Asked == [scope : Scopes, key : HeaderKeys \cup {NoKey}]

Types ==
  /\ now \in Nat /\ answers \in Nat
  /\ request \in [Requests -> Asked]
  /\ pc \in [Requests -> {"idle", "lookup", "work", "cache"}]
  /\ \A k \in DOMAIN latest : latest[k].at \in Nat /\ latest[k].body \in 1..answers

\* An entry is the latest answer to its key, at the place of a put; keys differ.
Entries ==
  /\ DOMAIN store \subseteq 1..answers
  /\ Cardinality(DOMAIN store) <= MaxEntries
  /\ \A i, j \in DOMAIN store : store[i].key = store[j].key => i = j
  /\ \A i \in DOMAIN store :
       /\ store[i].for \in Asked
       /\ store[i].key = make_cache_key(store[i].for.scope, store[i].for.key)
       /\ store[i].key \in DOMAIN latest
       /\ store[i].at = latest[store[i].key].at
       /\ store[i].body = latest[store[i].key].body

\* The answer to a lone request is kept, at its own place in the order of eviction.
Held ==
  \A k \in DOMAIN latest :
    /\ latest[k].lone
    /\ ~ Expired(latest[k])
    /\ answers - latest[k].body < MaxEntries
    => latest[k].body \in DOMAIN store /\ store[latest[k].body].key = k

CacheInv == Types /\ Entries /\ Held

LEMMA InitCache == Init => CacheInv
<1>1. SUFFICES ASSUME Init PROVE CacheInv
  OBVIOUS
<1>2. DOMAIN store = {} /\ DOMAIN latest = {}
  BY <1>1 DEF Init
<1>3. Types
  <2>1. (CHOOSE s \in Scopes : TRUE) \in Scopes
    BY ScopesAssumption
  <2>2. QED
    BY <1>1, <1>2, <2>1 DEF Init, Types, Asked
<1>4. Cardinality(DOMAIN store) <= MaxEntries
  BY <1>2, FS_EmptySet, SizesAssumption
<1>5. QED
  BY <1>2, <1>3, <1>4 DEF CacheInv, Entries, Held

LEMMA StoreFinite ==
  ASSUME CacheInv
  PROVE  /\ DOMAIN store \subseteq Nat /\ IsFiniteSet(DOMAIN store)
         /\ answers + 1 \notin DOMAIN store
<1>1. answers \in Nat /\ DOMAIN store \subseteq 1..answers
  BY DEF CacheInv, Types, Entries
<1>2. IsFiniteSet(1..answers)
  BY <1>1, FS_Interval
<1>3. IsFiniteSet(DOMAIN store)
  BY <1>1, <1>2, FS_Subset
<1>4. QED
  BY <1>1, <1>3

\* Time only ends what was kept.
LEMMA CacheTick ==
  ASSUME CacheInv, Tick
  PROVE  CacheInv'
<1>1. /\ now' = now + 1 /\ now \in Nat /\ Ttl \in Nat
      /\ store' = store /\ pc' = pc /\ request' = request /\ answers' = answers /\ latest' = latest
  BY SizesAssumption DEF Tick, CacheInv, Types
<1>2. \A k \in DOMAIN latest : Expired(latest[k]) => Expired(latest[k])'
  BY <1>1 DEF Expired, CacheInv, Types
<1>3. Types'
  BY <1>1 DEF CacheInv, Types
<1>4. Entries'
  BY <1>1 DEF CacheInv, Entries
<1>5. Held'
  BY <1>1, <1>2 DEF CacheInv, Held
<1>6. QED
  BY <1>3, <1>4, <1>5 DEF CacheInv

\* Steps that leave the cache alone.
LEMMA CacheAlone ==
  ASSUME CacheInv, UNCHANGED <<now, store, answers, latest>>,
         request' \in [Requests -> Asked],
         pc' \in [Requests -> {"idle", "lookup", "work", "cache"}]
  PROVE  CacheInv'
<1>1. Types' /\ Entries'
  BY DEF CacheInv, Types, Entries
<1>2. Held'
  BY DEF CacheInv, Held, Expired
<1>3. QED
  BY <1>1, <1>2 DEF CacheInv

LEMMA CacheArrive ==
  ASSUME CacheInv, NEW r \in Requests, Arrive(r)
  PROVE  CacheInv'
<1>1. PICK s \in Scopes, k \in HeaderKeys \cup {NoKey} :
        request' = [request EXCEPT ![r] = [scope |-> s, key |-> k]]
  BY DEF Arrive
<1>2. request' \in [Requests -> Asked]
  BY <1>1 DEF CacheInv, Types, Asked
<1>3. pc' \in [Requests -> {"idle", "lookup", "work", "cache"}]
  BY DEF Arrive, CacheInv, Types
<1>4. QED
  BY <1>2, <1>3, CacheAlone DEF Arrive

LEMMA CacheSteps ==
  ASSUME CacheInv, NEW r \in Requests, Hit(r) \/ Work(r) \/ WorkFails(r)
  PROVE  CacheInv'
<1>1. pc' \in [Requests -> {"idle", "lookup", "work", "cache"}]
  BY DEF Hit, Work, WorkFails, CacheInv, Types
<1>2. UNCHANGED <<now, store, answers, latest>> /\ request' = request
  BY DEF Hit, Work, WorkFails
<1>3. QED
  BY <1>1, <1>2, CacheAlone DEF CacheInv, Types

\* get drops an entry of its key that is expired.
LEMMA CacheMiss ==
  ASSUME CacheInv, NEW r \in Requests, Miss(r)
  PROVE  CacheInv'
<1> DEFINE K == {i \in DOMAIN store : store[i].key # KeyOf(r)}
<1>1. /\ now' = now /\ answers' = answers /\ latest' = latest /\ request' = request
      /\ pc' = [pc EXCEPT ![r] = "work"] /\ Found(r) = {}
      /\ store' = [i \in K |-> store[i]]
  BY DEF Miss, Restrict
<1>2. DOMAIN store' = K /\ \A i \in K : i \in DOMAIN store /\ store'[i] = store[i]
  BY <1>1
<1>3. Types'
  BY <1>1 DEF CacheInv, Types
<1>4. Cardinality(K) <= MaxEntries
  <2>1. K \subseteq DOMAIN store
    OBVIOUS
  <2> HIDE DEF K
  <2>2. Cardinality(K) <= Cardinality(DOMAIN store) /\ IsFiniteSet(K)
    BY <2>1, StoreFinite, FS_Subset
  <2>3. Cardinality(K) \in Nat /\ Cardinality(DOMAIN store) \in Nat
    BY <2>2, StoreFinite, FS_CardinalityType
  <2>4. QED
    BY <2>2, <2>3, SizesAssumption DEF CacheInv, Entries
<1>5. Entries'
  BY <1>1, <1>2, <1>4 DEF CacheInv, Entries
<1>6. Held'
  <2>1. SUFFICES ASSUME NEW k \in DOMAIN latest, latest[k].lone, ~ Expired(latest[k]),
                        answers - latest[k].body < MaxEntries
                 PROVE  latest[k].body \in K
    BY <1>1, <1>2 DEF Held, Expired, CacheInv
  <2>2. /\ latest[k].body \in DOMAIN store /\ store[latest[k].body].key = k
        /\ store[latest[k].body].at = latest[k].at
    BY <2>1 DEF CacheInv, Held, Entries
  <2>3. ~ Expired(store[latest[k].body])
    BY <2>1, <2>2 DEF Expired
  <2>4. QED
    BY <1>1, <2>2, <2>3 DEF Found
<1>7. QED
  BY <1>3, <1>5, <1>6 DEF CacheInv

\* The process restarts.
LEMMA CacheRestart ==
  ASSUME CacheInv, Restart
  PROVE  CacheInv'
<1>1. DOMAIN store' = {} /\ DOMAIN latest' = {}
  BY DEF Restart
<1>2. now' = now /\ answers' = answers /\ request' = request
      /\ pc' \in [Requests -> {"idle", "lookup", "work", "cache"}]
  BY DEF Restart
<1>3. Cardinality(DOMAIN store') <= MaxEntries
  BY <1>1, FS_EmptySet, SizesAssumption
<1>4. QED
  BY <1>1, <1>2, <1>3 DEF CacheInv, Types, Entries, Held

-----------------------------------------------------------------------------
(* put.                                                                    *)

Kept == Restrict(store, {i \in DOMAIN store : ~ Expired(store[i])})
NewEntry(r) == [key |-> KeyOf(r), at |-> now, body |-> answers + 1, for |-> request[r]]

\* What put works on.
LEMMA KeptFacts ==
  ASSUME CacheInv
  PROVE  /\ DOMAIN Kept = {i \in DOMAIN store : ~ Expired(store[i])}
         /\ \A i \in DOMAIN Kept : i \in DOMAIN store /\ Kept[i] = store[i]
         /\ DOMAIN Kept \subseteq Nat /\ IsFiniteSet(DOMAIN Kept)
         /\ Cardinality(DOMAIN Kept) <= MaxEntries
         /\ answers + 1 \notin DOMAIN Kept
         /\ \A i, j \in DOMAIN Kept : Kept[i].key = Kept[j].key => i = j
<1> DEFINE K == {i \in DOMAIN store : ~ Expired(store[i])}
<1>1. Kept = [i \in K |-> store[i]]
  BY DEF Kept, Restrict
<1>2. DOMAIN Kept = K /\ \A i \in K : i \in DOMAIN store /\ Kept[i] = store[i]
  BY <1>1
<1>3. K \subseteq DOMAIN store
  OBVIOUS
<1> HIDE DEF K
<1>4. IsFiniteSet(K) /\ Cardinality(K) <= Cardinality(DOMAIN store)
  BY <1>3, StoreFinite, FS_Subset
<1>5. Cardinality(K) \in Nat /\ Cardinality(DOMAIN store) \in Nat
  BY <1>4, StoreFinite, FS_CardinalityType
<1>6. Cardinality(K) <= MaxEntries
  BY <1>4, <1>5, SizesAssumption DEF CacheInv, Entries
<1>7. \A i, j \in K : Kept[i].key = Kept[j].key => i = j
  BY <1>2, <1>3 DEF CacheInv, Entries
<1>8. K \subseteq Nat /\ answers + 1 \notin K
  BY <1>3, StoreFinite
<1>9. QED
  BY <1>2, <1>4, <1>6, <1>7, <1>8 DEF K

\* An entry with fewer than MaxEntries places after it, its own counted, survives the
\* eviction.
LEMMA SurvivesEviction ==
  ASSUME CacheInv, NEW p \in DOMAIN Kept, (answers + 1) - p < MaxEntries
  PROVE  p \in DOMAIN Evict(Kept)
<1>1. CASE p \notin First(DOMAIN Kept)
  BY <1>1, KeptFacts, Evicted
<1>2. CASE p \in First(DOMAIN Kept)
  <2>1. answers \in Nat /\ p \in Nat /\ p <= answers /\ DOMAIN Kept \subseteq 1..answers
    BY KeptFacts DEF CacheInv, Types, Entries
  <2>2. DOMAIN Kept \subseteq p..answers
    BY <1>2, <2>1 DEF First
  <2>3. IsFiniteSet(p..answers) /\ Cardinality(p..answers) = answers - p + 1
    BY <2>1, FS_Interval
  <2>4. Cardinality(DOMAIN Kept) <= Cardinality(p..answers) /\ Cardinality(DOMAIN Kept) \in Nat
    BY <2>2, <2>3, FS_Subset, FS_CardinalityType
  <2>5. Cardinality(DOMAIN Kept) < MaxEntries
    BY <2>1, <2>3, <2>4, SizesAssumption
  <2>6. QED
    BY <2>5, KeptFacts, Evicted
<1>3. QED
  BY <1>1, <1>2

LEMMA PutEffect ==
  ASSUME CacheInv, NEW r \in Requests, Put(r)
  PROVE  LET e == NewEntry(r) IN
         /\ now' = now /\ request' = request /\ answers' = answers + 1
         /\ pc' = [pc EXCEPT ![r] = "idle"]
         /\ store' = Assign(Evict(Kept), e)
         /\ e.key = KeyOf(r) /\ e.at = now /\ e.body = answers + 1 /\ e.for = request[r]
         /\ DOMAIN latest' = DOMAIN latest \cup {KeyOf(r)}
         /\ latest'[KeyOf(r)].at = now /\ latest'[KeyOf(r)].body = answers + 1
         /\ latest'[KeyOf(r)].lone
              = (KeyOf(r) \notin DOMAIN latest \/ Expired(latest[KeyOf(r)]))
         /\ \A k \in DOMAIN latest \ {KeyOf(r)} : latest'[k] = latest[k]
BY DEF Put, Kept, NewEntry

LEMMA PutStore ==
  ASSUME CacheInv, NEW r \in Requests, Put(r)
  PROVE  LET e == NewEntry(r) IN
         /\ DOMAIN store' \subseteq DOMAIN Kept \cup {answers + 1}
         /\ Cardinality(DOMAIN store') <= MaxEntries
         /\ \A i \in DOMAIN store' :
              store'[i] = e \/ (i \in DOMAIN store /\ store'[i] = store[i] /\ store[i].key # e.key)
         /\ \A i, j \in DOMAIN store' : store'[i].key = store'[j].key => i = j
         /\ \A i \in DOMAIN Evict(Kept) :
              store[i].key # e.key => i \in DOMAIN store' /\ store'[i] = store[i]
         /\ (\A i \in DOMAIN Kept : store[i].key # e.key) =>
              answers + 1 \in DOMAIN store' /\ store'[answers + 1] = e
<1> DEFINE e == NewEntry(r)
           f == Evict(Kept)
<1>1. store' = Assign(f, e) /\ e.body = answers + 1
  BY PutEffect
<1>2. /\ DOMAIN f \subseteq DOMAIN Kept /\ \A i \in DOMAIN f : f[i] = Kept[i]
      /\ IsFiniteSet(DOMAIN f) /\ Cardinality(DOMAIN f) < MaxEntries
  BY KeptFacts, Evicted
<1>3. \A i \in DOMAIN f : i \in DOMAIN store /\ f[i] = store[i]
  BY <1>2, KeptFacts
<1>4. /\ DOMAIN f \subseteq Nat /\ e.body \notin DOMAIN f
      /\ \A i, j \in DOMAIN f : f[i].key = f[j].key => i = j
  BY <1>1, <1>2, KeptFacts
<1> HIDE DEF e, f
<1>5. /\ DOMAIN store' \subseteq DOMAIN f \cup {e.body}
      /\ Cardinality(DOMAIN store') <= MaxEntries
      /\ \A i \in DOMAIN store' :
           store'[i] = e \/ (i \in DOMAIN f /\ store'[i] = f[i] /\ f[i].key # e.key)
      /\ \A i, j \in DOMAIN store' : store'[i].key = store'[j].key => i = j
      /\ \A i \in DOMAIN f : f[i].key # e.key => i \in DOMAIN store' /\ store'[i] = f[i]
      /\ (\A i \in DOMAIN f : f[i].key # e.key) =>
           e.body \in DOMAIN store' /\ store'[e.body] = e
  BY <1>1, <1>2, <1>4, Assigned
<1>6. QED
  BY <1>1, <1>2, <1>3, <1>5 DEF e, f

LEMMA CachePut ==
  ASSUME CacheInv, NEW r \in Requests, Put(r)
  PROVE  CacheInv'
<1> DEFINE e == NewEntry(r)
           k == KeyOf(r)
<1>1. /\ now' = now /\ request' = request /\ answers' = answers + 1
      /\ pc' = [pc EXCEPT ![r] = "idle"]
      /\ e.key = k /\ e.at = now /\ e.body = answers + 1 /\ e.for = request[r]
      /\ DOMAIN latest' = DOMAIN latest \cup {k}
      /\ latest'[k].at = now /\ latest'[k].body = answers + 1
      /\ latest'[k].lone = (k \notin DOMAIN latest \/ Expired(latest[k]))
      /\ \A q \in DOMAIN latest \ {k} : latest'[q] = latest[q]
  BY PutEffect
<1>2. /\ now \in Nat /\ answers \in Nat /\ request[r] \in Asked
      /\ k = make_cache_key(request[r].scope, request[r].key)
  BY DEF CacheInv, Types, KeyOf
<1>3. /\ DOMAIN store' \subseteq DOMAIN Kept \cup {answers + 1}
      /\ Cardinality(DOMAIN store') <= MaxEntries
      /\ \A i \in DOMAIN store' :
           store'[i] = e \/ (i \in DOMAIN store /\ store'[i] = store[i] /\ store[i].key # k)
      /\ \A i, j \in DOMAIN store' : store'[i].key = store'[j].key => i = j
      /\ \A i \in DOMAIN Evict(Kept) :
           store[i].key # k => i \in DOMAIN store' /\ store'[i] = store[i]
      /\ (\A i \in DOMAIN Kept : store[i].key # k) =>
           answers + 1 \in DOMAIN store' /\ store'[answers + 1] = e
  BY <1>1, PutStore
<1> HIDE DEF e, k
<1>4. Types'
  BY <1>1, <1>2 DEF CacheInv, Types
<1>5. DOMAIN store' \subseteq 1..answers'
  <2>1. DOMAIN Kept \subseteq 1..answers
    BY KeptFacts DEF CacheInv, Entries
  <2>2. QED
    BY <1>1, <1>2, <1>3, <2>1
<1>6. ASSUME NEW i \in DOMAIN store'
      PROVE  /\ store'[i].for \in Asked
             /\ store'[i].key = make_cache_key(store'[i].for.scope, store'[i].for.key)
             /\ store'[i].key \in DOMAIN latest'
             /\ store'[i].at = latest'[store'[i].key].at
             /\ store'[i].body = latest'[store'[i].key].body
  <2>1. CASE store'[i] = e
    BY <1>1, <1>2, <2>1
  <2>2. CASE i \in DOMAIN store /\ store'[i] = store[i] /\ store[i].key # k
    <3>1. latest'[store[i].key] = latest[store[i].key] /\ store[i].key \in DOMAIN latest
      BY <1>1, <2>2 DEF CacheInv, Entries
    <3>2. QED
      BY <1>1, <2>2, <3>1 DEF CacheInv, Entries
  <2>3. QED
    BY <1>3, <2>1, <2>2
<1>7. Entries'
  BY <1>3, <1>5, <1>6 DEF Entries
<1>8. ASSUME NEW q \in DOMAIN latest', latest'[q].lone, ~ Expired(latest[q])',
             answers' - latest'[q].body < MaxEntries
      PROVE  latest'[q].body \in DOMAIN store' /\ store'[latest'[q].body].key = q
  <2>1. CASE q = k
    <3>1. k \notin DOMAIN latest \/ Expired(latest[k])
      BY <1>1, <1>8, <2>1
    <3>2. ASSUME NEW i \in DOMAIN Kept PROVE store[i].key # k
      <4>1. i \in DOMAIN store /\ ~ Expired(store[i])
        BY KeptFacts
      <4>2. store[i].key \in DOMAIN latest /\ store[i].at = latest[store[i].key].at
        BY <4>1 DEF CacheInv, Entries
      <4>3. QED
        BY <3>1, <4>1, <4>2 DEF Expired
    <3>3. answers + 1 \in DOMAIN store' /\ store'[answers + 1] = e
      BY <1>3, <3>2
    <3>4. QED
      BY <1>1, <2>1, <3>3
  <2>2. CASE q # k
    <3>1. q \in DOMAIN latest /\ latest'[q] = latest[q]
      BY <1>1, <2>2
    <3> DEFINE p == latest[q].body
    <3>2. /\ latest[q].lone /\ ~ Expired(latest[q])
          /\ (answers + 1) - p < MaxEntries /\ p \in 1..answers
      <4>1. latest[q].lone
        BY <1>8, <3>1, Zenon
      <4>2. ~ Expired(latest[q])
        BY <1>1, <1>8, <3>1, Zenon DEF Expired
      <4>3. (answers + 1) - p < MaxEntries
        BY <1>1, <1>8, <3>1, Zenon
      <4>4. p \in 1..answers
        BY <3>1 DEF CacheInv, Types
      <4>5. QED
        BY <4>1, <4>2, <4>3, <4>4
    <3>3. answers - p < MaxEntries
      BY <1>2, <3>2, SizesAssumption
    <3>4. p \in DOMAIN store /\ store[p].key = q /\ store[p].at = latest[q].at
      BY <3>1, <3>2, <3>3 DEF CacheInv, Held, Entries
    <3>5. p \in DOMAIN Kept
      BY <3>2, <3>4, KeptFacts DEF Expired
    <3>6. p \in DOMAIN Evict(Kept)
      BY <3>2, <3>5, SurvivesEviction
    <3>7. QED
      BY <1>3, <2>2, <3>1, <3>4, <3>6
  <2>3. QED
    BY <2>1, <2>2
<1>9. Held'
  BY <1>8 DEF Held
<1>10. QED
  BY <1>4, <1>7, <1>9 DEF CacheInv

LEMMA CacheStep == CacheInv /\ [Next]_vars => CacheInv'
<1>1. SUFFICES ASSUME CacheInv, [Next]_vars PROVE CacheInv'
  OBVIOUS
<1>2. CASE Tick \/ Restart
  BY <1>1, <1>2, CacheTick, CacheRestart
<1>3. ASSUME NEW r \in Requests,
             Arrive(r) \/ Hit(r) \/ Miss(r) \/ Work(r) \/ WorkFails(r) \/ Put(r)
      PROVE  CacheInv'
  BY <1>1, <1>3, CacheArrive, CacheSteps, CacheMiss, CachePut
<1>4. CASE UNCHANGED vars
  BY <1>1, <1>4, CacheAlone DEF vars, CacheInv, Types
<1>5. QED
  BY <1>1, <1>2, <1>3, <1>4 DEF Next

LEMMA CacheInvariant == Spec => []CacheInv
BY InitCache, CacheStep, PTL DEF Spec

-----------------------------------------------------------------------------
(* What the cache promises.                                                *)

\* The cache stays within its cap, with one entry for a key (MAX_ENTRIES).
THEOREM Cap == Spec => []WithinCap
<1>1. CacheInv => WithinCap
  BY DEF CacheInv, Entries, WithinCap
<1>2. QED
  BY <1>1, CacheInvariant, PTL

\* A request is answered from the cache only with the answer to a request of its own
\* endpoint and header, cached no longer than the TTL ago.
THEOREM OwnAnswers == Spec => []AnswersOwnKey
<1>1. ASSUME CacheInv PROVE AnswersOwnKey
  <2>1. SUFFICES ASSUME NEW r \in Requests, NEW i \in Found(r)
                 PROVE  store[i].for = request[r] /\ now - store[i].at <= Ttl
    BY DEF AnswersOwnKey
  <2>2. /\ i \in DOMAIN store /\ store[i].key = KeyOf(r) /\ ~ (now - store[i].at > Ttl)
    BY DEF Found, Expired
  <2>3. /\ store[i].for \in Asked /\ request[r] \in Asked /\ store[i].at \in Nat /\ now \in Nat
        /\ store[i].key = <<store[i].for.scope, store[i].for.key>>
    BY <1>1, <2>2 DEF CacheInv, Entries, Types, make_cache_key
  <2>4. store[i].for.scope = request[r].scope /\ store[i].for.key = request[r].key
    BY <2>2, <2>3 DEF KeyOf, make_cache_key
  <2>5. store[i].for = request[r]
    BY <2>3, <2>4 DEF Asked
  <2>6. QED
    BY <2>2, <2>3, <2>5, SizesAssumption
<1>2. QED
  BY <1>1, CacheInvariant, PTL

\* A retry within the TTL gets the cached response and runs nothing (idempotency.py:11-13)
\* as long as the process lives, fewer than MaxEntries answers were cached since, and no
\* request of the same key overlapped the first.
THEOREM Retries == Spec => RetryReplays
<1>1. ASSUME CacheInv, [Next]_vars
      PROVE  \A r \in Requests :
               pc[r] = "lookup" /\ KeyOf(r) \in DOMAIN latest =>
                 LET a == latest[KeyOf(r)] IN
                 a.lone /\ now - a.at <= Ttl /\ answers - a.body < MaxEntries
                   => /\ pc'[r] # "work"
                      /\ \E i \in Found(r) : store[i].body = a.body
  <2> SUFFICES ASSUME NEW r \in Requests, pc[r] = "lookup",
                      KeyOf(r) \in DOMAIN latest, latest[KeyOf(r)].lone,
                      now - latest[KeyOf(r)].at <= Ttl,
                      answers - latest[KeyOf(r)].body < MaxEntries
               PROVE  /\ pc'[r] # "work"
                      /\ \E i \in Found(r) : store[i].body = latest[KeyOf(r)].body
    BY Zenon
  <2> DEFINE p == latest[KeyOf(r)].body
  <2>1. ~ Expired(latest[KeyOf(r)])
    BY <1>1, SizesAssumption DEF Expired, CacheInv, Types
  <2>2. p \in DOMAIN store /\ store[p].key = KeyOf(r)
    BY <1>1, <2>1 DEF CacheInv, Held
  <2>3. store[p].at = latest[KeyOf(r)].at /\ store[p].body = p
    BY <1>1, <2>2 DEF CacheInv, Entries
  <2>4. p \in Found(r)
    BY <2>1, <2>2, <2>3 DEF Found, Expired
  <2>5. pc'[r] # "work"
    <3>1. ~ Miss(r)
      BY <2>4 DEF Miss
    <3>2. pc \in [Requests -> {"idle", "lookup", "work", "cache"}]
      BY <1>1 DEF CacheInv, Types
    <3>3. CASE Tick \/ Restart \/ UNCHANGED vars
      BY <1>1, <3>2, <3>3 DEF Tick, Restart, vars
    <3>4. ASSUME NEW q \in Requests,
                 Arrive(q) \/ Hit(q) \/ Miss(q) \/ Work(q) \/ WorkFails(q) \/ Put(q)
          PROVE  pc'[r] # "work"
      BY <1>1, <3>1, <3>2, <3>4 DEF Arrive, Hit, Miss, Work, WorkFails, Put
    <3>5. QED
      BY <1>1, <3>3, <3>4 DEF Next
  <2>6. QED
    BY <2>3, <2>4, <2>5
<1>2. QED
  BY <1>1, CacheInvariant, PTL DEF Spec, RetryReplays
=============================================================================
