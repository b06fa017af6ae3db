----------------------- MODULE InProcessQueue_proofs -----------------------
(***************************************************************************)
(* Proofs about the in-memory queue, for any number of messages, consumers *)
(* and delays, any capacity and any batches: what it accepted is accounted *)
(* for, its bound, its leases and its delays hold, and it implements       *)
(* WorkQueue.                                                              *)
(*                                                                         *)
(* The argument looks at the two lists as one, ready followed by delayed:  *)
(* a receive takes a prefix of it away, send and nack put something into   *)
(* its middle, and promotion and the clock leave it as it is.              *)
(***************************************************************************)
EXTENDS InProcessQueue, FiniteSetTheorems, SequenceTheorems, TLAPS

\* A sequence without the same element twice.
NoDup(q) == \A i, j \in DOMAIN q : q[i] = q[j] => i = j

MsgsOf(list) == [i \in 1..Len(list) |-> list[i].msg]
Waiting == ready \o MsgsOf(delayed)

Partition ==
  /\ NoDup(Waiting)
  /\ Rng(Waiting) \cap inFlight = {}
  /\ Rng(Waiting) \cap acked = {}
  /\ inFlight \cap acked = {}
  /\ sent = Rng(Waiting) \cup inFlight \cup acked

Finite == IsFiniteSet(inFlight) /\ IsFiniteSet(acked)

\* A receipt used again belongs to a message that was acked.
StaleAcked == \A c \in Consumers : stale[c] \subseteq acked

QueueInv == TypeOK /\ Finite /\ Partition /\ LeaseIntact /\ StaleAcked /\ WithinCapacity

-----------------------------------------------------------------------------
(* Sequences.                                                              *)

LEMMA ConcatFacts ==
  ASSUME NEW S, NEW s \in Seq(S), NEW t \in Seq(S)
  PROVE  /\ s \o t \in Seq(S)
         /\ Len(s \o t) = Len(s) + Len(t)
         /\ Rng(s \o t) = Rng(s) \cup Rng(t)
<1>1. /\ s \o t \in Seq(S) /\ Len(s \o t) = Len(s) + Len(t)
      /\ \A i \in 1..Len(s) + Len(t) :
           (s \o t)[i] = IF i <= Len(s) THEN s[i] ELSE t[i - Len(s)]
  BY ConcatProperties
<1>2. /\ DOMAIN s = 1..Len(s) /\ DOMAIN t = 1..Len(t)
      /\ DOMAIN (s \o t) = 1..(Len(s) + Len(t))
      /\ Len(s) \in Nat /\ Len(t) \in Nat
  BY <1>1, LenProperties
<1>3. ASSUME NEW x \in Rng(s \o t)  PROVE x \in Rng(s) \cup Rng(t)
  BY <1>1, <1>2 DEF Rng
<1>4. ASSUME NEW x \in Rng(s)  PROVE x \in Rng(s \o t)
  BY <1>1, <1>2 DEF Rng
<1>5. ASSUME NEW x \in Rng(t)  PROVE x \in Rng(s \o t)
  <2>1. PICK i \in 1..Len(t) : x = t[i]
    BY <1>2 DEF Rng
  <2>2. i + Len(s) \in 1..(Len(s) + Len(t)) /\ (s \o t)[i + Len(s)] = t[i]
    BY <1>1, <1>2
  <2>3. QED
    BY <2>1, <2>2, <1>2 DEF Rng
<1>6. QED
  BY <1>1, <1>3, <1>4, <1>5

\* What a sequence without duplicates is made of is disjoint and has none either.
LEMMA ConcatNoDup ==
  ASSUME NEW S, NEW s \in Seq(S), NEW t \in Seq(S)
  PROVE  NoDup(s \o t) <=> NoDup(s) /\ NoDup(t) /\ Rng(s) \cap Rng(t) = {}
<1>1. \A i \in 1..Len(s) + Len(t) :
        (s \o t)[i] = IF i <= Len(s) THEN s[i] ELSE t[i - Len(s)]
  BY ConcatProperties
<1>2. /\ DOMAIN s = 1..Len(s) /\ DOMAIN t = 1..Len(t)
      /\ DOMAIN (s \o t) = 1..(Len(s) + Len(t))
      /\ Len(s) \in Nat /\ Len(t) \in Nat
  BY ConcatProperties, LenProperties
<1>3. /\ \A i \in 1..Len(s) : i \in DOMAIN (s \o t) /\ (s \o t)[i] = s[i]
      /\ \A i \in 1..Len(t) : i + Len(s) \in DOMAIN (s \o t) /\ (s \o t)[i + Len(s)] = t[i]
  BY <1>1, <1>2
<1>4. ASSUME NoDup(s \o t)  PROVE NoDup(s) /\ NoDup(t) /\ Rng(s) \cap Rng(t) = {}
  <2>1. NoDup(s)
    BY <1>2, <1>3, <1>4 DEF NoDup
  <2>2. NoDup(t)
    <3>1. SUFFICES ASSUME NEW i \in 1..Len(t), NEW j \in 1..Len(t), t[i] = t[j]
                   PROVE  i = j
      BY <1>2 DEF NoDup
    <3>2. i + Len(s) = j + Len(s)
      BY <1>3, <1>4, <3>1 DEF NoDup
    <3>3. QED
      BY <1>2, <3>2
  <2>3. ASSUME NEW i \in 1..Len(s), NEW j \in 1..Len(t)  PROVE s[i] # t[j]
    <3>1. i # j + Len(s)
      BY <1>2
    <3>2. QED
      BY <1>3, <1>4, <3>1 DEF NoDup
  <2>4. QED
    BY <1>2, <2>1, <2>2, <2>3 DEF Rng
<1>5. ASSUME NoDup(s), NoDup(t), Rng(s) \cap Rng(t) = {}  PROVE NoDup(s \o t)
  <2>1. SUFFICES ASSUME NEW i \in 1..(Len(s) + Len(t)), NEW j \in 1..(Len(s) + Len(t)),
                        (s \o t)[i] = (s \o t)[j]
                 PROVE  i = j
    BY <1>2 DEF NoDup
  <2>2. CASE i <= Len(s) /\ j <= Len(s)
    BY <1>1, <1>2, <1>5, <2>1, <2>2 DEF NoDup
  <2>3. CASE ~ (i <= Len(s)) /\ ~ (j <= Len(s))
    <3>1. i - Len(s) \in DOMAIN t /\ j - Len(s) \in DOMAIN t
      BY <1>2, <2>3
    <3>2. t[i - Len(s)] = t[j - Len(s)]
      BY <1>1, <2>1, <2>3
    <3>3. i - Len(s) = j - Len(s)
      BY <1>5, <3>1, <3>2 DEF NoDup
    <3>4. QED
      BY <1>2, <3>3
  <2>4. CASE i <= Len(s) /\ ~ (j <= Len(s))
    <3>1. i \in DOMAIN s /\ j - Len(s) \in DOMAIN t /\ s[i] = t[j - Len(s)]
      BY <1>1, <1>2, <2>1, <2>4
    <3>2. QED
      BY <1>5, <3>1 DEF Rng
  <2>5. CASE ~ (i <= Len(s)) /\ j <= Len(s)
    <3>1. j \in DOMAIN s /\ i - Len(s) \in DOMAIN t /\ s[j] = t[i - Len(s)]
      BY <1>1, <1>2, <2>1, <2>5
    <3>2. QED
      BY <1>5, <3>1 DEF Rng
  <2>6. QED
    BY <2>2, <2>3, <2>4, <2>5
<1>6. QED
  BY <1>4, <1>5

\* Both in one, to be cited where a goal needs both.
LEMMA Glue ==
  ASSUME NEW S, NEW s \in Seq(S), NEW t \in Seq(S)
  PROVE  /\ s \o t \in Seq(S)
         /\ Len(s \o t) = Len(s) + Len(t)
         /\ Rng(s \o t) = Rng(s) \cup Rng(t)
         /\ NoDup(s \o t) <=> NoDup(s) /\ NoDup(t) /\ Rng(s) \cap Rng(t) = {}
<1>1. /\ s \o t \in Seq(S)
      /\ Len(s \o t) = Len(s) + Len(t)
      /\ Rng(s \o t) = Rng(s) \cup Rng(t)
  BY ConcatFacts
<1>2. NoDup(s \o t) <=> NoDup(s) /\ NoDup(t) /\ Rng(s) \cap Rng(t) = {}
  BY ConcatNoDup
<1>3. QED
  BY <1>1, <1>2

\* Cut in two, and put together again.
LEMMA Cut ==
  ASSUME NEW S, NEW q \in Seq(S), NEW k \in 0..Len(q)
  PROVE  /\ SubSeq(q, 1, k) \in Seq(S) /\ Len(SubSeq(q, 1, k)) = k
         /\ SubSeq(q, k + 1, Len(q)) \in Seq(S)
         /\ Len(SubSeq(q, k + 1, Len(q))) = Len(q) - k
         /\ SubSeq(q, 1, k) \o SubSeq(q, k + 1, Len(q)) = q
         /\ \A i \in 1..k : SubSeq(q, 1, k)[i] = q[i]
         /\ \A i \in 1..(Len(q) - k) : SubSeq(q, k + 1, Len(q))[i] = q[k + i]
<1>1. Len(q) \in Nat /\ q \in [1..Len(q) -> S] /\ k \in Int
  BY LenProperties
<1>2. /\ SubSeq(q, 1, k) \in Seq(S) /\ Len(SubSeq(q, 1, k)) = k
      /\ \A i \in 1..k : SubSeq(q, 1, k)[i] = q[i]
  <2>1. \A i \in 1..k : q[i] \in S
    BY <1>1
  <2>2. /\ SubSeq(q, 1, k) \in Seq(S)
        /\ Len(SubSeq(q, 1, k)) = IF 1 <= k THEN k - 1 + 1 ELSE 0
        /\ \A i \in 1..(k - 1 + 1) : SubSeq(q, 1, k)[i] = q[1 + i - 1]
    BY <1>1, <2>1, SubSeqProperties
  <2>3. QED
    BY <1>1, <2>2
<1>3. /\ SubSeq(q, k + 1, Len(q)) \in Seq(S)
      /\ Len(SubSeq(q, k + 1, Len(q))) = Len(q) - k
      /\ \A i \in 1..(Len(q) - k) : SubSeq(q, k + 1, Len(q))[i] = q[k + i]
  <2>1. \A i \in (k + 1)..Len(q) : q[i] \in S
    BY <1>1
  <2>2. /\ SubSeq(q, k + 1, Len(q)) \in Seq(S)
        /\ Len(SubSeq(q, k + 1, Len(q))) =
             IF k + 1 <= Len(q) THEN Len(q) - (k + 1) + 1 ELSE 0
        /\ \A i \in 1..(Len(q) - (k + 1) + 1) :
             SubSeq(q, k + 1, Len(q))[i] = q[(k + 1) + i - 1]
    BY <1>1, <2>1, SubSeqProperties
  <2>3. QED
    BY <1>1, <2>2
<1> DEFINE p == SubSeq(q, 1, k)  r == SubSeq(q, k + 1, Len(q))
<1> HIDE DEF p, r
<1>4. /\ p \o r \in Seq(S) /\ Len(p \o r) = Len(q)
      /\ \A i \in 1..Len(q) : (p \o r)[i] = IF i <= k THEN p[i] ELSE r[i - k]
  <2>1. p \in Seq(S) /\ r \in Seq(S) /\ Len(p) = k /\ Len(r) = Len(q) - k
    BY <1>2, <1>3 DEF p, r
  <2>2. Len(p) + Len(r) = Len(q)
    BY <1>1, <2>1
  <2>3. QED
    BY <2>1, <2>2, ConcatProperties
<1>5. \A i \in 1..Len(q) : (p \o r)[i] = q[i]
  <2>1. ASSUME NEW i \in 1..Len(q), i <= k  PROVE (p \o r)[i] = q[i]
    <3>1. i \in 1..k
      BY <1>1, <2>1
    <3>2. QED
      BY <1>2, <1>4, <2>1, <3>1 DEF p
  <2>2. ASSUME NEW i \in 1..Len(q), ~ (i <= k)  PROVE (p \o r)[i] = q[i]
    <3>1. i - k \in 1..(Len(q) - k) /\ k + (i - k) = i
      BY <1>1, <2>2
    <3>2. r[i - k] = q[k + (i - k)]
      BY <1>3, <3>1 DEF r
    <3>3. QED
      BY <1>4, <2>2, <3>1, <3>2
  <2>3. QED
    BY <2>1, <2>2
<1>6. p \o r = q
  BY <1>1, <1>4, <1>5, SeqEqual
<1>7. QED
  BY <1>2, <1>3, <1>6 DEF p, r

\* As many elements as places.
LEMMA NoDupCounts ==
  ASSUME NEW S, NEW q \in Seq(S), NoDup(q)
  PROVE  IsFiniteSet(Rng(q)) /\ Cardinality(Rng(q)) = Len(q)
<1>1. Len(q) \in Nat /\ q \in [1..Len(q) -> S] /\ DOMAIN q = 1..Len(q)
  BY LenProperties
<1>2. Rng(q) = {q[i] : i \in 1..Len(q)}
  BY <1>1 DEF Rng
<1>3. q \in [1..Len(q) -> Rng(q)]
  BY <1>1, <1>2
<1>4. q \in Injection(1..Len(q), Rng(q))
  BY <1>1, <1>3 DEF Injection, IsInjective, NoDup
<1>5. q \in Surjection(1..Len(q), Rng(q))
  BY <1>2, <1>3 DEF Surjection
<1>6. ExistsBijection(1..Len(q), Rng(q))
  BY <1>4, <1>5 DEF ExistsBijection, Bijection
<1>7. IsFiniteSet(1..Len(q)) /\ Cardinality(1..Len(q)) = Len(q)
  BY <1>1, FS_Interval
<1>8. QED
  BY <1>6, <1>7, FS_Bijection
-----------------------------------------------------------------------------
(* The two lists as one.                                                   *)

Entries == [left : Nat, msg : Msgs]

LEMMA ListFacts ==
  ASSUME NEW d \in Seq(Entries)
  PROVE  /\ MsgsOf(d) \in Seq(Msgs)
         /\ Len(MsgsOf(d)) = Len(d) /\ Len(d) \in Nat
         /\ DOMAIN d = 1..Len(d)
         /\ \A i \in 1..Len(d) : MsgsOf(d)[i] = d[i].msg
         /\ Rng(MsgsOf(d)) = {d[i].msg : i \in DOMAIN d}
<1>1. Len(d) \in Nat /\ DOMAIN d = 1..Len(d) /\ \A i \in 1..Len(d) : d[i] \in Entries
  BY LenProperties
<1>2. MsgsOf(d) \in Seq(Msgs) /\ Len(MsgsOf(d)) = Len(d)
  BY <1>1 DEF MsgsOf, Entries
<1>3. \A i \in 1..Len(d) : MsgsOf(d)[i] = d[i].msg
  BY DEF MsgsOf
<1>4. DOMAIN MsgsOf(d) = 1..Len(d)
  BY DEF MsgsOf
<1>5. QED
  BY <1>1, <1>2, <1>3, <1>4 DEF Rng

LEMMA ListConcat ==
  ASSUME NEW d \in Seq(Entries), NEW e \in Seq(Entries)
  PROVE  MsgsOf(d \o e) = MsgsOf(d) \o MsgsOf(e)
<1>1. /\ MsgsOf(d \o e) \in Seq(Msgs) /\ Len(MsgsOf(d \o e)) = Len(d) + Len(e)
      /\ MsgsOf(d) \o MsgsOf(e) \in Seq(Msgs)
      /\ Len(MsgsOf(d) \o MsgsOf(e)) = Len(d) + Len(e)
  <2>1. d \o e \in Seq(Entries) /\ Len(d \o e) = Len(d) + Len(e)
    BY ConcatProperties
  <2>2. /\ MsgsOf(d) \in Seq(Msgs) /\ Len(MsgsOf(d)) = Len(d)
        /\ MsgsOf(e) \in Seq(Msgs) /\ Len(MsgsOf(e)) = Len(e)
    BY ListFacts
  <2>3. /\ MsgsOf(d) \o MsgsOf(e) \in Seq(Msgs)
        /\ Len(MsgsOf(d) \o MsgsOf(e)) = Len(d) + Len(e)
    <3>1. /\ MsgsOf(d) \o MsgsOf(e) \in Seq(Msgs)
          /\ Len(MsgsOf(d) \o MsgsOf(e)) = Len(MsgsOf(d)) + Len(MsgsOf(e))
      BY <2>2, ConcatFacts
    <3>2. QED
      BY <2>2, <3>1
  <2>4. QED
    BY <2>1, <2>3, ListFacts
<1>2. ASSUME NEW i \in 1..(Len(d) + Len(e))
      PROVE  MsgsOf(d \o e)[i] = (MsgsOf(d) \o MsgsOf(e))[i]
  <2>1. /\ d \o e \in Seq(Entries) /\ Len(d \o e) = Len(d) + Len(e)
        /\ (d \o e)[i] = IF i <= Len(d) THEN d[i] ELSE e[i - Len(d)]
    BY ConcatProperties
  <2>2. MsgsOf(d \o e)[i] = (d \o e)[i].msg
    BY <2>1, ListFacts
  <2>3. (MsgsOf(d) \o MsgsOf(e))[i] =
          IF i <= Len(d) THEN MsgsOf(d)[i] ELSE MsgsOf(e)[i - Len(d)]
    BY ListFacts, ConcatProperties
  <2>4. Len(d) \in Nat /\ Len(e) \in Nat
    BY ListFacts
  <2>5. CASE i <= Len(d)
    <3>1. i \in 1..Len(d)
      BY <2>4, <2>5
    <3>2. MsgsOf(d)[i] = d[i].msg
      BY <3>1, ListFacts
    <3>3. QED
      BY <2>1, <2>2, <2>3, <2>5, <3>2
  <2>6. CASE ~ (i <= Len(d))
    <3>1. i - Len(d) \in 1..Len(e)
      BY <2>4, <2>6
    <3>2. MsgsOf(e)[i - Len(d)] = e[i - Len(d)].msg
      BY <3>1, ListFacts
    <3>3. QED
      BY <2>1, <2>2, <2>3, <2>6, <3>2
  <2>7. QED
    BY <2>5, <2>6
<1>3. QED
  BY <1>1, <1>2, SeqEqual

LEMMA WaitingFacts ==
  ASSUME TypeOK
  PROVE  /\ ready \in Seq(Msgs) /\ delayed \in Seq(Entries)
         /\ Waiting \in Seq(Msgs)
         /\ Len(Waiting) = Len(ready) + Len(delayed)
         /\ Len(ready) \in Nat /\ Len(delayed) \in Nat
         /\ Rng(Waiting) = ReadySet \cup DelayedSet
         /\ Rng(Waiting) \subseteq Msgs
<1>1. ready \in Seq(Msgs) /\ delayed \in Seq(Entries)
  BY DEF TypeOK, Entries
<1>2. /\ MsgsOf(delayed) \in Seq(Msgs) /\ Len(MsgsOf(delayed)) = Len(delayed)
      /\ Rng(MsgsOf(delayed)) = DelayedSet /\ Len(delayed) \in Nat
  BY <1>1, ListFacts DEF DelayedSet
<1>3. /\ Waiting \in Seq(Msgs) /\ Len(Waiting) = Len(ready) + Len(delayed)
      /\ Rng(Waiting) = ReadySet \cup DelayedSet
  BY <1>1, <1>2, ConcatFacts DEF Waiting, ReadySet
<1>4. Len(ready) \in Nat /\ Rng(Waiting) \subseteq Msgs
  BY <1>1, <1>3, LenProperties DEF Rng
<1>5. QED
  BY <1>1, <1>2, <1>3, <1>4

LEMMA DueFacts ==
  ASSUME TypeOK
  PROVE  DueCount \in 0..Len(delayed)
<1>1. delayed \in Seq(Entries) /\ Len(delayed) \in Nat /\ DOMAIN delayed = 1..Len(delayed)
  BY WaitingFacts, LenProperties
<1>2. IsFiniteSet(1..Len(delayed)) /\ Cardinality(1..Len(delayed)) = Len(delayed)
  BY <1>1, FS_Interval
<1> DEFINE due == {i \in DOMAIN delayed : \A j \in 1..i : delayed[j].left = 0}
<1>3. due \in SUBSET (1..Len(delayed))
  BY <1>1
<1>4. IsFiniteSet(due) /\ Cardinality(due) <= Len(delayed) /\ Cardinality(due) \in Nat
  BY <1>2, <1>3, FS_Subset, FS_CardinalityType
<1>5. QED
  BY <1>1, <1>4 DEF DueCount

\* Promotion moves the bound between the two lists.
LEMMA PromotionFacts ==
  ASSUME TypeOK
  PROVE  /\ Promoted \in Seq(Msgs) /\ StillDelayed \in Seq(Entries)
         /\ Len(Promoted) + Len(StillDelayed) = Len(Waiting)
         /\ Rng(Waiting) = Rng(Promoted) \cup Rng(MsgsOf(StillDelayed))
         /\ NoDup(Waiting) => /\ NoDup(Promoted) /\ NoDup(MsgsOf(StillDelayed))
                             /\ Rng(Promoted) \cap Rng(MsgsOf(StillDelayed)) = {}
<1> DEFINE due == SubSeq(delayed, 1, DueCount)
<1>1. /\ due \in Seq(Entries) /\ Len(due) = DueCount
      /\ StillDelayed \in Seq(Entries) /\ Len(StillDelayed) = Len(delayed) - DueCount
      /\ due \o StillDelayed = delayed
      /\ \A i \in 1..DueCount : due[i] = delayed[i]
  BY WaitingFacts, DueFacts, Cut DEF StillDelayed
<1>2. DueCount \in Nat /\ ready \in Seq(Msgs) /\ Len(ready) \in Nat /\ Len(delayed) \in Nat
  BY WaitingFacts, DueFacts
<1>3. MsgsOf(due) = [i \in 1..DueCount |-> delayed[i].msg]
  BY <1>1 DEF MsgsOf
<1>4. Promoted = ready \o MsgsOf(due)
  BY <1>3 DEF Promoted
<1> HIDE DEF due
<1>5. MsgsOf(delayed) = MsgsOf(due) \o MsgsOf(StillDelayed)
  BY <1>1, ListConcat
<1>6. /\ MsgsOf(due) \in Seq(Msgs) /\ MsgsOf(StillDelayed) \in Seq(Msgs)
      /\ Len(MsgsOf(due)) = DueCount /\ Len(MsgsOf(StillDelayed)) = Len(StillDelayed)
  BY <1>1, ListFacts
<1>7. /\ Promoted \in Seq(Msgs) /\ Len(Promoted) = Len(ready) + DueCount
      /\ Rng(Promoted) = Rng(ready) \cup Rng(MsgsOf(due))
      /\ NoDup(Promoted) <=> /\ NoDup(ready) /\ NoDup(MsgsOf(due))
                            /\ Rng(ready) \cap Rng(MsgsOf(due)) = {}
  <2>1. /\ ready \o MsgsOf(due) \in Seq(Msgs)
        /\ Len(ready \o MsgsOf(due)) = Len(ready) + Len(MsgsOf(due))
        /\ Rng(ready \o MsgsOf(due)) = Rng(ready) \cup Rng(MsgsOf(due))
    BY <1>2, <1>6, ConcatFacts
  <2>2. NoDup(ready \o MsgsOf(due)) <=> /\ NoDup(ready) /\ NoDup(MsgsOf(due))
                                        /\ Rng(ready) \cap Rng(MsgsOf(due)) = {}
    BY <1>2, <1>6, ConcatNoDup
  <2>3. QED
    BY <1>4, <1>6, <2>1, <2>2
<1>8. /\ MsgsOf(delayed) \in Seq(Msgs)
      /\ Rng(MsgsOf(delayed)) = Rng(MsgsOf(due)) \cup Rng(MsgsOf(StillDelayed))
      /\ NoDup(MsgsOf(delayed)) <=>
           /\ NoDup(MsgsOf(due)) /\ NoDup(MsgsOf(StillDelayed))
           /\ Rng(MsgsOf(due)) \cap Rng(MsgsOf(StillDelayed)) = {}
  BY <1>5, <1>6, ConcatFacts, ConcatNoDup
<1>9. /\ Rng(Waiting) = Rng(ready) \cup Rng(MsgsOf(delayed))
      /\ NoDup(Waiting) <=> /\ NoDup(ready) /\ NoDup(MsgsOf(delayed))
                           /\ Rng(ready) \cap Rng(MsgsOf(delayed)) = {}
  BY <1>2, <1>8, ConcatFacts, ConcatNoDup DEF Waiting
<1>10. Len(Promoted) + Len(StillDelayed) = Len(Waiting)
  <2>1. Len(Waiting) = Len(ready) + Len(delayed)
    BY WaitingFacts
  <2>2. /\ Len(Promoted) = Len(ready) + DueCount
        /\ Len(StillDelayed) = Len(delayed) - DueCount
    BY <1>1, <1>7
  <2>3. QED
    BY <1>2, <2>1, <2>2
<1>11. QED
  BY <1>1, <1>7, <1>8, <1>9, <1>10
-----------------------------------------------------------------------------
(* What each operation does to the two lists.                              *)

\* A sequence put into the middle of another.
LEMMA MiddleFacts ==
  ASSUME NEW S, NEW s \in Seq(S), NEW t \in Seq(S), NEW u \in Seq(S)
  PROVE  /\ s \o t \in Seq(S)
         /\ (s \o t) \o u \in Seq(S)
         /\ Rng((s \o t) \o u) = Rng(s) \cup Rng(t) \cup Rng(u)
         /\ Len((s \o t) \o u) = Len(s) + Len(t) + Len(u)
         /\ NoDup((s \o t) \o u) <=>
              /\ NoDup(s) /\ NoDup(t) /\ NoDup(u)
              /\ Rng(s) \cap Rng(t) = {} /\ (Rng(s) \cup Rng(t)) \cap Rng(u) = {}
<1>1. PICK v : v = s \o t
  OBVIOUS
<1>2. v \in Seq(S) /\ Len(v) = Len(s) + Len(t) /\ Rng(v) = Rng(s) \cup Rng(t)
  BY <1>1, ConcatFacts
<1>3. NoDup(v) <=> NoDup(s) /\ NoDup(t) /\ Rng(s) \cap Rng(t) = {}
  BY <1>1, ConcatNoDup
<1>4. v \in Seq(S)
  BY <1>2
<1>5. v \o u \in Seq(S) /\ Len(v \o u) = Len(v) + Len(u) /\ Rng(v \o u) = Rng(v) \cup Rng(u)
  BY <1>4, ConcatFacts
<1>6. NoDup(v \o u) <=> NoDup(v) /\ NoDup(u) /\ Rng(v) \cap Rng(u) = {}
  BY <1>4, ConcatNoDup
<1>7. Rng(v \o u) = Rng(s) \cup Rng(t) \cup Rng(u) /\ Len(v \o u) = Len(s) + Len(t) + Len(u)
  BY <1>2, <1>5
<1>8. NoDup(v \o u) <=> /\ NoDup(s) /\ NoDup(t) /\ NoDup(u)
                       /\ Rng(s) \cap Rng(t) = {} /\ (Rng(s) \cup Rng(t)) \cap Rng(u) = {}
  BY <1>2, <1>3, <1>6
<1>9. QED
  BY <1>1, <1>4, <1>5, <1>7, <1>8, Zenon

\* send puts the batch between the lists.
LEMMA SendAdds ==
  ASSUME TypeOK, NoDup(Waiting), NEW b \in Batches, Send(b), Rng(b) \cap Rng(Waiting) = {}
  PROVE  /\ b \in Seq(Msgs) /\ Rng(b) \subseteq Msgs
         /\ IsFiniteSet(Rng(b)) /\ Cardinality(Rng(b)) = Len(b)
         /\ ready' \in Seq(Msgs) /\ NoDup(Waiting')
         /\ Rng(Waiting') = Rng(Waiting) \cup Rng(b)
         /\ Len(Waiting') = Len(Waiting) + Len(b)
<1>1. b \in Seq(Msgs) /\ NoDup(b)
  BY BatchesAssumption DEF NoDup
<1>2. Rng(b) \subseteq Msgs
  BY <1>1, LenProperties DEF Rng
<1>3. IsFiniteSet(Rng(b)) /\ Cardinality(Rng(b)) = Len(b)
  BY <1>1, NoDupCounts
<1>4. /\ ready \in Seq(Msgs) /\ MsgsOf(delayed) \in Seq(Msgs)
      /\ Len(MsgsOf(delayed)) = Len(delayed)
  BY WaitingFacts, ListFacts
<1>5. /\ NoDup(ready) /\ NoDup(MsgsOf(delayed)) /\ Rng(ready) \cap Rng(MsgsOf(delayed)) = {}
      /\ Rng(Waiting) = Rng(ready) \cup Rng(MsgsOf(delayed))
      /\ Len(Waiting) = Len(ready) + Len(MsgsOf(delayed))
  BY <1>4, ConcatNoDup, ConcatFacts DEF Waiting
<1>6. ready' = ready \o b /\ Waiting' = (ready \o b) \o MsgsOf(delayed)
  BY DEF Send, Waiting, MsgsOf
<1>7. ready' \in Seq(Msgs)
  BY <1>1, <1>4, <1>6, ConcatFacts
<1>8. /\ NoDup(Waiting') /\ Rng(Waiting') = Rng(ready) \cup Rng(b) \cup Rng(MsgsOf(delayed))
      /\ Len(Waiting') = Len(ready) + Len(b) + Len(MsgsOf(delayed))
  <2>1. /\ NoDup((ready \o b) \o MsgsOf(delayed)) <=>
             /\ NoDup(ready) /\ NoDup(b) /\ NoDup(MsgsOf(delayed))
             /\ Rng(ready) \cap Rng(b) = {}
             /\ (Rng(ready) \cup Rng(b)) \cap Rng(MsgsOf(delayed)) = {}
        /\ Rng((ready \o b) \o MsgsOf(delayed)) = Rng(ready) \cup Rng(b) \cup Rng(MsgsOf(delayed))
        /\ Len((ready \o b) \o MsgsOf(delayed)) = Len(ready) + Len(b) + Len(MsgsOf(delayed))
    <3>1. PICK u : u = MsgsOf(delayed)
      OBVIOUS
    <3>2. b \in Seq(Msgs) /\ ready \in Seq(Msgs) /\ u \in Seq(Msgs)
      BY <1>1, <1>4, <3>1
    <3>3. /\ NoDup((ready \o b) \o u) <=>
               /\ NoDup(ready) /\ NoDup(b) /\ NoDup(u)
               /\ Rng(ready) \cap Rng(b) = {}
               /\ (Rng(ready) \cup Rng(b)) \cap Rng(u) = {}
          /\ Rng((ready \o b) \o u) = Rng(ready) \cup Rng(b) \cup Rng(u)
          /\ Len((ready \o b) \o u) = Len(ready) + Len(b) + Len(u)
      BY <3>2, MiddleFacts
    <3>4. QED
      BY <3>1, <3>3, Zenon
  <2>2. /\ Rng(ready) \cap Rng(b) = {}
        /\ (Rng(ready) \cup Rng(b)) \cap Rng(MsgsOf(delayed)) = {}
    BY <1>5
  <2>3. QED
    BY <1>1, <1>5, <1>6, <2>1, <2>2, Zenon
<1>9. Len(ready) \in Nat /\ Len(b) \in Nat /\ Len(delayed) \in Nat
  BY <1>1, WaitingFacts, LenProperties
<1>10. QED
  BY <1>1, <1>2, <1>3, <1>4, <1>5, <1>7, <1>8, <1>9

\* receive takes a prefix away, as many messages as places.
LEMMA ReceiveTakes ==
  ASSUME TypeOK, NoDup(Waiting), NEW c \in Consumers, NEW n \in 1..MaxItems, Receive(c, n)
  PROVE  \E out \in SUBSET Msgs :
           /\ out # {} /\ out \subseteq Rng(Waiting) /\ IsFiniteSet(out)
           /\ ready' \in Seq(Msgs) /\ delayed' \in Seq(Entries) /\ NoDup(Waiting')
           /\ Rng(Waiting') = Rng(Waiting) \ out
           /\ Len(Waiting') = Len(Waiting) - Cardinality(out)
           /\ inFlight' = inFlight \cup out
           /\ attempts' = [m \in Msgs |-> IF m \in out /\ attempts[m] < AttemptCap
                                         THEN attempts[m] + 1 ELSE attempts[m]]
           /\ mine' = [mine EXCEPT ![c] = @ \cup out]
           /\ holder' = [m \in Msgs |-> IF m \in out THEN c ELSE holder[m]]
<1> DEFINE k == IF n <= Len(Promoted) THEN n ELSE Len(Promoted)
           out == {Promoted[i] : i \in 1..k}
           head == SubSeq(Promoted, 1, k)
           rest == SubSeq(Promoted, k + 1, Len(Promoted))
           M == MsgsOf(StillDelayed)
<1>1. /\ k > 0 /\ ready' = rest /\ delayed' = StillDelayed
      /\ inFlight' = inFlight \cup out
      /\ attempts' = [m \in Msgs |-> IF m \in out /\ attempts[m] < AttemptCap
                                    THEN attempts[m] + 1 ELSE attempts[m]]
      /\ mine' = [mine EXCEPT ![c] = @ \cup out]
      /\ holder' = [m \in Msgs |-> IF m \in out THEN c ELSE holder[m]]
  BY DEF Receive
<1>2. /\ Promoted \in Seq(Msgs) /\ StillDelayed \in Seq(Entries)
      /\ Len(Promoted) + Len(StillDelayed) = Len(Waiting)
      /\ Rng(Waiting) = Rng(Promoted) \cup Rng(M)
      /\ NoDup(Promoted) /\ NoDup(M) /\ Rng(Promoted) \cap Rng(M) = {}
  BY PromotionFacts
<1>3. Len(Promoted) \in Nat /\ k \in 0..Len(Promoted)
  BY <1>1, <1>2, LenProperties, SizesAssumption
<1>4. /\ head \in Seq(Msgs) /\ Len(head) = k
      /\ rest \in Seq(Msgs) /\ Len(rest) = Len(Promoted) - k
      /\ head \o rest = Promoted
      /\ \A i \in 1..k : head[i] = Promoted[i]
  <2>1. PICK P, K : P = Promoted /\ K = k
    OBVIOUS
  <2>2. P \in Seq(Msgs) /\ K \in 0..Len(P)
    BY <1>2, <1>3, <2>1
  <2>3. /\ SubSeq(P, 1, K) \in Seq(Msgs) /\ Len(SubSeq(P, 1, K)) = K
        /\ SubSeq(P, K + 1, Len(P)) \in Seq(Msgs)
        /\ Len(SubSeq(P, K + 1, Len(P))) = Len(P) - K
        /\ SubSeq(P, 1, K) \o SubSeq(P, K + 1, Len(P)) = P
        /\ \A i \in 1..K : SubSeq(P, 1, K)[i] = P[i]
    BY <2>2, Cut
  <2> HIDE DEF k
  <2>4. QED
    BY <2>1, <2>3, Zenon
<1>5. Rng(head) = out
  <2>1. DOMAIN head = 1..k
    BY <1>4, LenProperties
  <2>2. QED
    BY <1>4, <2>1 DEF Rng
<1>6. /\ M \in Seq(Msgs) /\ Len(M) = Len(StillDelayed) /\ Len(StillDelayed) \in Nat
  BY <1>2, ListFacts
<1>7. out # {}
  <2>1. 1 \in 1..k
    BY <1>1, <1>3
  <2>2. Promoted[1] \in out
    BY <2>1
  <2>3. QED
    BY <2>2
<1>8. Waiting' = rest \o M
  BY <1>1 DEF Waiting, MsgsOf
<1> HIDE DEF k, out, head, rest, M
<1>9. /\ Rng(Promoted) = Rng(head) \cup Rng(rest)
      /\ NoDup(head) /\ NoDup(rest) /\ Rng(head) \cap Rng(rest) = {}
  <2>1. Rng(head \o rest) = Rng(head) \cup Rng(rest)
    <3>1. head \in Seq(Msgs) /\ rest \in Seq(Msgs)
      BY <1>4
    <3>2. QED
      BY <3>1, ConcatFacts
  <2>2. NoDup(head \o rest) => NoDup(head) /\ NoDup(rest) /\ Rng(head) \cap Rng(rest) = {}
    <3>1. head \in Seq(Msgs) /\ rest \in Seq(Msgs)
      BY <1>4
    <3>2. QED
      BY <3>1, ConcatNoDup
  <2>3. QED
    BY <1>2, <1>4, <2>1, <2>2, Zenon
<1>10. IsFiniteSet(out) /\ Cardinality(out) = k
  BY <1>4, <1>5, <1>9, NoDupCounts
<1>11. /\ NoDup(rest \o M) /\ Rng(rest \o M) = Rng(rest) \cup Rng(M)
       /\ Len(rest \o M) = Len(rest) + Len(M)
  BY <1>2, <1>4, <1>6, <1>9, ConcatFacts, ConcatNoDup
<1>12. Rng(Waiting') = Rng(Waiting) \ out
  BY <1>2, <1>5, <1>8, <1>9, <1>11
<1>13. Len(Waiting') = Len(Waiting) - Cardinality(out)
  BY <1>2, <1>3, <1>4, <1>6, <1>8, <1>10, <1>11
<1>14. out \subseteq Rng(Waiting) /\ Rng(Waiting) \subseteq Msgs
  BY <1>2, <1>5, <1>9, WaitingFacts
<1>15. QED
  BY <1>1, <1>2, <1>4, <1>7, <1>8, <1>10, <1>11, <1>12, <1>13, <1>14

\* nack puts the entry into the middle of delayed.
LEMMA NackAdds ==
  ASSUME TypeOK, NoDup(Waiting), NEW m \in Msgs, m \notin Rng(Waiting), NEW l \in Nat,
         delayed' = InsertDelayed([left |-> l, msg |-> m]), ready' = ready
  PROVE  /\ delayed' \in Seq(Entries) /\ NoDup(Waiting')
         /\ Rng(Waiting') = Rng(Waiting) \cup {m}
         /\ Len(Waiting') = Len(Waiting) + 1
<1>1. PICK e : e = [left |-> l, msg |-> m]
  OBVIOUS
<1>2. e \in Entries /\ e.msg = m
  BY <1>1 DEF Entries
<1>3. PICK before : before = {i \in DOMAIN delayed : delayed[i].left <= e.left}
  OBVIOUS
<1>4. PICK k : k = Cardinality(before)
  OBVIOUS
<1>5. /\ delayed \in Seq(Entries) /\ ready \in Seq(Msgs)
      /\ Len(delayed) \in Nat /\ Len(ready) \in Nat /\ DOMAIN delayed = 1..Len(delayed)
  BY WaitingFacts, LenProperties
<1>6. k \in 0..Len(delayed)
  <2>1. IsFiniteSet(1..Len(delayed)) /\ Cardinality(1..Len(delayed)) = Len(delayed)
    <3>1. PICK N \in Nat : N = Len(delayed)
      BY <1>5
    <3>2. IsFiniteSet(1..N) /\ Cardinality(1..N) = N
      BY FS_Interval
    <3>3. QED
      BY <3>1, <3>2, Zenon
  <2>2. before \in SUBSET (1..Len(delayed))
    BY <1>3, <1>5
  <2>3. k <= Len(delayed) /\ k \in Nat
    BY <1>4, <2>1, <2>2, FS_Subset, FS_CardinalityType
  <2>4. QED
    BY <1>5, <2>3
<1>7. PICK x, y : x = SubSeq(delayed, 1, k) /\ y = SubSeq(delayed, k + 1, Len(delayed))
  OBVIOUS
<1>8. x \in Seq(Entries) /\ y \in Seq(Entries) /\ x \o y = delayed
  BY <1>5, <1>6, <1>7, Cut
<1>9. delayed' = (x \o <<e>>) \o y
  BY <1>1, <1>3, <1>4, <1>7 DEF InsertDelayed
<1>10. <<e>> \in Seq(Entries) /\ MsgsOf(<<e>>) = <<m>>
  BY <1>2 DEF MsgsOf
<1>11. /\ <<m>> \in Seq(Msgs) /\ Rng(<<m>>) = {m} /\ NoDup(<<m>>) /\ Len(<<m>>) = 1
  BY DEF Rng, NoDup
<1>12. delayed' \in Seq(Entries) /\ x \o <<e>> \in Seq(Entries)
  <2>1. x \in Seq(Entries) /\ <<e>> \in Seq(Entries) /\ y \in Seq(Entries)
    BY <1>8, <1>10
  <2>2. x \o <<e>> \in Seq(Entries) /\ (x \o <<e>>) \o y \in Seq(Entries)
    BY <2>1, MiddleFacts, Zenon
  <2>3. QED
    BY <1>9, <2>2
<1>13. PICK p, q : p = MsgsOf(x) /\ q = MsgsOf(y)
  OBVIOUS
<1>14. p \in Seq(Msgs) /\ q \in Seq(Msgs)
  BY <1>8, <1>13, ListFacts
<1>15. MsgsOf(delayed) = p \o q
  BY <1>8, <1>13, ListConcat
<1>16. MsgsOf(delayed') = (p \o <<m>>) \o q
  <2>1. MsgsOf(x \o <<e>>) = p \o <<m>>
    BY <1>8, <1>10, <1>13, ListConcat
  <2>2. MsgsOf((x \o <<e>>) \o y) = MsgsOf(x \o <<e>>) \o q
    BY <1>8, <1>12, <1>13, ListConcat
  <2>3. QED
    BY <1>9, <2>1, <2>2
<1>17. PICK z, o : z = (p \o o) \o q /\ o = <<m>>
  OBVIOUS
<1>18. /\ z \in Seq(Msgs) /\ Rng(z) = Rng(p) \cup Rng(o) \cup Rng(q)
       /\ Len(z) = Len(p) + Len(o) + Len(q)
       /\ NoDup(z) <=> /\ NoDup(p) /\ NoDup(o) /\ NoDup(q)
                      /\ Rng(p) \cap Rng(o) = {}
                      /\ (Rng(p) \cup Rng(o)) \cap Rng(q) = {}
  <2>1. p \in Seq(Msgs) /\ o \in Seq(Msgs) /\ q \in Seq(Msgs)
    BY <1>11, <1>14, <1>17
  <2>2. /\ (p \o o) \o q \in Seq(Msgs)
        /\ Rng((p \o o) \o q) = Rng(p) \cup Rng(o) \cup Rng(q)
        /\ Len((p \o o) \o q) = Len(p) + Len(o) + Len(q)
        /\ NoDup((p \o o) \o q) <=> /\ NoDup(p) /\ NoDup(o) /\ NoDup(q)
                      /\ Rng(p) \cap Rng(o) = {}
                      /\ (Rng(p) \cup Rng(o)) \cap Rng(q) = {}
    BY <2>1, MiddleFacts
  <2>3. QED
    BY <1>17, <2>2, Zenon
<1>19. Waiting = ready \o (p \o q) /\ Waiting' = ready \o z
  BY <1>15, <1>16, <1>17 DEF Waiting, MsgsOf
<1>20. PICK pq : pq = p \o q
  OBVIOUS
<1>21. /\ pq \in Seq(Msgs) /\ Len(pq) = Len(p) + Len(q) /\ Rng(pq) = Rng(p) \cup Rng(q)
       /\ NoDup(pq) <=> NoDup(p) /\ NoDup(q) /\ Rng(p) \cap Rng(q) = {}
  <2>1. /\ p \o q \in Seq(Msgs) /\ Len(p \o q) = Len(p) + Len(q)
        /\ Rng(p \o q) = Rng(p) \cup Rng(q)
        /\ NoDup(p \o q) <=> NoDup(p) /\ NoDup(q) /\ Rng(p) \cap Rng(q) = {}
    BY <1>14, Glue
  <2>2. QED
    BY <1>20, <2>1, Zenon
<1>22. /\ Len(Waiting) = Len(ready) + Len(pq) /\ Rng(Waiting) = Rng(ready) \cup Rng(pq)
       /\ NoDup(ready) /\ NoDup(pq) /\ Rng(ready) \cap Rng(pq) = {}
  <2>1. Waiting = ready \o pq
    BY <1>19, <1>20
  <2>2. /\ Len(ready \o pq) = Len(ready) + Len(pq)
        /\ Rng(ready \o pq) = Rng(ready) \cup Rng(pq)
        /\ NoDup(ready \o pq) <=> NoDup(ready) /\ NoDup(pq) /\ Rng(ready) \cap Rng(pq) = {}
    <3>1. ready \in Seq(Msgs) /\ pq \in Seq(Msgs)
      BY <1>5, <1>21
    <3>2. QED
      BY <3>1, Glue
  <2>3. QED
    BY <2>1, <2>2
<1>23. /\ Len(Waiting') = Len(ready) + Len(z) /\ Rng(Waiting') = Rng(ready) \cup Rng(z)
       /\ NoDup(Waiting') <=> NoDup(ready) /\ NoDup(z) /\ Rng(ready) \cap Rng(z) = {}
  <2>1. /\ Len(ready \o z) = Len(ready) + Len(z)
        /\ Rng(ready \o z) = Rng(ready) \cup Rng(z)
        /\ NoDup(ready \o z) <=> NoDup(ready) /\ NoDup(z) /\ Rng(ready) \cap Rng(z) = {}
    <3>1. ready \in Seq(Msgs) /\ z \in Seq(Msgs)
      BY <1>5, <1>18
    <3>2. QED
      BY <3>1, Glue
  <2>2. QED
    BY <1>19, <2>1
<1>24. NoDup(Waiting') /\ Rng(Waiting') = Rng(Waiting) \cup {m}
  <2>1. Rng(z) = Rng(p) \cup {m} \cup Rng(q) /\ m \notin Rng(ready) \cup Rng(p) \cup Rng(q)
    BY <1>11, <1>17, <1>18, <1>21, <1>22
  <2>2. NoDup(z)
    BY <1>11, <1>17, <1>18, <1>21, <1>22, <2>1
  <2>3. QED
    BY <1>21, <1>22, <1>23, <2>1, <2>2
<1>25. Len(Waiting') = Len(Waiting) + 1
  <2>1. Len(p) \in Nat /\ Len(q) \in Nat
    BY <1>14, LenProperties
  <2>2. QED
    BY <1>5, <1>11, <1>17, <1>18, <1>21, <1>22, <1>23, <2>1
<1>26. QED
  BY <1>12, <1>24, <1>25

\* The clock leaves the messages where they are.
LEMMA TickKeeps ==
  ASSUME TypeOK, Tick
  PROVE  delayed' \in Seq(Entries) /\ Waiting' = Waiting
<1>1. /\ delayed \in Seq(Entries) /\ Len(delayed) \in Nat /\ DOMAIN delayed = 1..Len(delayed)
      /\ \A i \in 1..Len(delayed) : delayed[i] \in Entries
  BY WaitingFacts, LenProperties
<1>2. delayed' = [i \in 1..Len(delayed) |->
                    [delayed[i] EXCEPT !.left = IF @ > 0 THEN @ - 1 ELSE 0]]
  BY <1>1 DEF Tick
<1>3. \A i \in 1..Len(delayed) : delayed'[i] \in Entries /\ delayed'[i].msg = delayed[i].msg
  BY <1>1, <1>2 DEF Entries
<1>4. delayed' \in [1..Len(delayed) -> Entries]
  BY <1>2, <1>3
<1>5. delayed' \in Seq(Entries) /\ Len(delayed') = Len(delayed)
  BY <1>1, <1>4
<1>6. MsgsOf(delayed') = MsgsOf(delayed)
  BY <1>3, <1>5 DEF MsgsOf
<1>7. QED
  BY <1>5, <1>6 DEF Tick, Waiting, MsgsOf
-----------------------------------------------------------------------------
(* The invariant.                                                          *)

LEMMA Counts ==
  ASSUME QueueInv
  PROVE  /\ PendingCount = Len(Waiting) + Cardinality(inFlight)
         /\ Len(Waiting) \in Nat /\ Cardinality(inFlight) \in Nat
<1>1. Len(Waiting) = Len(ready) + Len(delayed) /\ Len(ready) \in Nat /\ Len(delayed) \in Nat
  BY WaitingFacts DEF QueueInv
<1>2. Cardinality(inFlight) \in Nat
  BY FS_CardinalityType DEF QueueInv, Finite
<1>3. QED
  BY <1>1, <1>2 DEF PendingCount

\* What the next state must satisfy, with the two lists as one.
LEMMA NextWithinCapacity ==
  ASSUME TypeOK', Len(Waiting') + Cardinality(inFlight') <= MaxSize
  PROVE  WithinCapacity'
<1>1. /\ ready' \in Seq(Msgs) /\ MsgsOf(delayed') \in Seq(Msgs)
      /\ Len(MsgsOf(delayed')) = Len(delayed')
  BY ListFacts DEF TypeOK, Entries
<1>2. Waiting' = ready' \o MsgsOf(delayed')
  BY DEF Waiting, MsgsOf
<1>3. Len(Waiting') = Len(ready') + Len(delayed')
  <2>1. Len(ready' \o MsgsOf(delayed')) = Len(ready') + Len(MsgsOf(delayed'))
    BY <1>1, ConcatFacts
  <2>2. QED
    BY <1>1, <1>2, <2>1
<1>4. QED
  BY <1>3 DEF WithinCapacity, PendingCount

LEMMA InitQueue == Init => QueueInv
<1> SUFFICES ASSUME Init  PROVE QueueInv
  OBVIOUS
<1>1. TypeOK
  BY SizesAssumption DEF Init, TypeOK
<1>2. Waiting = <<>>
  BY DEF Init, Waiting, MsgsOf
<1>3. Rng(Waiting) = {} /\ NoDup(Waiting)
  BY <1>2 DEF Rng, NoDup
<1>4. Partition
  BY <1>3 DEF Init, Partition
<1>5. IsFiniteSet({}) /\ Cardinality({}) = 0
  BY FS_EmptySet
<1>6. Finite /\ WithinCapacity
  BY <1>5, SizesAssumption DEF Init, Finite, WithinCapacity, PendingCount
<1>7. QED
  BY <1>1, <1>4, <1>6 DEF Init, QueueInv, LeaseIntact, StaleAcked

LEMMA SendStep ==
  ASSUME QueueInv, NEW b \in Batches, Send(b)
  PROVE  QueueInv'
<1> USE DEF QueueInv
<1>1. Rng(b) \cap (Rng(Waiting) \cup inFlight \cup acked) = {}
  BY DEF Send, Partition
<1>2. /\ b \in Seq(Msgs) /\ Rng(b) \subseteq Msgs
      /\ ready' \in Seq(Msgs) /\ NoDup(Waiting')
      /\ Rng(Waiting') = Rng(Waiting) \cup Rng(b)
      /\ Len(Waiting') = Len(Waiting) + Len(b)
  BY <1>1, SendAdds DEF Partition
<1>3. UNCHANGED <<delayed, inFlight, attempts, acked, mine, stale, holder>>
  BY DEF Send
<1>4. sent' = sent \cup Rng(b) /\ PendingCount + Len(b) <= MaxSize
  BY DEF Send, Fits
<1>5. TypeOK'
  BY <1>2, <1>3, <1>4 DEF TypeOK
<1>6. Partition'
  BY <1>1, <1>2, <1>3, <1>4 DEF Partition
<1>7. Len(Waiting') + Cardinality(inFlight') <= MaxSize
  <2>1. Len(b) \in Nat
    BY <1>2, LenProperties
  <2>2. QED
    BY <1>2, <1>3, <1>4, <2>1, Counts
<1>8. WithinCapacity'
  BY <1>5, <1>7, NextWithinCapacity
<1>9. Finite' /\ LeaseIntact' /\ StaleAcked'
  BY <1>3 DEF Finite, LeaseIntact, StaleAcked
<1>10. QED
  BY <1>5, <1>6, <1>8, <1>9

LEMMA ReceiveStep ==
  ASSUME QueueInv, NEW c \in Consumers, NEW n \in 1..MaxItems, Receive(c, n)
  PROVE  QueueInv'
<1> USE DEF QueueInv
<1>1. PICK out \in SUBSET Msgs :
           /\ out # {} /\ out \subseteq Rng(Waiting) /\ IsFiniteSet(out)
           /\ ready' \in Seq(Msgs) /\ delayed' \in Seq(Entries) /\ NoDup(Waiting')
           /\ Rng(Waiting') = Rng(Waiting) \ out
           /\ Len(Waiting') = Len(Waiting) - Cardinality(out)
           /\ inFlight' = inFlight \cup out
           /\ attempts' = [m \in Msgs |-> IF m \in out /\ attempts[m] < AttemptCap
                                         THEN attempts[m] + 1 ELSE attempts[m]]
           /\ mine' = [mine EXCEPT ![c] = @ \cup out]
           /\ holder' = [m \in Msgs |-> IF m \in out THEN c ELSE holder[m]]
  BY ReceiveTakes DEF Partition
<1>2. UNCHANGED <<sent, acked, stale>>
  BY DEF Receive
<1>3. TypeOK'
  <2>1. attempts' \in [Msgs -> 0..AttemptCap]
    <3>1. \A m \in Msgs : attempts[m] \in 0..AttemptCap
      BY DEF TypeOK
    <3>2. ASSUME NEW m \in Msgs
          PROVE  (IF m \in out /\ attempts[m] < AttemptCap
                  THEN attempts[m] + 1 ELSE attempts[m]) \in 0..AttemptCap
      BY <3>1, SizesAssumption
    <3>3. QED
      BY <1>1, <3>2
  <2>2. mine' \in [Consumers -> SUBSET Msgs] /\ holder' \in [Msgs -> Consumers \cup {NoConsumer}]
    BY <1>1 DEF TypeOK
  <2>3. QED
    BY <1>1, <1>2, <2>1, <2>2 DEF TypeOK, Entries
<1>4. Partition'
  BY <1>1, <1>2 DEF Partition
<1>5. inFlight \cap out = {}
  BY <1>1 DEF Partition
<1>6. /\ IsFiniteSet(inFlight')
      /\ Cardinality(inFlight') = Cardinality(inFlight) + Cardinality(out)
  <2>1. /\ IsFiniteSet(inFlight \cup out)
        /\ Cardinality(inFlight \cup out) =
             Cardinality(inFlight) + Cardinality(out) - Cardinality(inFlight \cap out)
    BY <1>1, FS_Union DEF Finite
  <2>2. Cardinality(inFlight \cap out) = 0 /\ Cardinality(out) \in Nat
    BY <1>1, <1>5, FS_EmptySet, FS_CardinalityType
  <2>3. QED
    BY <1>1, <2>1, <2>2, Counts
<1>7. Finite'
  BY <1>2, <1>6 DEF Finite
<1>8. WithinCapacity'
  <2>1. Cardinality(out) \in Nat
    BY <1>1, FS_CardinalityType
  <2>2. Len(Waiting') + Cardinality(inFlight') <= MaxSize
    BY <1>1, <1>6, <2>1, Counts DEF WithinCapacity
  <2>3. QED
    BY <1>3, <2>2, NextWithinCapacity
<1>9. LeaseIntact'
  BY <1>1, <1>5 DEF LeaseIntact, TypeOK
<1>10. StaleAcked'
  BY <1>2 DEF StaleAcked
<1>11. QED
  BY <1>3, <1>4, <1>7, <1>8, <1>9, <1>10

LEMMA AckStep ==
  ASSUME QueueInv, NEW c \in Consumers, NEW m \in Msgs, Ack(c, m)
  PROVE  QueueInv'
<1> USE DEF QueueInv
<1>1. /\ MaySettle(c, m)
      /\ mine' = [mine EXCEPT ![c] = @ \ {m}]
      /\ stale' = [stale EXCEPT ![c] = @ \cup {m}]
      /\ inFlight' = inFlight \ {m}
      /\ acked' = acked \cup ({m} \cap inFlight)
      /\ UNCHANGED <<ready, delayed, attempts, sent, holder>>
  BY DEF Ack, Settle
<1>2. m \in inFlight \cup acked
  BY <1>1 DEF MaySettle, LeaseIntact, StaleAcked
<1>3. TypeOK'
  BY <1>1 DEF TypeOK
<1>4. Waiting' = Waiting
  BY <1>1 DEF Waiting, MsgsOf
<1>5. Partition'
  BY <1>1, <1>4 DEF Partition
<1>6. /\ IsFiniteSet(inFlight') /\ Cardinality(inFlight') <= Cardinality(inFlight)
      /\ Cardinality(inFlight') \in Nat
  <2>1. /\ IsFiniteSet(inFlight \ {m})
        /\ Cardinality(inFlight \ {m}) =
             IF m \in inFlight THEN Cardinality(inFlight) - 1 ELSE Cardinality(inFlight)
    BY FS_RemoveElement DEF Finite
  <2>2. Cardinality(inFlight \ {m}) \in Nat
    BY <2>1, FS_CardinalityType
  <2>3. QED
    BY <1>1, <2>1, <2>2, Counts
<1>7. Finite'
  <2>1. IsFiniteSet(acked \cup {m}) /\ IsFiniteSet(acked)
    BY FS_AddElement DEF Finite
  <2>2. acked' = acked \/ acked' = acked \cup {m}
    BY <1>1
  <2>3. IsFiniteSet(acked')
    BY <2>1, <2>2
  <2>4. QED
    BY <1>6, <2>3 DEF Finite
<1>8. WithinCapacity'
  <2>1. Len(Waiting') + Cardinality(inFlight') <= MaxSize
    BY <1>4, <1>6, Counts, SizesAssumption DEF WithinCapacity
  <2>2. QED
    BY <1>3, <2>1, NextWithinCapacity
<1>9. LeaseIntact'
  <2>1. ASSUME NEW c1 \in Consumers  PROVE mine'[c1] \subseteq inFlight'
    <3>1. CASE c1 = c
      BY <1>1, <3>1 DEF LeaseIntact, TypeOK
    <3>2. CASE c1 # c
      <4>1. m \notin mine[c1]
        BY <1>1, <3>2 DEF MaySettle, LeaseIntact, StaleAcked, Partition
      <4>2. QED
        BY <1>1, <3>2, <4>1 DEF LeaseIntact, TypeOK
    <3>3. QED
      BY <3>1, <3>2
  <2>2. \A c1 \in Consumers : mine'[c1] \subseteq mine[c1]
    BY <1>1 DEF TypeOK
  <2>3. QED
    BY <2>1, <2>2 DEF LeaseIntact
<1>10. StaleAcked'
  BY <1>1, <1>2 DEF StaleAcked, TypeOK
<1>11. QED
  BY <1>3, <1>5, <1>7, <1>8, <1>9, <1>10

LEMMA NackStep ==
  ASSUME QueueInv, NEW c \in Consumers, NEW m \in Msgs, NEW d \in Delays, Nack(c, m, d)
  PROVE  QueueInv'
<1> USE DEF QueueInv
<1>1. /\ MaySettle(c, m)
      /\ mine' = [mine EXCEPT ![c] = @ \ {m}]
      /\ inFlight' = inFlight \ {m}
      /\ delayed' = IF m \in inFlight THEN InsertDelayed([left |-> d, msg |-> m])
                                      ELSE delayed
      /\ UNCHANGED <<ready, attempts, sent, acked, stale, holder>>
  BY DEF Nack, Settle
<1>2. m \in inFlight \cup acked /\ d \in Nat
  BY <1>1, SizesAssumption DEF MaySettle, LeaseIntact, StaleAcked
<1>3. /\ delayed' \in Seq(Entries) /\ NoDup(Waiting')
      /\ \/ /\ m \in inFlight
            /\ Rng(Waiting') = Rng(Waiting) \cup {m} /\ Len(Waiting') = Len(Waiting) + 1
         \/ /\ m \notin inFlight
            /\ Waiting' = Waiting
  <2>1. CASE m \in inFlight
    <3>1. delayed' = InsertDelayed([left |-> d, msg |-> m]) /\ ready' = ready
      BY <1>1, <2>1
    <3>2. m \notin Rng(Waiting) /\ NoDup(Waiting) /\ TypeOK
      BY <2>1 DEF Partition
    <3>3. QED
      BY <1>2, <2>1, <3>1, <3>2, NackAdds
  <2>2. CASE m \notin inFlight
    <3>1. delayed' = delayed /\ Waiting' = Waiting
      BY <1>1, <2>2 DEF Waiting, MsgsOf
    <3>2. QED
      BY <2>2, <3>1, WaitingFacts DEF Partition
  <2>3. QED
    BY <2>1, <2>2
<1>4. TypeOK'
  BY <1>1, <1>3 DEF TypeOK, Entries
<1>5. Partition'
  BY <1>1, <1>3 DEF Partition
<1>6. /\ IsFiniteSet(inFlight \ {m})
      /\ Cardinality(inFlight \ {m}) =
           IF m \in inFlight THEN Cardinality(inFlight) - 1 ELSE Cardinality(inFlight)
  BY FS_RemoveElement DEF Finite
<1>7. Finite'
  BY <1>1, <1>6 DEF Finite
<1>8. WithinCapacity'
  <2>1. Len(Waiting') + Cardinality(inFlight') <= MaxSize
    BY <1>1, <1>3, <1>6, Counts DEF WithinCapacity
  <2>2. QED
    BY <1>4, <2>1, NextWithinCapacity
<1>9. LeaseIntact'
  <2>1. ASSUME NEW c1 \in Consumers  PROVE mine'[c1] \subseteq inFlight'
    <3>1. CASE c1 = c
      BY <1>1, <3>1 DEF LeaseIntact, TypeOK
    <3>2. CASE c1 # c
      <4>1. m \notin mine[c1]
        BY <1>1, <3>2 DEF MaySettle, LeaseIntact, StaleAcked, Partition
      <4>2. QED
        BY <1>1, <3>2, <4>1 DEF LeaseIntact, TypeOK
    <3>3. QED
      BY <3>1, <3>2
  <2>2. \A c1 \in Consumers : mine'[c1] \subseteq mine[c1]
    BY <1>1 DEF TypeOK
  <2>3. QED
    BY <2>1, <2>2 DEF LeaseIntact
<1>10. StaleAcked'
  BY <1>1 DEF StaleAcked
<1>11. QED
  BY <1>4, <1>5, <1>7, <1>8, <1>9, <1>10

LEMMA TickStep ==
  ASSUME QueueInv, Tick
  PROVE  QueueInv'
<1> USE DEF QueueInv
<1>1. delayed' \in Seq(Entries) /\ Waiting' = Waiting
  BY TickKeeps
<1>2. UNCHANGED <<ready, inFlight, attempts, sent, acked, mine, stale, holder>>
  BY DEF Tick
<1>3. TypeOK'
  BY <1>1, <1>2 DEF TypeOK, Entries
<1>4. WithinCapacity'
  <2>1. Len(Waiting') + Cardinality(inFlight') <= MaxSize
    BY <1>1, <1>2, Counts DEF WithinCapacity
  <2>2. QED
    BY <1>3, <2>1, NextWithinCapacity
<1>5. Partition' /\ Finite' /\ LeaseIntact' /\ StaleAcked'
  BY <1>1, <1>2 DEF Partition, Finite, LeaseIntact, StaleAcked
<1>6. QED
  BY <1>3, <1>4, <1>5

LEMMA QueueStep == QueueInv /\ [Next]_vars => QueueInv'
<1> SUFFICES ASSUME QueueInv, [Next]_vars  PROVE QueueInv'
  OBVIOUS
<1>1. CASE \E b \in Batches : Send(b)
  BY <1>1, SendStep
<1>2. CASE \E c \in Consumers, n \in 1..MaxItems : Receive(c, n)
  BY <1>2, ReceiveStep
<1>3. CASE \E c \in Consumers, m \in Msgs : Ack(c, m)
  BY <1>3, AckStep
<1>4. CASE \E c \in Consumers, m \in Msgs, d \in Delays : Nack(c, m, d)
  BY <1>4, NackStep
<1>5. CASE Tick
  BY <1>5, TickStep
<1>6. CASE UNCHANGED vars
  BY <1>6 DEF vars, QueueInv, TypeOK, Finite, Partition, LeaseIntact, StaleAcked,
              WithinCapacity, PendingCount, Waiting, MsgsOf
<1>7. QED
  BY <1>1, <1>2, <1>3, <1>4, <1>5, <1>6 DEF Next
-----------------------------------------------------------------------------
(* The theorems.                                                           *)

\* The inductive invariant: ready, delayed, in-flight and acked messages are the
\* accepted ones, each in one place and once, and a receipt that can be used again
\* belongs to a message that was acked.
THEOREM QueueInvariant == Spec => []QueueInv
BY InitQueue, QueueStep, PTL DEF Spec

\* send refuses a batch that does not fit, and a nack needs no room that the entry
\* in flight did not take already.
THEOREM CapacityKept == Spec => []WithinCapacity
<1>1. QueueInv => WithinCapacity
  BY DEF QueueInv
<1>2. QED
  BY <1>1, QueueInvariant, PTL

\* A lease ends by its holder's ack or nack only: the receipts of acked messages,
\* used again, meet nothing in flight.
THEOREM LeasesKept == Spec => []LeaseIntact
<1>1. QueueInv => LeaseIntact
  BY DEF QueueInv
<1>2. QED
  BY <1>1, QueueInvariant, PTL

LEMMA PartitionAccounts == QueueInv => Accounted
<1> SUFFICES ASSUME QueueInv  PROVE Accounted
  OBVIOUS
<1>1. /\ Waiting \in Seq(Msgs) /\ NoDup(Waiting) /\ TypeOK
      /\ Rng(Waiting) = ReadySet \cup DelayedSet
  BY WaitingFacts DEF QueueInv, Partition
<1>2. IsFiniteSet(Rng(Waiting)) /\ Cardinality(Rng(Waiting)) = Len(Waiting)
  BY <1>1, NoDupCounts
<1>3. IsFiniteSet(inFlight) /\ IsFiniteSet(acked)
  BY DEF QueueInv, Finite
<1>4. Cardinality({}) = 0
  BY FS_EmptySet
<1>5. PICK both : both = Rng(Waiting) \cup inFlight
  OBVIOUS
<1>6. /\ IsFiniteSet(both)
      /\ Cardinality(both) =
           Cardinality(Rng(Waiting)) + Cardinality(inFlight) - Cardinality(Rng(Waiting) \cap inFlight)
  BY <1>2, <1>3, <1>5, FS_Union
<1>7. Cardinality(both \cup acked) =
        Cardinality(both) + Cardinality(acked) - Cardinality(both \cap acked)
  BY <1>3, <1>6, FS_Union
<1>8. Rng(Waiting) \cap inFlight = {} /\ both \cap acked = {} /\ sent = both \cup acked
  BY <1>5 DEF QueueInv, Partition
<1>9. /\ Cardinality(both) \in Nat /\ Cardinality(acked) \in Nat
      /\ Cardinality(inFlight) \in Nat /\ Len(Waiting) \in Nat
      /\ PendingCount = Len(Waiting) + Cardinality(inFlight)
  BY <1>3, <1>6, Counts, FS_CardinalityType
<1>10. /\ Cardinality(Rng(Waiting) \cap inFlight) = 0 /\ Cardinality(both \cap acked) = 0
       /\ Cardinality(sent) = Cardinality(both \cup acked)
  BY <1>4, <1>8, Zenon
<1>11. Cardinality(sent) = PendingCount + Cardinality(acked)
  <2>1. Cardinality(both) = PendingCount
    BY <1>2, <1>6, <1>9, <1>10
  <2>2. QED
    BY <1>7, <1>9, <1>10, <2>1
<1>12. sent = ReadySet \cup DelayedSet \cup inFlight \cup acked
  BY <1>1, <1>5, <1>8
<1>13. QED
  BY <1>1, <1>11, <1>12 DEF Accounted

\* send, receive, ack and nack neither lose nor duplicate an entry.
THEOREM NothingLost == Spec => []Accounted
BY PartitionAccounts, QueueInvariant, PTL
-----------------------------------------------------------------------------
(* The refinement: where the contract sees a message.                      *)

PlaceIn(W, F, A, m) ==
  IF m \in W THEN "waiting" ELSE IF m \in F THEN "leased" ELSE
  IF m \in A THEN "done" ELSE "unsent"

PlaceSeen ==
  \A m \in Msgs : Place(m) = PlaceIn(Rng(Waiting), inFlight, acked, m)

LEMMA PlaceKnown == QueueInv => PlaceSeen
<1> SUFFICES ASSUME QueueInv, NEW m \in Msgs
             PROVE  Place(m) = PlaceIn(Rng(Waiting), inFlight, acked, m)
  BY DEF PlaceSeen
<1>1. Rng(Waiting) = ReadySet \cup DelayedSet
  BY WaitingFacts DEF QueueInv
<1>2. /\ (ReadySet \cup DelayedSet) \cap inFlight = {}
      /\ (ReadySet \cup DelayedSet) \cap acked = {} /\ inFlight \cap acked = {}
  BY <1>1 DEF QueueInv, Partition
<1>3. QED
  BY <1>1, <1>2 DEF Place, PlaceIn

LEMMA InitContract == Init => Contract!QueueInit
<1> SUFFICES ASSUME Init  PROVE Contract!QueueInit
  OBVIOUS
<1>1. ReadySet = {} /\ DelayedSet = {} /\ inFlight = {} /\ acked = {}
  BY DEF Init, ReadySet, DelayedSet, Rng
<1>2. \A m \in Msgs : Place(m) = "unsent"
  BY <1>1 DEF Place
<1>3. QED
  BY <1>2 DEF Init, Contract!QueueInit

LEMMA StepContract ==
  QueueInv /\ QueueInv' /\ PlaceSeen /\ PlaceSeen' /\ [Next]_vars
    => [Contract!QueueNext]_Contract!queueVars
<1> SUFFICES ASSUME QueueInv, QueueInv', PlaceSeen, PlaceSeen', [Next]_vars
             PROVE  [Contract!QueueNext]_Contract!queueVars
  OBVIOUS
<1>a. /\ NoDup(Waiting) /\ Rng(Waiting) \cap inFlight = {} /\ Rng(Waiting) \cap acked = {}
      /\ inFlight \cap acked = {} /\ sent = Rng(Waiting) \cup inFlight \cup acked
      /\ TypeOK /\ LeaseIntact /\ StaleAcked
  BY DEF QueueInv, Partition
<1>b. /\ \A m \in Msgs : Place(m) = PlaceIn(Rng(Waiting), inFlight, acked, m)
      /\ \A m \in Msgs : Place(m)' = PlaceIn(Rng(Waiting'), inFlight', acked', m)
  BY DEF PlaceSeen, PlaceIn
<1>1. ASSUME NEW b \in Batches, Send(b)
      PROVE  Contract!Send(Rng(b))
  <2>1. Rng(b) \cap (Rng(Waiting) \cup inFlight \cup acked) = {}
    BY <1>1, <1>a DEF Send
  <2>2. Rng(Waiting') = Rng(Waiting) \cup Rng(b) /\ Rng(b) \subseteq Msgs
    BY <1>1, <1>a, <2>1, SendAdds
  <2>3. UNCHANGED <<inFlight, acked, attempts, holder>>
    BY <1>1 DEF Send
  <2>4. \A m \in Rng(b) : Place(m) = "unsent"
    BY <1>b, <2>1, <2>2 DEF PlaceIn
  <2>5. \A m \in Msgs : Place(m)' = IF m \in Rng(b) THEN "waiting" ELSE Place(m)
    BY <1>b, <2>2, <2>3 DEF PlaceIn
  <2>6. QED
    BY <2>2, <2>3, <2>4, <2>5 DEF Contract!Send
<1>2. ASSUME NEW c \in Consumers, NEW n \in 1..MaxItems, Receive(c, n)
      PROVE  \E S \in SUBSET Msgs : Contract!Receive(c, S)
  <2>1. PICK out \in SUBSET Msgs :
           /\ out # {} /\ out \subseteq Rng(Waiting)
           /\ Rng(Waiting') = Rng(Waiting) \ out
           /\ inFlight' = inFlight \cup out
           /\ attempts' = [m \in Msgs |-> IF m \in out /\ attempts[m] < AttemptCap
                                         THEN attempts[m] + 1 ELSE attempts[m]]
           /\ holder' = [m \in Msgs |-> IF m \in out THEN c ELSE holder[m]]
    BY <1>2, <1>a, ReceiveTakes
  <2>2. acked' = acked
    BY <1>2 DEF Receive
  <2>3. \A m \in out : Place(m) = "waiting"
    BY <1>b, <2>1 DEF PlaceIn
  <2>4. \A m \in Msgs : Place(m)' = IF m \in out THEN "leased" ELSE Place(m)
    BY <1>a, <1>b, <2>1, <2>2 DEF PlaceIn
  <2>5. attempts' = [m \in Msgs |-> IF m \in out THEN Contract!CountDelivery(attempts[m])
                                                 ELSE attempts[m]]
    BY <2>1 DEF Contract!CountDelivery
  <2>6. Contract!Receive(c, out)
    BY <2>1, <2>3, <2>4, <2>5 DEF Contract!Receive, Contract!Receivable
  <2>7. QED
    BY <2>6
<1>3. ASSUME NEW c \in Consumers, NEW m \in Msgs, Ack(c, m)
      PROVE  Contract!Ack(c, m)
  <2>1. /\ MaySettle(c, m) /\ inFlight' = inFlight \ {m}
        /\ acked' = acked \cup ({m} \cap inFlight)
        /\ UNCHANGED <<ready, delayed, attempts, holder>>
    BY <1>3 DEF Ack
  <2>2. Waiting' = Waiting
    BY <2>1 DEF Waiting, MsgsOf
  <2>3. CASE m \in inFlight
    <3>1. Place(m) = "leased"
      BY <1>a, <1>b, <2>3 DEF PlaceIn
    <3>2. \A x \in Msgs : Place(x)' = IF x = m THEN "done" ELSE Place(x)
      BY <1>a, <1>b, <2>1, <2>2, <2>3 DEF PlaceIn
    <3>3. QED
      BY <2>1, <3>1, <3>2 DEF Contract!Ack
  <2>4. CASE m \notin inFlight
    <3>1. m \in acked
      BY <1>a, <2>1, <2>4 DEF MaySettle, LeaseIntact, StaleAcked
    <3>2. Place(m) = "done"
      BY <1>a, <1>b, <2>4, <3>1 DEF PlaceIn
    <3>3. \A x \in Msgs : Place(x)' = Place(x)
      BY <1>b, <2>1, <2>2, <2>4 DEF PlaceIn
    <3>4. QED
      BY <2>1, <3>2, <3>3 DEF Contract!Ack
  <2>5. QED
    BY <2>3, <2>4
<1>4. ASSUME NEW c \in Consumers, NEW m \in Msgs, NEW d \in Delays, Nack(c, m, d)
      PROVE  Contract!Nack(c, m)
  <2>1. /\ MaySettle(c, m) /\ inFlight' = inFlight \ {m}
        /\ delayed' = IF m \in inFlight THEN InsertDelayed([left |-> d, msg |-> m])
                                        ELSE delayed
        /\ UNCHANGED <<ready, attempts, acked, holder>>
    BY <1>4 DEF Nack
  <2>2. CASE m \in inFlight
    <3>1. /\ delayed' = InsertDelayed([left |-> d, msg |-> m]) /\ ready' = ready
          /\ m \notin Rng(Waiting) /\ d \in Nat
      BY <1>a, <2>1, <2>2, SizesAssumption
    <3>2. Rng(Waiting') = Rng(Waiting) \cup {m}
      BY <1>a, <3>1, NackAdds
    <3>3. Place(m) = "leased"
      BY <1>a, <1>b, <2>2 DEF PlaceIn
    <3>4. \A x \in Msgs : Place(x)' = IF x = m THEN "waiting" ELSE Place(x)
      BY <1>b, <2>1, <3>2 DEF PlaceIn
    <3>5. QED
      BY <2>1, <3>3, <3>4 DEF Contract!Nack
  <2>3. CASE m \notin inFlight
    <3>1. m \in acked /\ Waiting' = Waiting
      BY <1>a, <2>1, <2>3 DEF MaySettle, LeaseIntact, StaleAcked, Waiting, MsgsOf
    <3>2. Place(m) = "done"
      BY <1>a, <1>b, <2>3, <3>1 DEF PlaceIn
    <3>3. \A x \in Msgs : Place(x)' = Place(x)
      BY <1>b, <2>1, <2>3, <3>1 DEF PlaceIn
    <3>4. QED
      BY <2>1, <3>2, <3>3 DEF Contract!Nack
  <2>4. QED
    BY <2>2, <2>3
<1>5. ASSUME Tick
      PROVE  UNCHANGED Contract!queueVars
  <2>1. Waiting' = Waiting /\ UNCHANGED <<inFlight, acked, attempts, holder>>
    BY <1>5, <1>a, TickKeeps DEF Tick
  <2>2. \A m \in Msgs : Place(m)' = Place(m)
    BY <1>b, <2>1
  <2>3. QED
    BY <2>1, <2>2 DEF Contract!queueVars
<1>6. ASSUME UNCHANGED vars
      PROVE  UNCHANGED Contract!queueVars
  BY <1>6 DEF vars, Contract!queueVars, Place, ReadySet, DelayedSet, Rng
<1>7. ASSUME NEW b \in Batches, Send(b)
      PROVE  Rng(b) \in SUBSET Msgs
  BY <1>7, BatchesAssumption, LenProperties DEF Rng
<1>8. QED
  BY <1>1, <1>2, <1>3, <1>4, <1>5, <1>6, <1>7 DEF Next, Contract!QueueNext

\* The in-memory queue implements the contract of its Protocol, for leases that
\* never expire and no redrive: every method is one operation of the contract, and
\* the clock none.
THEOREM ImplementsContract == Spec => KeepsContract
<1>1. QueueInv /\ QueueInv' /\ [Next]_vars => [Contract!QueueNext]_Contract!queueVars
  <2>1. (QueueInv => PlaceSeen) /\ (QueueInv => PlaceSeen)'
    BY PlaceKnown, PTL
  <2>2. QED
    BY <2>1, StepContract
<1>2. QED
  BY <1>1, InitContract, QueueInvariant, PTL DEF Spec, KeepsContract, Contract!QueueSpec
-----------------------------------------------------------------------------
(* The delays.  Promotion takes as many entries as have no time left in    *)
(* every place up to theirs; only because the list is sorted are these all *)
(* that are due, and only because its sort is stable on a sorted list does *)
(* the new entry's place split it where the count says.                    *)

Sorted == \A i, j \in DOMAIN delayed : i <= j => delayed[i].left <= delayed[j].left

SortedInv == QueueInv /\ Sorted

LEMMA EntriesLeft ==
  ASSUME TypeOK
  PROVE  /\ delayed \in Seq(Entries) /\ Len(delayed) \in Nat /\ DOMAIN delayed = 1..Len(delayed)
         /\ \A i \in 1..Len(delayed) : delayed[i].left \in Nat
<1>1. delayed \in Seq(Entries) /\ Len(delayed) \in Nat
  BY WaitingFacts
<1>2. DOMAIN delayed = 1..Len(delayed) /\ \A i \in 1..Len(delayed) : delayed[i] \in Entries
  BY <1>1, LenProperties
<1>3. QED
  BY <1>1, <1>2 DEF Entries

\* A set of places that has with a place all before it is where the count ends.
LEMMA Prefix ==
  ASSUME NEW n \in Nat, NEW P \in SUBSET (1..n), \A i \in P : 1..i \subseteq P
  PROVE  Cardinality(P) \in 0..n /\ P = 1..Cardinality(P)
<1>1. IsFiniteSet(P) /\ Cardinality(P) <= n /\ Cardinality(P) \in Nat
  <2>1. IsFiniteSet(1..n) /\ Cardinality(1..n) = n
    BY FS_Interval
  <2>2. IsFiniteSet(P) /\ Cardinality(P) <= Cardinality(1..n)
    BY <2>1, FS_Subset
  <2>3. QED
    BY <2>1, <2>2, FS_CardinalityType
<1>2. PICK k \in Nat : k = Cardinality(P)
  BY <1>1
<1>3. IsFiniteSet(1..k) /\ Cardinality(1..k) = k
  BY FS_Interval
<1>4. P \subseteq 1..k
  <2>1. SUFFICES ASSUME NEW i \in P  PROVE i <= k
    OBVIOUS
  <2>2. IsFiniteSet(1..i) /\ Cardinality(1..i) = i
    BY FS_Interval
  <2>3. 1..i \in SUBSET P
    OBVIOUS
  <2>4. Cardinality(1..i) <= Cardinality(P)
    BY <1>1, <2>3, FS_Subset
  <2>5. QED
    BY <1>2, <2>2, <2>4
<1>5. 1..k = P
  BY <1>2, <1>3, <1>4, FS_Subset
<1>6. QED
  BY <1>1, <1>2, <1>5

\* What is promoted has no time left, what stays has some.
LEMMA DueSplit ==
  ASSUME TypeOK, Sorted
  PROVE  /\ DueCount \in 0..Len(delayed)
         /\ \A i \in 1..DueCount : delayed[i].left = 0
         /\ \A i \in (DueCount + 1)..Len(delayed) : delayed[i].left > 0
<1>1. /\ Len(delayed) \in Nat /\ DOMAIN delayed = 1..Len(delayed)
      /\ \A i \in 1..Len(delayed) : delayed[i].left \in Nat
  BY EntriesLeft
<1>2. PICK due : due = {i \in DOMAIN delayed : \A j \in 1..i : delayed[j].left = 0}
  OBVIOUS
<1>3. due \in SUBSET (1..Len(delayed)) /\ \A i \in due : 1..i \subseteq due
  BY <1>1, <1>2
<1>4. Cardinality(due) \in 0..Len(delayed) /\ due = 1..Cardinality(due)
  BY <1>1, <1>3, Prefix
<1>5. DueCount = Cardinality(due)
  BY <1>2 DEF DueCount
<1>6. \A i \in 1..DueCount : delayed[i].left = 0
  <2>1. SUFFICES ASSUME NEW i \in due  PROVE delayed[i].left = 0
    BY <1>4, <1>5
  <2>2. i \in 1..i
    BY <1>3
  <2>3. QED
    BY <1>2, <2>2
<1>7. ASSUME NEW i \in (DueCount + 1)..Len(delayed)  PROVE delayed[i].left > 0
  <2>1. i \in 1..Len(delayed) /\ i \notin due
    BY <1>1, <1>4, <1>5
  <2>2. PICK j \in 1..i : delayed[j].left # 0
    BY <1>1, <1>2, <2>1
  <2>3. j \in DOMAIN delayed /\ j <= i
    BY <1>1, <2>1
  <2>4. delayed[j].left <= delayed[i].left
    BY <1>1, <2>1, <2>3 DEF Sorted
  <2>5. QED
    BY <1>1, <2>1, <2>2, <2>3, <2>4
<1>8. QED
  BY <1>4, <1>5, <1>6, <1>7

\* Where the new entry goes, what is before it is no later and what is behind it
\* is later.
LEMMA InsertSorts ==
  ASSUME TypeOK, Sorted, NEW e \in Entries, delayed' = InsertDelayed(e)
  PROVE  Sorted' /\ DelayedSet \subseteq DelayedSet'
<1>1. /\ delayed \in Seq(Entries) /\ Len(delayed) \in Nat /\ DOMAIN delayed = 1..Len(delayed)
      /\ \A i \in 1..Len(delayed) : delayed[i].left \in Nat
      /\ e.left \in Nat
  BY EntriesLeft DEF Entries
<1>2. PICK before : before = {i \in DOMAIN delayed : delayed[i].left <= e.left}
  OBVIOUS
<1>3. ASSUME NEW i \in before  PROVE 1..i \subseteq before
  <2>1. SUFFICES ASSUME NEW j \in 1..i  PROVE j \in before
    OBVIOUS
  <2>2. i \in 1..Len(delayed) /\ delayed[i].left <= e.left
    BY <1>1, <1>2
  <2>3. j \in 1..Len(delayed) /\ j <= i
    BY <1>1, <2>2
  <2>4. delayed[j].left <= delayed[i].left
    BY <1>1, <2>2, <2>3 DEF Sorted
  <2>5. delayed[j].left <= e.left
    BY <1>1, <2>2, <2>3, <2>4
  <2>6. QED
    BY <1>1, <1>2, <2>3, <2>5
<1>4. before \in SUBSET (1..Len(delayed))
  BY <1>1, <1>2
<1>5. PICK k \in 0..Len(delayed) : k = Cardinality(before) /\ before = 1..k
  BY <1>1, <1>3, <1>4, Prefix
<1>6. delayed' = SubSeq(delayed, 1, k) \o <<e>> \o SubSeq(delayed, k + 1, Len(delayed))
  BY <1>2, <1>5 DEF InsertDelayed
<1>7. PICK p, r : p = SubSeq(delayed, 1, k) /\ r = SubSeq(delayed, k + 1, Len(delayed))
  OBVIOUS
<1>8. /\ p \in Seq(Entries) /\ Len(p) = k
      /\ r \in Seq(Entries) /\ Len(r) = Len(delayed) - k
      /\ \A i \in 1..k : p[i] = delayed[i]
      /\ \A i \in 1..(Len(delayed) - k) : r[i] = delayed[k + i]
  BY <1>1, <1>7, Cut
<1>9. PICK v : v = p \o <<e>>
  OBVIOUS
<1>10. <<e>> \in Seq(Entries) /\ Len(<<e>>) = 1 /\ <<e>>[1] = e
  OBVIOUS
<1>11. /\ v \in Seq(Entries) /\ Len(v) = k + 1
       /\ \A i \in 1..(k + 1) : v[i] = IF i <= k THEN p[i] ELSE <<e>>[i - k]
  BY <1>8, <1>9, <1>10, ConcatProperties
<1>12. delayed' = v \o r
  BY <1>6, <1>7, <1>9
<1>13. /\ Len(delayed') = Len(delayed) + 1 /\ DOMAIN delayed' = 1..(Len(delayed) + 1)
       /\ \A i \in 1..(Len(delayed) + 1) :
            delayed'[i] = IF i <= k + 1 THEN v[i] ELSE r[i - (k + 1)]
  <2>1. /\ v \o r \in Seq(Entries) /\ Len(v \o r) = Len(v) + Len(r)
        /\ \A i \in 1..(Len(v) + Len(r)) :
             (v \o r)[i] = IF i <= Len(v) THEN v[i] ELSE r[i - Len(v)]
    <3>1. v \in Seq(Entries) /\ r \in Seq(Entries)
      BY <1>8, <1>11
    <3>2. QED
      BY <3>1, ConcatProperties
  <2>2. Len(v) = k + 1 /\ Len(v) + Len(r) = Len(delayed) + 1
    BY <1>1, <1>8, <1>11
  <2>3. DOMAIN (v \o r) = 1..Len(v \o r)
    BY <2>1, LenProperties
  <2>4. QED
    BY <1>12, <2>1, <2>2, <2>3
<1>14. /\ \A i \in 1..k : delayed'[i] = delayed[i]
       /\ delayed'[k + 1] = e
       /\ \A i \in (k + 2)..(Len(delayed) + 1) : delayed'[i] = delayed[i - 1]
  <2>1. ASSUME NEW i \in 1..k  PROVE delayed'[i] = delayed[i]
    <3>1. i \in 1..(Len(delayed) + 1) /\ i <= k /\ i <= k + 1 /\ i \in 1..(k + 1)
      BY <1>1
    <3>2. delayed'[i] = v[i] /\ v[i] = p[i] /\ p[i] = delayed[i]
      BY <1>8, <1>11, <1>13, <3>1
    <3>3. QED
      BY <3>2
  <2>2. delayed'[k + 1] = e
    <3>1. k + 1 \in 1..(Len(delayed) + 1) /\ k + 1 \in 1..(k + 1) /\ ~ (k + 1 <= k)
          /\ (k + 1) - k = 1
      BY <1>1
    <3>2. delayed'[k + 1] = v[k + 1]
      BY <1>13, <3>1
    <3>3. v[k + 1] = <<e>>[1]
      BY <1>11, <3>1
    <3>4. QED
      BY <1>10, <3>2, <3>3
  <2>3. ASSUME NEW i \in (k + 2)..(Len(delayed) + 1)  PROVE delayed'[i] = delayed[i - 1]
    <3>1. /\ i \in 1..(Len(delayed) + 1) /\ ~ (i <= k + 1)
          /\ i - (k + 1) \in 1..(Len(delayed) - k) /\ k + (i - (k + 1)) = i - 1
      BY <1>1
    <3>2. delayed'[i] = r[i - (k + 1)]
      BY <1>13, <3>1
    <3>3. r[i - (k + 1)] = delayed[k + (i - (k + 1))]
      BY <1>8, <3>1
    <3>4. QED
      BY <3>1, <3>2, <3>3
  <2>4. QED
    BY <2>1, <2>2, <2>3
<1>15. /\ \A i \in 1..k : delayed[i].left <= e.left
       /\ \A i \in (k + 1)..Len(delayed) : e.left <= delayed[i].left
  <2>1. ASSUME NEW i \in (k + 1)..Len(delayed)  PROVE e.left <= delayed[i].left
    <3>1. i \in 1..Len(delayed) /\ i \notin before
      <4>1. k \in Nat /\ i \in 1..Len(delayed) /\ i \notin 1..k
        BY <1>1
      <4>2. QED
        BY <1>5, <4>1
    <3>2. ~ (delayed[i].left <= e.left)
      BY <1>1, <1>2, <3>1
    <3>3. delayed[i].left \in Nat /\ e.left \in Nat
      BY <1>1, <3>1
    <3>4. QED
      BY <3>2, <3>3
  <2>2. QED
    BY <1>2, <1>5, <2>1
<1>16. Sorted'
  <2>1. SUFFICES ASSUME NEW i \in 1..(Len(delayed) + 1), NEW j \in 1..(Len(delayed) + 1), i <= j
                 PROVE  delayed'[i].left <= delayed'[j].left
    BY <1>13 DEF Sorted
  <2>2. CASE j <= k
    <3>1. i \in 1..k /\ j \in 1..k /\ i \in 1..Len(delayed) /\ j \in 1..Len(delayed)
      BY <1>1, <2>1, <2>2
    <3>2. delayed'[i] = delayed[i] /\ delayed'[j] = delayed[j]
      BY <1>14, <3>1
    <3>3. QED
      BY <1>1, <2>1, <3>1, <3>2 DEF Sorted
  <2>3. CASE j = k + 1
    <3>1. i \in 1..k \/ i = k + 1
      BY <1>1, <2>1, <2>3
    <3>2. QED
      BY <1>1, <1>14, <1>15, <2>3, <3>1
  <2>4. CASE j > k + 1
    <3>1. j \in (k + 2)..(Len(delayed) + 1) /\ j - 1 \in (k + 1)..Len(delayed)
          /\ j - 1 \in 1..Len(delayed)
      BY <1>1, <2>1, <2>4
    <3>2. delayed'[j] = delayed[j - 1]
      BY <1>14, <3>1
    <3>3. CASE i <= k
      <4>1. i \in 1..k /\ i \in 1..Len(delayed) /\ i <= j - 1
        BY <1>1, <2>1, <2>4, <3>3
      <4>2. QED
        BY <1>1, <1>14, <3>1, <3>2, <4>1 DEF Sorted
    <3>4. CASE i = k + 1
      BY <1>14, <1>15, <3>1, <3>2, <3>4
    <3>5. CASE i > k + 1
      <4>1. i \in (k + 2)..(Len(delayed) + 1) /\ i - 1 \in 1..Len(delayed) /\ i - 1 <= j - 1
        BY <1>1, <2>1, <3>5
      <4>2. delayed'[i] = delayed[i - 1]
        BY <1>14, <4>1
      <4>3. QED
        BY <1>1, <3>1, <3>2, <4>1, <4>2 DEF Sorted
    <3>6. QED
      BY <1>1, <2>1, <3>3, <3>4, <3>5
  <2>5. QED
    BY <1>1, <2>1, <2>2, <2>3, <2>4
<1>17. DelayedSet \subseteq DelayedSet'
  <2>1. SUFFICES ASSUME NEW i \in 1..Len(delayed)
                 PROVE  \E j \in 1..(Len(delayed) + 1) : delayed'[j] = delayed[i]
    BY <1>1, <1>13 DEF DelayedSet
  <2>2. CASE i <= k
    <3>1. i \in 1..k /\ i \in 1..(Len(delayed) + 1)
      BY <1>1, <2>2
    <3>2. QED
      BY <1>14, <3>1
  <2>3. CASE ~ (i <= k)
    <3>1. i + 1 \in (k + 2)..(Len(delayed) + 1) /\ (i + 1) - 1 = i
          /\ i + 1 \in 1..(Len(delayed) + 1)
      BY <1>1, <2>3
    <3>2. delayed'[i + 1] = delayed[i]
      BY <1>14, <3>1
    <3>3. QED
      BY <3>1, <3>2
  <2>4. QED
    BY <2>2, <2>3
<1>18. QED
  BY <1>16, <1>17

\* On every step: the order is kept, an entry leaves the list only with no time
\* left, and a receive leaves only entries that have some.
LEMMA ReceiveDue ==
  ASSUME TypeOK, Sorted, NEW c \in Consumers, NEW n \in 1..MaxItems, Receive(c, n)
  PROVE  /\ Sorted'
         /\ \A i \in DOMAIN delayed : delayed[i].msg \notin DelayedSet' => delayed[i].left = 0
         /\ \A i \in DOMAIN delayed' : delayed'[i].left > 0
<1>1. /\ delayed \in Seq(Entries) /\ Len(delayed) \in Nat /\ DOMAIN delayed = 1..Len(delayed)
      /\ \A i \in 1..Len(delayed) : delayed[i].left \in Nat
  BY EntriesLeft
<1>2. PICK k \in 0..Len(delayed) :
        /\ k = DueCount
        /\ \A i \in 1..k : delayed[i].left = 0
        /\ \A i \in (k + 1)..Len(delayed) : delayed[i].left > 0
  BY DueSplit
<1>3. delayed' = SubSeq(delayed, k + 1, Len(delayed))
  BY <1>2 DEF Receive, StillDelayed
<1>4. /\ delayed' \in Seq(Entries) /\ Len(delayed') = Len(delayed) - k
      /\ \A i \in 1..(Len(delayed) - k) : delayed'[i] = delayed[k + i]
  BY <1>1, <1>3, Cut
<1>5. DOMAIN delayed' = 1..(Len(delayed) - k)
  BY <1>4, LenProperties
<1>6. \A i \in 1..(Len(delayed) - k) : k + i \in (k + 1)..Len(delayed) /\ k + i \in 1..Len(delayed)
  BY <1>1
<1>7. Sorted'
  <2>1. SUFFICES ASSUME NEW i \in 1..(Len(delayed) - k), NEW j \in 1..(Len(delayed) - k), i <= j
                 PROVE  delayed'[i].left <= delayed'[j].left
    BY <1>5 DEF Sorted
  <2>2. k + i <= k + j
    BY <1>1, <2>1
  <2>3. delayed[k + i].left <= delayed[k + j].left
    BY <1>1, <1>6, <2>2 DEF Sorted
  <2>4. QED
    BY <1>4, <2>3
<1>8. ASSUME NEW i \in DOMAIN delayed, delayed[i].msg \notin DelayedSet'
      PROVE  delayed[i].left = 0
  <2>1. CASE i <= k
    <3>1. i \in 1..k
      BY <1>1, <2>1
    <3>2. QED
      BY <1>2, <3>1
  <2>2. CASE ~ (i <= k)
    <3>1. i - k \in 1..(Len(delayed) - k) /\ k + (i - k) = i
      BY <1>1, <2>2
    <3>2. delayed'[i - k] = delayed[k + (i - k)]
      BY <1>4, <3>1
    <3>3. delayed[i].msg \in DelayedSet'
      BY <1>5, <3>1, <3>2 DEF DelayedSet
    <3>4. QED
      BY <1>8, <3>3
  <2>3. QED
    BY <2>1, <2>2
<1>9. \A i \in DOMAIN delayed' : delayed'[i].left > 0
  <2>1. SUFFICES ASSUME NEW i \in 1..(Len(delayed) - k)  PROVE delayed'[i].left > 0
    BY <1>5
  <2>2. QED
    BY <1>2, <1>4, <1>6
<1>10. QED
  BY <1>7, <1>8, <1>9

\* The clock counts every entry down by one, and none below zero.
LEMMA TickSorts ==
  ASSUME TypeOK, Sorted, Tick
  PROVE  Sorted' /\ DelayedSet' = DelayedSet
<1>1. /\ delayed \in Seq(Entries) /\ Len(delayed) \in Nat /\ DOMAIN delayed = 1..Len(delayed)
      /\ \A i \in 1..Len(delayed) : delayed[i].left \in Nat
  BY EntriesLeft
<1>2. \A i \in 1..Len(delayed) : delayed[i] \in Entries
  BY <1>1, LenProperties
<1>3. DOMAIN delayed' = 1..Len(delayed)
  BY <1>1 DEF Tick
<1>4. ASSUME NEW i \in 1..Len(delayed)
      PROVE  /\ delayed'[i].msg = delayed[i].msg
             /\ delayed'[i].left = IF delayed[i].left > 0 THEN delayed[i].left - 1 ELSE 0
  BY <1>1, <1>2 DEF Tick, Entries
<1>5. Sorted'
  <2>1. SUFFICES ASSUME NEW i \in 1..Len(delayed), NEW j \in 1..Len(delayed), i <= j
                 PROVE  delayed'[i].left <= delayed'[j].left
    BY <1>3 DEF Sorted
  <2>2. /\ delayed[i].left <= delayed[j].left
        /\ delayed[i].left \in Nat /\ delayed[j].left \in Nat
    BY <1>1, <2>1 DEF Sorted
  <2>3. QED
    BY <1>4, <2>2
<1>6. DelayedSet' = DelayedSet
  BY <1>1, <1>3, <1>4 DEF DelayedSet
<1>7. QED
  BY <1>5, <1>6

Punctual ==
  /\ Sorted'
  /\ \A i \in DOMAIN delayed : delayed[i].msg \notin DelayedSet' => delayed[i].left = 0
  /\ ~ (inFlight' \subseteq inFlight) => \A i \in DOMAIN delayed' : delayed'[i].left > 0

LEMMA DelaysStep ==
  ASSUME TypeOK, Sorted, [Next]_vars
  PROVE  Punctual
<1>1. ASSUME delayed' = delayed, inFlight' \subseteq inFlight  PROVE Punctual
  BY <1>1 DEF Punctual, Sorted, DelayedSet
<1>2. ASSUME Sorted', DelayedSet \subseteq DelayedSet', inFlight' \subseteq inFlight
      PROVE  Punctual
  BY <1>2 DEF Punctual, DelayedSet
<1>3. CASE \E b \in Batches : Send(b)
  BY <1>1, <1>3 DEF Send
<1>4. CASE \E c \in Consumers, n \in 1..MaxItems : Receive(c, n)
  BY <1>4, ReceiveDue DEF Punctual
<1>5. CASE \E c \in Consumers, m \in Msgs : Ack(c, m)
  BY <1>1, <1>5 DEF Ack
<1>6. ASSUME NEW c \in Consumers, NEW m \in Msgs, NEW d \in Delays, Nack(c, m, d)
      PROVE  Punctual
  <2>1. inFlight' \subseteq inFlight
    BY <1>6 DEF Nack
  <2>2. CASE m \in inFlight
    <3>1. PICK e : e = [left |-> d, msg |-> m]
      OBVIOUS
    <3>2. e \in Entries
      BY <3>1, SizesAssumption DEF Entries
    <3>3. delayed' = InsertDelayed(e)
      BY <1>6, <2>2, <3>1 DEF Nack
    <3>4. QED
      BY <1>2, <2>1, <3>2, <3>3, InsertSorts
  <2>3. CASE m \notin inFlight
    BY <1>1, <1>6, <2>1, <2>3 DEF Nack
  <2>4. QED
    BY <2>2, <2>3
<1>7. CASE Tick
  <2>1. Sorted' /\ DelayedSet' = DelayedSet
    BY <1>7, TickSorts
  <2>2. QED
    BY <1>2, <1>7, <2>1 DEF Tick
<1>8. CASE UNCHANGED vars
  BY <1>1, <1>8 DEF vars
<1>9. QED
  BY <1>3, <1>4, <1>5, <1>6, <1>7, <1>8 DEF Next

\* What is delayed stays sorted, so the due entries are a prefix: a nacked message
\* is not handed out before its time, and a receive leaves no due entry behind.
THEOREM DelaysKept == Spec => DelayHonoured
<1>1. Init => Sorted
  BY DEF Init, Sorted
<1>2. SortedInv /\ [Next]_vars => SortedInv'
  BY QueueStep, DelaysStep DEF SortedInv, QueueInv, Punctual
<1>3. SortedInv /\ [Next]_vars =>
        [/\ \A i \in DOMAIN delayed :
              delayed[i].msg \notin DelayedSet' => delayed[i].left = 0
         /\ ~ (inFlight' \subseteq inFlight) =>
              \A i \in DOMAIN delayed' : delayed'[i].left > 0]_vars
  BY DelaysStep DEF SortedInv, QueueInv, Punctual
<1>4. Init => SortedInv
  BY <1>1, InitQueue DEF SortedInv
<1>5. QED
  BY <1>2, <1>3, <1>4, PTL DEF Spec, DelayHonoured
=============================================================================
