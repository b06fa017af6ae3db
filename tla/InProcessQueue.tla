--------------------------- MODULE InProcessQueue ---------------------------
(***************************************************************************)
(* The in-memory queue of `inline` mode (collect_queue.py, InProcessQueue):*)
(* a deque of ready entries, a list of delayed entries sorted by the time  *)
(* they may be seen again, and a map of in-flight entries, all under one   *)
(* lock, so every method is one step.                                      *)
(*                                                                         *)
(* A message is the random receipt drawn at send; it keeps that receipt    *)
(* over every redelivery.  A delayed entry carries the time it still has   *)
(* to wait, which Tick counts down: the clock only matters through the     *)
(* difference not_before - now, and an entry that is due stays due.        *)
(***************************************************************************)
EXTENDS Naturals, Sequences, FiniteSets

CONSTANTS
  Msgs, Consumers, NoConsumer,
  Batches,       \* the item lists send is called with
  MaxSize,       \* CONSTAT_COLLECT_QUEUE_MAXSIZE
  MaxItems,      \* the largest max_items receive is called with
  Delays,        \* the delays nack is called with
  AttemptCap     \* attempts are told apart up to this number

ASSUME BatchesAssumption ==
  /\ Batches \subseteq Seq(Msgs)
  /\ \A b \in Batches : \A i, j \in DOMAIN b : b[i] = b[j] => i = j
ASSUME SizesAssumption ==
  /\ MaxSize \in Nat /\ MaxItems \in Nat \ {0} /\ AttemptCap \in Nat
  /\ Delays \subseteq Nat

VARIABLES
  ready,      \* _ready: messages, oldest first
  delayed,    \* _delayed: [left, msg], soonest first
  inFlight,   \* the receipts of _in_flight
  attempts,   \* the delivery count an entry carries
  sent,       \* messages ever accepted
  acked,      \* messages acked while in flight
  mine,       \* per consumer: what it received and did not settle yet
  stale,      \* per consumer: the receipts it acked and may use again
  holder      \* per message: the consumer that received it last

vars == <<ready, delayed, inFlight, attempts, sent, acked, mine, stale, holder>>

Rng(q) == {q[i] : i \in DOMAIN q}
ReadySet == Rng(ready)
DelayedSet == {delayed[i].msg : i \in DOMAIN delayed}
PendingCount == Len(ready) + Len(delayed) + Cardinality(inFlight)

TypeOK ==
  /\ ready \in Seq(Msgs)
  /\ delayed \in Seq([left : Nat, msg : Msgs])
  /\ inFlight \subseteq Msgs
  /\ attempts \in [Msgs -> 0..AttemptCap]
  /\ sent \subseteq Msgs /\ acked \subseteq Msgs
  /\ mine \in [Consumers -> SUBSET Msgs]
  /\ stale \in [Consumers -> SUBSET Msgs]
  /\ holder \in [Msgs -> Consumers \cup {NoConsumer}]

Init ==
  /\ ready = <<>> /\ delayed = <<>> /\ inFlight = {}
  /\ attempts = [m \in Msgs |-> 0]
  /\ sent = {} /\ acked = {}
  /\ mine = [c \in Consumers |-> {}]
  /\ stale = [c \in Consumers |-> {}]
  /\ holder = [m \in Msgs |-> NoConsumer]

-----------------------------------------------------------------------------
(* send: all of the batch or, when it does not fit, QueueFullError and no  *)
(* change.                                                                 *)

\* Variant with a fault: in-flight entries do not count.
FitsWaiting(b) == Len(ready) + Len(delayed) + Len(b) <= MaxSize

Fits(b) == PendingCount + Len(b) <= MaxSize

Send(b) ==
  /\ b # <<>>
  /\ Rng(b) \cap sent = {}
  /\ Fits(b)
  /\ ready' = ready \o b
  /\ sent' = sent \cup Rng(b)
  /\ UNCHANGED <<delayed, inFlight, attempts, acked, mine, stale, holder>>

\* _promote_due: the due entries are the prefix of `delayed` with no time left.
DueCount ==
  Cardinality({i \in DOMAIN delayed : \A j \in 1..i : delayed[j].left = 0})

\* Variant with a fault: due entries go to the head of the deque.
PromotedFirst == [i \in 1..DueCount |-> delayed[i].msg] \o ready

Promoted == ready \o [i \in 1..DueCount |-> delayed[i].msg]
StillDelayed == SubSeq(delayed, DueCount + 1, Len(delayed))

\* Variant with a fault: entries are handed out without being popped.
ReceivePeeks(c, n) ==
  LET k == IF n <= Len(Promoted) THEN n ELSE Len(Promoted)
      out == {Promoted[i] : i \in 1..k}
  IN  /\ k > 0
      /\ ready' = Promoted
      /\ delayed' = StillDelayed
      /\ inFlight' = inFlight \cup out
      /\ mine' = [mine EXCEPT ![c] = @ \cup out]
      /\ holder' = [m \in Msgs |-> IF m \in out THEN c ELSE holder[m]]
      /\ UNCHANGED <<attempts, sent, acked, stale>>

\* receive: promote what is due, then hand out up to n of the oldest.
Receive(c, n) ==
  LET k == IF n <= Len(Promoted) THEN n ELSE Len(Promoted)
      out == {Promoted[i] : i \in 1..k}
  IN  /\ k > 0
      /\ ready' = SubSeq(Promoted, k + 1, Len(Promoted))
      /\ delayed' = StillDelayed
      /\ inFlight' = inFlight \cup out
      /\ attempts' = [m \in Msgs |-> IF m \in out /\ attempts[m] < AttemptCap
                                     THEN attempts[m] + 1 ELSE attempts[m]]
      /\ mine' = [mine EXCEPT ![c] = @ \cup out]
      /\ holder' = [m \in Msgs |-> IF m \in out THEN c ELSE holder[m]]
      /\ UNCHANGED <<sent, acked, stale>>

(***************************************************************************)
(* The receipts a consumer calls ack and nack with: those it holds, and    *)
(* those it acked, as the exception handler of drain_once nacks an item    *)
(* whose ack raised.  No caller uses a receipt it nacked.                  *)
(***************************************************************************)
MaySettle(c, m) == m \in mine[c] \cup stale[c]
Settle(c, m) == mine' = [mine EXCEPT ![c] = @ \ {m}]

\* ack: drop the entry; a logged no-op when the receipt is not in flight.
Ack(c, m) ==
  /\ MaySettle(c, m)
  /\ Settle(c, m)
  /\ stale' = [stale EXCEPT ![c] = @ \cup {m}]
  /\ inFlight' = inFlight \ {m}
  /\ acked' = acked \cup ({m} \cap inFlight)
  /\ UNCHANGED <<ready, delayed, attempts, sent, holder>>

\* Variant with a fault: the list is not sorted after the append.
AppendDelayed(e) == Append(delayed, e)

\* Where the stable sort on not_before puts a new entry: after its equals.
InsertDelayed(e) ==
  LET before == {i \in DOMAIN delayed : delayed[i].left <= e.left}
      k == Cardinality(before)
  IN  SubSeq(delayed, 1, k) \o <<e>> \o SubSeq(delayed, k + 1, Len(delayed))

\* Variants with a fault: the entry stays in flight; its attempts are forgotten.
NackKeepsLease(c, m, d) ==
  /\ MaySettle(c, m)
  /\ Settle(c, m)
  /\ delayed' = IF m \in inFlight THEN InsertDelayed([left |-> d, msg |-> m])
                                  ELSE delayed
  /\ UNCHANGED <<ready, inFlight, attempts, sent, acked, stale, holder>>
NackForgetsAttempts(c, m, d) ==
  /\ MaySettle(c, m)
  /\ Settle(c, m)
  /\ inFlight' = inFlight \ {m}
  /\ delayed' = IF m \in inFlight THEN InsertDelayed([left |-> d, msg |-> m])
                                  ELSE delayed
  /\ attempts' = [attempts EXCEPT ![m] = 0]
  /\ UNCHANGED <<ready, sent, acked, stale, holder>>

\* nack: the entry becomes visible again after the delay; else a no-op.
Nack(c, m, d) ==
  /\ MaySettle(c, m)
  /\ Settle(c, m)
  /\ inFlight' = inFlight \ {m}
  /\ delayed' = IF m \in inFlight THEN InsertDelayed([left |-> d, msg |-> m])
                                  ELSE delayed
  /\ UNCHANGED <<ready, attempts, sent, acked, stale, holder>>

\* The monotonic clock.
Tick ==
  /\ \E i \in DOMAIN delayed : delayed[i].left > 0
  /\ delayed' = [i \in DOMAIN delayed |->
                   [delayed[i] EXCEPT !.left = IF @ > 0 THEN @ - 1 ELSE 0]]
  /\ UNCHANGED <<ready, inFlight, attempts, sent, acked, mine, stale, holder>>

Next ==
  \/ \E b \in Batches : Send(b)
  \/ \E c \in Consumers, n \in 1..MaxItems : Receive(c, n)
  \/ \E c \in Consumers, m \in Msgs : Ack(c, m)
  \/ \E c \in Consumers, m \in Msgs, d \in Delays : Nack(c, m, d)
  \/ Tick

Spec == Init /\ [][Next]_vars

(***************************************************************************)
(* Time passes, and some worker of the pool keeps polling: _pool_loop calls*)
(* receive again whatever the previous item did, until shutdown.           *)
(***************************************************************************)
Polling == \E c \in Consumers, n \in 1..MaxItems : Receive(c, n)
FairSpec == Spec /\ WF_vars(Tick) /\ WF_vars(Polling)
-----------------------------------------------------------------------------
(* Properties.                                                             *)

\* Every accepted message is in exactly one of ready, delayed, in flight and
\* acked, and at most once: send, receive, ack and nack neither lose nor
\* duplicate an entry (collect_queue.py:156-219).  The types are part of it.
Accounted ==
  /\ TypeOK
  /\ sent = ReadySet \cup DelayedSet \cup inFlight \cup acked
  /\ PendingCount + Cardinality(acked) = Cardinality(sent)

\* Backpressure covers in-flight work: a nack never meets a full queue, and
\* the memory the process holds stays within maxsize (collect_queue.py:141).
WithinCapacity == PendingCount <= MaxSize

\* No two consumers hold one message, and what a consumer holds is in flight:
\* nobody else's ack or nack ended the lease (collect_queue.py:139-140, "a
\* double-ack or an ack after nack is a logged no-op").
LeaseIntact ==
  /\ \A c \in Consumers : mine[c] \subseteq inFlight
  /\ \A c1, c2 \in Consumers : c1 # c2 => mine[c1] \cap mine[c2] = {}

\* A nacked message is not handed out before its delay has run out, and a
\* receive leaves no due message behind: promotion takes exactly the due prefix
\* of a list that nack keeps sorted (collect_queue.py:205-219).
DelayHonoured ==
  [][/\ \A i \in DOMAIN delayed :
          delayed[i].msg \notin DelayedSet' => delayed[i].left = 0
     /\ ~ (inFlight' \subseteq inFlight) =>
          \A i \in DOMAIN delayed' : delayed'[i].left > 0]_vars

\* Whatever the workers nack, a message the queue owes is handed out again: an
\* entry is not starved behind messages that keep coming back.
Delivered ==
  \A m \in Msgs : (m \in ReadySet \cup DelayedSet) ~> (m \in inFlight)

(***************************************************************************)
(* The queue keeps the contract: it is a WorkQueue whose leases never      *)
(* expire and which has no redrive policy.                                 *)
(***************************************************************************)
Place(m) == CASE m \in ReadySet \cup DelayedSet -> "waiting"
              [] m \in inFlight -> "leased"
              [] m \in acked -> "done"
              [] OTHER -> "unsent"

Contract == INSTANCE WorkQueue WITH
  LeasesExpire <- FALSE, MaxReceives <- 0, CountCap <- AttemptCap,
  place <- [m \in Msgs |-> Place(m)],
  deliveries <- attempts

KeepsContract == Contract!QueueSpec
=============================================================================
