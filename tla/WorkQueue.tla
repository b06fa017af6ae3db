------------------------------ MODULE WorkQueue ------------------------------
(***************************************************************************)
(* The queue contract the API enqueues into and the workers drain          *)
(* (collect_queue.py, the Protocol WorkQueue), stated for both of its      *)
(* implementations: the in-memory queue of `inline` mode and the SQS queue *)
(* of `sqs` mode, whose redrive policy is in infra/sqs.tf.                 *)
(*                                                                         *)
(* A message is one WorkItem on its way from send to ack.  Where a message *)
(* is:                                                                     *)
(*   unsent   not accepted yet                                             *)
(*   waiting  the queue owes it to a worker (ready, delayed or invisible   *)
(*            after a nack)                                                *)
(*   leased   received, neither acked nor nacked                           *)
(*   done     acked                                                        *)
(*   parked   in the dead-letter queue (sqs)                               *)
(*   lost     in the memory of a process that died (inline)                *)
(***************************************************************************)
EXTENDS Naturals

CONSTANTS
  Msgs,          \* the messages that may be sent
  Consumers,     \* the threads that receive
  NoConsumer,    \* the holder of a message nobody received, not a consumer
  LeasesExpire,  \* TRUE on SQS: the visibility timeout returns a lease
  MaxReceives,   \* maxReceiveCount of the redrive policy; 0: no redrive
  CountCap       \* deliveries are told apart up to this number, at least MaxReceives

VARIABLES
  place,       \* where each message is
  holder,      \* who received it last
  deliveries   \* how often it was received (attempts)

queueVars == <<place, holder, deliveries>>

Places == {"unsent", "waiting", "leased", "done", "parked", "lost"}

QueueTypeOK ==
  /\ place \in [Msgs -> Places]
  /\ holder \in [Msgs -> Consumers \cup {NoConsumer}]
  /\ deliveries \in [Msgs -> Nat]

(***************************************************************************)
(* `attempts`, ApproximateReceiveCount on SQS: one more with each receive. *)
(* Counted as far as anything tells the numbers apart: the redrive policy  *)
(* stops at MaxReceives, and the length of a backoff is left out.          *)
(***************************************************************************)
CountDelivery(n) == IF n < CountCap THEN n + 1 ELSE n

QueueInit ==
  /\ place = [m \in Msgs |-> "unsent"]
  /\ holder = [m \in Msgs |-> NoConsumer]
  /\ deliveries = [m \in Msgs |-> 0]

(***************************************************************************)
(* send(items): the queue accepts every message of S.  A refused or broken *)
(* send is a Send of the messages that were accepted before it failed.     *)
(***************************************************************************)
Send(S) ==
  /\ \A m \in S : place[m] = "unsent"
  /\ place' = [m \in Msgs |-> IF m \in S THEN "waiting" ELSE place[m]]
  /\ UNCHANGED <<holder, deliveries>>

\* A message is handed out until its redrive budget is used up.
Receivable(m) ==
  /\ place[m] = "waiting"
  /\ MaxReceives = 0 \/ deliveries[m] < MaxReceives

\* receive(max_items): the consumer leases the messages of S.
Receive(c, S) ==
  /\ S # {}
  /\ \A m \in S : Receivable(m)
  /\ place' = [m \in Msgs |-> IF m \in S THEN "leased" ELSE place[m]]
  /\ holder' = [m \in Msgs |-> IF m \in S THEN c ELSE holder[m]]
  /\ deliveries' = [m \in Msgs |-> IF m \in S THEN CountDelivery(deliveries[m])
                                             ELSE deliveries[m]]

(***************************************************************************)
(* ack deletes the message.  The receipt of an expired lease may or may    *)
(* not still delete it: SQS promises neither.                              *)
(***************************************************************************)
Ack(c, m) ==
  /\ \/ /\ place[m] \in {"leased", "waiting"}
        /\ place' = [place EXCEPT ![m] = "done"]
     \/ /\ ~ (place[m] = "leased" /\ holder[m] = c)
        /\ UNCHANGED place
  /\ UNCHANGED <<holder, deliveries>>

\* Variant with a fault: nack sends a new message and deletes the old one.
NackResends(c, m) ==
  /\ \/ /\ place[m] = "leased"
        /\ place' = [place EXCEPT ![m] = "waiting"]
        /\ deliveries' = [deliveries EXCEPT ![m] = 0]
     \/ /\ ~ (place[m] = "leased" /\ holder[m] = c)
        /\ UNCHANGED <<place, deliveries>>
  /\ UNCHANGED holder

\* nack returns the message; the nack of an expired lease may end a newer one.
Nack(c, m) ==
  /\ \/ /\ place[m] = "leased"
        /\ place' = [place EXCEPT ![m] = "waiting"]
     \/ /\ ~ (place[m] = "leased" /\ holder[m] = c)
        /\ UNCHANGED place
  /\ UNCHANGED <<holder, deliveries>>

\* The visibility timeout of a lease runs out.
Expire(m) ==
  /\ LeasesExpire
  /\ place[m] = "leased"
  /\ place' = [place EXCEPT ![m] = "waiting"]
  /\ UNCHANGED <<holder, deliveries>>

\* The redrive policy moves a message that used up its receives to the DLQ.
Redrive(m) ==
  /\ place[m] = "waiting"
  /\ MaxReceives > 0 /\ deliveries[m] >= MaxReceives
  /\ place' = [place EXCEPT ![m] = "parked"]
  /\ UNCHANGED <<holder, deliveries>>

\* The process whose memory is the queue dies.
Lose ==
  /\ ~ LeasesExpire
  /\ place' = [m \in Msgs |-> IF place[m] \in {"waiting", "leased"}
                              THEN "lost" ELSE place[m]]
  /\ UNCHANGED <<holder, deliveries>>

QueueNext ==
  \/ \E S \in SUBSET Msgs : Send(S)
  \/ \E c \in Consumers, S \in SUBSET Msgs : Receive(c, S)
  \/ \E c \in Consumers, m \in Msgs : Ack(c, m) \/ Nack(c, m)
  \/ \E m \in Msgs : Expire(m) \/ Redrive(m)
  \/ Lose

QueueSpec == QueueInit /\ [][QueueNext]_queueVars
=============================================================================
