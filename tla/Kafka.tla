-------------------------------- MODULE Kafka --------------------------------
(***************************************************************************)
(* Kafka as the three consumers and three producers use it, and the faults *)
(* a run lets the deployment have.                                         *)
(*                                                                         *)
(* Records are keyed by the idempotency key, and two records of one topic  *)
(* with one key say the same thing, so the log of a topic is, per order,   *)
(* the number of records appended and, per consumer group, the number      *)
(* committed.  Kafka orders the records of one key and topic; nothing      *)
(* orders records of different topics, or of keys in different partitions. *)
(***************************************************************************)
EXTENDS OrderEvents

CONSTANTS
  Faults,     \* the faults this deployment may have
  MaxCopies   \* bound, per order: a duplicate is appended only below this many records

(***************************************************************************)
(*  republish     an outbox row is published again: the producer timed out *)
(*                after the append, marking the row failed or crashed, or  *)
(*                another replica had read the row before it was marked    *)
(*  redelivery    a consumer stops between the effects of a handler and    *)
(*                the offset commit                                        *)
(*  charge_lost   the handler or reconciler stops, or its final            *)
(*                transaction fails, after the provider was called         *)
(*  reject_lost   the transaction that records a rejected payment fails    *)
(*  event_lost    the request with a provider's event does not arrive, or  *)
(*                is answered with an error: nobody sends it again         *)
(***************************************************************************)
FaultKinds == {"republish", "redelivery", "charge_lost", "reject_lost", "event_lost"}

ASSUME FaultsAssumption == Faults \subseteq FaultKinds
ASSUME MaxCopiesAssumption == MaxCopies \in [Orders -> Nat]

VARIABLES
  produced,   \* records appended, per topic and order
  committed   \* records whose offset is committed, per subscription and order

kafkaVars == <<produced, committed>>

Subscriptions ==
  {<<"inventory-api", t>> : t \in {TopicOrderCreated, TopicPaymentFailed}}
    \cup {<<"payment-api", TopicInventoryReserved>>}
    \cup {<<"order-api", t>> : t \in InventoryTopics \cup PaymentTopics}

KafkaTypeOK ==
  /\ produced \in [Topics -> [Orders -> Nat]]
  /\ committed \in [Subscriptions -> [Orders -> Nat]]

KafkaInit ==
  /\ produced = [t \in Topics |-> [o \in Orders |-> 0]]
  /\ committed = [s \in Subscriptions |-> [o \in Orders |-> 0]]

(* A record of topic t about o is waiting for, or redelivered to, a group. *)
Uncommitted(group, t, o) == committed[<<group, t>>][o] < produced[t][o]

Produce(t, o) == produced' = [produced EXCEPT ![t][o] = @ + 1]

(* Room for one more copy of a record: the bound on duplicates. *)
MayDuplicate(fault, t, o) == fault \in Faults /\ produced[t][o] < MaxCopies[o]

(* The end of a handler: its record is committed, or the consumer stops    *)
(* first and the record will be delivered again.                           *)
Ack(group, t, o, acked) ==
  /\ acked \/ "redelivery" \in Faults
  /\ committed' = IF acked
                  THEN [committed EXCEPT ![<<group, t>>][o] = @ + 1]
                  ELSE committed
=============================================================================
