------------------------------ MODULE OrderApi ------------------------------
(***************************************************************************)
(* order-api: the orders table, the order_outbox table, the outbox         *)
(* publisher and the consumer of inventory and payment results.            *)
(***************************************************************************)
EXTENDS Kafka

VARIABLES
  orders,      \* orders.status, "none" while there is no row
  orderOutbox  \* the orders.created.v1 row of order_outbox, one per order

orderVars == <<orders, orderOutbox>>

OrderStatuses ==
  {"pending", "payment_pending", "payment_action_required", "paid", "failed"}
OutboxRowStates == {"none", "unpublished", "published"}

OrderTypeOK ==
  /\ orders \in [Orders -> OrderStatuses \cup {"none"}]
  /\ orderOutbox \in [Orders -> OutboxRowStates]

OrderInit ==
  /\ orders = [o \in Orders |-> "none"]
  /\ orderOutbox = [o \in Orders |-> "none"]

-----------------------------------------------------------------------------
(* The statuses each UPDATE ... WHERE status IN (...) accepts.  No code    *)
(* writes the status inventory_pending that the first also names.          *)
AcceptsInventoryResult == {"pending"}

\* Mutant: the result of a payment is expected after that of the inventory.
AcceptsPaymentResultInOrder == {"payment_pending", "payment_action_required"}

AcceptsPaymentResult == {"pending", "payment_pending", "payment_action_required"}

AfterInventoryResult(status, t) ==
  IF status \notin AcceptsInventoryResult THEN status
  ELSE IF t = TopicInventoryReserved THEN "payment_pending" ELSE "failed"

AfterPaymentResult(status, t) ==
  IF status \notin AcceptsPaymentResult THEN status
  ELSE IF t = TopicPaymentSucceeded THEN "paid" ELSE "failed"

AfterActionRequired(status) ==
  IF status \in AcceptsPaymentResult THEN "payment_action_required" ELSE status

(* orders.status is a varchar(20) and this status has 23 characters: the   *)
(* database refuses the UPDATE that would write it.                        *)
StatusFits(status) == status # "payment_action_required"

-----------------------------------------------------------------------------
(* CreateOrder: the order and its event are one transaction.  A request    *)
(* that repeats the key finds the row, and changes nothing whether it is   *)
(* answered as a replay or refused as a conflict.                          *)
CreateOrder(o) ==
  /\ orders[o] = "none"
  /\ orders' = [orders EXCEPT ![o] = "pending"]
  /\ orderOutbox' = [orderOutbox EXCEPT ![o] = "unpublished"]
  /\ UNCHANGED kafkaVars

PublishOrderCreated(o) ==
  /\ orderOutbox[o] = "unpublished"
  /\ Produce(TopicOrderCreated, o)
  /\ orderOutbox' = [orderOutbox EXCEPT ![o] = "published"]
  /\ UNCHANGED <<orders, committed>>

(* The append happened, the mark did not, or is another replica's. *)
RepublishOrderCreated(o) ==
  /\ orderOutbox[o] # "none"
  /\ MayDuplicate("republish", TopicOrderCreated, o)
  /\ Produce(TopicOrderCreated, o)
  /\ UNCHANGED <<orders, orderOutbox, committed>>

ConsumeInventoryResult(o, t, acked) ==
  /\ Uncommitted("order-api", t, o)
  /\ orders' = [orders EXCEPT ![o] = AfterInventoryResult(@, t)]
  /\ Ack("order-api", t, o, acked)
  /\ UNCHANGED <<orderOutbox, produced>>

ConsumePaymentResult(o, t, acked) ==
  /\ Uncommitted("order-api", t, o)
  /\ orders' = [orders EXCEPT ![o] = AfterPaymentResult(@, t)]
  /\ Ack("order-api", t, o, acked)
  /\ UNCHANGED <<orderOutbox, produced>>

(* While the UPDATE would write the status, every attempt fails and the    *)
(* consumer stops with nothing changed; the record is delivered again.     *)
ConsumeActionRequired(o, acked) ==
  /\ Uncommitted("order-api", TopicPaymentActionRequired, o)
  /\ StatusFits(AfterActionRequired(orders[o]))
  /\ orders' = [orders EXCEPT ![o] = AfterActionRequired(@)]
  /\ Ack("order-api", TopicPaymentActionRequired, o, acked)
  /\ UNCHANGED <<orderOutbox, produced>>

OrderConsume(o, acked) ==
  \/ \E t \in InventoryTopics : ConsumeInventoryResult(o, t, acked)
  \/ \E t \in ResultTopics : ConsumePaymentResult(o, t, acked)
  \/ ConsumeActionRequired(o, acked)

OrderNext ==
  \E o \in Orders :
    \/ CreateOrder(o)
    \/ PublishOrderCreated(o)
    \/ RepublishOrderCreated(o)
    \/ \E acked \in BOOLEAN : OrderConsume(o, acked)
=============================================================================
