----------------------------- MODULE OrderEvents -----------------------------
(***************************************************************************)
(* The vocabulary the services share (pkg/orderflow): the six topics, and  *)
(* the immutable order that every event carries a copy of.                 *)
(*                                                                         *)
(* An order stands for its idempotency key: the key is unique in the       *)
(* orders, payments and ledger tables and is the Kafka record key.  The    *)
(* fields every event repeats are therefore constants of the order.        *)
(***************************************************************************)
EXTENDS MachineInt

CONSTANTS
  Orders,         \* orders.idempotency_key
  Users,
  Products,
  UserOf,         \* OrderCreated.user_id
  ProductOf,      \* OrderCreated.product_id
  Quantity,       \* OrderCreated.quantity, at least 1
  UnitPrice,      \* OrderCreated.unit_price, at least 1
  PaymentMethod   \* OrderCreated.payment_method

\* bank_transfer and credit_card take the path of card everywhere.
PaymentMethods == {"point", "card"}

ASSUME OrderFieldsAssumption ==
  /\ UserOf \in [Orders -> Users]
  /\ ProductOf \in [Orders -> Products]
  /\ Quantity \in [Orders -> Nat \ {0}]
  /\ UnitPrice \in [Orders -> Nat \ {0}]
  /\ PaymentMethod \in [Orders -> PaymentMethods]

-----------------------------------------------------------------------------
(* order.TotalAmount, computed once when the order is created. *)
TotalAmount(o) == Wrap(UnitPrice[o] * Quantity[o])

TopicOrderCreated          == "orders.created.v1"
TopicInventoryReserved     == "inventory.reserved.v1"
TopicInventoryRejected     == "inventory.rejected.v1"
TopicPaymentSucceeded      == "payments.succeeded.v1"
TopicPaymentFailed         == "payments.failed.v1"
TopicPaymentActionRequired == "payments.action-required.v1"

InventoryTopics == {TopicInventoryReserved, TopicInventoryRejected}
ResultTopics    == {TopicPaymentSucceeded, TopicPaymentFailed}
PaymentTopics   == ResultTopics \cup {TopicPaymentActionRequired}
Topics          == {TopicOrderCreated} \cup InventoryTopics \cup PaymentTopics
=============================================================================
