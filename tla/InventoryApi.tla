---------------------------- MODULE InventoryApi ----------------------------
(***************************************************************************)
(* inventory-api: the stock rows, the ledger of adjustments that makes     *)
(* them idempotent, and the consumer that reserves stock for a new order   *)
(* and returns it when the payment fails.  The result of a reservation is  *)
(* produced straight to Kafka, after the transaction that decided it.      *)
(***************************************************************************)
EXTENDS Kafka, Sequences

CONSTANT
  InitialStock  \* quantity per product; DefaultDigitalStock where no row exists

ASSUME InitialStockAssumption == InitialStock \in [Products -> Nat]

VARIABLES
  stock,     \* product_inventory.quantity
  ledger,    \* product_inventory_transactions, in id order
  verdict    \* what the handler of orders.created.v1 decided and has not produced

inventoryVars == <<stock, ledger, verdict>>

AdjustmentKinds == {"inventory", "inventory-release"}
Key(o, kind)    == <<o, kind>>   \* idempotency_key "<order key>:<kind>"

LedgerEntries ==
  [product : Products, key : Orders \X AdjustmentKinds, amount : Int,
   quantityAfter : Nat]

InventoryTypeOK ==
  /\ stock \in [Products -> Nat]
  /\ ledger \in Seq(LedgerEntries)
  /\ verdict \in [Orders -> {"none"} \cup InventoryTopics]

InventoryInit ==
  /\ stock = InitialStock
  /\ ledger = <<>>
  /\ verdict = [o \in Orders |-> "none"]

-----------------------------------------------------------------------------
Recorded(o, kind) == \E i \in DOMAIN ledger : ledger[i].key = Key(o, kind)

(* The three outcomes of AdjustContext(product, amount, key): the key is   *)
(* already in the ledger, the stock would become negative (the transaction *)
(* rolls back and leaves no trace), or the row and the ledger move         *)
(* together.  The row lock and the unique key make each one atomic.        *)
Replayed(o, kind) ==
  /\ Recorded(o, kind)
  /\ UNCHANGED <<stock, ledger>>

Insufficient(o, amount, kind) ==
  /\ ~Recorded(o, kind)
  /\ stock[ProductOf[o]] + amount < 0
  /\ UNCHANGED <<stock, ledger>>

\* Mutant: the key is not looked up.
AdjustedUnkeyed(o, amount, kind) ==
  LET p    == ProductOf[o]
      next == stock[p] + amount
  IN  /\ next >= 0
      /\ stock' = [stock EXCEPT ![p] = next]
      /\ ledger' = Append(ledger, [product |-> p, key |-> Key(o, kind),
                                   amount |-> amount, quantityAfter |-> next])

Adjusted(o, amount, kind) ==
  LET p    == ProductOf[o]
      next == stock[p] + amount
  IN  /\ ~Recorded(o, kind)
      /\ next >= 0
      /\ stock' = [stock EXCEPT ![p] = next]
      /\ ledger' = Append(ledger, [product |-> p, key |-> Key(o, kind),
                                   amount |-> amount, quantityAfter |-> next])

-----------------------------------------------------------------------------
(* handle(orders.created.v1), up to the end of the transaction. *)
ReserveStock(o) ==
  /\ Uncommitted("inventory-api", TopicOrderCreated, o)
  /\ verdict[o] = "none"
  /\ \/ /\ \/ Replayed(o, "inventory")
           \/ Adjusted(o, -Quantity[o], "inventory")
        /\ verdict' = [verdict EXCEPT ![o] = TopicInventoryReserved]
     \/ /\ Insufficient(o, -Quantity[o], "inventory")
        /\ verdict' = [verdict EXCEPT ![o] = TopicInventoryRejected]
  /\ UNCHANGED kafkaVars

(* ... and its ProduceSync, followed by the offset commit unless the       *)
(* acknowledgement or the commit is lost after the append.                 *)
ProduceVerdict(o, acked) ==
  /\ verdict[o] # "none"
  /\ acked \/ MayDuplicate("redelivery", verdict[o], o)
  /\ Produce(verdict[o], o)
  /\ verdict' = [verdict EXCEPT ![o] = "none"]
  /\ Ack("inventory-api", TopicOrderCreated, o, acked)
  /\ UNCHANGED <<stock, ledger>>

(* The consumer stops, or every attempt fails, before the append. *)
LoseVerdict(o) ==
  /\ "redelivery" \in Faults
  /\ verdict[o] # "none"
  /\ verdict' = [verdict EXCEPT ![o] = "none"]
  /\ UNCHANGED <<stock, ledger, kafkaVars>>

(* handle(payments.failed.v1) *)
ReleaseStock(o, acked) ==
  /\ Uncommitted("inventory-api", TopicPaymentFailed, o)
  /\ \/ Replayed(o, "inventory-release")
     \/ Adjusted(o, Quantity[o], "inventory-release")
  /\ Ack("inventory-api", TopicPaymentFailed, o, acked)
  /\ UNCHANGED <<verdict, produced>>

InventoryNext ==
  \E o \in Orders :
    \/ ReserveStock(o)
    \/ LoseVerdict(o)
    \/ \E acked \in BOOLEAN : ProduceVerdict(o, acked) \/ ReleaseStock(o, acked)
=============================================================================
