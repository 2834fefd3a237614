------------------------------ MODULE OrderFlow ------------------------------
(***************************************************************************)
(* order-api, inventory-api and payment-api composed: they share nothing   *)
(* but Kafka, and every interleaving of their steps is a behaviour.        *)
(***************************************************************************)
EXTENDS OrderApi, InventoryApi, PaymentApi, FiniteSetsExt

vars == <<kafkaVars, orderVars, inventoryVars, paymentVars>>

Init == KafkaInit /\ OrderInit /\ InventoryInit /\ PaymentInit

OrderStep     == OrderNext     /\ UNCHANGED <<inventoryVars, paymentVars>>
InventoryStep == InventoryNext /\ UNCHANGED <<orderVars, paymentVars>>
PaymentStep   == PaymentNext   /\ UNCHANGED <<orderVars, inventoryVars>>

Next == OrderStep \/ InventoryStep \/ PaymentStep

Spec == Init /\ [][Next]_vars

(***************************************************************************)
(* Fairness.  Every publisher and the reconciler run on a ticker, every    *)
(* consumer retries a record and, restarted, receives it again, so a step  *)
(* of theirs that stays possible is taken.  The produce that follows a     *)
(* reservation, and the reconciler's charge and transaction, are attempted *)
(* anew each time (strong fairness).  The request with an event arrives,   *)
(* unless it is lost: then nobody repeats it.  Nothing makes a customer    *)
(* order or authenticate, or a provider decline.                           *)
(***************************************************************************)
InOrder(A)     == A /\ UNCHANGED <<inventoryVars, paymentVars>>
InInventory(A) == A /\ UNCHANGED <<orderVars, paymentVars>>
InPayment(A)   == A /\ UNCHANGED <<orderVars, inventoryVars>>

Fairness ==
  \A o \in Orders :
    /\ WF_vars(InOrder(PublishOrderCreated(o)))
    /\ \A t \in InventoryTopics : WF_vars(InOrder(ConsumeInventoryResult(o, t, TRUE)))
    /\ \A t \in ResultTopics : WF_vars(InOrder(ConsumePaymentResult(o, t, TRUE)))
    /\ WF_vars(InOrder(ConsumeActionRequired(o, TRUE)))
    /\ WF_vars(InInventory(ReserveStock(o)))
    /\ SF_vars(InInventory(ProduceVerdict(o, TRUE)))
    /\ WF_vars(InInventory(ReleaseStock(o, TRUE)))
    /\ WF_vars(InPayment(HandleReserved(o, TRUE)))
    /\ WF_vars(InPayment(InsertProcessing(o)))
    /\ WF_vars(InPayment(Charge(o)))
    /\ \A r \in Reconcilers :
         /\ WF_vars(InPayment(ReconcileRead(o, r)))
         /\ SF_vars(InPayment(ReconcileCharge(o, r) \/ ReconcileRefused(o, r)))
         /\ \A outcome \in Outcomes : SF_vars(InPayment(ReconcileSettle(o, r, outcome)))
    /\ \A type \in EventTypes :
         /\ WF_vars(InPayment(ReadEvent(o, type)))
         /\ WF_vars(InPayment(ApplyEvent(o, type)))
    /\ \A t \in PaymentTopics : WF_vars(InPayment(PublishPayment(o, t)))

FairSpec == Spec /\ Fairness

-----------------------------------------------------------------------------
(* Every variable of the three services and of Kafka keeps its type; in    *)
(* particular no stock and no point balance becomes negative.              *)
TypeOK == KafkaTypeOK /\ OrderTypeOK /\ InventoryTypeOK /\ PaymentTypeOK

Reserved(o) == Recorded(o, "inventory")
Released(o) == Recorded(o, "inventory-release")

(* inventory-api has told that it has no stock for the order. *)
Refused(o) == produced[TopicInventoryRejected][o] > 0

(* Two handlers of one payment that overlap may settle it differently, and *)
(* the code does not choose between them.  The properties below say what   *)
(* holds of such a payment, and what holds of one that was spared.         *)
Spared(o) == o \notin overlapped

Settled == PaymentStatuses \ {"processing"}

(* Whatever is redelivered, published twice or consumed out of order       *)
(* across topics, an order that order-api shows as paid has a payment that *)
(* was settled, for stock that inventory-api had reserved; and the payment *)
(* has succeeded and the stock is still held, unless handlers overlapped.  *)
PaidOrderIsSettled ==
  \A o \in Orders :
    orders[o] = "paid" =>
      /\ Reserved(o) /\ payments[o] \in Settled
      /\ Spared(o) => payments[o] = "succeeded" /\ ~Released(o)

(* Stock is given back only for an order it was taken for and whose        *)
(* payment was settled, without the money unless handlers overlapped:      *)
(* handle(payments.failed.v1) itself checks none of it.                    *)
ReleaseIsJustified ==
  \A o \in Orders :
    Released(o) =>
      /\ Reserved(o) /\ payments[o] \in Settled
      /\ Spared(o) => payments[o] \in {"failed", "canceled"}

(* The ledger explains the stock: each key moved it at most once, and each *)
(* entry's quantity_after continues from the previous entry of its product *)
(* up to the current quantity, which is never below zero.                  *)
LastEntryBefore(p, i) ==
  {j \in DOMAIN ledger : j < i /\ ledger[j].product = p
                         /\ \A k \in DOMAIN ledger :
                              j < k /\ k < i => ledger[k].product # p}

QuantityBefore(p, i) ==
  IF LastEntryBefore(p, i) = {}
  THEN InitialStock[p]
  ELSE ledger[CHOOSE j \in LastEntryBefore(p, i) : TRUE].quantityAfter

LedgerExplainsStock ==
  /\ \A i, j \in DOMAIN ledger : ledger[i].key = ledger[j].key => i = j
  /\ \A i \in DOMAIN ledger :
       ledger[i].quantityAfter
         = QuantityBefore(ledger[i].product, i) + ledger[i].amount
  /\ \A i \in DOMAIN ledger : ledger[i].quantityAfter >= 0
  /\ \A p \in Products : stock[p] = QuantityBefore(p, Len(ledger) + 1)

(* The points a user has lost are exactly the amounts of the user's        *)
(* succeeded point payments: none is debited twice, for a payment that did *)
(* not succeed, or not at all; and no amount that has overflowed gives     *)
(* points.                                                                 *)
PointsMatchPayments ==
  \A u \in Users :
    /\ balance[u] <= InitialBalance[u]
    /\ InitialBalance[u] - balance[u] =
         MapThenSumSet(TotalAmount,
           {o \in Orders : /\ UserOf[o] = u
                           /\ PaymentMethod[o] = "point"
                           /\ payments[o] = "succeeded"})

(* The consumers of the payment topics never hear both that a payment      *)
(* succeeded and that it failed, as long as no two handlers overlap.       *)
OnePaymentResult ==
  \A o \in Orders :
    Spared(o) =>
      produced[TopicPaymentSucceeded][o] = 0 \/ produced[TopicPaymentFailed][o] = 0

(* An order that failed is not paid for, unless inventory refused it at    *)
(* some time: a refusal is not recorded, so the record of the order,       *)
(* delivered or published once more, may take stock that has come back in  *)
(* the meantime.  Handlers that overlap are excused.                       *)
ChargedFailureWasRefused ==
  \A o \in Orders :
    orders[o] = "failed" /\ payments[o] = "succeeded" => Refused(o) \/ ~Spared(o)

(* An order that failed is not paid for: inventory refused it or its       *)
(* payment ended without the money.                                        *)
FailedOrderNotCharged ==
  \A o \in Orders : orders[o] = "failed" => payments[o] # "succeeded"

(* A card payment succeeds only after the provider took the money.         *)
CardSucceedsWithProvider ==
  \A o \in Orders :
    PaymentMethod[o] = "card" /\ payments[o] = "succeeded" => intents[o] = "succeeded"

(* Once payment-api has committed the record of an order's reserved stock, *)
(* the payment of the order is recorded, so its result will be announced;  *)
(* what may be lost with the error of recordRejected is a rejection only:  *)
(* the user cannot pay the order with points.  An amount that has          *)
(* overflowed is excused.                                                  *)
OnlyRejectionsGetLost ==
  \A o \in Orders :
    /\ TotalAmount(o) > 0
    /\ committed[<<"payment-api", TopicInventoryReserved>>][o] > 0
    /\ payments[o] = "none"
    => PaymentMethod[o] = "point" /\ balance[UserOf[o]] < TotalAmount(o)

(* Once payment-api has committed the record of an order's reserved stock, *)
(* the payment of the order is recorded, so its result will be announced,  *)
(* unless the amount of the order has overflowed.                          *)
HandledOrderHasPayment ==
  \A o \in Orders :
    TotalAmount(o) > 0 /\ committed[<<"payment-api", TopicInventoryReserved>>][o] > 0
      => payments[o] # "none"

-----------------------------------------------------------------------------
(* Why the settlement properties hold: each fact about a service is backed *)
(* by a fact about the one before it, from the order's status back to the  *)
(* stock.  The conjunction is the inductive invariant of the proofs.       *)
OrderBeforeReservation(o) ==
  /\ orderOutbox[o] # "none" => orders[o] # "none"
  /\ produced[TopicOrderCreated][o] > 0 => orderOutbox[o] # "none"
  /\ verdict[o] # "none" => orders[o] # "none"

StockBeforePayment(o) ==
  \/ verdict[o] = TopicInventoryReserved
  \/ produced[TopicInventoryReserved][o] > 0
  \/ payments[o] # "none"
  => Reserved(o)

RefusalMeansNoStock(o) == verdict[o] = TopicInventoryRejected => ~Reserved(o)

CreatingIsProcessing(o) ==
  /\ creating[o] # "none" =>
       payments[o] = "processing" /\ ~sources[o].reference /\ inFlight[o] = {}
  /\ sources[o].reference \/ inFlight[o] # {} \/ ~Spared(o) => payments[o] # "none"

InFlightIsProcessing(o) ==
  Spared(o) =>
    /\ inFlight[o] # {} => payments[o] = "processing"
    /\ \A g, h \in inFlight[o] : g = h

OutboxTellsPayment(o) ==
  /\ \A t \in ResultTopics : paymentOutbox[o][t] # "none" => payments[o] \in Settled
  /\ Spared(o) =>
       /\ paymentOutbox[o][TopicPaymentSucceeded] # "none" => payments[o] = "succeeded"
       /\ paymentOutbox[o][TopicPaymentFailed] # "none" =>
            payments[o] \in {"failed", "canceled"}

RecordComesFromOutbox(o) ==
  \A t \in ResultTopics : produced[t][o] > 0 => paymentOutbox[o][t] # "none"

EffectComesFromRecord(o) ==
  /\ orders[o] = "paid" => produced[TopicPaymentSucceeded][o] > 0
  /\ orders[o] = "failed" => Refused(o) \/ produced[TopicPaymentFailed][o] > 0
  /\ Released(o) => produced[TopicPaymentFailed][o] > 0

(* Every effect of the flow is backed by what caused it, in every order    *)
(* and in every state: no service acts on a record nobody had a reason to  *)
(* produce.                                                                *)
CausalChain ==
  \A o \in Orders :
    /\ OrderBeforeReservation(o)
    /\ StockBeforePayment(o)
    /\ RefusalMeansNoStock(o)
    /\ CreatingIsProcessing(o)
    /\ InFlightIsProcessing(o)
    /\ OutboxTellsPayment(o)
    /\ RecordComesFromOutbox(o)
    /\ EffectComesFromRecord(o)

-----------------------------------------------------------------------------
(* No step takes an order out of paid or failed, however late the record   *)
(* that tries to; nor a payment out of a final status, except for another  *)
(* one where handlers overlapped.                                          *)
OutcomesAreFinal ==
  [][\A o \in Orders :
       /\ orders[o] \in {"paid", "failed"} => orders'[o] = orders[o]
       /\ payments[o] \in Settled =>
            /\ payments'[o] \in Settled
            /\ Spared(o) => payments'[o] = payments[o]]_vars

(* Every order is settled in the end and for good, unless its amount has   *)
(* overflowed, or time and again its payment waits for an event of the     *)
(* provider that nobody has sent, because the customer did not act, or     *)
(* that was lost.                                                          *)
WaitsForEvent(o) ==
  /\ payments[o] = "processing" /\ sources[o].status = "authorized"
  /\ events[o] = {}

OrdersSettle ==
  \A o \in Orders :
    TotalAmount(o) > 0 =>
      <>[](orders[o] \in {"none", "paid", "failed"}) \/ []<>WaitsForEvent(o)

(* An order whose customer must authenticate the payment says so, with the *)
(* URL to do it at, unless the payment ends without.                       *)
ActionShows ==
  \A o \in Orders :
    produced[TopicPaymentActionRequired][o] > 0
      ~> orders[o] \in {"payment_action_required", "paid", "failed"}

(* The stock of an order whose payment failed comes back. *)
StockComesBack ==
  \A o \in Orders : payments[o] \in {"failed", "canceled"} ~> Released(o)

(* A payment that succeeded shows on the order, unless handlers of it      *)
(* overlapped.                                                             *)
PaymentShows ==
  \A o \in Orders :
    payments[o] = "succeeded" ~> orders[o] = "paid" \/ ~Spared(o)

(* The provider has captured the money, and not given up on the payment    *)
(* and said so before the customer authenticated.                          *)
MoneyTaken(o) == intents[o] = "succeeded" /\ events[o] \subseteq {"succeeded"}

(* Money that was taken shows on the order: no crash between the charge    *)
(* and its record keeps money for an unpaid order.  What is excused is the *)
(* loss of the provider's event, and handlers that overlap.                *)
TakenMoneyShows ==
  \A o \in Orders :
    MoneyTaken(o) ~> orders[o] = "paid" \/ WaitsForEvent(o) \/ ~Spared(o)

(* Whatever stops in between, payment-api comes to record money that the   *)
(* provider has captured.                                                  *)
TakenMoneyRecorded ==
  \A o \in Orders :
    MoneyTaken(o) ~> payments[o] = "succeeded" \/ ~Spared(o)

-----------------------------------------------------------------------------
(* The composed services implement the promise of OrderSaga. *)
SagaOrder(o) ==
  CASE orders[o] = "none"   -> "none"
    [] orders[o] = "paid"   -> "paid"
    [] orders[o] = "failed" -> "failed"
    [] OTHER                -> "open"

SagaHeld(o) ==
  IF Released(o) THEN "returned" ELSE IF Reserved(o) THEN "held" ELSE "none"

SagaCharge(o) ==
  CASE payments[o] = "succeeded"             -> "taken"
    [] payments[o] \in {"failed", "canceled"} -> "declined"
    [] OTHER                                  -> "none"

sagaOrder   == [o \in Orders |-> SagaOrder(o)]
sagaHeld    == [o \in Orders |-> SagaHeld(o)]
sagaCharge  == [o \in Orders |-> SagaCharge(o)]
sagaRefused == {o \in Orders : Refused(o)}

Saga == INSTANCE OrderSaga WITH
  order <- sagaOrder, held <- sagaHeld, charge <- sagaCharge, refused <- sagaRefused,
  contested <- overlapped

ImplementsSaga == Saga!Spec

-----------------------------------------------------------------------------
(* Whatever fails or overlaps, the stock moves as the book allows: by the  *)
(* reservation of an order and by its release, each once.                  *)
Reservation(o) == [account |-> ProductOf[o], key |-> Key(o, "inventory"),
                   amount |-> -Quantity[o]]
Release(o)     == [account |-> ProductOf[o], key |-> Key(o, "inventory-release"),
                   amount |-> Quantity[o]]

stockDone ==
  {[account |-> ledger[i].product, key |-> ledger[i].key, amount |-> ledger[i].amount] :
     i \in DOMAIN ledger}

StockBook == INSTANCE AdjustmentBook WITH
  Opening <- InitialStock,
  Requests <- {Reservation(o) : o \in Orders} \cup {Release(o) : o \in Orders},
  quantity <- stock, done <- stockDone

ImplementsStockBook == StockBook!Spec

(* ... and so do the points, by the amounts of orders paid with points.    *)
PointOrders == {o \in Orders : PaymentMethod[o] = "point"}

PointDebit(o) == [account |-> UserOf[o], key |-> o, amount |-> -TotalAmount(o)]

PointBook == INSTANCE AdjustmentBook WITH
  Opening <- InitialBalance, Requests <- {PointDebit(o) : o \in PointOrders},
  quantity <- balance,
  done <- {PointDebit(o) : o \in {q \in PointOrders : payments[q] = "succeeded"}}

ImplementsPointBook == PointBook!Spec
=============================================================================
