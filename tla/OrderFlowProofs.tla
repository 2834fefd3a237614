--------------------------- MODULE OrderFlowProofs ---------------------------
(***************************************************************************)
(* Proofs about OrderFlow for every set of orders, users and products, any *)
(* stock, balance and machine integer, and every combination of faults.    *)
(***************************************************************************)
EXTENDS OrderFlow, FiniteSetTheorems, WellFoundedInduction, TLAPS

(* A wrapped amount is an integer. *)
LEMMA TotalAmountInt ==
  ASSUME NEW o \in Orders
  PROVE  TotalAmount(o) \in Int
<1>1. UnitPrice[o] * Quantity[o] \in Int
  BY OrderFieldsAssumption
<1>2. \A x \in Int : Wrap(x) \in Int
  <2> SUFFICES ASSUME NEW x \in Int PROVE Wrap(x) \in Int
    OBVIOUS
  <2>1. IntModulus \div 2 \in Int
    BY IntModulusAssumption
  <2> DEFINE h == IntModulus \div 2
             y == x + h
  <2>2. y % IntModulus \in Int
    <3>1. y \in Int
      BY <2>1
    <3> HIDE DEF y
    <3> QED BY <3>1, IntModulusAssumption
  <2>3. (y % IntModulus) - h \in Int
    <3> HIDE DEF y, h
    <3>1. h \in Int
      BY <2>1 DEF h
    <3> QED BY <3>1, <2>2
  <2> QED BY <2>3 DEF Wrap
<1> QED BY <1>1, <1>2 DEF TotalAmount

-----------------------------------------------------------------------------
(* Type correctness, one lemma per operation on Kafka and per service. *)
LEMMA ProduceType ==
  ASSUME KafkaTypeOK, NEW t \in Topics, NEW o \in Orders, Produce(t, o)
  PROVE  produced' \in [Topics -> [Orders -> Nat]]
BY DEF KafkaTypeOK, Produce

LEMMA AckType ==
  ASSUME KafkaTypeOK, NEW g, NEW t, <<g, t>> \in Subscriptions, NEW o \in Orders,
         NEW acked \in BOOLEAN, Ack(g, t, o, acked)
  PROVE  committed' \in [Subscriptions -> [Orders -> Nat]]
<1> DEFINE s == <<g, t>>
<1>1. committed' = IF acked THEN [committed EXCEPT ![s][o] = @ + 1] ELSE committed
  BY DEF Ack
<1> HIDE DEF s
<1>2. s \in Subscriptions
  BY DEF s
<1> QED BY <1>1, <1>2 DEF KafkaTypeOK

LEMMA OrderStepType ==
  ASSUME TypeOK, OrderStep
  PROVE  TypeOK'
<1> USE DEF TypeOK, KafkaTypeOK, OrderTypeOK
<1>0. InventoryTypeOK' /\ PaymentTypeOK'
  BY DEF OrderStep, inventoryVars, paymentVars, InventoryTypeOK, PaymentTypeOK
<1>1. PICK o \in Orders :
        \/ CreateOrder(o)
        \/ PublishOrderCreated(o)
        \/ RepublishOrderCreated(o)
        \/ \E acked \in BOOLEAN : OrderConsume(o, acked)
  BY DEF OrderStep, OrderNext
<1>2. CASE CreateOrder(o)
  BY <1>0, <1>2 DEF CreateOrder, kafkaVars, OrderStatuses, OutboxRowStates
<1>3. CASE PublishOrderCreated(o)
  BY <1>0, <1>3, ProduceType DEF PublishOrderCreated, Topics, OutboxRowStates
<1>4. CASE RepublishOrderCreated(o)
  BY <1>0, <1>4, ProduceType DEF RepublishOrderCreated, Topics
<1>5. ASSUME NEW acked \in BOOLEAN, OrderConsume(o, acked)
      PROVE  TypeOK'
  <2>1. ASSUME NEW t \in InventoryTopics, ConsumeInventoryResult(o, t, acked)
        PROVE  TypeOK'
    <3>1. <<"order-api", t>> \in Subscriptions
      BY <2>1 DEF Subscriptions
    <3>2. committed' \in [Subscriptions -> [Orders -> Nat]]
      BY <2>1, <3>1, AckType DEF ConsumeInventoryResult
    <3>3. AfterInventoryResult(orders[o], t) \in OrderStatuses \cup {"none"}
      BY DEF AfterInventoryResult, OrderStatuses
    <3> QED BY <1>0, <2>1, <3>2, <3>3 DEF ConsumeInventoryResult
  <2>2. ASSUME NEW t \in ResultTopics, ConsumePaymentResult(o, t, acked)
        PROVE  TypeOK'
    <3>1. <<"order-api", t>> \in Subscriptions
      BY <2>2 DEF Subscriptions, PaymentTopics
    <3>2. committed' \in [Subscriptions -> [Orders -> Nat]]
      BY <2>2, <3>1, AckType DEF ConsumePaymentResult
    <3>3. AfterPaymentResult(orders[o], t) \in OrderStatuses \cup {"none"}
      BY DEF AfterPaymentResult, OrderStatuses
    <3> QED BY <1>0, <2>2, <3>2, <3>3 DEF ConsumePaymentResult
  <2>3. CASE ConsumeActionRequired(o, acked)
    <3>1. <<"order-api", TopicPaymentActionRequired>> \in Subscriptions
      BY DEF Subscriptions, PaymentTopics
    <3>2. committed' \in [Subscriptions -> [Orders -> Nat]]
      BY <2>3, <3>1, AckType DEF ConsumeActionRequired
    <3>3. AfterActionRequired(orders[o]) \in OrderStatuses \cup {"none"}
      BY DEF AfterActionRequired, OrderStatuses
    <3> QED BY <1>0, <2>3, <3>2, <3>3 DEF ConsumeActionRequired
  <2> QED BY <1>5, <2>1, <2>2, <2>3 DEF OrderConsume
<1> QED BY <1>1, <1>2, <1>3, <1>4, <1>5

LEMMA AdjustedType ==
  ASSUME InventoryTypeOK, NEW o \in Orders, NEW amount \in Int,
         NEW kind \in AdjustmentKinds,
         \/ Replayed(o, kind)
         \/ Insufficient(o, amount, kind)
         \/ Adjusted(o, amount, kind)
  PROVE  stock' \in [Products -> Nat] /\ ledger' \in Seq(LedgerEntries)
<1>1. CASE Replayed(o, kind) \/ Insufficient(o, amount, kind)
  BY <1>1 DEF Replayed, Insufficient, InventoryTypeOK
<1>2. CASE Adjusted(o, amount, kind)
  <2> DEFINE p    == ProductOf[o]
             next == stock[p] + amount
             e    == [product |-> p, key |-> Key(o, kind),
                      amount |-> amount, quantityAfter |-> next]
  <2>1. p \in Products
    BY OrderFieldsAssumption
  <2>2. next \in Nat
    BY <1>2, <2>1 DEF Adjusted, InventoryTypeOK
  <2>3. e \in LedgerEntries
    BY <2>1, <2>2 DEF LedgerEntries, Key
  <2>4. stock' = [stock EXCEPT ![p] = next] /\ ledger' = Append(ledger, e)
    BY <1>2 DEF Adjusted
  <2> HIDE DEF p, next, e
  <2> QED BY <2>1, <2>2, <2>3, <2>4 DEF InventoryTypeOK
<1> QED BY <1>1, <1>2

LEMMA InventoryStepType ==
  ASSUME TypeOK, InventoryStep
  PROVE  TypeOK'
<1>0. OrderTypeOK' /\ PaymentTypeOK'
  BY DEF InventoryStep, TypeOK, orderVars, paymentVars, OrderTypeOK, PaymentTypeOK
<1>q. \A o \in Orders : Quantity[o] \in Int /\ -Quantity[o] \in Int
  BY OrderFieldsAssumption
<1>1. PICK o \in Orders :
        \/ ReserveStock(o)
        \/ LoseVerdict(o)
        \/ \E acked \in BOOLEAN : ProduceVerdict(o, acked) \/ ReleaseStock(o, acked)
  BY DEF InventoryStep, InventoryNext
<1>2. CASE ReserveStock(o)
  <2>1. stock' \in [Products -> Nat] /\ ledger' \in Seq(LedgerEntries)
    BY <1>2, <1>q, AdjustedType DEF ReserveStock, TypeOK, AdjustmentKinds
  <2>2. verdict' \in [Orders -> {"none"} \cup InventoryTopics]
    BY <1>2 DEF ReserveStock, TypeOK, InventoryTypeOK, InventoryTopics
  <2> QED
    BY <1>0, <1>2, <2>1, <2>2
    DEF ReserveStock, TypeOK, InventoryTypeOK, KafkaTypeOK, kafkaVars
<1>3. CASE LoseVerdict(o)
  BY <1>0, <1>3 DEF LoseVerdict, TypeOK, InventoryTypeOK, KafkaTypeOK, kafkaVars
<1>4. ASSUME NEW acked \in BOOLEAN, ProduceVerdict(o, acked)
      PROVE  TypeOK'
  <2>1. verdict[o] \in Topics
    BY <1>4 DEF ProduceVerdict, TypeOK, InventoryTypeOK, Topics
  <2>2. produced' \in [Topics -> [Orders -> Nat]]
    BY <1>4, <2>1, ProduceType DEF ProduceVerdict, TypeOK
  <2>3. <<"inventory-api", TopicOrderCreated>> \in Subscriptions
    BY DEF Subscriptions
  <2>4. committed' \in [Subscriptions -> [Orders -> Nat]]
    BY <1>4, <2>3, AckType DEF ProduceVerdict, TypeOK
  <2> QED
    BY <1>0, <1>4, <2>2, <2>4 DEF ProduceVerdict, TypeOK, InventoryTypeOK, KafkaTypeOK
<1>5. ASSUME NEW acked \in BOOLEAN, ReleaseStock(o, acked)
      PROVE  TypeOK'
  <2>1. stock' \in [Products -> Nat] /\ ledger' \in Seq(LedgerEntries)
    BY <1>5, <1>q, AdjustedType DEF ReleaseStock, TypeOK, AdjustmentKinds
  <2>2. <<"inventory-api", TopicPaymentFailed>> \in Subscriptions
    BY DEF Subscriptions
  <2>3. committed' \in [Subscriptions -> [Orders -> Nat]]
    BY <1>5, <2>2, AckType DEF ReleaseStock, TypeOK
  <2> QED
    BY <1>0, <1>5, <2>1, <2>3 DEF ReleaseStock, TypeOK, InventoryTypeOK, KafkaTypeOK
<1> QED BY <1>1, <1>2, <1>3, <1>4, <1>5

LEMMA ChargedIntentType ==
  ASSUME NEW o \in Orders
  PROVE  ChargedIntents(o) \subseteq {"requires_action", "succeeded"}
BY PaymentConstantsAssumption DEF ChargedIntents

LEMMA SettleType ==
  ASSUME PaymentTypeOK, NEW o \in Orders,
         NEW status \in {"succeeded", "failed", "canceled"}, Settle(o, status)
  PROVE  /\ payments' \in [Orders -> PaymentStatuses \cup {"none"}]
         /\ paymentOutbox' \in
              [Orders -> [PaymentTopics -> {"none", "unpublished", "published"}]]
BY DEF Settle, Enqueue, ResultTopic, PaymentTypeOK, PaymentStatuses, PaymentTopics,
       ResultTopics

LEMMA AckReservedType ==
  ASSUME KafkaTypeOK, NEW o \in Orders, NEW acked \in BOOLEAN, AckReserved(o, acked)
  PROVE  committed' \in [Subscriptions -> [Orders -> Nat]]
<1>1. <<"payment-api", TopicInventoryReserved>> \in Subscriptions
  BY DEF Subscriptions
<1> QED BY <1>1, AckType DEF AckReserved

LEMMA HandleReservedType ==
  ASSUME KafkaTypeOK, PaymentTypeOK, NEW o \in Orders, NEW acked \in BOOLEAN,
         HandleReserved(o, acked)
  PROVE  KafkaTypeOK' /\ PaymentTypeOK'
<1> USE DEF KafkaTypeOK, PaymentTypeOK
<1>1. CASE ReplayPayment(o, acked)
  BY <1>1, AckReservedType DEF ReplayPayment, paymentVars
<1>2. CASE RefuseAmount(o, acked)
  BY <1>2, AckReservedType DEF RefuseAmount, paymentVars
<1>3. CASE CreatePoint(o, acked)
  <2>1. UserOf[o] \in Users
    BY OrderFieldsAssumption
  <2>2. balance[UserOf[o]] - TotalAmount(o) \in Nat
    BY <1>3, <2>1, TotalAmountInt DEF CreatePoint, EnoughPoints
  <2>3. balance' \in [Users -> Nat]
    BY <1>3, <2>1, <2>2 DEF CreatePoint
  <2> QED BY <1>3, <2>3, SettleType, AckReservedType DEF CreatePoint
<1>4. ASSUME NEW recorded \in BOOLEAN, RejectPoint(o, recorded, acked)
      PROVE  KafkaTypeOK' /\ PaymentTypeOK'
  BY <1>4, SettleType, AckReservedType DEF RejectPoint
<1>5. CASE AwaitAction(o, acked)
  BY <1>5, AckReservedType
  DEF AwaitAction, Enqueue, PaymentTopics, SourceStatuses, HandlerStates
<1>6. CASE Capture(o, acked)
  BY <1>6, SettleType, AckReservedType DEF Capture, SourceStatuses, HandlerStates
<1>7. CASE Decline(o, acked)
  <2>1. sources' \in [Orders -> [status : SourceStatuses, reference : BOOLEAN]]
    BY <1>7 DEF Decline, SourceStatuses
  <2>2. creating' \in [Orders -> HandlerStates]
    BY <1>7 DEF Decline, HandlerStates
  <2> QED BY <1>7, <2>1, <2>2, SettleType, AckReservedType DEF Decline
<1> QED
  BY <1>1, <1>2, <1>3, <1>4, <1>5, <1>6, <1>7 DEF HandleReserved, FinishCreate

LEMMA FlightType ==
  ASSUME PaymentTypeOK, NEW o \in Orders,
         \/ \E h \in InFlightKinds : ReadProcessing(o, h) \/ LeaveFlight(o, h)
         \/ \E r \in Reconcilers, outcome \in Outcomes : Decide(o, r, outcome)
  PROVE  inFlight' \in [Orders -> SUBSET InFlightKinds] /\ overlapped' \subseteq Orders
<1> USE DEF PaymentTypeOK
<1>1. ASSUME NEW h \in InFlightKinds, ReadProcessing(o, h) \/ LeaveFlight(o, h)
      PROVE  inFlight' \in [Orders -> SUBSET InFlightKinds] /\ overlapped' \subseteq Orders
  BY <1>1 DEF ReadProcessing, LeaveFlight
<1>2. ASSUME NEW r \in Reconcilers, NEW outcome \in Outcomes, Decide(o, r, outcome)
      PROVE  inFlight' \in [Orders -> SUBSET InFlightKinds] /\ overlapped' \subseteq Orders
  <2>1. <<r, outcome>> \in InFlightKinds
    BY DEF InFlightKinds
  <2> QED BY <1>2, <2>1 DEF Decide
<1> QED BY <1>1, <1>2

LEMMA ReconcileType ==
  ASSUME KafkaTypeOK, PaymentTypeOK, NEW o \in Orders, NEW r \in Reconcilers,
         \/ ReconcileRead(o, r)
         \/ ReconcileCharge(o, r)
         \/ ReconcileRefused(o, r)
         \/ ReconcileUnanswered(o, r)
         \/ \E outcome \in Outcomes :
              ReconcileSettle(o, r, outcome) \/ ReconcileRollback(o, r, outcome)
  PROVE  KafkaTypeOK' /\ PaymentTypeOK'
<1>1. /\ <<r, "listed">> \in InFlightKinds
      /\ \A outcome \in Outcomes : <<r, outcome>> \in InFlightKinds
      /\ "succeeded" \in Outcomes /\ "failed" \in Outcomes
  BY DEF InFlightKinds, Outcomes
<1>2. /\ inFlight' \in [Orders -> SUBSET InFlightKinds]
      /\ overlapped' \subseteq Orders
  BY <1>1, FlightType
  DEF ReconcileRead, ReconcileCharge, ReconcileRefused, ReconcileUnanswered,
      ReconcileSettle, ReconcileRollback
<1>3. \A answer \in ChargedIntents(o) : answer \in IntentStatuses
  BY ChargedIntentType DEF IntentStatuses, EventTypes
<1> USE DEF KafkaTypeOK, PaymentTypeOK
<1>4. CASE ReconcileRead(o, r) \/ ReconcileRefused(o, r)
  BY <1>2, <1>4 DEF ReconcileRead, ReconcileRefused, kafkaVars
<1>5. CASE ReconcileCharge(o, r) \/ ReconcileUnanswered(o, r)
  <2>1. intents' \in [Orders -> IntentStatuses \cup {"none"}]
    BY <1>3, <1>5 DEF ReconcileCharge, ReconcileUnanswered, Charged
  <2> QED BY <1>2, <1>5, <2>1 DEF ReconcileCharge, ReconcileUnanswered, kafkaVars
<1>6. ASSUME NEW outcome \in Outcomes, ReconcileSettle(o, r, outcome)
      PROVE  KafkaTypeOK' /\ PaymentTypeOK'
  BY <1>2, <1>6, SettleType DEF ReconcileSettle, kafkaVars, SourceStatuses, Outcomes
<1>7. ASSUME NEW outcome \in Outcomes, ReconcileRollback(o, r, outcome)
      PROVE  KafkaTypeOK' /\ PaymentTypeOK'
  <2>1. intents' \in [Orders -> IntentStatuses \cup {"none"}]
    BY <1>7 DEF ReconcileRollback, CanceledIntent, IntentStatuses, EventTypes
  <2> QED BY <1>2, <1>7, <2>1 DEF ReconcileRollback, kafkaVars
<1> QED BY <1>4, <1>5, <1>6, <1>7

LEMMA EventType ==
  ASSUME KafkaTypeOK, PaymentTypeOK, NEW o \in Orders, NEW type \in EventTypes,
         LoseEvent(o, type) \/ ReadEvent(o, type) \/ ApplyEvent(o, type) \/ LateEvent(o, type)
  PROVE  KafkaTypeOK' /\ PaymentTypeOK'
<1> USE DEF KafkaTypeOK, PaymentTypeOK
<1>1. type \in {"succeeded", "failed", "canceled"} /\ <<"webhook", type>> \in InFlightKinds
  BY DEF EventTypes, InFlightKinds
<1>2. CASE LoseEvent(o, type) \/ LateEvent(o, type)
  <2>1. CASE LoseEvent(o, type)
    <3>1. events' \in [Orders -> SUBSET EventTypes]
      BY <2>1 DEF LoseEvent
    <3> QED BY <2>1, <3>1 DEF LoseEvent, kafkaVars
  <2>2. CASE LateEvent(o, type)
    <3>1. receipts' \in [Orders -> SUBSET EventTypes]
      BY <2>2 DEF LateEvent
    <3> QED BY <2>2, <3>1 DEF LateEvent, kafkaVars
  <2> QED BY <1>2, <2>1, <2>2
<1>3. CASE ReadEvent(o, type)
  BY <1>1, <1>3, FlightType DEF ReadEvent, kafkaVars
<1>4. CASE ApplyEvent(o, type)
  <2>1. /\ inFlight' \in [Orders -> SUBSET InFlightKinds]
        /\ overlapped' \subseteq Orders
    BY <1>1, <1>4, FlightType DEF ApplyEvent
  <2>2. receipts' \in [Orders -> SUBSET EventTypes]
    BY <1>4 DEF ApplyEvent
  <2>3. CASE type \in receipts[o]
    BY <1>4, <2>1, <2>2, <2>3 DEF ApplyEvent, kafkaVars
  <2>4. CASE type \notin receipts[o]
    <3>1. /\ Settle(o, type)
          /\ sources' = [sources EXCEPT ![o] =
                           [status |-> SourceAfterEvent(type), reference |-> TRUE]]
      BY <1>4, <2>4 DEF ApplyEvent
    <3>2. sources' \in [Orders -> [status : SourceStatuses, reference : BOOLEAN]]
      BY <1>1, <3>1 DEF SourceAfterEvent, SourceStatuses
    <3>3. /\ payments' \in [Orders -> PaymentStatuses \cup {"none"}]
          /\ paymentOutbox' \in
               [Orders -> [PaymentTopics -> {"none", "unpublished", "published"}]]
      BY <1>1, <3>1, SettleType
    <3> QED BY <1>4, <2>1, <2>2, <3>2, <3>3 DEF ApplyEvent, kafkaVars
  <2> QED BY <2>3, <2>4
<1> QED BY <1>2, <1>3, <1>4

LEMMA PaymentStepType ==
  ASSUME TypeOK, PaymentStep
  PROVE  TypeOK'
<1>0. OrderTypeOK' /\ InventoryTypeOK'
  BY DEF PaymentStep, TypeOK, orderVars, inventoryVars, OrderTypeOK, InventoryTypeOK
<1>k. SUFFICES KafkaTypeOK' /\ PaymentTypeOK'
  BY <1>0 DEF TypeOK
<1>t. KafkaTypeOK /\ PaymentTypeOK
  BY DEF TypeOK
<1>1. PICK o \in Orders :
        \/ \E acked \in BOOLEAN : HandleReserved(o, acked)
        \/ InsertProcessing(o)
        \/ Charge(o)
        \/ AbandonCreate(o)
        \/ \E r \in Reconcilers :
             \/ ReconcileRead(o, r)
             \/ ReconcileCharge(o, r)
             \/ ReconcileRefused(o, r)
             \/ ReconcileUnanswered(o, r)
             \/ \E outcome \in Outcomes :
                  ReconcileSettle(o, r, outcome) \/ ReconcileRollback(o, r, outcome)
        \/ ConfirmThreeDS(o)
        \/ \E type \in EventTypes \ {"succeeded"} : ProviderEnds(o, type)
        \/ \E type \in EventTypes :
             \/ LoseEvent(o, type)
             \/ ReadEvent(o, type) \/ ApplyEvent(o, type) \/ LateEvent(o, type)
        \/ \E t \in PaymentTopics : PublishPayment(o, t) \/ RepublishPayment(o, t)
  BY DEF PaymentStep, PaymentNext
<1>2. ASSUME NEW acked \in BOOLEAN, HandleReserved(o, acked)
      PROVE  KafkaTypeOK' /\ PaymentTypeOK'
  BY <1>t, <1>2, HandleReservedType
<1>3. ASSUME NEW r \in Reconcilers,
             \/ ReconcileRead(o, r)
             \/ ReconcileCharge(o, r)
             \/ ReconcileRefused(o, r)
             \/ ReconcileUnanswered(o, r)
             \/ \E outcome \in Outcomes :
                  ReconcileSettle(o, r, outcome) \/ ReconcileRollback(o, r, outcome)
      PROVE  KafkaTypeOK' /\ PaymentTypeOK'
  BY <1>t, <1>3, ReconcileType
<1>4. ASSUME NEW type \in EventTypes,
             \/ LoseEvent(o, type)
             \/ ReadEvent(o, type) \/ ApplyEvent(o, type) \/ LateEvent(o, type)
      PROVE  KafkaTypeOK' /\ PaymentTypeOK'
  BY <1>t, <1>4, EventType
<1> USE DEF TypeOK, KafkaTypeOK, PaymentTypeOK
<1>5. CASE InsertProcessing(o)
  BY <1>5 DEF InsertProcessing, kafkaVars, PaymentStatuses, SourceStatuses, HandlerStates
<1>6. CASE Charge(o)
  <2>1. \A answer \in ChargedIntents(o) : answer \in HandlerStates \cap IntentStatuses
    BY ChargedIntentType DEF HandlerStates, IntentStatuses, EventTypes
  <2>2. intents' \in [Orders -> IntentStatuses \cup {"none"}]
    BY <1>6, <2>1 DEF Charge, Charged
  <2>3. creating' \in [Orders -> HandlerStates]
    BY <1>6, <2>1 DEF Charge, HandlerStates
  <2> QED BY <1>6, <2>2, <2>3 DEF Charge, kafkaVars
<1>7. CASE AbandonCreate(o)
  BY <1>7 DEF AbandonCreate, kafkaVars, HandlerStates
<1>8. CASE ConfirmThreeDS(o)
  BY <1>8 DEF ConfirmThreeDS, Notify, kafkaVars, IntentStatuses, EventTypes
<1>9. ASSUME NEW type \in EventTypes, ProviderEnds(o, type)
      PROVE  KafkaTypeOK' /\ PaymentTypeOK'
  BY <1>9 DEF ProviderEnds, Notify, kafkaVars, IntentStatuses
<1>10. ASSUME NEW t \in PaymentTopics, PublishPayment(o, t)
       PROVE  KafkaTypeOK' /\ PaymentTypeOK'
  BY <1>10, ProduceType DEF PublishPayment, Topics
<1>11. ASSUME NEW t \in PaymentTopics, RepublishPayment(o, t)
       PROVE  KafkaTypeOK' /\ PaymentTypeOK'
  BY <1>11, ProduceType DEF RepublishPayment, Topics, paymentVars
<1> QED
  BY <1>1, <1>2, <1>3, <1>4, <1>5, <1>6, <1>7, <1>8, <1>9, <1>10, <1>11

(* TypeOK is an invariant: in every reachable state stock and balances are *)
(* natural numbers, whatever the quantities and the wrapped amounts are.   *)
THEOREM TypeCorrect == Spec => []TypeOK
<1>1. Init => TypeOK
  BY InitialStockAssumption, PaymentConstantsAssumption
  DEF Init, KafkaInit, OrderInit, InventoryInit, PaymentInit,
      TypeOK, KafkaTypeOK, OrderTypeOK, InventoryTypeOK, PaymentTypeOK,
      OutboxRowStates, HandlerStates, SourceStatuses
<1>2. TypeOK /\ [Next]_vars => TypeOK'
  <2> SUFFICES ASSUME TypeOK, [Next]_vars PROVE TypeOK'
    OBVIOUS
  <2>1. CASE Next
    BY <2>1, OrderStepType, InventoryStepType, PaymentStepType DEF Next
  <2>2. CASE UNCHANGED vars
    BY <2>2
    DEF vars, kafkaVars, orderVars, inventoryVars, paymentVars,
        TypeOK, KafkaTypeOK, OrderTypeOK, InventoryTypeOK, PaymentTypeOK
  <2> QED BY <2>1, <2>2
<1> QED BY <1>1, <1>2, PTL DEF Spec

-----------------------------------------------------------------------------
(* What one step does to the logs and to the ledger. *)
LEMMA UncommittedWasProduced ==
  ASSUME KafkaTypeOK, NEW g, NEW t \in Topics, <<g, t>> \in Subscriptions,
         NEW o \in Orders, Uncommitted(g, t, o)
  PROVE  produced[t][o] > 0
<1> DEFINE s == <<g, t>>
<1>1. committed[s][o] < produced[t][o]
  BY DEF Uncommitted
<1> HIDE DEF s
<1>2. s \in Subscriptions
  BY DEF s
<1> QED BY <1>1, <1>2 DEF KafkaTypeOK

LEMMA ProduceEffect ==
  ASSUME KafkaTypeOK, NEW t \in Topics, NEW o \in Orders, Produce(t, o)
  PROVE  \A u \in Topics, q \in Orders :
           /\ produced[u][q] \in Nat
           /\ produced'[u][q] = IF u = t /\ q = o THEN produced[u][q] + 1 ELSE produced[u][q]
BY DEF KafkaTypeOK, Produce

LEMMA LedgerUnchanged ==
  ASSUME UNCHANGED ledger, NEW q, NEW kind
  PROVE  Recorded(q, kind)' <=> Recorded(q, kind)
BY DEF Recorded

LEMMA AdjustedRecords ==
  ASSUME InventoryTypeOK, NEW o \in Orders, NEW amount \in Int,
         NEW kind \in AdjustmentKinds, Adjusted(o, amount, kind),
         NEW q \in Orders, NEW k \in AdjustmentKinds
  PROVE  Recorded(q, k)' <=> Recorded(q, k) \/ (q = o /\ k = kind)
<1> DEFINE p == ProductOf[o]
           e == [product |-> p, key |-> Key(o, kind),
                 amount |-> amount, quantityAfter |-> stock[p] + amount]
<1>1. ledger' = Append(ledger, e)
  BY DEF Adjusted
<1>2. ledger \in Seq(LedgerEntries)
  BY DEF InventoryTypeOK
<1>3. e.key = <<o, kind>>
  BY DEF Key
<1> HIDE DEF e
<1>4. /\ DOMAIN ledger' = 1 .. Len(ledger) + 1
      /\ DOMAIN ledger = 1 .. Len(ledger)
      /\ Len(ledger) \in Nat
      /\ \A i \in 1 .. Len(ledger) : ledger'[i] = ledger[i]
      /\ ledger'[Len(ledger) + 1] = e
  BY <1>1, <1>2
<1>5. <<q, k>> = <<o, kind>> <=> q = o /\ k = kind
  OBVIOUS
<1> QED BY <1>3, <1>4, <1>5 DEF Recorded, Key

-----------------------------------------------------------------------------
(* What a step of payment-api does to the payment of o, whatever action it *)
(* is: the proofs about payments go through these effects.                 *)
PaymentKept ==
  UNCHANGED <<payments, sources, paymentOutbox, balance, creating, inFlight, overlapped,
              produced>>

\* A payment with points is created and settled in one transaction.
SettlesAtOnce(o, status) ==
  /\ NewPayment(o, "point")
  /\ Settle(o, status)
  /\ IF status = "succeeded"
     THEN balance' = [balance EXCEPT ![UserOf[o]] = @ - TotalAmount(o)]
     ELSE UNCHANGED balance
  /\ UNCHANGED <<sources, creating, inFlight, overlapped, produced>>

\* The handler that created the payment settles it.
SettlesCharged(o, status) ==
  /\ creating[o] # "none"
  /\ creating' = [creating EXCEPT ![o] = "none"]
  /\ Settle(o, status)
  /\ \A q \in Orders \ {o} : sources'[q] = sources[q]
  /\ UNCHANGED <<balance, inFlight, overlapped, produced>>

\* A handler that has read the payment as processing settles it.
SettlesRead(o, status) ==
  /\ \E h \in InFlightKinds : LeaveFlight(o, h)
  /\ Settle(o, status)
  /\ \A q \in Orders \ {o} : sources'[q] = sources[q]
  /\ UNCHANGED <<balance, creating, produced>>

\* The handler that created the payment leaves it to the customer.
LeftToCustomer(o) ==
  /\ creating[o] # "none"
  /\ creating' = [creating EXCEPT ![o] = "none"]
  /\ Enqueue(o, TopicPaymentActionRequired)
  /\ \A q \in Orders \ {o} : sources'[q] = sources[q]
  /\ UNCHANGED <<payments, balance, inFlight, overlapped, produced>>

\* The handler that created the payment charges, or stops.
CreatorMoves(o) ==
  /\ creating[o] # "none"
  /\ \A q \in Orders \ {o} : creating'[q] = creating[q]
  /\ UNCHANGED <<payments, sources, paymentOutbox, balance, inFlight, overlapped, produced>>

\* A handler reads the payment, decides about it, or gives up.
FlightMoves(o) ==
  /\ \/ \E h \in InFlightKinds :
          /\ ReadProcessing(o, h)
          /\ payments[o] = "processing"
          /\ creating[o] = "none" \/ sources[o].reference
     \/ \E h \in InFlightKinds : LeaveFlight(o, h)
     \/ \E r \in Reconcilers, outcome \in Outcomes : Decide(o, r, outcome)
  /\ UNCHANGED <<payments, sources, paymentOutbox, balance, creating, produced>>

Announces(o, t) ==
  /\ Produce(t, o)
  /\ paymentOutbox[o][t] # "none"
  /\ \A q \in Orders, u \in PaymentTopics :
       paymentOutbox'[q][u] = "none" <=> paymentOutbox[q][u] = "none"
  /\ UNCHANGED <<payments, sources, balance, creating, inFlight, overlapped>>

PaymentEffect(o) ==
  \/ PaymentKept
  \/ InsertProcessing(o)
  \/ CreatorMoves(o)
  \/ LeftToCustomer(o)
  \/ FlightMoves(o)
  \/ \E status \in Settled :
       SettlesAtOnce(o, status) \/ SettlesCharged(o, status) \/ SettlesRead(o, status)
  \/ \E t \in PaymentTopics : Announces(o, t)

LEMMA HandleReservedEffect ==
  ASSUME TypeOK, NEW o \in Orders, NEW acked \in BOOLEAN, HandleReserved(o, acked)
  PROVE  PaymentEffect(o)
<1>s. "succeeded" \in Settled /\ "failed" \in Settled
  BY DEF Settled, PaymentStatuses
<1>1. CASE ReplayPayment(o, acked) \/ RefuseAmount(o, acked)
  BY <1>1 DEF ReplayPayment, RefuseAmount, paymentVars, PaymentEffect, PaymentKept
<1>2. CASE CreatePoint(o, acked)
  <2>1. SettlesAtOnce(o, "succeeded")
    BY <1>2 DEF CreatePoint, SettlesAtOnce
  <2> QED BY <1>s, <2>1 DEF PaymentEffect
<1>3. ASSUME NEW recorded \in BOOLEAN, RejectPoint(o, recorded, acked)
      PROVE  PaymentEffect(o)
  <2>1. SettlesAtOnce(o, "failed") \/ PaymentKept
    BY <1>3 DEF RejectPoint, SettlesAtOnce, PaymentKept
  <2> QED BY <1>s, <2>1 DEF PaymentEffect
<1>4. CASE AwaitAction(o, acked)
  <2>1. LeftToCustomer(o)
    BY <1>4 DEF AwaitAction, LeftToCustomer, TypeOK, PaymentTypeOK
  <2> QED BY <2>1 DEF PaymentEffect
<1>5. CASE Capture(o, acked)
  <2>1. SettlesCharged(o, "succeeded")
    BY <1>5 DEF Capture, SettlesCharged, TypeOK, PaymentTypeOK
  <2> QED BY <1>s, <2>1 DEF PaymentEffect
<1>6. CASE Decline(o, acked)
  <2>1. SettlesCharged(o, "failed")
    BY <1>6 DEF Decline, SettlesCharged, TypeOK, PaymentTypeOK
  <2> QED BY <1>s, <2>1 DEF PaymentEffect
<1> QED BY <1>1, <1>2, <1>3, <1>4, <1>5, <1>6 DEF HandleReserved, FinishCreate

LEMMA ReconcileEffect ==
  ASSUME TypeOK, NEW o \in Orders, NEW r \in Reconcilers,
         \/ ReconcileRead(o, r)
         \/ ReconcileCharge(o, r)
         \/ ReconcileRefused(o, r)
         \/ ReconcileUnanswered(o, r)
         \/ \E outcome \in Outcomes :
              ReconcileSettle(o, r, outcome) \/ ReconcileRollback(o, r, outcome)
  PROVE  PaymentEffect(o)
<1>0. /\ <<r, "listed">> \in InFlightKinds
      /\ \A outcome \in Outcomes : <<r, outcome>> \in InFlightKinds /\ outcome \in Settled
      /\ "succeeded" \in Outcomes /\ "failed" \in Outcomes
  BY DEF InFlightKinds, Outcomes, Settled, PaymentStatuses
<1>1. CASE \/ ReconcileRead(o, r) \/ ReconcileCharge(o, r) \/ ReconcileRefused(o, r)
           \/ ReconcileUnanswered(o, r)
           \/ \E outcome \in Outcomes : ReconcileRollback(o, r, outcome)
  <2>1. FlightMoves(o)
    BY <1>0, <1>1
    DEF ReconcileRead, Unresolved, ReconcileCharge, ReconcileRefused, ReconcileUnanswered,
        ReconcileRollback, FlightMoves, kafkaVars
  <2> QED BY <2>1 DEF PaymentEffect
<1>2. ASSUME NEW outcome \in Outcomes, ReconcileSettle(o, r, outcome)
      PROVE  PaymentEffect(o)
  <2>1. \A q \in Orders \ {o} : sources'[q] = sources[q]
    BY <1>2 DEF ReconcileSettle, TypeOK, PaymentTypeOK
  <2>2. SettlesRead(o, outcome)
    BY <1>0, <1>2, <2>1 DEF ReconcileSettle, SettlesRead, kafkaVars
  <2> QED BY <1>0, <2>2 DEF PaymentEffect
<1> QED BY <1>1, <1>2

LEMMA ProviderEffect ==
  ASSUME TypeOK, NEW o \in Orders,
         \/ ConfirmThreeDS(o)
         \/ \E type \in EventTypes :
              \/ ProviderEnds(o, type)
              \/ LoseEvent(o, type)
              \/ ReadEvent(o, type) \/ ApplyEvent(o, type) \/ LateEvent(o, type)
  PROVE  PaymentEffect(o)
<1>1. CASE \/ ConfirmThreeDS(o)
           \/ \E type \in EventTypes :
                ProviderEnds(o, type) \/ LoseEvent(o, type) \/ LateEvent(o, type)
  <2>1. PaymentKept
    BY <1>1
    DEF ConfirmThreeDS, ProviderEnds, Notify, LoseEvent, LateEvent, PaymentKept, kafkaVars
  <2> QED BY <2>1 DEF PaymentEffect
<1>2. ASSUME NEW type \in EventTypes, ReadEvent(o, type)
      PROVE  PaymentEffect(o)
  <2>1. <<"webhook", type>> \in InFlightKinds
    BY DEF InFlightKinds
  <2>2. FlightMoves(o)
    BY <1>2, <2>1 DEF ReadEvent, MovedByEvent, FlightMoves, kafkaVars
  <2> QED BY <2>2 DEF PaymentEffect
<1>3. ASSUME NEW type \in EventTypes, ApplyEvent(o, type)
      PROVE  PaymentEffect(o)
  <2>1. <<"webhook", type>> \in InFlightKinds /\ type \in Settled
    BY DEF InFlightKinds, EventTypes, Settled, PaymentStatuses
  <2>2. CASE type \in receipts[o]
    <3>1. FlightMoves(o)
      BY <1>3, <2>1, <2>2 DEF ApplyEvent, FlightMoves, kafkaVars
    <3> QED BY <3>1 DEF PaymentEffect
  <2>3. CASE type \notin receipts[o]
    <3>1. \A q \in Orders \ {o} : sources'[q] = sources[q]
      BY <1>3, <2>3 DEF ApplyEvent, TypeOK, PaymentTypeOK
    <3>2. SettlesRead(o, type)
      BY <1>3, <2>1, <2>3, <3>1 DEF ApplyEvent, SettlesRead, kafkaVars
    <3> QED BY <2>1, <3>2 DEF PaymentEffect
  <2> QED BY <2>2, <2>3
<1> QED BY <1>1, <1>2, <1>3

LEMMA PublishEffect ==
  ASSUME TypeOK, NEW o \in Orders, NEW t \in PaymentTopics,
         PublishPayment(o, t) \/ RepublishPayment(o, t)
  PROVE  PaymentEffect(o)
<1>1. \A q \in Orders, u \in PaymentTopics :
        paymentOutbox'[q][u] = "none" <=> paymentOutbox[q][u] = "none"
  <2>1. CASE PublishPayment(o, t)
    <3>1. /\ paymentOutbox[o][t] = "unpublished"
          /\ paymentOutbox' = [paymentOutbox EXCEPT ![o][t] = "published"]
      BY <2>1 DEF PublishPayment
    <3> QED BY <3>1 DEF TypeOK, PaymentTypeOK
  <2>2. CASE RepublishPayment(o, t)
    BY <2>2 DEF RepublishPayment, paymentVars
  <2> QED BY <2>1, <2>2
<1>2. Announces(o, t)
  BY <1>1 DEF PublishPayment, RepublishPayment, paymentVars, Announces
<1> QED BY <1>2 DEF PaymentEffect

LEMMA PaymentStepEffect ==
  ASSUME TypeOK, PaymentNext
  PROVE  \E o \in Orders : PaymentEffect(o)
<1>1. ASSUME NEW o \in Orders, InsertProcessing(o) PROVE PaymentEffect(o)
  BY <1>1 DEF PaymentEffect
<1>2. ASSUME NEW o \in Orders, Charge(o) \/ AbandonCreate(o) PROVE PaymentEffect(o)
  <2>1. CreatorMoves(o)
    BY <1>2 DEF Charge, AbandonCreate, CreatorMoves, kafkaVars, TypeOK, PaymentTypeOK
  <2> QED BY <2>1 DEF PaymentEffect
<1> QED
  BY <1>1, <1>2, HandleReservedEffect, ReconcileEffect, ProviderEffect, PublishEffect
  DEF PaymentNext

-----------------------------------------------------------------------------
(* The causal chain is inductive: one lemma per service. *)
LEMMA OrderStepChain ==
  ASSUME TypeOK, CausalChain, OrderStep
  PROVE  CausalChain'
<1> SUFFICES ASSUME NEW q \in Orders
             PROVE  /\ OrderBeforeReservation(q)'
                    /\ StockBeforePayment(q)'
                    /\ RefusalMeansNoStock(q)'
                    /\ CreatingIsProcessing(q)'
                    /\ InFlightIsProcessing(q)'
                    /\ OutboxTellsPayment(q)'
                    /\ RecordComesFromOutbox(q)'
                    /\ EffectComesFromRecord(q)'
  BY DEF CausalChain
<1>u. UNCHANGED <<ledger, verdict, payments, sources, paymentOutbox, creating, inFlight,
                overlapped>>
  BY DEF OrderStep, inventoryVars, paymentVars
<1>l. /\ Reserved(q)' <=> Reserved(q)
      /\ Released(q)' <=> Released(q)
  BY <1>u, LedgerUnchanged DEF Reserved, Released
<1>c. /\ OrderBeforeReservation(q)
      /\ StockBeforePayment(q)
      /\ RefusalMeansNoStock(q)
      /\ CreatingIsProcessing(q)
      /\ InFlightIsProcessing(q)
      /\ OutboxTellsPayment(q)
      /\ RecordComesFromOutbox(q)
      /\ EffectComesFromRecord(q)
  BY DEF CausalChain
<1>k. /\ RefusalMeansNoStock(q)'
      /\ CreatingIsProcessing(q)'
      /\ InFlightIsProcessing(q)'
      /\ OutboxTellsPayment(q)'
  BY <1>u, <1>l, <1>c
  DEF RefusalMeansNoStock, CreatingIsProcessing, InFlightIsProcessing, OutboxTellsPayment,
      Spared
<1>1. PICK o \in Orders :
        \/ CreateOrder(o)
        \/ PublishOrderCreated(o)
        \/ RepublishOrderCreated(o)
        \/ \E acked \in BOOLEAN : OrderConsume(o, acked)
  BY DEF OrderStep, OrderNext
<1> USE DEF TypeOK
<1>2. CASE CreateOrder(o)
  BY <1>u, <1>l, <1>c, <1>k, <1>2
  DEF CreateOrder, kafkaVars, OrderTypeOK, OrderBeforeReservation, StockBeforePayment,
      RecordComesFromOutbox, EffectComesFromRecord, Refused
<1>3. ASSUME Produce(TopicOrderCreated, o), UNCHANGED orders,
             orderOutbox[o] # "none", orderOutbox'[o] # "none",
             \A r \in Orders \ {o} : orderOutbox'[r] = orderOutbox[r]
      PROVE  /\ OrderBeforeReservation(q)'
             /\ StockBeforePayment(q)'
             /\ RecordComesFromOutbox(q)'
             /\ EffectComesFromRecord(q)'
  <2>1. /\ produced'[TopicOrderCreated][q] > 0 =>
             q = o \/ produced[TopicOrderCreated][q] > 0
        /\ \A t \in Topics \ {TopicOrderCreated} : produced'[t][q] = produced[t][q]
    <3>1. TopicOrderCreated \in Topics
      BY DEF Topics
    <3>2. \A u \in Topics :
            /\ produced[u][q] \in Nat
            /\ produced'[u][q] = IF u = TopicOrderCreated /\ q = o
                                  THEN produced[u][q] + 1 ELSE produced[u][q]
      BY <1>3, <3>1, ProduceEffect
    <3> QED BY <3>1, <3>2
  <2>2. OrderBeforeReservation(q)'
    BY <1>u, <1>c, <1>3, <2>1 DEF OrderBeforeReservation, OrderTypeOK
  <2>3. \A t \in InventoryTopics \cup ResultTopics : produced'[t][q] = produced[t][q]
    BY <2>1 DEF Topics, InventoryTopics, PaymentTopics, ResultTopics, TopicOrderCreated,
                TopicInventoryReserved, TopicInventoryRejected, TopicPaymentSucceeded,
                TopicPaymentFailed
  <2> QED
    BY <1>u, <1>l, <1>c, <1>3, <2>2, <2>3
    DEF StockBeforePayment, RecordComesFromOutbox, EffectComesFromRecord, Refused,
        InventoryTopics, ResultTopics
<1>4. CASE PublishOrderCreated(o) \/ RepublishOrderCreated(o)
  BY <1>k, <1>3, <1>4 DEF PublishOrderCreated, RepublishOrderCreated, OrderTypeOK
<1>5. ASSUME NEW acked \in BOOLEAN, OrderConsume(o, acked)
      PROVE  /\ OrderBeforeReservation(q)'
             /\ StockBeforePayment(q)'
             /\ RecordComesFromOutbox(q)'
             /\ EffectComesFromRecord(q)'
  <2> DEFINE Effect ==
        /\ UNCHANGED <<orderOutbox, produced>>
        /\ orders[q] # "none" => orders'[q] # "none"
        /\ orders'[q] = "paid" => \/ orders[q] = "paid"
                                   \/ produced[TopicPaymentSucceeded][q] > 0
        /\ orders'[q] = "failed" => \/ orders[q] = "failed"
                                     \/ Refused(q)
                                     \/ produced[TopicPaymentFailed][q] > 0
  <2>1. Effect
    <3>1. ASSUME NEW t \in InventoryTopics, ConsumeInventoryResult(o, t, acked)
          PROVE  Effect
      <4>1. <<"order-api", t>> \in Subscriptions /\ t \in Topics
        BY <3>1 DEF Subscriptions, Topics
      <4>2. produced[t][o] > 0
        BY <3>1, <4>1, UncommittedWasProduced DEF ConsumeInventoryResult
      <4>3. t = TopicInventoryReserved \/ t = TopicInventoryRejected
        BY DEF InventoryTopics
      <4> QED
        BY <3>1, <4>2, <4>3
        DEF ConsumeInventoryResult, AfterInventoryResult, OrderTypeOK,
            AcceptsInventoryResult, Refused
    <3>2. ASSUME NEW t \in ResultTopics, ConsumePaymentResult(o, t, acked)
          PROVE  Effect
      <4>1. <<"order-api", t>> \in Subscriptions /\ t \in Topics
        BY <3>2 DEF Subscriptions, PaymentTopics, Topics
      <4>2. produced[t][o] > 0
        BY <3>2, <4>1, UncommittedWasProduced DEF ConsumePaymentResult
      <4>3. t = TopicPaymentSucceeded \/ t = TopicPaymentFailed
        BY DEF ResultTopics
      <4> QED
        BY <3>2, <4>2, <4>3
        DEF ConsumePaymentResult, AfterPaymentResult, OrderTypeOK, AcceptsPaymentResult
    <3>3. CASE ConsumeActionRequired(o, acked)
      BY <3>3 DEF ConsumeActionRequired, AfterActionRequired, OrderTypeOK,
                  AcceptsPaymentResult
    <3> QED BY <1>5, <3>1, <3>2, <3>3 DEF OrderConsume
  <2> QED
    BY <1>u, <1>l, <1>c, <2>1
    DEF OrderBeforeReservation, StockBeforePayment, RecordComesFromOutbox,
        EffectComesFromRecord, Refused
<1> QED BY <1>k, <1>1, <1>2, <1>4, <1>5

LEMMA InventoryStepChain ==
  ASSUME TypeOK, CausalChain, InventoryStep
  PROVE  CausalChain'
<1> SUFFICES ASSUME NEW q \in Orders
             PROVE  /\ OrderBeforeReservation(q)'
                    /\ StockBeforePayment(q)'
                    /\ RefusalMeansNoStock(q)'
                    /\ CreatingIsProcessing(q)'
                    /\ InFlightIsProcessing(q)'
                    /\ OutboxTellsPayment(q)'
                    /\ RecordComesFromOutbox(q)'
                    /\ EffectComesFromRecord(q)'
  BY DEF CausalChain
<1>u. UNCHANGED <<orders, orderOutbox, payments, sources, paymentOutbox, creating, inFlight,
                overlapped>>
  BY DEF InventoryStep, orderVars, paymentVars
<1>c. \A r \in Orders :
        /\ OrderBeforeReservation(r)
        /\ StockBeforePayment(r)
        /\ RefusalMeansNoStock(r)
        /\ CreatingIsProcessing(r)
        /\ InFlightIsProcessing(r)
        /\ OutboxTellsPayment(r)
        /\ RecordComesFromOutbox(r)
        /\ EffectComesFromRecord(r)
  BY DEF CausalChain
<1>k. CreatingIsProcessing(q)' /\ InFlightIsProcessing(q)' /\ OutboxTellsPayment(q)'
  BY <1>u, <1>c DEF CreatingIsProcessing, InFlightIsProcessing, OutboxTellsPayment, Spared
<1> USE DEF TypeOK
<1>t. InventoryTopics \subseteq Topics /\ TopicOrderCreated \in Topics
      /\ TopicPaymentFailed \in Topics
  BY DEF InventoryTopics, Topics, PaymentTopics, ResultTopics
<1>s. /\ <<"inventory-api", TopicOrderCreated>> \in Subscriptions
      /\ <<"inventory-api", TopicPaymentFailed>> \in Subscriptions
  BY DEF Subscriptions
<1>q. \A r \in Orders : Quantity[r] \in Int /\ -Quantity[r] \in Int
  BY OrderFieldsAssumption
<1>1. PICK o \in Orders :
        \/ ReserveStock(o)
        \/ LoseVerdict(o)
        \/ \E acked \in BOOLEAN : ProduceVerdict(o, acked) \/ ReleaseStock(o, acked)
  BY DEF InventoryStep, InventoryNext
<1>2. CASE ReserveStock(o)
  <2>1. UNCHANGED produced
    BY <1>2 DEF ReserveStock, kafkaVars
  <2>2. orders[o] # "none"
    <3>1. produced[TopicOrderCreated][o] > 0
      BY <1>2, <1>t, <1>s, UncommittedWasProduced DEF ReserveStock
    <3> QED BY <3>1, <1>c DEF OrderBeforeReservation
  <2>3. /\ Released(q)' <=> Released(q)
        /\ Reserved(q) => Reserved(q)'
        /\ verdict'[q] = TopicInventoryReserved =>
             Reserved(q)' \/ verdict[q] = TopicInventoryReserved
        /\ verdict'[q] = TopicInventoryRejected => ~Reserved(q)'
        /\ verdict'[q] # "none" => verdict[q] # "none" \/ q = o
    <3>1. CASE /\ Replayed(o, "inventory")
               /\ verdict' = [verdict EXCEPT ![o] = TopicInventoryReserved]
      <4>1. UNCHANGED ledger /\ Reserved(o)
        BY <3>1 DEF Replayed, Reserved
      <4> QED
        BY <3>1, <4>1, <1>c, LedgerUnchanged
        DEF Reserved, Released, InventoryTypeOK, RefusalMeansNoStock,
            TopicInventoryReserved, TopicInventoryRejected
    <3>2. CASE /\ Adjusted(o, -Quantity[o], "inventory")
               /\ verdict' = [verdict EXCEPT ![o] = TopicInventoryReserved]
      <4>1. /\ Reserved(q)' <=> Reserved(q) \/ q = o
            /\ Released(q)' <=> Released(q)
        BY <3>2, <1>q, AdjustedRecords DEF Reserved, Released, AdjustmentKinds
      <4> QED
        BY <3>2, <4>1, <1>c
        DEF InventoryTypeOK, RefusalMeansNoStock,
            TopicInventoryReserved, TopicInventoryRejected
    <3>3. CASE /\ Insufficient(o, -Quantity[o], "inventory")
               /\ verdict' = [verdict EXCEPT ![o] = TopicInventoryRejected]
      <4>1. UNCHANGED ledger /\ ~Reserved(o)
        BY <3>3 DEF Insufficient, Reserved
      <4> QED
        BY <3>3, <4>1, <1>c, LedgerUnchanged
        DEF Reserved, Released, InventoryTypeOK, RefusalMeansNoStock,
            TopicInventoryReserved, TopicInventoryRejected
    <3> QED BY <1>2, <3>1, <3>2, <3>3 DEF ReserveStock
  <2> QED
    BY <1>u, <1>c, <1>k, <2>1, <2>2, <2>3
    DEF OrderBeforeReservation, StockBeforePayment, RefusalMeansNoStock,
        RecordComesFromOutbox, EffectComesFromRecord, Refused
<1>3. CASE LoseVerdict(o)
  <2>1. UNCHANGED <<produced, ledger>>
    BY <1>3 DEF LoseVerdict, kafkaVars
  <2>2. verdict'[q] = "none" \/ verdict'[q] = verdict[q]
    BY <1>3 DEF LoseVerdict, InventoryTypeOK
  <2> QED
    BY <1>u, <1>c, <1>k, <2>1, <2>2, LedgerUnchanged
    DEF OrderBeforeReservation, StockBeforePayment, RefusalMeansNoStock, Reserved, Released,
        RecordComesFromOutbox, EffectComesFromRecord, Refused,
        TopicInventoryReserved, TopicInventoryRejected
<1>4. ASSUME NEW acked \in BOOLEAN, ProduceVerdict(o, acked)
      PROVE  /\ OrderBeforeReservation(q)'
             /\ StockBeforePayment(q)'
             /\ RefusalMeansNoStock(q)'
             /\ RecordComesFromOutbox(q)'
             /\ EffectComesFromRecord(q)'
  <2>1. UNCHANGED ledger /\ verdict[o] \in InventoryTopics
    BY <1>4 DEF ProduceVerdict, InventoryTypeOK
  <2>2. verdict'[q] = "none" \/ verdict'[q] = verdict[q]
    BY <1>4 DEF ProduceVerdict, InventoryTypeOK
  <2>3. \A u \in Topics :
          /\ produced[u][q] \in Nat
          /\ produced'[u][q] = IF u = verdict[o] /\ q = o
                                THEN produced[u][q] + 1 ELSE produced[u][q]
    BY <1>4, <1>t, <2>1, ProduceEffect DEF ProduceVerdict
  <2>4. /\ produced'[TopicOrderCreated][q] = produced[TopicOrderCreated][q]
        /\ \A t \in ResultTopics : produced'[t][q] = produced[t][q]
        /\ produced'[TopicInventoryReserved][q] > 0 =>
             \/ produced[TopicInventoryReserved][q] > 0
             \/ verdict[q] = TopicInventoryReserved
        /\ Refused(q) => Refused(q)'
    BY <2>1, <2>3
    DEF Topics, InventoryTopics, PaymentTopics, ResultTopics, TopicOrderCreated,
        TopicInventoryReserved, TopicInventoryRejected, TopicPaymentSucceeded,
        TopicPaymentFailed, Refused
  <2> QED
    BY <1>u, <1>c, <2>1, <2>2, <2>4, LedgerUnchanged
    DEF OrderBeforeReservation, StockBeforePayment, RefusalMeansNoStock, Reserved, Released,
        RecordComesFromOutbox, EffectComesFromRecord, ResultTopics,
        TopicInventoryReserved, TopicInventoryRejected
<1>5. ASSUME NEW acked \in BOOLEAN, ReleaseStock(o, acked)
      PROVE  /\ OrderBeforeReservation(q)'
             /\ StockBeforePayment(q)'
             /\ RefusalMeansNoStock(q)'
             /\ RecordComesFromOutbox(q)'
             /\ EffectComesFromRecord(q)'
  <2>1. UNCHANGED <<verdict, produced>>
    BY <1>5 DEF ReleaseStock
  <2>2. produced[TopicPaymentFailed][o] > 0
    BY <1>5, <1>t, <1>s, UncommittedWasProduced DEF ReleaseStock
  <2>3. /\ Reserved(q)' <=> Reserved(q)
        /\ Released(q)' => Released(q) \/ q = o
    <3>1. CASE Replayed(o, "inventory-release")
      BY <3>1, LedgerUnchanged DEF Replayed, Reserved, Released
    <3>2. CASE Adjusted(o, Quantity[o], "inventory-release")
      BY <3>2, <1>q, AdjustedRecords DEF Reserved, Released, AdjustmentKinds
    <3> QED BY <1>5, <3>1, <3>2 DEF ReleaseStock
  <2> QED
    BY <1>u, <1>c, <2>1, <2>2, <2>3
    DEF OrderBeforeReservation, StockBeforePayment, RefusalMeansNoStock,
        RecordComesFromOutbox, EffectComesFromRecord, Refused
<1> QED BY <1>k, <1>1, <1>2, <1>3, <1>4, <1>5

(* What a step of payment-api must have done to leave the chain of q intact. *)
LEMMA ReservedRecordIsReserved ==
  ASSUME TypeOK, CausalChain, NEW o \in Orders, ReservedRecord(o)
  PROVE  Reserved(o)
<1>1. /\ <<"payment-api", TopicInventoryReserved>> \in Subscriptions
      /\ TopicInventoryReserved \in Topics
  BY DEF Subscriptions, Topics, InventoryTopics
<1>2. produced[TopicInventoryReserved][o] > 0
  BY <1>1, UncommittedWasProduced DEF TypeOK, ReservedRecord
<1> QED BY <1>2 DEF CausalChain, StockBeforePayment

\* A payment that may be settled: no handler has, or several are about to.
MaySettle(o) ==
  /\ Reserved(o)
  /\ payments[o] \in {"none", "processing"} \/ (payments[o] # "none" /\ ~Spared(o))

LEMMA SettlesWhenItMay ==
  ASSUME TypeOK, CausalChain, NEW o \in Orders, NEW status \in Settled,
         \/ SettlesAtOnce(o, status)
         \/ SettlesCharged(o, status)
         \/ SettlesRead(o, status)
  PROVE  MaySettle(o) /\ Settle(o, status) /\ UNCHANGED <<overlapped, produced>>
<1>c. CreatingIsProcessing(o) /\ InFlightIsProcessing(o) /\ StockBeforePayment(o)
  BY DEF CausalChain
<1>1. CASE SettlesAtOnce(o, status)
  BY <1>1, ReservedRecordIsReserved DEF SettlesAtOnce, NewPayment, MaySettle
<1>2. CASE SettlesCharged(o, status)
  BY <1>c, <1>2 DEF SettlesCharged, MaySettle, CreatingIsProcessing, StockBeforePayment
<1>3. CASE SettlesRead(o, status)
  <2>1. inFlight[o] # {}
    BY <1>3 DEF SettlesRead, LeaveFlight
  <2>2. payments[o] # "none" /\ (Spared(o) => payments[o] = "processing")
    BY <1>c, <2>1 DEF CreatingIsProcessing, InFlightIsProcessing
  <2>3. Settle(o, status) /\ UNCHANGED <<overlapped, produced>>
    BY <1>3 DEF SettlesRead, LeaveFlight
  <2> QED BY <1>c, <2>2, <2>3 DEF MaySettle, StockBeforePayment
<1> QED BY <1>1, <1>2, <1>3

LEMMA SettledChain ==
  ASSUME TypeOK, CausalChain, NEW o \in Orders, NEW q \in Orders, NEW status \in Settled,
         MaySettle(o), Settle(o, status),
         UNCHANGED <<ledger, verdict, produced, overlapped>>
  PROVE  /\ StockBeforePayment(q)'
         /\ OutboxTellsPayment(q)'
         /\ RecordComesFromOutbox(q)'
<1> USE DEF TypeOK
<1>c. /\ StockBeforePayment(q)
      /\ OutboxTellsPayment(q)
      /\ RecordComesFromOutbox(q)
  BY DEF CausalChain
<1>t. ResultTopic(status) \in ResultTopics /\ ResultTopics \subseteq PaymentTopics
  BY DEF ResultTopic, ResultTopics, PaymentTopics
<1>p. /\ payments'[q] = IF q = o THEN status ELSE payments[q]
      /\ \A t \in PaymentTopics :
           paymentOutbox'[q][t] = IF q = o /\ t = ResultTopic(status)
                                  THEN "unpublished" ELSE paymentOutbox[q][t]
  BY <1>t DEF Settle, Enqueue, PaymentTypeOK
<1>r. Reserved(q)' <=> Reserved(q)
  BY LedgerUnchanged DEF Reserved
<1>1. StockBeforePayment(q)'
  BY <1>c, <1>p, <1>r DEF StockBeforePayment, MaySettle
<1>2. CASE q # o
  <2>1. OutboxTellsPayment(q)'
    BY <1>c, <1>p, <1>t, <1>2 DEF OutboxTellsPayment, Spared, ResultTopics
  <2> QED BY <1>1, <1>c, <1>p, <1>t, <2>1 DEF RecordComesFromOutbox
<1>3. CASE q = o
  <2>1. payments'[q] = status /\ status \in {"succeeded", "failed", "canceled"}
    BY <1>p, <1>3 DEF Settled, PaymentStatuses
  <2>2. Spared(q) => \A t \in ResultTopics : paymentOutbox[q][t] = "none"
    <3>1. "none" \notin Settled /\ "processing" \notin Settled
      BY DEF Settled, PaymentStatuses
    <3> QED BY <1>c, <1>3, <3>1 DEF MaySettle, OutboxTellsPayment
  <2>3. Spared(q)' <=> Spared(q)
    BY DEF Spared
  <2>4. /\ paymentOutbox'[q][TopicPaymentSucceeded] # "none" =>
             \/ ResultTopic(status) = TopicPaymentSucceeded
             \/ paymentOutbox[q][TopicPaymentSucceeded] # "none"
        /\ paymentOutbox'[q][TopicPaymentFailed] # "none" =>
             \/ ResultTopic(status) = TopicPaymentFailed
             \/ paymentOutbox[q][TopicPaymentFailed] # "none"
    BY <1>p, <1>t DEF ResultTopics
  <2>5. /\ ResultTopic(status) = TopicPaymentSucceeded => status = "succeeded"
        /\ ResultTopic(status) = TopicPaymentFailed => status \in {"failed", "canceled"}
    BY <2>1 DEF ResultTopic, TopicPaymentSucceeded, TopicPaymentFailed
  <2>6. OutboxTellsPayment(q)'
    BY <2>1, <2>2, <2>3, <2>4, <2>5 DEF OutboxTellsPayment, ResultTopics
  <2> QED BY <1>1, <1>c, <1>p, <1>t, <2>6 DEF RecordComesFromOutbox
<1> QED BY <1>2, <1>3

LEMMA PublishedChain ==
  ASSUME TypeOK, CausalChain, NEW o \in Orders, NEW q \in Orders, NEW t \in PaymentTopics,
         Produce(t, o), paymentOutbox[o][t] # "none",
         \A r \in Orders, u \in PaymentTopics :
           paymentOutbox'[r][u] = "none" <=> paymentOutbox[r][u] = "none",
         UNCHANGED <<orders, orderOutbox, ledger, verdict, payments, overlapped>>
  PROVE  /\ OrderBeforeReservation(q)'
         /\ StockBeforePayment(q)'
         /\ OutboxTellsPayment(q)'
         /\ RecordComesFromOutbox(q)'
         /\ EffectComesFromRecord(q)'
<1>c. /\ OrderBeforeReservation(q)
      /\ StockBeforePayment(q)
      /\ OutboxTellsPayment(q)
      /\ RecordComesFromOutbox(q)
      /\ EffectComesFromRecord(q)
  BY DEF CausalChain
<1>t. /\ PaymentTopics \subseteq Topics
      /\ ResultTopics \subseteq PaymentTopics
      /\ TopicOrderCreated \in Topics \ PaymentTopics
      /\ InventoryTopics \subseteq Topics \ PaymentTopics
  BY DEF Topics, InventoryTopics, PaymentTopics, ResultTopics, TopicOrderCreated,
         TopicInventoryReserved, TopicInventoryRejected, TopicPaymentSucceeded,
         TopicPaymentFailed, TopicPaymentActionRequired
<1>p. \A u \in Topics :
        /\ produced[u][q] \in Nat
        /\ produced'[u][q] = IF u = t /\ q = o THEN produced[u][q] + 1 ELSE produced[u][q]
  BY <1>t, ProduceEffect DEF TypeOK
<1>r. /\ Reserved(q)' <=> Reserved(q)
      /\ Released(q)' <=> Released(q)
  BY LedgerUnchanged DEF Reserved, Released
<1>1. OrderBeforeReservation(q)' /\ StockBeforePayment(q)'
  BY <1>c, <1>t, <1>p, <1>r
  DEF OrderBeforeReservation, StockBeforePayment, InventoryTopics
<1>2. OutboxTellsPayment(q)'
  BY <1>c DEF OutboxTellsPayment, ResultTopics, PaymentTopics, Spared
<1>3. RecordComesFromOutbox(q)'
  BY <1>c, <1>t, <1>p DEF RecordComesFromOutbox
<1>4. EffectComesFromRecord(q)'
  <2>1. /\ produced[TopicPaymentSucceeded][q] > 0 => produced'[TopicPaymentSucceeded][q] > 0
        /\ produced[TopicPaymentFailed][q] > 0 => produced'[TopicPaymentFailed][q] > 0
        /\ Refused(q)' <=> Refused(q)
    BY <1>p, <1>t DEF InventoryTopics, ResultTopics, Refused
  <2> QED BY <1>c, <1>r, <2>1 DEF EffectComesFromRecord
<1> QED BY <1>1, <1>2, <1>3, <1>4

(* The handlers of one payment: the one that created it is gone before any *)
(* other reads it, and one that was alone finds it still processing.       *)
LEMMA HandlersKept ==
  ASSUME TypeOK, CausalChain, NEW o \in Orders, PaymentEffect(o), NEW q \in Orders
  PROVE  CreatingIsProcessing(q)' /\ InFlightIsProcessing(q)'
<1> USE DEF TypeOK, PaymentTypeOK
<1> DEFINE Goal == CreatingIsProcessing(q)' /\ InFlightIsProcessing(q)'
<1> SUFFICES Goal
  OBVIOUS
<1>c. \A r \in Orders : CreatingIsProcessing(r) /\ InFlightIsProcessing(r)
  BY DEF CausalChain
<1>o. ASSUME q # o,
             payments'[q] = payments[q], sources'[q] = sources[q],
             creating'[q] = creating[q], inFlight'[q] = inFlight[q],
             Spared(q)' <=> Spared(q)
      PROVE  Goal
  BY <1>c, <1>o DEF CreatingIsProcessing, InFlightIsProcessing
<1>1. CASE PaymentKept
  BY <1>c, <1>1 DEF PaymentKept, CreatingIsProcessing, InFlightIsProcessing, Spared
<1>2. CASE InsertProcessing(o)
  <2>1. CASE q # o
    BY <1>o, <1>2, <2>1 DEF InsertProcessing, Spared
  <2>2. CASE q = o
    <3>1. ~sources[q].reference /\ inFlight[q] = {} /\ Spared(q)
      BY <1>c, <1>2, <2>2 DEF InsertProcessing, NewPayment, CreatingIsProcessing
    <3>2. /\ payments'[q] = "processing" /\ sources'[q].reference = sources[q].reference
          /\ inFlight' = inFlight /\ overlapped' = overlapped
      BY <1>2, <2>2 DEF InsertProcessing
    <3> QED BY <3>1, <3>2 DEF CreatingIsProcessing, InFlightIsProcessing, Spared
  <2> QED BY <2>1, <2>2
<1>3. CASE CreatorMoves(o)
  BY <1>c, <1>3 DEF CreatorMoves, CreatingIsProcessing, InFlightIsProcessing, Spared
<1>4. CASE LeftToCustomer(o)
  <2>1. CASE q # o
    BY <1>o, <1>4, <2>1 DEF LeftToCustomer, Spared
  <2>2. CASE q = o
    BY <1>c, <1>4, <2>2
    DEF LeftToCustomer, CreatingIsProcessing, InFlightIsProcessing, Spared
  <2> QED BY <2>1, <2>2
<1>5. CASE FlightMoves(o)
  <2>1. UNCHANGED <<payments, sources, creating>>
    BY <1>5 DEF FlightMoves
  <2>2. /\ \A r \in Orders \ {o} : inFlight'[r] = inFlight[r]
        /\ \A r \in Orders \ {o} : r \in overlapped' <=> r \in overlapped
    BY <1>5 DEF FlightMoves, ReadProcessing, LeaveFlight, Decide
  <2>3. CASE q # o
    BY <1>o, <2>1, <2>2, <2>3 DEF Spared
  <2>4. ASSUME q = o, NEW h \in InFlightKinds, ReadProcessing(o, h),
               payments[o] = "processing", creating[o] = "none" \/ sources[o].reference
        PROVE  Goal
    <3>1. creating[q] = "none"
      BY <1>c, <2>4 DEF CreatingIsProcessing
    <3>2. Spared(q)' => Spared(q) /\ inFlight'[q] = {h}
      BY <2>4 DEF ReadProcessing, Spared
    <3> QED BY <2>1, <2>4, <3>1, <3>2 DEF CreatingIsProcessing, InFlightIsProcessing
  <2>5. ASSUME q = o, NEW h \in InFlightKinds, LeaveFlight(o, h)
        PROVE  Goal
    <3>1. h \in inFlight[q] /\ inFlight'[q] = inFlight[q] \ {h} /\ (Spared(q)' <=> Spared(q))
      BY <2>5 DEF LeaveFlight, Spared
    <3> QED BY <1>c, <2>1, <3>1 DEF CreatingIsProcessing, InFlightIsProcessing
  <2>6. ASSUME q = o, NEW r \in Reconcilers, NEW outcome \in Outcomes, Decide(o, r, outcome)
        PROVE  Goal
    <3>1. /\ <<r, "listed">> \in inFlight[q]
          /\ inFlight'[q] = (inFlight[q] \ {<<r, "listed">>}) \cup {<<r, outcome>>}
          /\ Spared(q)' <=> Spared(q)
      BY <2>6 DEF Decide, Spared
    <3>2. payments[q] # "none" /\ creating[q] = "none"
      BY <1>c, <3>1 DEF CreatingIsProcessing
    <3>3. Spared(q) => payments[q] = "processing" /\ inFlight'[q] = {<<r, outcome>>}
      BY <1>c, <3>1 DEF InFlightIsProcessing
    <3> QED BY <2>1, <3>1, <3>2, <3>3 DEF CreatingIsProcessing, InFlightIsProcessing
  <2> HIDE DEF Goal
  <2>7. CASE q = o
    BY <1>5, <2>4, <2>5, <2>6, <2>7 DEF FlightMoves
  <2> QED BY <2>3, <2>7
<1>6. ASSUME NEW status \in Settled, SettlesAtOnce(o, status) \/ SettlesCharged(o, status)
      PROVE  Goal
  <2>1. UNCHANGED <<inFlight, overlapped>>
    BY <1>6 DEF SettlesAtOnce, SettlesCharged
  <2>2. payments' = [payments EXCEPT ![o] = status]
    BY <1>6 DEF SettlesAtOnce, SettlesCharged, Settle
  <2>3. /\ creating'[o] = "none"
        /\ \A r \in Orders \ {o} : creating'[r] = creating[r] /\ sources'[r] = sources[r]
    BY <1>c, <1>6
    DEF SettlesAtOnce, SettlesCharged, NewPayment, CreatingIsProcessing
  <2>4. inFlight[o] = {}
    BY <1>c, <1>6 DEF SettlesAtOnce, SettlesCharged, NewPayment, CreatingIsProcessing
  <2>5. CASE q # o
    BY <1>o, <2>1, <2>2, <2>3, <2>5 DEF Spared
  <2>6. CASE q = o
    <3>1. payments'[q] # "none"
      BY <2>2, <2>6 DEF Settled, PaymentStatuses
    <3> QED BY <2>1, <2>3, <2>4, <2>6, <3>1 DEF CreatingIsProcessing, InFlightIsProcessing
  <2> QED BY <2>5, <2>6
<1>7. ASSUME NEW status \in Settled, SettlesRead(o, status)
      PROVE  Goal
  <2>1. PICK h \in InFlightKinds : LeaveFlight(o, h)
    BY <1>7 DEF SettlesRead
  <2>2. /\ payments' = [payments EXCEPT ![o] = status]
        /\ UNCHANGED <<creating, overlapped>>
        /\ \A r \in Orders \ {o} : sources'[r] = sources[r]
    BY <1>7, <2>1 DEF SettlesRead, Settle, LeaveFlight
  <2>3. /\ h \in inFlight[o]
        /\ inFlight' = [inFlight EXCEPT ![o] = @ \ {h}]
    BY <2>1 DEF LeaveFlight
  <2>4. CASE q # o
    BY <1>o, <2>2, <2>3, <2>4 DEF Spared
  <2>5. CASE q = o
    <3>1. payments'[q] # "none"
      BY <2>2, <2>5 DEF Settled, PaymentStatuses
    <3>2. creating'[q] = "none"
      BY <1>c, <2>2, <2>3, <2>5 DEF CreatingIsProcessing
    <3>3. Spared(q)' => inFlight'[q] = {}
      BY <1>c, <2>2, <2>3, <2>5 DEF InFlightIsProcessing, Spared
    <3> QED BY <3>1, <3>2, <3>3 DEF CreatingIsProcessing, InFlightIsProcessing
  <2> QED BY <2>4, <2>5
<1>8. CASE \E t \in PaymentTopics : Announces(o, t)
  BY <1>c, <1>8 DEF Announces, CreatingIsProcessing, InFlightIsProcessing, Spared
<1> HIDE DEF Goal
<1> QED BY <1>1, <1>2, <1>3, <1>4, <1>5, <1>6, <1>7, <1>8 DEF PaymentEffect

LEMMA PaymentStepChain ==
  ASSUME TypeOK, CausalChain, PaymentStep
  PROVE  CausalChain'
<1> SUFFICES ASSUME NEW q \in Orders
             PROVE  /\ OrderBeforeReservation(q)'
                    /\ StockBeforePayment(q)'
                    /\ RefusalMeansNoStock(q)'
                    /\ CreatingIsProcessing(q)'
                    /\ InFlightIsProcessing(q)'
                    /\ OutboxTellsPayment(q)'
                    /\ RecordComesFromOutbox(q)'
                    /\ EffectComesFromRecord(q)'
  BY DEF CausalChain
<1>u. UNCHANGED <<orders, orderOutbox, ledger, verdict>>
  BY DEF PaymentStep, orderVars, inventoryVars
<1>l. /\ Reserved(q)' <=> Reserved(q)
      /\ Released(q)' <=> Released(q)
  BY <1>u, LedgerUnchanged DEF Reserved, Released
<1>c. /\ OrderBeforeReservation(q)
      /\ StockBeforePayment(q)
      /\ RefusalMeansNoStock(q)
      /\ OutboxTellsPayment(q)
      /\ RecordComesFromOutbox(q)
      /\ EffectComesFromRecord(q)
  BY DEF CausalChain
<1>1. PICK o \in Orders : PaymentEffect(o)
  BY PaymentStepEffect DEF PaymentStep
<1>k. /\ RefusalMeansNoStock(q)'
      /\ CreatingIsProcessing(q)'
      /\ InFlightIsProcessing(q)'
  BY <1>u, <1>l, <1>c, <1>1, HandlersKept DEF RefusalMeansNoStock
<1> DEFINE Goal == /\ OrderBeforeReservation(q)'
                   /\ StockBeforePayment(q)'
                   /\ OutboxTellsPayment(q)'
                   /\ RecordComesFromOutbox(q)'
                   /\ EffectComesFromRecord(q)'
<1> SUFFICES Goal
  BY <1>k
<1>m. ASSUME UNCHANGED produced
      PROVE  OrderBeforeReservation(q)' /\ EffectComesFromRecord(q)'
  BY <1>u, <1>l, <1>c, <1>m DEF OrderBeforeReservation, EffectComesFromRecord, Refused
<1>n. ASSUME UNCHANGED <<produced, payments>>,
             \A t \in ResultTopics : paymentOutbox'[q][t] = paymentOutbox[q][t],
             Spared(q)' => Spared(q)
      PROVE  Goal
  BY <1>u, <1>l, <1>c, <1>m, <1>n
  DEF StockBeforePayment, OutboxTellsPayment, RecordComesFromOutbox, ResultTopics
<1> HIDE DEF Goal
<1>2. CASE PaymentKept \/ CreatorMoves(o)
  BY <1>n, <1>2 DEF PaymentKept, CreatorMoves, Spared
<1>3. CASE InsertProcessing(o)
  <2>1. Reserved(o)
    BY <1>3, ReservedRecordIsReserved DEF InsertProcessing, NewPayment
  <2>2. /\ payments[o] = "none" /\ UNCHANGED <<produced, paymentOutbox, overlapped>>
        /\ payments'[q] = IF q = o THEN "processing" ELSE payments[q]
    BY <1>3 DEF InsertProcessing, NewPayment, kafkaVars, TypeOK, PaymentTypeOK
  <2>3. OutboxTellsPayment(q)'
    <3>1. "none" \notin Settled
      BY DEF Settled, PaymentStatuses
    <3>2. q = o => \A t \in ResultTopics : paymentOutbox[q][t] = "none"
      BY <1>c, <2>2, <3>1 DEF OutboxTellsPayment
    <3> QED BY <1>c, <2>2, <3>2 DEF OutboxTellsPayment, Spared, ResultTopics
  <2> QED
    BY <1>u, <1>l, <1>m, <1>c, <2>1, <2>2, <2>3
    DEF Goal, StockBeforePayment, RecordComesFromOutbox
<1>4. CASE LeftToCustomer(o)
  <2>1. \A t \in ResultTopics : paymentOutbox'[q][t] = paymentOutbox[q][t]
    BY <1>4
    DEF LeftToCustomer, Enqueue, TypeOK, PaymentTypeOK, PaymentTopics, ResultTopics,
        TopicPaymentSucceeded, TopicPaymentFailed, TopicPaymentActionRequired
  <2> QED BY <1>n, <1>4, <2>1 DEF LeftToCustomer, Spared
<1>5. CASE FlightMoves(o)
  <2>1. overlapped \subseteq overlapped'
    BY <1>5 DEF FlightMoves, ReadProcessing, LeaveFlight, Decide
  <2> QED BY <1>n, <1>5, <2>1 DEF FlightMoves, Spared
<1>6. ASSUME NEW status \in Settled,
             SettlesAtOnce(o, status) \/ SettlesCharged(o, status) \/ SettlesRead(o, status)
      PROVE  Goal
  <2>1. MaySettle(o) /\ Settle(o, status) /\ UNCHANGED <<overlapped, produced>>
    BY <1>6, SettlesWhenItMay
  <2> QED BY <1>u, <1>m, <2>1, SettledChain DEF Goal
<1>7. ASSUME NEW t \in PaymentTopics, Announces(o, t)
      PROVE  Goal
  BY <1>u, <1>7, PublishedChain DEF Announces, Goal
<1> QED BY <1>1, <1>2, <1>3, <1>4, <1>5, <1>6, <1>7 DEF PaymentEffect

LEMMA InitChain == Init => CausalChain
<1> SUFFICES ASSUME Init, NEW o \in Orders
             PROVE  /\ OrderBeforeReservation(o)
                    /\ StockBeforePayment(o)
                    /\ RefusalMeansNoStock(o)
                    /\ CreatingIsProcessing(o)
                    /\ InFlightIsProcessing(o)
                    /\ OutboxTellsPayment(o)
                    /\ RecordComesFromOutbox(o)
                    /\ EffectComesFromRecord(o)
  BY DEF CausalChain
<1>1. /\ \A t \in Topics : produced[t][o] = 0
      /\ orders[o] = "none" /\ orderOutbox[o] = "none" /\ verdict[o] = "none"
      /\ payments[o] = "none" /\ creating[o] = "none" /\ ~sources[o].reference
      /\ inFlight[o] = {} /\ Spared(o)
      /\ \A t \in PaymentTopics : paymentOutbox[o][t] = "none"
      /\ ledger = <<>>
  BY DEF Init, KafkaInit, OrderInit, InventoryInit, PaymentInit, Spared
<1>2. ~Reserved(o) /\ ~Released(o)
  BY <1>1 DEF Reserved, Released, Recorded
<1>3. /\ produced[TopicOrderCreated][o] = 0
      /\ produced[TopicInventoryReserved][o] = 0
      /\ \A t \in ResultTopics : produced[t][o] = 0
      /\ \A t \in ResultTopics : paymentOutbox[o][t] = "none"
  BY <1>1 DEF Topics, InventoryTopics, PaymentTopics
<1> QED
  BY <1>1, <1>2, <1>3
  DEF OrderBeforeReservation, StockBeforePayment, RefusalMeansNoStock, CreatingIsProcessing,
      InFlightIsProcessing, OutboxTellsPayment, RecordComesFromOutbox, EffectComesFromRecord,
      ResultTopics,
      TopicInventoryReserved, TopicInventoryRejected

LEMMA StepChain ==
  ASSUME TypeOK, CausalChain, [Next]_vars
  PROVE  CausalChain'
<1>1. CASE Next
  BY <1>1, OrderStepChain, InventoryStepChain, PaymentStepChain DEF Next
<1>2. CASE UNCHANGED vars
  BY <1>2
  DEF vars, kafkaVars, orderVars, inventoryVars, paymentVars, CausalChain,
      OrderBeforeReservation, StockBeforePayment, RefusalMeansNoStock, CreatingIsProcessing,
      InFlightIsProcessing, OutboxTellsPayment, RecordComesFromOutbox, EffectComesFromRecord,
      Reserved, Released, Recorded, Spared, Refused
<1> QED BY <1>1, <1>2

(* Every effect is backed by its cause, from the status of the order back  *)
(* through records, outbox rows and the payment to the reserved stock,     *)
(* whatever fails or overlaps.                                             *)
THEOREM CausalChainInvariant == Spec => []CausalChain
<1>1. TypeOK /\ CausalChain /\ [Next]_vars => CausalChain'
  BY StepChain
<1> QED BY <1>1, InitChain, TypeCorrect, PTL DEF Spec

(* What the chain says of one order. *)
LEMMA ChainFacts ==
  ASSUME TypeOK, CausalChain, NEW o \in Orders
  PROVE  /\ payments[o] # "none" => Reserved(o)
         /\ ~Spared(o) => payments[o] # "none"
         /\ produced[TopicPaymentSucceeded][o] > 0 =>
              payments[o] \in Settled /\ (Spared(o) => payments[o] = "succeeded")
         /\ produced[TopicPaymentFailed][o] > 0 =>
              payments[o] \in Settled /\ (Spared(o) => payments[o] \in {"failed", "canceled"})
         /\ Released(o) =>
              payments[o] \in Settled /\ (Spared(o) => payments[o] \in {"failed", "canceled"})
         /\ orders[o] = "paid" =>
              payments[o] \in Settled /\ (Spared(o) => payments[o] = "succeeded")
         /\ orders[o] = "failed" =>
              \/ Refused(o)
              \/ payments[o] \in Settled /\ (Spared(o) => payments[o] \in {"failed", "canceled"})
<1>1. /\ payments[o] # "none" => Reserved(o)
      /\ ~Spared(o) => payments[o] # "none"
  BY DEF CausalChain, StockBeforePayment, CreatingIsProcessing
<1>2. \A t \in ResultTopics : produced[t][o] > 0 => paymentOutbox[o][t] # "none"
  BY DEF CausalChain, RecordComesFromOutbox
<1>3. OutboxTellsPayment(o) /\ EffectComesFromRecord(o)
  BY DEF CausalChain
<1>4. /\ produced[TopicPaymentSucceeded][o] > 0 =>
           payments[o] \in Settled /\ (Spared(o) => payments[o] = "succeeded")
      /\ produced[TopicPaymentFailed][o] > 0 =>
           payments[o] \in Settled /\ (Spared(o) => payments[o] \in {"failed", "canceled"})
  BY <1>2, <1>3 DEF ResultTopics, OutboxTellsPayment
<1> QED BY <1>1, <1>3, <1>4 DEF EffectComesFromRecord

(* Released stock was reserved, and its payment was settled, without the   *)
(* money unless handlers overlapped: what the handler of                   *)
(* payments.failed.v1 takes for granted.                                   *)
THEOREM ReleaseJustified == Spec => []ReleaseIsJustified
<1>1. TypeOK /\ CausalChain => ReleaseIsJustified
  <2>1. "none" \notin Settled
    BY DEF Settled, PaymentStatuses
  <2> QED BY <2>1, ChainFacts DEF ReleaseIsJustified
<1> QED BY <1>1, CausalChainInvariant, TypeCorrect, PTL

(* An order shown as paid has a settled payment for reserved stock; one    *)
(* whose handlers did not overlap has the money, and the stock still held. *)
THEOREM PaidSettled == Spec => []PaidOrderIsSettled
<1>1. TypeOK /\ CausalChain => PaidOrderIsSettled
  <2>1. "none" \notin Settled
    BY DEF Settled, PaymentStatuses
  <2> QED BY <2>1, ChainFacts DEF PaidOrderIsSettled
<1> QED BY <1>1, CausalChainInvariant, TypeCorrect, PTL

(* A failed order that is charged was refused at some time, or its         *)
(* handlers overlapped: nothing else charges an order that has failed.     *)
THEOREM FailedNotCharged == Spec => []ChargedFailureWasRefused
<1>1. TypeOK /\ CausalChain => ChargedFailureWasRefused
  BY ChainFacts DEF ChargedFailureWasRefused
<1> QED BY <1>1, CausalChainInvariant, TypeCorrect, PTL

(* No order whose handlers did not overlap ever has both a                 *)
(* payments.succeeded and a payments.failed record.                        *)
THEOREM OneResult == Spec => []OnePaymentResult
<1>1. TypeOK /\ CausalChain => OnePaymentResult
  <2> SUFFICES ASSUME TypeOK, CausalChain, NEW o \in Orders, Spared(o)
               PROVE  \/ produced[TopicPaymentSucceeded][o] = 0
                      \/ produced[TopicPaymentFailed][o] = 0
    BY DEF OnePaymentResult
  <2>1. /\ produced[TopicPaymentSucceeded][o] \in Nat
        /\ produced[TopicPaymentFailed][o] \in Nat
    BY DEF TypeOK, KafkaTypeOK, Topics, PaymentTopics, ResultTopics
  <2> QED BY <2>1, ChainFacts
<1> QED BY <1>1, CausalChainInvariant, TypeCorrect, PTL

-----------------------------------------------------------------------------
(* Outcomes are final: what a step does to statuses, one lemma per table.  *)
LEMMA OrderOutcomeKept ==
  ASSUME TypeOK, OrderNext, NEW q \in Orders, orders[q] \in {"paid", "failed"}
  PROVE  orders'[q] = orders[q]
<1>1. PICK o \in Orders :
        \/ CreateOrder(o)
        \/ PublishOrderCreated(o)
        \/ RepublishOrderCreated(o)
        \/ \E acked \in BOOLEAN : OrderConsume(o, acked)
  BY DEF OrderNext
<1> USE DEF TypeOK, OrderTypeOK
<1>2. CASE CreateOrder(o)
  BY <1>2 DEF CreateOrder
<1>3. CASE PublishOrderCreated(o) \/ RepublishOrderCreated(o)
  BY <1>3 DEF PublishOrderCreated, RepublishOrderCreated
<1>4. ASSUME NEW acked \in BOOLEAN, OrderConsume(o, acked)
      PROVE  orders'[q] = orders[q]
  BY <1>4
  DEF OrderConsume, ConsumeInventoryResult, ConsumePaymentResult, ConsumeActionRequired,
      AfterInventoryResult, AfterPaymentResult, AfterActionRequired,
      AcceptsInventoryResult, AcceptsPaymentResult
<1> QED BY <1>1, <1>2, <1>3, <1>4

(* What a step may do to the payments: nothing, insert one as processing,  *)
(* let handlers of one that is processing overlap, or settle one.          *)
Inserts(o) == payments[o] = "none" /\ payments' = [payments EXCEPT ![o] = "processing"]

Contests(o) ==
  /\ payments[o] = "processing" /\ Reserved(o)
  /\ overlapped' = overlapped \cup {o}
  /\ UNCHANGED payments

Ends(o, status) == MaySettle(o) /\ payments' = [payments EXCEPT ![o] = status]

LEMMA PaymentChange ==
  ASSUME TypeOK, CausalChain, PaymentNext
  PROVE  \/ UNCHANGED <<payments, overlapped>>
         \/ \E o \in Orders : Inserts(o) /\ UNCHANGED overlapped
         \/ \E o \in Orders : Contests(o)
         \/ \E o \in Orders, status \in Settled : Ends(o, status) /\ UNCHANGED overlapped
<1>1. PICK o \in Orders : PaymentEffect(o)
  BY PaymentStepEffect
<1>2. CASE \/ PaymentKept \/ CreatorMoves(o) \/ LeftToCustomer(o)
           \/ \E t \in PaymentTopics : Announces(o, t)
  BY <1>2 DEF PaymentKept, CreatorMoves, LeftToCustomer, Announces
<1>3. CASE InsertProcessing(o)
  BY <1>3 DEF InsertProcessing, NewPayment, Inserts
<1>4. CASE FlightMoves(o)
  <2>1. CASE UNCHANGED overlapped
    BY <1>4, <2>1 DEF FlightMoves
  <2>2. CASE overlapped' # overlapped
    <3>1. /\ payments[o] = "processing" /\ UNCHANGED payments
          /\ overlapped' = overlapped \cup {o}
      BY <1>4, <2>2 DEF FlightMoves, ReadProcessing, LeaveFlight, Decide
    <3>2. Reserved(o)
      BY <3>1, ChainFacts
    <3> QED BY <3>1, <3>2 DEF Contests
  <2> QED BY <2>1, <2>2
<1>5. ASSUME NEW status \in Settled,
             SettlesAtOnce(o, status) \/ SettlesCharged(o, status) \/ SettlesRead(o, status)
      PROVE  Ends(o, status) /\ UNCHANGED overlapped
  BY <1>5, SettlesWhenItMay DEF Settle, Ends
<1> QED BY <1>1, <1>2, <1>3, <1>4, <1>5 DEF PaymentEffect

LEMMA PaymentOutcomeKept ==
  ASSUME TypeOK, CausalChain, PaymentNext, NEW q \in Orders, payments[q] \in Settled
  PROVE  payments'[q] \in Settled /\ (Spared(q) => payments'[q] = payments[q])
<1>1. "none" \notin Settled /\ "processing" \notin Settled
  BY DEF Settled, PaymentStatuses
<1> QED
  BY <1>1, PaymentChange DEF Inserts, Contests, Ends, MaySettle, TypeOK, PaymentTypeOK

(* No step moves an order out of paid or failed, nor a payment out of a    *)
(* final status, except for another one where handlers overlapped:         *)
(* redelivered records and late webhooks change nothing.                   *)
THEOREM OutcomesFinal == Spec => OutcomesAreFinal
<1> DEFINE Kept ==
      \A o \in Orders :
        /\ orders[o] \in {"paid", "failed"} => orders'[o] = orders[o]
        /\ payments[o] \in Settled =>
             /\ payments'[o] \in Settled
             /\ Spared(o) => payments'[o] = payments[o]
<1>1. TypeOK /\ CausalChain /\ [Next]_vars => [Kept]_vars
  <2> SUFFICES ASSUME TypeOK, CausalChain, Next PROVE Kept
    OBVIOUS
  <2>1. CASE OrderStep
    BY <2>1, OrderOutcomeKept DEF OrderStep, paymentVars
  <2>2. CASE InventoryStep
    BY <2>2 DEF InventoryStep, orderVars, paymentVars
  <2>3. CASE PaymentStep
    BY <2>3, PaymentOutcomeKept DEF PaymentStep, orderVars
  <2> QED BY <2>1, <2>2, <2>3 DEF Next
<1> QED BY <1>1, CausalChainInvariant, TypeCorrect, PTL DEF Spec, OutcomesAreFinal

-----------------------------------------------------------------------------
(* The ledger: what came before an entry does not change when another one  *)
(* is appended, and the appended one continues from the last of its        *)
(* product.                                                                *)
LEMMA AppendedEntry ==
  ASSUME InventoryTypeOK, NEW o \in Orders, NEW amount \in Int,
         NEW kind \in AdjustmentKinds, Adjusted(o, amount, kind)
  PROVE  LET n == Len(ledger)
         IN  /\ n \in Nat
             /\ DOMAIN ledger = 1 .. n
             /\ DOMAIN ledger' = 1 .. n + 1
             /\ \A i \in 1 .. n : ledger'[i] = ledger[i] /\ ledger[i] \in LedgerEntries
             /\ ledger'[n + 1].product = ProductOf[o]
             /\ ledger'[n + 1].key = Key(o, kind)
             /\ ledger'[n + 1].amount = amount
             /\ ledger'[n + 1].quantityAfter = stock[ProductOf[o]] + amount
             /\ stock[ProductOf[o]] + amount >= 0
             /\ stock' = [stock EXCEPT ![ProductOf[o]] = stock[ProductOf[o]] + amount]
<1> DEFINE e == [product |-> ProductOf[o], key |-> Key(o, kind), amount |-> amount,
                 quantityAfter |-> stock[ProductOf[o]] + amount]
<1>1. ledger' = Append(ledger, e) /\ ledger \in Seq(LedgerEntries)
  BY DEF Adjusted, InventoryTypeOK
<1>2. /\ e.product = ProductOf[o] /\ e.key = Key(o, kind) /\ e.amount = amount
      /\ e.quantityAfter = stock[ProductOf[o]] + amount
  OBVIOUS
<1> HIDE DEF e
<1>3. /\ Len(ledger) \in Nat
      /\ DOMAIN ledger = 1 .. Len(ledger)
      /\ DOMAIN ledger' = 1 .. Len(ledger) + 1
      /\ \A i \in 1 .. Len(ledger) : ledger'[i] = ledger[i] /\ ledger[i] \in LedgerEntries
      /\ ledger'[Len(ledger) + 1] = e
  BY <1>1
<1> QED BY <1>2, <1>3 DEF Adjusted

LEMMA QuantityBeforeKept ==
  ASSUME InventoryTypeOK, NEW o \in Orders, NEW amount \in Int,
         NEW kind \in AdjustmentKinds, Adjusted(o, amount, kind),
         NEW p \in Products, NEW i \in 1 .. Len(ledger) + 1
  PROVE  QuantityBefore(p, i)' = QuantityBefore(p, i)
<1>a. \E n \in Nat : /\ n = Len(ledger)
                     /\ DOMAIN ledger = 1 .. n /\ DOMAIN ledger' = 1 .. n + 1
                     /\ \A j \in 1 .. n : ledger'[j] = ledger[j]
  BY AppendedEntry
<1>1. LastEntryBefore(p, i)' = LastEntryBefore(p, i)
  BY <1>a DEF LastEntryBefore
<1>2. LastEntryBefore(p, i) \subseteq DOMAIN ledger
  BY DEF LastEntryBefore
<1>3. \A j \in DOMAIN ledger : ledger'[j] = ledger[j]
  BY AppendedEntry
<1>4. LastEntryBefore(p, i) # {} =>
        (CHOOSE j \in LastEntryBefore(p, i) : TRUE) \in DOMAIN ledger
  BY <1>2
<1> QED BY <1>1, <1>3, <1>4 DEF QuantityBefore

LEMMA QuantityBeforeNext ==
  ASSUME InventoryTypeOK, NEW o \in Orders, NEW amount \in Int,
         NEW kind \in AdjustmentKinds, Adjusted(o, amount, kind), NEW p \in Products,
         NEW n \in Nat, n = Len(ledger)
  PROVE  QuantityBefore(p, n + 2)' =
           IF p = ProductOf[o] THEN stock[p] + amount
           ELSE QuantityBefore(p, n + 1)
<1>a. /\ DOMAIN ledger = 1 .. n /\ DOMAIN ledger' = 1 .. n + 1
      /\ \A i \in 1 .. n : ledger'[i] = ledger[i]
      /\ ledger'[n + 1].product = ProductOf[o]
      /\ ledger'[n + 1].quantityAfter = stock[ProductOf[o]] + amount
  BY AppendedEntry
<1> DEFINE Before == {j \in DOMAIN ledger' :
                        j < n + 2 /\ ledger'[j].product = p
                          /\ \A k \in DOMAIN ledger' :
                               j < k /\ k < n + 2 => ledger'[k].product # p}
<1>b. QuantityBefore(p, n + 2)' =
        IF Before = {} THEN InitialStock[p]
        ELSE ledger'[CHOOSE j \in Before : TRUE].quantityAfter
  BY DEF QuantityBefore, LastEntryBefore
<1>1. CASE p = ProductOf[o]
  <2>1. Before = {n + 1}
    BY <1>a, <1>1
  <2>2. (CHOOSE j \in Before : TRUE) = n + 1
    BY <2>1
  <2> HIDE DEF Before
  <2> QED BY <1>a, <1>b, <1>1, <2>1, <2>2
<1>2. CASE p # ProductOf[o]
  <2>1. Before = LastEntryBefore(p, n + 1)
    BY <1>a, <1>2 DEF LastEntryBefore
  <2>2. Before # {} => (CHOOSE j \in Before : TRUE) \in 1 .. n
    <3>1. LastEntryBefore(p, n + 1) \subseteq 1 .. n
      BY <1>a DEF LastEntryBefore
    <3> HIDE DEF Before
    <3> QED BY <2>1, <3>1
  <2> HIDE DEF Before
  <2>3. QuantityBefore(p, n + 1) = IF Before = {} THEN InitialStock[p]
                                   ELSE ledger'[CHOOSE j \in Before : TRUE].quantityAfter
    BY <1>a, <2>1, <2>2 DEF QuantityBefore
  <2> QED BY <1>b, <1>2, <2>3
<1> QED BY <1>1, <1>2

LEMMA AdjustedExplains ==
  ASSUME InventoryTypeOK, LedgerExplainsStock, NEW o \in Orders, NEW amount \in Int,
         NEW kind \in AdjustmentKinds, Adjusted(o, amount, kind)
  PROVE  LedgerExplainsStock'
<1>0. Len(ledger) \in Nat
  BY AppendedEntry
<1> PICK n \in Nat : n = Len(ledger)
  BY <1>0
<1>a. /\ n = Len(ledger)
      /\ DOMAIN ledger = 1 .. n /\ DOMAIN ledger' = 1 .. n + 1
      /\ \A i \in 1 .. n : ledger'[i] = ledger[i] /\ ledger[i] \in LedgerEntries
      /\ ledger'[n + 1].product = ProductOf[o]
      /\ ledger'[n + 1].key = Key(o, kind)
      /\ ledger'[n + 1].amount = amount
      /\ ledger'[n + 1].quantityAfter = stock[ProductOf[o]] + amount
      /\ stock[ProductOf[o]] + amount >= 0
      /\ stock' = [stock EXCEPT ![ProductOf[o]] = stock[ProductOf[o]] + amount]
  BY AppendedEntry
<1>p. ProductOf[o] \in Products /\ \A i \in 1 .. n : ledger[i].product \in Products
  BY <1>a, OrderFieldsAssumption DEF LedgerEntries
<1>k. \A p \in Products, i \in 1 .. n + 1 : QuantityBefore(p, i)' = QuantityBefore(p, i)
  BY QuantityBeforeKept
<1>n. Len(ledger') = n + 1 /\ \A p \in Products :
        QuantityBefore(p, n + 2)' = IF p = ProductOf[o] THEN stock[p] + amount
                                    ELSE QuantityBefore(p, n + 1)
  <2>1. ledger' \in Seq(LedgerEntries)
    BY AdjustedType
  <2>2. Len(ledger') = n + 1
    BY <1>a, <2>1
  <2> QED BY <2>2, QuantityBeforeNext
<1>l. /\ \A i, j \in 1 .. n : ledger[i].key = ledger[j].key => i = j
      /\ \A i \in 1 .. n :
           ledger[i].quantityAfter = QuantityBefore(ledger[i].product, i) + ledger[i].amount
      /\ \A i \in 1 .. n : ledger[i].quantityAfter >= 0
      /\ \A p \in Products : stock[p] = QuantityBefore(p, n + 1)
  BY <1>a DEF LedgerExplainsStock
<1>s. stock \in [Products -> Nat]
  BY DEF InventoryTypeOK
<1>m. n + 1 + 1 = n + 2
  BY <1>a
<1>1. \A i, j \in DOMAIN ledger' : ledger'[i].key = ledger'[j].key => i = j
  <2>1. \A i \in 1 .. n : ledger[i].key # Key(o, kind)
    BY <1>a DEF Adjusted, Recorded
  <2>2. SUFFICES ASSUME NEW i \in 1 .. n + 1, NEW j \in 1 .. n + 1,
                        ledger'[i].key = ledger'[j].key
                 PROVE  i = j
    BY <1>a
  <2>3. CASE i = n + 1 \/ j = n + 1
    BY <1>a, <2>1, <2>2, <2>3
  <2>4. CASE i \in 1 .. n /\ j \in 1 .. n
    BY <1>a, <1>l, <2>2, <2>4
  <2> QED BY <1>a, <2>2, <2>3, <2>4
<1>2. ASSUME NEW i \in 1 .. n + 1, NEW p \in Products, ledger'[i].product = p
      PROVE  ledger'[i].quantityAfter = QuantityBefore(p, i)' + ledger'[i].amount
  <2>1. QuantityBefore(p, i)' = QuantityBefore(p, i)
    BY <1>k
  <2>2. CASE i = n + 1
    BY <1>a, <1>l, <1>2, <2>1, <2>2
  <2>3. CASE i \in 1 .. n
    BY <1>a, <1>l, <1>2, <2>1, <2>3
  <2> QED BY <1>a, <2>2, <2>3
<1>3. \A i \in 1 .. n + 1 : ledger'[i].quantityAfter >= 0
  BY <1>a, <1>l
<1>4. \A p \in Products : stock'[p] = QuantityBefore(p, n + 2)'
  BY <1>a, <1>l, <1>n, <1>p, <1>s
<1>5. \A i \in DOMAIN ledger' :
        ledger'[i].quantityAfter = QuantityBefore(ledger[i].product, i)' + ledger'[i].amount
  BY <1>a, <1>2, <1>p
<1>6. \A p \in Products : stock'[p] = QuantityBefore(p, Len(ledger) + 1)'
  BY <1>n, <1>m, <1>4 DEF QuantityBefore, LastEntryBefore
<1> QED BY <1>a, <1>1, <1>3, <1>5, <1>6 DEF LedgerExplainsStock

(* Only inventory-api touches the ledger and the stock, and only so.       *)
LEMMA InventoryStepExplains ==
  ASSUME TypeOK, LedgerExplainsStock, InventoryStep
  PROVE  LedgerExplainsStock'
<1>q. \A o \in Orders : Quantity[o] \in Int /\ -Quantity[o] \in Int
  BY OrderFieldsAssumption
<1>0. ASSUME UNCHANGED <<stock, ledger>> PROVE LedgerExplainsStock'
  BY <1>0 DEF LedgerExplainsStock, QuantityBefore, LastEntryBefore
<1>1. PICK o \in Orders :
        \/ ReserveStock(o)
        \/ LoseVerdict(o)
        \/ \E acked \in BOOLEAN : ProduceVerdict(o, acked) \/ ReleaseStock(o, acked)
  BY DEF InventoryStep, InventoryNext
<1>2. ASSUME NEW amount \in Int, NEW kind \in AdjustmentKinds,
             Replayed(o, kind) \/ Insufficient(o, amount, kind) \/ Adjusted(o, amount, kind)
      PROVE  LedgerExplainsStock'
  BY <1>0, <1>2, AdjustedExplains DEF Replayed, Insufficient, TypeOK
<1>3. CASE ReserveStock(o)
  BY <1>2, <1>3, <1>q DEF ReserveStock, AdjustmentKinds
<1>4. CASE LoseVerdict(o) \/ \E acked \in BOOLEAN : ProduceVerdict(o, acked)
  BY <1>0, <1>4 DEF LoseVerdict, ProduceVerdict
<1>5. ASSUME NEW acked \in BOOLEAN, ReleaseStock(o, acked) PROVE LedgerExplainsStock'
  BY <1>2, <1>5, <1>q DEF ReleaseStock, AdjustmentKinds
<1> QED BY <1>1, <1>3, <1>4, <1>5

(* Each key moved the stock at most once, and the entries of a product     *)
(* lead from its initial quantity, never below zero, to the current one,   *)
(* under every fault and interleaving.                                     *)
THEOREM LedgerExplains == Spec => []LedgerExplainsStock
<1>1. Init => LedgerExplainsStock
  <2> SUFFICES ASSUME Init PROVE LedgerExplainsStock
    OBVIOUS
  <2>1. ledger = <<>> /\ stock = InitialStock
    BY DEF Init, InventoryInit
  <2>2. \A p : LastEntryBefore(p, Len(ledger) + 1) = {}
    BY <2>1 DEF LastEntryBefore
  <2> QED BY <2>1, <2>2 DEF LedgerExplainsStock, QuantityBefore
<1>2. TypeOK /\ LedgerExplainsStock /\ [Next]_vars => LedgerExplainsStock'
  <2> SUFFICES ASSUME TypeOK, LedgerExplainsStock, [Next]_vars PROVE LedgerExplainsStock'
    OBVIOUS
  <2>1. CASE UNCHANGED <<stock, ledger>>
    BY <2>1 DEF LedgerExplainsStock, QuantityBefore, LastEntryBefore
  <2>2. CASE InventoryStep
    BY <2>2, InventoryStepExplains
  <2> QED BY <2>1, <2>2 DEF Next, OrderStep, PaymentStep, vars, inventoryVars
<1> QED BY <1>1, <1>2, TypeCorrect, PTL DEF Spec

-----------------------------------------------------------------------------
(* The stock moves as the book of adjustments allows. *)
LEMMA AdjustedIsAdjust ==
  ASSUME InventoryTypeOK, NEW o \in Orders, NEW amount \in Int,
         NEW kind \in AdjustmentKinds, Adjusted(o, amount, kind)
  PROVE  StockBook!Adjust([account |-> ProductOf[o], key |-> Key(o, kind), amount |-> amount])
<1> DEFINE r == [account |-> ProductOf[o], key |-> Key(o, kind), amount |-> amount]
<1>0. Len(ledger) \in Nat
  BY AppendedEntry
<1> PICK n \in Nat : n = Len(ledger)
  BY <1>0
<1>1. /\ DOMAIN ledger' = DOMAIN ledger \cup {n + 1}
      /\ \A i \in DOMAIN ledger : ledger'[i] = ledger[i]
      /\ ledger'[n + 1].product = ProductOf[o]
      /\ ledger'[n + 1].key = Key(o, kind)
      /\ ledger'[n + 1].amount = amount
  <2>1. DOMAIN ledger = 1 .. n /\ DOMAIN ledger' = 1 .. n + 1
    BY AppendedEntry
  <2> QED BY <2>1, AppendedEntry
<1>2. stockDone' = stockDone \cup {r}
  BY <1>1 DEF stockDone
<1>3. \A d \in stockDone : d.key # Key(o, kind)
  BY DEF stockDone, Adjusted, Recorded
<1>4. r.account = ProductOf[o] /\ r.key = Key(o, kind) /\ r.amount = amount
  OBVIOUS
<1>5. /\ stock[ProductOf[o]] + amount >= 0
      /\ stock' = [stock EXCEPT ![ProductOf[o]] = stock[ProductOf[o]] + amount]
  BY AppendedEntry
<1> HIDE DEF r
<1> QED BY <1>2, <1>3, <1>4, <1>5 DEF StockBook!Adjust, r

LEMMA InventoryStepIsAdjust ==
  ASSUME TypeOK, InventoryStep
  PROVE  StockBook!Next \/ UNCHANGED <<stock, ledger>>
<1>q. \A o \in Orders : Quantity[o] \in Int /\ -Quantity[o] \in Int
  BY OrderFieldsAssumption
<1>1. PICK o \in Orders :
        \/ ReserveStock(o)
        \/ LoseVerdict(o)
        \/ \E acked \in BOOLEAN : ProduceVerdict(o, acked) \/ ReleaseStock(o, acked)
  BY DEF InventoryStep, InventoryNext
<1>2. CASE ReserveStock(o)
  <2>1. CASE Adjusted(o, -Quantity[o], "inventory")
    <3>1. StockBook!Adjust(Reservation(o))
      BY <1>q, <2>1, AdjustedIsAdjust DEF TypeOK, AdjustmentKinds, Reservation
    <3> QED BY <3>1 DEF StockBook!Next
  <2> QED BY <1>2, <2>1 DEF ReserveStock, Replayed, Insufficient
<1>3. CASE \E acked \in BOOLEAN : ReleaseStock(o, acked)
  <2>1. CASE Adjusted(o, Quantity[o], "inventory-release")
    <3>1. StockBook!Adjust(Release(o))
      BY <1>q, <2>1, AdjustedIsAdjust DEF TypeOK, AdjustmentKinds, Release
    <3> QED BY <3>1 DEF StockBook!Next
  <2> QED BY <1>3, <2>1 DEF ReleaseStock, Replayed
<1>4. CASE LoseVerdict(o) \/ \E acked \in BOOLEAN : ProduceVerdict(o, acked)
  BY <1>4 DEF LoseVerdict, ProduceVerdict
<1> QED BY <1>1, <1>2, <1>3, <1>4

(* Under every fault and overlap, the stock moves by the reservation and   *)
(* the release of an order only, and by each once.                         *)
THEOREM StockImplementsBook == Spec => ImplementsStockBook
<1>1. Init => StockBook!Init
  BY DEF Init, InventoryInit, StockBook!Init, stockDone
<1>2. TypeOK /\ [Next]_vars => [StockBook!Next]_(StockBook!bookVars)
  <2> SUFFICES ASSUME TypeOK, [Next]_vars
               PROVE  StockBook!Next \/ UNCHANGED StockBook!bookVars
    OBVIOUS
  <2>1. CASE UNCHANGED <<stock, ledger>>
    BY <2>1 DEF StockBook!bookVars, stockDone
  <2>2. CASE InventoryStep
    BY <2>1, <2>2, InventoryStepIsAdjust
  <2> QED BY <2>1, <2>2 DEF Next, OrderStep, PaymentStep, vars, inventoryVars
<1> QED BY <1>1, <1>2, TypeCorrect, PTL DEF Spec, ImplementsStockBook, StockBook!Spec

-----------------------------------------------------------------------------
(* The records of reserved stock: what payment-api commits it has dealt    *)
(* with.                                                                   *)
Handled(o) == committed[<<"payment-api", TopicInventoryReserved>>][o]

LEMMA AckEffect ==
  ASSUME KafkaTypeOK, NEW g, NEW t, <<g, t>> \in Subscriptions, NEW o \in Orders,
         NEW acked \in BOOLEAN, Ack(g, t, o, acked)
  PROVE  \A r \in Subscriptions, q \in Orders :
           r # <<g, t>> \/ q # o => committed'[r][q] = committed[r][q]
<1> DEFINE s == <<g, t>>
<1>1. committed' = IF acked THEN [committed EXCEPT ![s][o] = @ + 1] ELSE committed
  BY DEF Ack
<1> HIDE DEF s
<1>2. s \in Subscriptions
  BY DEF s
<1>3. \A r \in Subscriptions, q \in Orders :
        r # s \/ q # o => committed'[r][q] = committed[r][q]
  BY <1>1, <1>2 DEF KafkaTypeOK
<1> QED BY <1>3 DEF s

(* The other services commit records of other subscriptions. *)
LEMMA OthersHandleNothing ==
  ASSUME TypeOK, OrderNext \/ InventoryNext, NEW q \in Orders
  PROVE  Handled(q)' = Handled(q)
<1> USE DEF TypeOK
<1>s. /\ <<"payment-api", TopicInventoryReserved>> \in Subscriptions
      /\ <<"inventory-api", TopicOrderCreated>> \in Subscriptions
      /\ <<"inventory-api", TopicPaymentFailed>> \in Subscriptions
      /\ \A t \in InventoryTopics \cup PaymentTopics : <<"order-api", t>> \in Subscriptions
  BY DEF Subscriptions
<1>0. ASSUME UNCHANGED committed PROVE Handled(q)' = Handled(q)
  BY <1>0 DEF Handled
<1>a. ASSUME NEW g \in {"order-api", "inventory-api"}, NEW t, <<g, t>> \in Subscriptions,
             NEW o \in Orders, NEW acked \in BOOLEAN, Ack(g, t, o, acked)
      PROVE  Handled(q)' = Handled(q)
  <2>1. <<"payment-api", TopicInventoryReserved>> # <<g, t>>
    OBVIOUS
  <2>2. \A r \in Subscriptions : r # <<g, t>> => committed'[r][q] = committed[r][q]
    BY <1>a, AckEffect
  <2>3. committed'[<<"payment-api", TopicInventoryReserved>>][q]
          = committed[<<"payment-api", TopicInventoryReserved>>][q]
    BY <1>s, <2>1, <2>2
  <2> QED BY <2>3 DEF Handled
<1>1. ASSUME NEW o \in Orders, NEW acked \in BOOLEAN, OrderConsume(o, acked)
      PROVE  Handled(q)' = Handled(q)
  <2>1. PICK t \in InventoryTopics \cup PaymentTopics : Ack("order-api", t, o, acked)
    BY <1>1 DEF OrderConsume, ConsumeInventoryResult, ConsumePaymentResult,
       ConsumeActionRequired, PaymentTopics
  <2> QED BY <1>a, <1>s, <2>1
<1>2. CASE OrderNext
  BY <1>0, <1>1, <1>2
  DEF OrderNext, CreateOrder, PublishOrderCreated, RepublishOrderCreated, kafkaVars
<1>3. ASSUME NEW o \in Orders, NEW acked \in BOOLEAN,
             ProduceVerdict(o, acked) \/ ReleaseStock(o, acked)
      PROVE  Handled(q)' = Handled(q)
  BY <1>3, <1>a, <1>s DEF ProduceVerdict, ReleaseStock
<1>4. CASE InventoryNext
  BY <1>0, <1>3, <1>4 DEF InventoryNext, ReserveStock, LoseVerdict, kafkaVars
<1> QED BY <1>2, <1>4

(* Once recorded, a payment stays so. *)
LEMMA PaymentStaysRecorded ==
  ASSUME TypeOK, CausalChain, PaymentNext, NEW q \in Orders, payments[q] # "none"
  PROVE  payments'[q] # "none"
<1>1. "none" \notin Settled
  BY DEF Settled, PaymentStatuses
<1> QED
  BY <1>1, PaymentChange DEF Inserts, Contests, Ends, TypeOK, PaymentTypeOK

(* A user's points only go down: an amount that is debited is positive. *)
LEMMA BalanceFalls ==
  ASSUME TypeOK, PaymentNext, NEW u \in Users
  PROVE  balance'[u] <= balance[u]
<1> USE DEF TypeOK, PaymentTypeOK
<1>0. ASSUME UNCHANGED balance PROVE balance'[u] <= balance[u]
  BY <1>0
<1>1. PICK o \in Orders : PaymentEffect(o)
  BY PaymentStepEffect
<1>2. ASSUME NEW status \in Settled, SettlesAtOnce(o, status)
      PROVE  balance'[u] <= balance[u]
  <2>1. TotalAmount(o) \in Int /\ TotalAmount(o) > 0 /\ UserOf[o] \in Users
    BY <1>2, TotalAmountInt, OrderFieldsAssumption DEF SettlesAtOnce, NewPayment
  <2> QED BY <1>0, <1>2, <2>1 DEF SettlesAtOnce
<1> QED
  BY <1>0, <1>1, <1>2
  DEF PaymentEffect, PaymentKept, InsertProcessing, CreatorMoves, LeftToCustomer,
      FlightMoves, SettlesCharged, SettlesRead, Announces

(* What a step must not leave behind that commits a record of reserved     *)
(* stock: nothing recorded for a payment that could be made.               *)
LostUnjustly(q) ==
  /\ payments[q] = "none" /\ TotalAmount(q) > 0
  /\ PaymentMethod[q] = "point" => balance[UserOf[q]] >= TotalAmount(q)

(* Whoever commits a record of reserved stock has a payment recorded, or   *)
(* cannot: the amount is refused or the points do not suffice.             *)
LEMMA PaymentStepHandles ==
  ASSUME TypeOK, CausalChain, PaymentNext, NEW q \in Orders
  PROVE  Handled(q)' # Handled(q) => ~LostUnjustly(q)'
<1>1. ASSUME NEW o \in Orders, NEW acked \in BOOLEAN, HandleReserved(o, acked)
      PROVE  Handled(q)' # Handled(q) => ~LostUnjustly(q)'
  <2>1. <<"payment-api", TopicInventoryReserved>> \in Subscriptions
    BY DEF Subscriptions
  <2>2. AckReserved(o, acked)
    BY <1>1 DEF HandleReserved, ReplayPayment, RefuseAmount, CreatePoint, RejectPoint,
       FinishCreate, AwaitAction, Capture, Decline
  <2>3. CASE q # o
    <3>1. \A r \in Subscriptions : committed'[r][q] = committed[r][q]
      BY <2>1, <2>2, <2>3, AckEffect DEF AckReserved, TypeOK
    <3> QED BY <2>1, <3>1 DEF Handled
  <2>4. CASE q = o
    <3>1. CASE RefuseAmount(o, acked)
      BY <2>4, <3>1, TotalAmountInt DEF RefuseAmount, LostUnjustly
    <3>2. CASE ReplayPayment(o, acked) \/ FinishCreate(o, acked)
      <4>1. payments[q] # "none"
        BY <2>4, <3>2
        DEF ReplayPayment, FinishCreate, AwaitAction, Capture, Decline, CausalChain,
            CreatingIsProcessing
      <4> QED BY <4>1, PaymentStaysRecorded DEF LostUnjustly
    <3>3. CASE CreatePoint(o, acked)
      BY <2>4, <3>3 DEF CreatePoint, Settle, LostUnjustly, TypeOK, PaymentTypeOK
    <3>4. ASSUME NEW recorded \in BOOLEAN, RejectPoint(o, recorded, acked)
          PROVE  ~LostUnjustly(q)'
      <4>1. /\ PaymentMethod[q] = "point" /\ UNCHANGED balance
            /\ ~(balance[UserOf[q]] >= TotalAmount(q))
        BY <2>4, <3>4 DEF RejectPoint, NewPayment, EnoughPoints
      <4> QED BY <4>1 DEF LostUnjustly
    <3> QED BY <1>1, <3>1, <3>2, <3>3, <3>4 DEF HandleReserved
  <2> QED BY <2>3, <2>4
<1>2. ASSUME NEW o \in Orders, InsertProcessing(o) \/ Charge(o) \/ AbandonCreate(o)
      PROVE  UNCHANGED committed
  BY <1>2 DEF InsertProcessing, Charge, AbandonCreate, kafkaVars
<1>3. ASSUME NEW o \in Orders, NEW r \in Reconcilers,
             \/ ReconcileRead(o, r) \/ ReconcileCharge(o, r) \/ ReconcileRefused(o, r)
             \/ ReconcileUnanswered(o, r)
             \/ \E outcome \in Outcomes :
                  ReconcileSettle(o, r, outcome) \/ ReconcileRollback(o, r, outcome)
      PROVE  UNCHANGED committed
  BY <1>3
  DEF ReconcileRead, ReconcileCharge, ReconcileRefused, ReconcileUnanswered,
      ReconcileSettle, ReconcileRollback, kafkaVars
<1>4. ASSUME NEW o \in Orders,
             \/ ConfirmThreeDS(o)
             \/ \E type \in EventTypes :
                  \/ ProviderEnds(o, type) \/ LoseEvent(o, type)
                  \/ ReadEvent(o, type) \/ ApplyEvent(o, type) \/ LateEvent(o, type)
      PROVE  UNCHANGED committed
  BY <1>4
  DEF ConfirmThreeDS, ProviderEnds, Notify, LoseEvent, ReadEvent, ApplyEvent, LateEvent,
      kafkaVars
<1>5. ASSUME NEW o \in Orders, NEW t \in PaymentTopics,
             PublishPayment(o, t) \/ RepublishPayment(o, t)
      PROVE  UNCHANGED committed
  BY <1>5 DEF PublishPayment, RepublishPayment
<1>6. UNCHANGED committed \/ \E o \in Orders, acked \in BOOLEAN : HandleReserved(o, acked)
  BY <1>2, <1>3, <1>4, <1>5 DEF PaymentNext
<1> QED BY <1>1, <1>6 DEF Handled

(* Whatever crashes, whatever is replayed and whichever error is ignored,  *)
(* the record of an order's reserved stock is committed without a payment  *)
(* only if the amount has overflowed or the user's points do not suffice,  *)
(* and then they never will.                                               *)
THEOREM HandledHasPayment == Spec => []OnlyRejectionsGetLost
<1> DEFINE Inv == \A q \in Orders : Handled(q) > 0 => ~LostUnjustly(q)
<1>1. Init => Inv
  BY DEF Init, KafkaInit, Handled, Subscriptions
<1>2. TypeOK /\ CausalChain /\ Inv /\ [Next]_vars => Inv'
  <2> SUFFICES ASSUME TypeOK, CausalChain, Inv, [Next]_vars, NEW q \in Orders,
                      Handled(q)' > 0
               PROVE  ~LostUnjustly(q)'
    OBVIOUS
  <2>0. Handled(q) > 0 => ~LostUnjustly(q)
    OBVIOUS
  <2>1. CASE OrderStep \/ InventoryStep
    BY <2>0, <2>1, OthersHandleNothing DEF OrderStep, InventoryStep, paymentVars, LostUnjustly
  <2>2. CASE PaymentStep
    <3>1. CASE Handled(q)' = Handled(q)
      <4>1. payments[q] # "none" => payments'[q] # "none"
        BY <2>2, PaymentStaysRecorded DEF PaymentStep
      <4>2. balance'[UserOf[q]] <= balance[UserOf[q]]
        BY <2>2, BalanceFalls, OrderFieldsAssumption DEF PaymentStep
      <4>3. /\ balance[UserOf[q]] \in Int /\ balance'[UserOf[q]] \in Int
            /\ TotalAmount(q) \in Int
        <5>1. TypeOK'
          BY <2>2, PaymentStepType
        <5> QED BY <5>1, TotalAmountInt, OrderFieldsAssumption DEF TypeOK, PaymentTypeOK
      <4> QED BY <2>0, <3>1, <4>1, <4>2, <4>3 DEF LostUnjustly
    <3>2. CASE Handled(q)' # Handled(q)
      BY <2>2, <3>2, PaymentStepHandles DEF PaymentStep
    <3> QED BY <3>1, <3>2
  <2>3. CASE UNCHANGED vars
    BY <2>0, <2>3 DEF vars, kafkaVars, paymentVars, Handled, LostUnjustly
  <2> QED BY <2>1, <2>2, <2>3 DEF Next
<1>3. TypeOK /\ Inv => OnlyRejectionsGetLost
  <2> SUFFICES ASSUME TypeOK, NEW q \in Orders, ~LostUnjustly(q),
                      TotalAmount(q) > 0, payments[q] = "none"
               PROVE  PaymentMethod[q] = "point" /\ balance[UserOf[q]] < TotalAmount(q)
    BY DEF OnlyRejectionsGetLost, Handled
  <2>1. TotalAmount(q) \in Int /\ balance[UserOf[q]] \in Nat
    BY TotalAmountInt, OrderFieldsAssumption DEF TypeOK, PaymentTypeOK
  <2> QED BY <2>1 DEF LostUnjustly
<1> QED BY <1>1, <1>2, <1>3, CausalChainInvariant, TypeCorrect, PTL DEF Spec

-----------------------------------------------------------------------------
(* Sums over finite sets of orders.  What is summed first does not matter, *)
(* so an order that is added adds its amount.  Induction is over the       *)
(* subsets of a finite set, ordered by inclusion.                          *)
LEMMA LeastSubset ==
  ASSUME NEW S, IsFiniteSet(S), NEW T, T \subseteq SUBSET S, T # {}
  PROVE  \E x \in T : \A y \in T : y \subseteq x => y = x
<1> DEFINE R == StrictSubsetOrdering(S)
<1>1. IsWellFoundedOn(R, SUBSET S)
  BY FS_StrictSubsetOrderingWellFounded, FS_FiniteSubsetsOfFinite
<1> HIDE DEF R
<1>2. PICK x \in T : \A y \in T : ~ (<<y, x>> \in R)
  BY <1>1, WFMin
<1>3. ASSUME NEW y \in T, y \subseteq x, y # x PROVE FALSE
  <2>1. <<y, x>> \in (SUBSET S) \X (SUBSET S)
    OBVIOUS
  <2>2. <<y, x>> \in R
    BY <1>3, <2>1 DEF R, StrictSubsetOrdering
  <2> QED BY <1>2, <2>2
<1> QED BY <1>3

LEMMA SubsetInduction ==
  ASSUME NEW S, IsFiniteSet(S), NEW Good, {} \in Good,
         \A A \in SUBSET S, x \in S : A \in Good /\ x \notin A => A \cup {x} \in Good
  PROVE  S \in Good
<1> SUFFICES ASSUME S \notin Good PROVE FALSE
  OBVIOUS
<1> DEFINE Bad == {A \in SUBSET S : A \notin Good}
<1>1. S \in Bad
  OBVIOUS
<1>2. PICK A \in Bad : \A B \in Bad : B \subseteq A => B = A
  <2>1. Bad \subseteq SUBSET S /\ Bad # {}
    BY <1>1
  <2> HIDE DEF Bad
  <2> QED BY <2>1, LeastSubset
<1>3. PICK x \in A : TRUE
  BY <1>2
<1>4. A \ {x} \in Good
  <2>1. A \ {x} \in SUBSET S /\ A \ {x} \subseteq A /\ A \ {x} # A
    BY <1>3
  <2> QED BY <1>2, <2>1
<1>5. (A \ {x}) \cup {x} = A
  BY <1>3
<1> QED BY <1>2, <1>3, <1>4, <1>5

\* A sum of the amounts of the orders of every subset of A, to which every
\* order of the subset adds its amount, whichever is taken last.
IsSum(T, A) ==
  /\ T \in [SUBSET A -> Int]
  /\ T[{}] = 0
  /\ \A s \in SUBSET A : \A y \in s : T[s] = TotalAmount(y) + T[s \ {y}]

LEMMA SumExtends ==
  ASSUME NEW A \in SUBSET Orders, NEW T, IsSum(T, A), NEW x \in Orders, x \notin A
  PROVE  \E U : IsSum(U, A \cup {x})
<1> DEFINE U == [s \in SUBSET (A \cup {x}) |->
                   IF x \in s THEN TotalAmount(x) + T[s \ {x}] ELSE T[s]]
<1>1. \A y \in A \cup {x} : TotalAmount(y) \in Int
  BY TotalAmountInt
<1>2. \A s \in SUBSET (A \cup {x}) :
        /\ s \ {x} \in SUBSET A
        /\ x \notin s => s \in SUBSET A
        /\ \A y : s \ {y} \in SUBSET (A \cup {x})
  OBVIOUS
<1>3. \A s \in SUBSET A : T[s] \in Int
  BY DEF IsSum
<1>4. \A s \in SUBSET (A \cup {x}) :
        U[s] = IF x \in s THEN TotalAmount(x) + T[s \ {x}] ELSE T[s]
  OBVIOUS
<1>5. U \in [SUBSET (A \cup {x}) -> Int]
  BY <1>1, <1>2, <1>3
<1>6. U[{}] = 0
  BY <1>4 DEF IsSum
<1> HIDE DEF U
<1>7. ASSUME NEW s \in SUBSET (A \cup {x}), NEW y \in s
      PROVE  U[s] = TotalAmount(y) + U[s \ {y}]
  <2>1. CASE x \notin s
    <3>1. U[s] = T[s] /\ U[s \ {y}] = T[s \ {y}]
      BY <1>2, <1>4, <2>1
    <3> QED BY <1>2, <2>1, <3>1 DEF IsSum
  <2>2. CASE y = x
    <3>1. U[s] = TotalAmount(x) + T[s \ {x}] /\ U[s \ {x}] = T[s \ {x}]
      BY <1>2, <1>4, <2>2
    <3> QED BY <2>2, <3>1
  <2>3. CASE x \in s /\ y # x
    <3>1. U[s] = TotalAmount(x) + T[s \ {x}]
      BY <1>4, <2>3
    <3>2. U[s \ {y}] = TotalAmount(x) + T[(s \ {y}) \ {x}]
      BY <1>2, <1>4, <2>3
    <3>3. (s \ {y}) \ {x} = (s \ {x}) \ {y} /\ y \in s \ {x}
      BY <2>3
    <3>4. T[s \ {x}] = TotalAmount(y) + T[(s \ {x}) \ {y}]
      BY <1>2, <3>3 DEF IsSum
    <3>5. (s \ {x}) \ {y} \in SUBSET A
      BY <1>2
    <3>6. T[(s \ {x}) \ {y}] \in Int /\ TotalAmount(x) \in Int /\ TotalAmount(y) \in Int
      BY <1>1, <1>3, <3>5
    <3>7. U[s \ {y}] = TotalAmount(x) + T[(s \ {x}) \ {y}]
      BY <3>2, <3>3
    <3> DEFINE t == T[(s \ {x}) \ {y}]
    <3>8. U[s] = TotalAmount(x) + (TotalAmount(y) + t) /\ U[s \ {y}] = TotalAmount(x) + t
      BY <3>1, <3>4, <3>7
    <3>9. \A i, j, k \in Int : i + (j + k) = j + (i + k)
      OBVIOUS
    <3>10. t \in Int
      BY <3>6
    <3> HIDE DEF t
    <3> QED BY <3>6, <3>8, <3>9, <3>10
  <2> QED BY <2>1, <2>2, <2>3
<1>8. IsSum(U, A \cup {x})
  BY <1>5, <1>6, <1>7 DEF IsSum
<1> QED BY <1>8

LEMMA SumExists ==
  ASSUME NEW S \in SUBSET Orders, IsFiniteSet(S)
  PROVE  \E T : IsSum(T, S)
<1> DEFINE Good == {A \in SUBSET S : \E T : IsSum(T, A)}
<1>1. {} \in Good
  <2>1. IsSum([s \in SUBSET {} |-> 0], {})
    BY DEF IsSum
  <2> QED BY <2>1
<1>2. ASSUME NEW A \in SUBSET S, NEW x \in S, A \in Good, x \notin A
      PROVE  A \cup {x} \in Good
  BY <1>2, SumExtends
<1> HIDE DEF Good
<1>3. S \in Good
  BY <1>1, <1>2, SubsetInduction
<1> QED BY <1>3 DEF Good

\* What MapThenSumSet is: the value at the whole set of a function that
\* satisfies the recursion of Folds.
SumStep(A, f) ==
  [s \in SUBSET A |->
     IF s = {} THEN 0 ELSE TotalAmount(CHOOSE x \in s : TRUE) + f[s \ {CHOOSE x \in s : TRUE}]]

LEMMA SumUnfolds ==
  ASSUME NEW A
  PROVE  MapThenSumSet(TotalAmount, A) = (CHOOSE f : f = SumStep(A, f))[A]
BY DEF MapThenSumSet, MapThenFoldSet, SumStep

\* Every sum satisfies that recursion, and nothing else does.
LEMMA SumIsFixedPoint ==
  ASSUME NEW A, NEW T, IsSum(T, A)
  PROVE  T = SumStep(A, T)
<1>1. ASSUME NEW s \in SUBSET A PROVE T[s] = SumStep(A, T)[s]
  <2>1. CASE s = {}
    BY <2>1 DEF IsSum, SumStep
  <2>2. CASE s # {}
    <3> DEFINE x == CHOOSE x \in s : TRUE
    <3>1. x \in s
      BY <2>2
    <3>2. SumStep(A, T)[s] = TotalAmount(x) + T[s \ {x}]
      BY <2>2 DEF SumStep
    <3> HIDE DEF x
    <3> QED BY <3>1, <3>2 DEF IsSum
  <2> QED BY <2>1, <2>2
<1>2. DOMAIN T = SUBSET A /\ T = [s \in SUBSET A |-> T[s]]
  BY DEF IsSum
<1>3. SumStep(A, T) = [s \in SUBSET A |-> SumStep(A, T)[s]]
  BY DEF SumStep
<1> QED BY <1>1, <1>2, <1>3

LEMMA SumUnique ==
  ASSUME NEW A, IsFiniteSet(A), NEW T, IsSum(T, A), NEW f, f = SumStep(A, f)
  PROVE  f[A] = T[A]
<1> DEFINE Bad == {s \in SUBSET A : f[s] # T[s]}
<1> SUFFICES ASSUME Bad # {} PROVE FALSE
  OBVIOUS
<1>1. PICK s \in Bad : \A t \in Bad : t \subseteq s => t = s
  <2>1. Bad \subseteq SUBSET A
    OBVIOUS
  <2> HIDE DEF Bad
  <2> QED BY <2>1, LeastSubset
<1>2. SumStep(A, f)[s] = f[s] /\ SumStep(A, T)[s] = T[s]
  BY SumIsFixedPoint
<1>3. s # {}
  BY <1>2 DEF SumStep
<1> DEFINE x == CHOOSE x \in s : TRUE
<1>4. x \in s
  BY <1>3
<1>5. /\ f[s] = TotalAmount(x) + f[s \ {x}]
      /\ T[s] = TotalAmount(x) + T[s \ {x}]
  BY <1>2, <1>3 DEF SumStep
<1> HIDE DEF x
<1>6. s \ {x} \in SUBSET A /\ s \ {x} \subseteq s /\ s \ {x} # s
  BY <1>4
<1>7. f[s \ {x}] = T[s \ {x}]
  BY <1>1, <1>6
<1> QED BY <1>1, <1>5, <1>7

\* The sum the model computes is the sum meant.
LEMMA SumMeant ==
  ASSUME NEW A, IsFiniteSet(A), NEW T, IsSum(T, A)
  PROVE  MapThenSumSet(TotalAmount, A) = T[A]
<1> DEFINE f == CHOOSE f : f = SumStep(A, f)
<1>1. T = SumStep(A, T)
  BY SumIsFixedPoint
<1>2. f = SumStep(A, f)
  BY <1>1
<1>3. MapThenSumSet(TotalAmount, A) = f[A]
  BY SumUnfolds
<1> HIDE DEF f
<1> QED BY <1>2, <1>3, SumUnique

LEMMA SumOfNone == MapThenSumSet(TotalAmount, {}) = 0
<1>1. IsSum([s \in SUBSET {} |-> 0], {})
  BY DEF IsSum
<1> QED BY <1>1, SumMeant, FS_EmptySet

LEMMA SumWithOne ==
  ASSUME NEW A \in SUBSET Orders, IsFiniteSet(A), NEW x \in Orders, x \notin A
  PROVE  /\ MapThenSumSet(TotalAmount, A) \in Int
         /\ MapThenSumSet(TotalAmount, A \cup {x})
              = MapThenSumSet(TotalAmount, A) + TotalAmount(x)
<1> DEFINE B == A \cup {x}
<1>1. B \in SUBSET Orders /\ IsFiniteSet(B) /\ B \ {x} = A /\ x \in B
  BY FS_AddElement
<1> HIDE DEF B
<1>2. PICK T : IsSum(T, B)
  BY <1>1, SumExists
<1> DEFINE U == [s \in SUBSET A |-> T[s]]
<1>3. IsSum(U, A)
  <2>1. \A s \in SUBSET A : s \in SUBSET B /\ U[s] = T[s]
    BY <1>1
  <2>2. U \in [SUBSET A -> Int]
    BY <1>2, <2>1 DEF IsSum
  <2> HIDE DEF U
  <2>3. \A s \in SUBSET A : \A y \in s : U[s] = TotalAmount(y) + U[s \ {y}]
    BY <1>2, <2>1 DEF IsSum
  <2>4. U[{}] = 0
    BY <1>2, <2>1 DEF IsSum
  <2> QED BY <2>2, <2>3, <2>4 DEF IsSum
<1>4. MapThenSumSet(TotalAmount, B) = T[B] /\ MapThenSumSet(TotalAmount, A) = U[A]
  BY <1>1, <1>2, <1>3, SumMeant
<1>5. U[A] = T[A] /\ T[A] \in Int
  BY <1>1, <1>2 DEF IsSum
<1>6. T[B] = TotalAmount(x) + T[A]
  BY <1>1, <1>2 DEF IsSum
<1> DEFINE a == MapThenSumSet(TotalAmount, A)
<1>7. MapThenSumSet(TotalAmount, B) = TotalAmount(x) + a /\ a \in Int
  BY <1>4, <1>5, <1>6
<1>8. TotalAmount(x) \in Int
  BY TotalAmountInt
<1> HIDE DEF a
<1>9. MapThenSumSet(TotalAmount, B) = a + TotalAmount(x)
  BY <1>7, <1>8
<1> QED BY <1>7, <1>9 DEF a, B

-----------------------------------------------------------------------------
(* An order that is paid with points has no provider, and no handler of    *)
(* its payment but the one that creates it.                                *)
PointOrdersAside ==
  \A q \in Orders :
    PaymentMethod[q] = "point"
      => creating[q] = "none" /\ inFlight[q] = {} /\ payments[q] # "processing"

PointsPaid(u) ==
  {o \in Orders : UserOf[o] = u /\ PaymentMethod[o] = "point" /\ payments[o] = "succeeded"}

PointsPaidFinite == \A u \in Users : IsFiniteSet(PointsPaid(u))

\* The only step that debits points or lets a payment with points succeed.
PointsDebited(o) ==
  /\ PaymentMethod[o] = "point"
  /\ TotalAmount(o) > 0
  /\ payments[o] = "none"
  /\ payments' = [payments EXCEPT ![o] = "succeeded"]
  /\ balance' = [balance EXCEPT ![UserOf[o]] = @ - TotalAmount(o)]

PointsKept ==
  /\ UNCHANGED balance
  /\ \A q \in Orders :
       PaymentMethod[q] = "point" => (payments'[q] = "succeeded" <=> payments[q] = "succeeded")

LEMMA PaymentStepPoints ==
  ASSUME TypeOK, PointOrdersAside, PaymentNext
  PROVE  /\ PointOrdersAside'
         /\ PointsKept \/ \E o \in Orders : PointsDebited(o)
<1> USE DEF TypeOK, PaymentTypeOK
<1> DEFINE Debited == \E o \in Orders : PointsDebited(o)
           Aside == PointOrdersAside'
           Goal == Aside /\ (PointsKept \/ Debited)
<1> SUFFICES Goal
  OBVIOUS
<1>1. PICK o \in Orders : PaymentEffect(o)
  BY PaymentStepEffect
<1>2. CASE \/ PaymentKept \/ CreatorMoves(o)
           \/ \E t \in PaymentTopics : Announces(o, t)
  BY <1>2 DEF PaymentKept, CreatorMoves, Announces, PointOrdersAside, PointsKept
<1>3. CASE InsertProcessing(o)
  BY <1>3 DEF InsertProcessing, NewPayment, PointOrdersAside, PointsKept
<1>4. CASE LeftToCustomer(o)
  BY <1>4 DEF LeftToCustomer, PointOrdersAside, PointsKept
<1>5. CASE FlightMoves(o)
  <2>1. PaymentMethod[o] # "point"
    BY <1>5 DEF FlightMoves, LeaveFlight, Decide, PointOrdersAside
  <2>2. /\ UNCHANGED <<payments, creating, balance>>
        /\ \A q \in Orders \ {o} : inFlight'[q] = inFlight[q]
    BY <1>5 DEF FlightMoves, ReadProcessing, LeaveFlight, Decide
  <2> QED BY <2>1, <2>2 DEF PointOrdersAside, PointsKept
<1>6. ASSUME NEW status \in Settled, SettlesAtOnce(o, status)
      PROVE  Goal
  <2>1. /\ payments[o] = "none" /\ payments' = [payments EXCEPT ![o] = status]
        /\ UNCHANGED <<creating, inFlight>>
        /\ PaymentMethod[o] = "point" /\ TotalAmount(o) > 0
    BY <1>6 DEF SettlesAtOnce, NewPayment, Settle
  <2>2. Aside
    BY <2>1 DEF PointOrdersAside, Settled, PaymentStatuses
  <2>3. CASE status = "succeeded"
    <3>1. PointsDebited(o)
      BY <1>6, <2>1, <2>3 DEF SettlesAtOnce, PointsDebited
    <3> QED BY <2>2, <3>1
  <2>4. CASE status # "succeeded"
    <3>1. PointsKept
      BY <1>6, <2>1, <2>4 DEF SettlesAtOnce, PointsKept
    <3> QED BY <2>2, <3>1
  <2> QED BY <2>3, <2>4
<1>7. ASSUME NEW status \in Settled, SettlesCharged(o, status) \/ SettlesRead(o, status)
      PROVE  Goal
  <2>1. PaymentMethod[o] # "point"
    BY <1>7 DEF SettlesCharged, SettlesRead, LeaveFlight, PointOrdersAside
  <2>2. /\ \A q \in Orders \ {o} : /\ payments'[q] = payments[q]
                                   /\ creating'[q] = creating[q]
                                   /\ inFlight'[q] = inFlight[q]
        /\ UNCHANGED balance
    BY <1>7 DEF SettlesCharged, SettlesRead, LeaveFlight, Settle
  <2> QED BY <2>1, <2>2 DEF PointOrdersAside, PointsKept
<1> HIDE DEF Goal
<1> QED BY <1>1, <1>2, <1>3, <1>4, <1>5, <1>6, <1>7 DEF PaymentEffect

LEMMA PointsKeptMatch ==
  ASSUME PointsMatchPayments, PointsPaidFinite, PointsKept
  PROVE  PointsMatchPayments' /\ PointsPaidFinite'
<1>1. \A u \in Users : PointsPaid(u)' = PointsPaid(u)
  BY DEF PointsPaid, PointsKept
<1>2. \A u \in Users :
        /\ balance[u] <= InitialBalance[u]
        /\ InitialBalance[u] - balance[u] = MapThenSumSet(TotalAmount, PointsPaid(u))
  BY DEF PointsMatchPayments, PointsPaid
<1>3. \A u \in Users :
        /\ balance'[u] <= InitialBalance[u]
        /\ InitialBalance[u] - balance'[u] = MapThenSumSet(TotalAmount, PointsPaid(u)')
  BY <1>1, <1>2 DEF PointsKept
<1> QED BY <1>1, <1>3 DEF PointsMatchPayments, PointsPaid, PointsPaidFinite

LEMMA PointsDebitedMatch ==
  ASSUME TypeOK, PointsMatchPayments, PointsPaidFinite, NEW o \in Orders, PointsDebited(o)
  PROVE  PointsMatchPayments' /\ PointsPaidFinite'
<1> USE DEF TypeOK, PaymentTypeOK
<1>0. \A u \in Users :
        /\ balance[u] <= InitialBalance[u]
        /\ InitialBalance[u] - balance[u] = MapThenSumSet(TotalAmount, PointsPaid(u))
  BY DEF PointsMatchPayments, PointsPaid
<1>1. UserOf[o] \in Users /\ TotalAmount(o) \in Int /\ TotalAmount(o) > 0
  BY OrderFieldsAssumption, TotalAmountInt DEF PointsDebited
<1>2. ASSUME NEW u \in Users, u # UserOf[o]
      PROVE  PointsPaid(u)' = PointsPaid(u) /\ balance'[u] = balance[u]
  BY <1>1, <1>2 DEF PointsDebited, PointsPaid
<1>3. /\ PointsPaid(UserOf[o])' = PointsPaid(UserOf[o]) \cup {o}
      /\ o \notin PointsPaid(UserOf[o])
      /\ PointsPaid(UserOf[o]) \in SUBSET Orders
  BY DEF PointsDebited, PointsPaid
<1>4. balance'[UserOf[o]] = balance[UserOf[o]] - TotalAmount(o)
  BY <1>1 DEF PointsDebited
<1>5. IsFiniteSet(PointsPaid(UserOf[o])) /\ IsFiniteSet(PointsPaid(UserOf[o])')
  BY <1>1, <1>3, FS_AddElement DEF PointsPaidFinite
<1>6. PointsPaidFinite'
  BY <1>2, <1>5 DEF PointsPaidFinite
<1>7. ASSUME NEW u \in Users
      PROVE  /\ balance'[u] <= InitialBalance[u]
             /\ InitialBalance[u] - balance'[u] = MapThenSumSet(TotalAmount, PointsPaid(u)')
  <2>1. CASE u # UserOf[o]
    BY <1>0, <1>2, <2>1
  <2>2. CASE u = UserOf[o]
    <3> DEFINE a == MapThenSumSet(TotalAmount, PointsPaid(u))
    <3>1. MapThenSumSet(TotalAmount, PointsPaid(u)') = a + TotalAmount(o) /\ a \in Int
      BY <1>3, <1>5, <2>2, SumWithOne
    <3>2. /\ balance[u] <= InitialBalance[u] /\ InitialBalance[u] - balance[u] = a
          /\ balance'[u] = balance[u] - TotalAmount(o)
      BY <1>0, <1>4, <2>2
    <3>3. InitialBalance[u] \in Int /\ balance[u] \in Int
      BY PaymentConstantsAssumption
    <3> HIDE DEF a
    <3> QED BY <1>1, <3>1, <3>2, <3>3
  <2> QED BY <2>1, <2>2
<1>8. PointsMatchPayments'
  BY <1>7 DEF PointsMatchPayments, PointsPaid
<1> QED BY <1>6, <1>8

(* For every set of orders and users, every fault and every overlap, the   *)
(* points a user has lost are exactly the amounts of the user's succeeded  *)
(* payments with points.                                                   *)
THEOREM PointsMatch == Spec => []PointsMatchPayments
<1> DEFINE Inv == PointOrdersAside /\ PointsPaidFinite /\ PointsMatchPayments
<1>1. Init => Inv
  <2> SUFFICES ASSUME Init PROVE Inv
    OBVIOUS
  <2>1. PointOrdersAside
    BY DEF Init, PaymentInit, PointOrdersAside
  <2>2. \A u \in Users : /\ PointsPaid(u) = {} /\ balance[u] <= InitialBalance[u]
                         /\ InitialBalance[u] - balance[u] = 0
    BY PaymentConstantsAssumption DEF Init, PaymentInit, PointsPaid
  <2>3. PointsPaidFinite
    BY <2>2, FS_EmptySet DEF PointsPaidFinite
  <2>4. PointsMatchPayments
    BY <2>2, SumOfNone DEF PointsMatchPayments, PointsPaid
  <2> QED BY <2>1, <2>3, <2>4
<1>2. TypeOK /\ Inv /\ [Next]_vars => Inv'
  <2> SUFFICES ASSUME TypeOK, Inv, [Next]_vars PROVE Inv'
    OBVIOUS
  <2>1. CASE PaymentStep
    BY <2>1, PaymentStepPoints, PointsKeptMatch, PointsDebitedMatch DEF PaymentStep
  <2>2. CASE UNCHANGED paymentVars
    <3>1. PointsKept /\ PointOrdersAside'
      BY <2>2 DEF PointsKept, PointOrdersAside, paymentVars
    <3> QED BY <3>1, PointsKeptMatch
  <2> QED BY <2>1, <2>2 DEF Next, OrderStep, InventoryStep, vars
<1> QED BY <1>1, <1>2, TypeCorrect, PTL DEF Spec

(* The points change as the book of adjustments allows. *)
LEMMA DebitedIsAdjust ==
  ASSUME TypeOK, TypeOK', NEW o \in Orders, PointsDebited(o)
  PROVE  PointBook!Next
<1> DEFINE r == PointDebit(o)
           paid == {q \in PointOrders : payments[q] = "succeeded"}
<1>1. /\ balance \in [Users -> Nat] /\ balance' \in [Users -> Nat]
      /\ UserOf[o] \in Users /\ TotalAmount(o) \in Int
      /\ payments \in [Orders -> PaymentStatuses \cup {"none"}]
  <2>1. UserOf[o] \in Users /\ TotalAmount(o) \in Int
    BY OrderFieldsAssumption, TotalAmountInt
  <2>2. balance \in [Users -> Nat] /\ payments \in [Orders -> PaymentStatuses \cup {"none"}]
    BY DEF TypeOK, PaymentTypeOK
  <2>3. balance' \in [Users -> Nat]
    BY DEF TypeOK, PaymentTypeOK
  <2> QED BY <2>1, <2>2, <2>3
<1>2. /\ balance[UserOf[o]] + -TotalAmount(o) >= 0
      /\ balance' = [balance EXCEPT ![UserOf[o]] = balance[UserOf[o]] + -TotalAmount(o)]
  <2>1. PICK t \in Int : t = TotalAmount(o)
    BY <1>1
  <2>2. balance' = [balance EXCEPT ![UserOf[o]] = balance[UserOf[o]] - t]
    BY <2>1 DEF PointsDebited
  <2>3. balance'[UserOf[o]] = balance[UserOf[o]] - t /\ balance[UserOf[o]] - t \in Nat
    BY <1>1, <2>2
  <2>4. balance[UserOf[o]] - t = balance[UserOf[o]] + -t /\ balance[UserOf[o]] + -t >= 0
    BY <1>1, <2>3
  <2> QED BY <2>1, <2>2, <2>4
<1>3. o \in PointOrders /\ o \notin paid /\ paid' = paid \cup {o}
  BY <1>1 DEF PointsDebited, PointOrders
<1>4. r.account = UserOf[o] /\ r.key = o /\ r.amount = -TotalAmount(o)
  BY DEF PointDebit
<1>5. \A d \in {PointDebit(q) : q \in paid} : d.key # o
  BY <1>3 DEF PointDebit
<1>6. {PointDebit(q) : q \in paid}' = {PointDebit(q) : q \in paid} \cup {r}
  <2>1. \A q : PointDebit(q)' = PointDebit(q)
    BY DEF PointDebit, TotalAmount, Wrap
  <2> QED BY <1>3
<1> HIDE DEF r
<1>7. PointBook!Adjust(r)
  BY <1>2, <1>4, <1>5, <1>6 DEF PointBook!Adjust
<1> QED BY <1>3, <1>7 DEF PointBook!Next, r

(* ... and the points of a user only by the payments of orders that are    *)
(* paid with points, each once and all of it.                              *)
THEOREM PointsImplementBook == Spec => ImplementsPointBook
<1>1. Init => PointBook!Init /\ PointOrdersAside
  BY DEF Init, PaymentInit, PointBook!Init, PointOrdersAside, PointOrders
<1>2. TypeOK /\ TypeOK' /\ PointOrdersAside /\ [Next]_vars
        => [PointBook!Next]_(PointBook!bookVars) /\ PointOrdersAside'
  <2> SUFFICES ASSUME TypeOK, TypeOK', PointOrdersAside, [Next]_vars
               PROVE  (PointBook!Next \/ UNCHANGED PointBook!bookVars) /\ PointOrdersAside'
    OBVIOUS
  <2>1. ASSUME PointsKept PROVE UNCHANGED PointBook!bookVars
    <3>1. {q \in PointOrders : payments[q] = "succeeded"}'
            = {q \in PointOrders : payments[q] = "succeeded"}
      BY <2>1 DEF PointsKept, PointOrders
    <3> QED BY <2>1, <3>1 DEF PointsKept, PointBook!bookVars, PointDebit, TotalAmount, Wrap
  <2>2. CASE PaymentStep
    BY <2>1, <2>2, PaymentStepPoints, DebitedIsAdjust DEF PaymentStep
  <2>3. CASE UNCHANGED paymentVars
    <3>1. PointsKept /\ PointOrdersAside'
      BY <2>3 DEF PointsKept, PointOrdersAside, paymentVars
    <3> QED BY <2>1, <3>1
  <2> QED BY <2>2, <2>3 DEF Next, OrderStep, InventoryStep, vars
<1> QED BY <1>1, <1>2, TypeCorrect, PTL DEF Spec, ImplementsPointBook, PointBook!Spec

-----------------------------------------------------------------------------
(* The composed services implement OrderSaga: initial states map to        *)
(* initial states, and every step of a service maps to a step of the saga  *)
(* or changes nothing of it.                                               *)
SagaStep == Saga!Next \/ UNCHANGED Saga!sagaVars

(* What the invariants say of one order in the terms of the saga. *)
LEMMA SagaFacts ==
  ASSUME TypeOK, CausalChain, NEW o \in Orders
  PROVE  /\ sagaHeld[o] = "none" <=> ~Reserved(o)
         /\ sagaHeld[o] = "held" <=> Reserved(o) /\ ~Released(o)
         /\ sagaCharge[o] = "none" <=> payments[o] \notin Settled
         /\ payments[o] = "succeeded" <=> sagaCharge[o] = "taken"
         /\ payments[o] \in {"failed", "canceled"} <=> sagaCharge[o] = "declined"
         /\ Released(o) => Reserved(o)
         /\ payments[o] \in Settled => Reserved(o)
<1>1. payments[o] \in PaymentStatuses \cup {"none"}
  BY DEF TypeOK, PaymentTypeOK
<1>2. /\ sagaCharge[o] = "none" <=> payments[o] \notin Settled
      /\ payments[o] = "succeeded" <=> sagaCharge[o] = "taken"
      /\ payments[o] \in {"failed", "canceled"} <=> sagaCharge[o] = "declined"
  BY <1>1 DEF sagaCharge, SagaCharge, Settled, PaymentStatuses
<1>3. "none" \notin Settled
  BY DEF Settled, PaymentStatuses
<1>4. Released(o) => Reserved(o)
  BY <1>3, ChainFacts
<1>5. payments[o] \in Settled => Reserved(o)
  BY <1>3, ChainFacts
<1>6. /\ sagaHeld[o] = "none" <=> ~Reserved(o)
      /\ sagaHeld[o] = "held" <=> Reserved(o) /\ ~Released(o)
  BY <1>4 DEF sagaHeld, SagaHeld
<1> QED BY <1>2, <1>4, <1>5, <1>6

\* A consumer that acts on a result acts on a decision about the order.
LEMMA ResultIsDecision ==
  ASSUME TypeOK, CausalChain, NEW o \in Orders
  PROVE  /\ produced[TopicPaymentSucceeded][o] > 0 => Saga!Decided(o, "taken")
         /\ produced[TopicPaymentFailed][o] > 0 =>
              /\ sagaCharge[o] = "declined" \/ (o \in overlapped /\ sagaCharge[o] # "none")
              /\ ~Released(o) => Saga!Decided(o, "declined")
<1>1. ASSUME produced[TopicPaymentSucceeded][o] > 0 PROVE Saga!Decided(o, "taken")
  <2>1. payments[o] \in Settled /\ (Spared(o) => payments[o] = "succeeded")
    BY <1>1, ChainFacts
  <2>2. CASE Spared(o)
    <3>1. ~Released(o) /\ Reserved(o)
      BY <2>1, <2>2, ChainFacts, SagaFacts
    <3> QED BY <2>1, <2>2, <3>1, SagaFacts DEF Saga!Decided
  <2>3. CASE ~Spared(o)
    <3>1. Reserved(o)
      BY <2>1, SagaFacts
    <3> QED BY <2>1, <2>3, <3>1, SagaFacts DEF Saga!Decided, Spared
  <2> QED BY <2>2, <2>3
<1>2. ASSUME produced[TopicPaymentFailed][o] > 0
      PROVE  /\ sagaCharge[o] = "declined" \/ (o \in overlapped /\ sagaCharge[o] # "none")
             /\ ~Released(o) => Saga!Decided(o, "declined")
  <2>1. payments[o] \in Settled /\ (Spared(o) => payments[o] \in {"failed", "canceled"})
    BY <1>2, ChainFacts
  <2>2. /\ Reserved(o) /\ sagaCharge[o] # "none"
        /\ Spared(o) => sagaCharge[o] = "declined"
    BY <2>1, SagaFacts
  <2> QED BY <2>2, SagaFacts DEF Saga!Decided, Spared
<1> QED BY <1>1, <1>2

(* The parts of the mapped state that depend on what a step leaves alone. *)
LEMMA HeldUnchanged ==
  ASSUME UNCHANGED ledger
  PROVE  UNCHANGED sagaHeld
BY DEF sagaHeld, SagaHeld, Reserved, Released, Recorded

LEMMA ChargeUnchanged ==
  ASSUME UNCHANGED payments
  PROVE  UNCHANGED sagaCharge
BY DEF sagaCharge, SagaCharge

LEMMA OrderUnchanged ==
  ASSUME UNCHANGED orders
  PROVE  UNCHANGED sagaOrder
BY DEF sagaOrder, SagaOrder

LEMMA RefusedUnchanged ==
  ASSUME \A o \in Orders :
           produced'[TopicInventoryRejected][o] = produced[TopicInventoryRejected][o]
  PROVE  UNCHANGED sagaRefused
BY DEF sagaRefused, Refused

LEMMA OtherTopicKeepsRefused ==
  ASSUME TypeOK, NEW t \in Topics, t # TopicInventoryRejected, NEW o \in Orders,
         Produce(t, o)
  PROVE  UNCHANGED sagaRefused
<1>1. TopicInventoryRejected \in Topics
  BY DEF Topics, InventoryTopics
<1>2. \A u \in Topics, q \in Orders :
        produced'[u][q] = IF u = t /\ q = o THEN produced[u][q] + 1 ELSE produced[u][q]
  BY ProduceEffect DEF TypeOK
<1> QED BY <1>1, <1>2, RefusedUnchanged

-----------------------------------------------------------------------------
LEMMA OrderStepSaga ==
  ASSUME TypeOK, CausalChain, OrderStep
  PROVE  SagaStep
<1>u. UNCHANGED <<sagaHeld, sagaCharge, overlapped>>
  BY HeldUnchanged, ChargeUnchanged DEF OrderStep, inventoryVars, paymentVars
<1>r. ASSUME UNCHANGED produced
      PROVE  UNCHANGED sagaRefused
  BY <1>r, RefusedUnchanged
<1>1. PICK o \in Orders :
        \/ CreateOrder(o)
        \/ PublishOrderCreated(o)
        \/ RepublishOrderCreated(o)
        \/ \E acked \in BOOLEAN : OrderConsume(o, acked)
  BY DEF OrderStep, OrderNext
<1>2. CASE CreateOrder(o)
  <2>1. UNCHANGED sagaRefused
    BY <1>2, <1>r DEF CreateOrder, kafkaVars
  <2>2. sagaOrder[o] = "none" /\ sagaOrder' = [sagaOrder EXCEPT ![o] = "open"]
    BY <1>2 DEF CreateOrder, sagaOrder, SagaOrder, TypeOK, OrderTypeOK
  <2>3. Saga!Place(o)
    BY <1>u, <2>1, <2>2 DEF Saga!Place
  <2> QED BY <2>3 DEF SagaStep, Saga!Next
<1>3. CASE PublishOrderCreated(o) \/ RepublishOrderCreated(o)
  <2>1. UNCHANGED orders /\ Produce(TopicOrderCreated, o)
    BY <1>3 DEF PublishOrderCreated, RepublishOrderCreated
  <2>2. TopicOrderCreated \in Topics /\ TopicOrderCreated # TopicInventoryRejected
    BY DEF Topics, TopicOrderCreated, TopicInventoryRejected
  <2>3. UNCHANGED <<sagaOrder, sagaRefused>>
    BY <2>1, <2>2, OrderUnchanged, OtherTopicKeepsRefused
  <2> QED BY <1>u, <2>3 DEF SagaStep, Saga!sagaVars
<1>4. ASSUME NEW acked \in BOOLEAN, OrderConsume(o, acked)
      PROVE  SagaStep
  <2>1. ASSUME NEW t \in InventoryTopics, ConsumeInventoryResult(o, t, acked)
        PROVE  SagaStep
    <3>1. UNCHANGED sagaRefused
      BY <1>r, <2>1 DEF ConsumeInventoryResult
    <3>2. CASE AfterInventoryResult(orders[o], t) = "failed" /\ orders[o] = "pending"
      <4>1. t = TopicInventoryRejected
        BY <3>2, <2>1 DEF AfterInventoryResult, AcceptsInventoryResult, InventoryTopics
      <4>2. <<"order-api", t>> \in Subscriptions /\ t \in Topics
        BY DEF Subscriptions, Topics
      <4>3. produced[t][o] > 0
        BY <2>1, <4>2, UncommittedWasProduced DEF ConsumeInventoryResult, TypeOK
      <4>4. o \in sagaRefused
        BY <4>1, <4>3 DEF sagaRefused, Refused
      <4>5. sagaOrder[o] = "open" /\ sagaOrder' = [sagaOrder EXCEPT ![o] = "failed"]
        BY <2>1, <3>2
        DEF ConsumeInventoryResult, sagaOrder, SagaOrder, TypeOK, OrderTypeOK
      <4>6. Saga!Fail(o)
        BY <1>u, <3>1, <4>4, <4>5 DEF Saga!Fail
      <4> QED BY <4>6 DEF SagaStep, Saga!Next
    <3>3. CASE ~(AfterInventoryResult(orders[o], t) = "failed" /\ orders[o] = "pending")
      <4>1. UNCHANGED sagaOrder
        BY <2>1, <3>3
        DEF ConsumeInventoryResult, AfterInventoryResult, AcceptsInventoryResult,
            sagaOrder, SagaOrder, TypeOK, OrderTypeOK
      <4> QED BY <1>u, <3>1, <4>1 DEF SagaStep, Saga!sagaVars
    <3> QED BY <3>2, <3>3
  <2>2. ASSUME NEW t \in ResultTopics, ConsumePaymentResult(o, t, acked)
        PROVE  SagaStep
    <3>1. UNCHANGED sagaRefused
      BY <1>r, <2>2 DEF ConsumePaymentResult
    <3>2. <<"order-api", t>> \in Subscriptions /\ t \in Topics
      BY DEF Subscriptions, Topics, PaymentTopics
    <3>3. produced[t][o] > 0
      BY <2>2, <3>2, UncommittedWasProduced DEF ConsumePaymentResult, TypeOK
    <3>4. CASE orders[o] \notin AcceptsPaymentResult
      <4>1. UNCHANGED sagaOrder
        BY <2>2, <3>4
        DEF ConsumePaymentResult, AfterPaymentResult, sagaOrder, SagaOrder,
            TypeOK, OrderTypeOK
      <4> QED BY <1>u, <3>1, <4>1 DEF SagaStep, Saga!sagaVars
    <3>5. CASE orders[o] \in AcceptsPaymentResult /\ t = TopicPaymentSucceeded
      <4>1. Saga!Decided(o, "taken")
        BY <3>3, <3>5, ResultIsDecision
      <4>2. sagaOrder[o] = "open" /\ sagaOrder' = [sagaOrder EXCEPT ![o] = "paid"]
        BY <2>2, <3>5
        DEF ConsumePaymentResult, AfterPaymentResult, AcceptsPaymentResult,
            sagaOrder, SagaOrder, TypeOK, OrderTypeOK
      <4>3. Saga!Pay(o)
        BY <1>u, <3>1, <4>1, <4>2 DEF Saga!Pay
      <4> QED BY <4>3 DEF SagaStep, Saga!Next
    <3>6. CASE orders[o] \in AcceptsPaymentResult /\ t = TopicPaymentFailed
      <4>1. sagaCharge[o] = "declined" \/ (o \in overlapped /\ sagaCharge[o] # "none")
        BY <3>3, <3>6, ResultIsDecision
      <4>2. sagaOrder[o] = "open" /\ sagaOrder' = [sagaOrder EXCEPT ![o] = "failed"]
        BY <2>2, <3>6
        DEF ConsumePaymentResult, AfterPaymentResult, AcceptsPaymentResult,
            sagaOrder, SagaOrder, TypeOK, OrderTypeOK,
            TopicPaymentSucceeded, TopicPaymentFailed
      <4>3. Saga!Fail(o)
        BY <1>u, <3>1, <4>1, <4>2 DEF Saga!Fail
      <4> QED BY <4>3 DEF SagaStep, Saga!Next
    <3> QED BY <3>4, <3>5, <3>6 DEF ResultTopics
  <2>3. CASE ConsumeActionRequired(o, acked)
    <3>1. UNCHANGED <<sagaOrder, sagaRefused>>
      BY <1>r, <2>3
      DEF ConsumeActionRequired, AfterActionRequired, AcceptsPaymentResult,
          sagaOrder, SagaOrder, TypeOK, OrderTypeOK
    <3> QED BY <1>u, <3>1 DEF SagaStep, Saga!sagaVars
  <2> QED BY <1>4, <2>1, <2>2, <2>3 DEF OrderConsume
<1> QED BY <1>1, <1>2, <1>3, <1>4

LEMMA InventoryStepSaga ==
  ASSUME TypeOK, CausalChain, InventoryStep
  PROVE  SagaStep
<1>u. UNCHANGED <<sagaOrder, sagaCharge, overlapped>>
  BY OrderUnchanged, ChargeUnchanged DEF InventoryStep, orderVars, paymentVars
<1>q. \A r \in Orders : Quantity[r] \in Int /\ -Quantity[r] \in Int
  BY OrderFieldsAssumption
<1>c. \A r \in Orders : OrderBeforeReservation(r) /\ RefusalMeansNoStock(r)
  BY DEF CausalChain
<1>1. PICK o \in Orders :
        \/ ReserveStock(o)
        \/ LoseVerdict(o)
        \/ \E acked \in BOOLEAN : ProduceVerdict(o, acked) \/ ReleaseStock(o, acked)
  BY DEF InventoryStep, InventoryNext
<1>2. CASE ReserveStock(o)
  <2>1. UNCHANGED sagaRefused
    BY <1>2, RefusedUnchanged DEF ReserveStock, kafkaVars
  <2>2. CASE Adjusted(o, -Quantity[o], "inventory")
    <3>1. ~Reserved(o) /\ ~Released(o)
      BY <2>2, SagaFacts DEF Adjusted, Reserved
    <3>2. \A q \in Orders : /\ Reserved(q)' <=> Reserved(q) \/ q = o
                            /\ Released(q)' <=> Released(q)
      BY <2>2, <1>q, AdjustedRecords DEF TypeOK, Reserved, Released, AdjustmentKinds
    <3>3. sagaHeld[o] = "none" /\ sagaHeld' = [sagaHeld EXCEPT ![o] = "held"]
      BY <3>1, <3>2 DEF sagaHeld, SagaHeld
    <3>4. orders[o] # "none"
      <4>1. /\ <<"inventory-api", TopicOrderCreated>> \in Subscriptions
            /\ TopicOrderCreated \in Topics
        BY DEF Subscriptions, Topics
      <4>2. produced[TopicOrderCreated][o] > 0
        BY <1>2, <4>1, UncommittedWasProduced DEF ReserveStock, TypeOK
      <4> QED BY <1>c, <4>2 DEF OrderBeforeReservation
    <3>5. sagaOrder[o] # "none"
      BY <3>4 DEF sagaOrder, SagaOrder
    <3>6. Saga!Hold(o)
      BY <1>u, <2>1, <3>3, <3>5 DEF Saga!Hold
    <3> QED BY <3>6 DEF SagaStep, Saga!Next
  <2>3. CASE ~Adjusted(o, -Quantity[o], "inventory")
    <3>1. UNCHANGED sagaHeld
      BY <1>2, <2>3, HeldUnchanged DEF ReserveStock, Replayed, Insufficient
    <3> QED BY <1>u, <2>1, <3>1 DEF SagaStep, Saga!sagaVars
  <2> QED BY <2>2, <2>3
<1>3. CASE LoseVerdict(o)
  <2>1. UNCHANGED <<sagaHeld, sagaRefused>>
    BY <1>3, HeldUnchanged, RefusedUnchanged DEF LoseVerdict, kafkaVars
  <2> QED BY <1>u, <2>1 DEF SagaStep, Saga!sagaVars
<1>4. ASSUME NEW acked \in BOOLEAN, ProduceVerdict(o, acked)
      PROVE  SagaStep
  <2>1. UNCHANGED sagaHeld
    BY <1>4, HeldUnchanged DEF ProduceVerdict
  <2>2. /\ verdict[o] \in InventoryTopics
        /\ InventoryTopics \subseteq Topics
        /\ TopicInventoryRejected \in Topics
    BY <1>4 DEF ProduceVerdict, TypeOK, InventoryTypeOK, Topics, InventoryTopics
  <2>3. CASE verdict[o] = TopicInventoryReserved
    <3>1. UNCHANGED sagaRefused
      BY <1>4, <2>2, <2>3, OtherTopicKeepsRefused
      DEF ProduceVerdict, TopicInventoryReserved, TopicInventoryRejected
    <3> QED BY <1>u, <2>1, <3>1 DEF SagaStep, Saga!sagaVars
  <2>4. CASE verdict[o] = TopicInventoryRejected
    <3>1. \A q \in Orders :
            /\ produced[TopicInventoryRejected][q] \in Nat
            /\ produced'[TopicInventoryRejected][q]
                 = IF q = o THEN produced[TopicInventoryRejected][q] + 1
                            ELSE produced[TopicInventoryRejected][q]
      BY <1>4, <2>2, <2>4, ProduceEffect DEF ProduceVerdict, TypeOK
    <3>2. sagaRefused' = sagaRefused \cup {o}
      BY <3>1 DEF sagaRefused, Refused
    <3>3. sagaHeld[o] = "none"
      BY <2>4, <1>c, SagaFacts DEF RefusalMeansNoStock, sagaHeld, SagaHeld
    <3>4. sagaOrder[o] # "none"
      BY <1>c, <2>4
      DEF OrderBeforeReservation, sagaOrder, SagaOrder, TopicInventoryRejected
    <3>5. Saga!Refuse(o)
      BY <1>u, <2>1, <3>2, <3>3, <3>4 DEF Saga!Refuse
    <3> QED BY <3>5 DEF SagaStep, Saga!Next
  <2> QED BY <2>2, <2>3, <2>4 DEF InventoryTopics
<1>5. ASSUME NEW acked \in BOOLEAN, ReleaseStock(o, acked)
      PROVE  SagaStep
  <2>1. UNCHANGED sagaRefused
    BY <1>5, RefusedUnchanged DEF ReleaseStock
  <2>2. CASE Replayed(o, "inventory-release")
    <3>1. UNCHANGED sagaHeld
      BY <2>2, HeldUnchanged DEF Replayed
    <3> QED BY <1>u, <2>1, <3>1 DEF SagaStep, Saga!sagaVars
  <2>3. CASE Adjusted(o, Quantity[o], "inventory-release")
    <3>1. /\ <<"inventory-api", TopicPaymentFailed>> \in Subscriptions
          /\ TopicPaymentFailed \in Topics
      BY DEF Subscriptions, Topics, PaymentTopics, ResultTopics
    <3>2. produced[TopicPaymentFailed][o] > 0
      BY <1>5, <3>1, UncommittedWasProduced DEF ReleaseStock, TypeOK
    <3>3. ~Released(o)
      BY <2>3 DEF Adjusted, Released
    <3>4. Saga!Decided(o, "declined") /\ Reserved(o)
      BY <3>2, <3>3, ResultIsDecision, SagaFacts DEF Saga!Decided
    <3>5. \A q \in Orders : /\ Reserved(q)' <=> Reserved(q)
                            /\ Released(q)' <=> Released(q) \/ q = o
      BY <2>3, <1>q, AdjustedRecords DEF TypeOK, Reserved, Released, AdjustmentKinds
    <3>6. sagaHeld[o] = "held" /\ sagaHeld' = [sagaHeld EXCEPT ![o] = "returned"]
      BY <3>3, <3>4, <3>5 DEF sagaHeld, SagaHeld
    <3>7. Saga!GiveBack(o)
      BY <1>u, <2>1, <3>4, <3>6 DEF Saga!GiveBack
    <3> QED BY <3>7 DEF SagaStep, Saga!Next
  <2> QED BY <1>5, <2>2, <2>3 DEF ReleaseStock
<1> QED BY <1>1, <1>2, <1>3, <1>4, <1>5

LEMMA PaymentStepSaga ==
  ASSUME TypeOK, CausalChain, PaymentStep
  PROVE  SagaStep
<1>u. UNCHANGED <<sagaOrder, sagaHeld>>
  BY OrderUnchanged, HeldUnchanged DEF PaymentStep, orderVars, inventoryVars
<1>r. UNCHANGED sagaRefused
  <2>1. CASE UNCHANGED produced
    BY <2>1, RefusedUnchanged
  <2>2. ASSUME NEW o \in Orders, NEW t \in PaymentTopics, Produce(t, o)
        PROVE  UNCHANGED sagaRefused
    <3>1. t \in Topics /\ t # TopicInventoryRejected
      BY DEF Topics, PaymentTopics, ResultTopics, TopicInventoryRejected,
             TopicPaymentSucceeded, TopicPaymentFailed, TopicPaymentActionRequired
    <3> QED BY <2>2, <3>1, OtherTopicKeepsRefused
  <2>3. \/ UNCHANGED produced
        \/ \E o \in Orders, t \in PaymentTopics : Produce(t, o)
    BY PaymentStepEffect
    DEF PaymentStep, PaymentEffect, PaymentKept, InsertProcessing, CreatorMoves,
        LeftToCustomer, FlightMoves, SettlesAtOnce, SettlesCharged, SettlesRead, Announces,
        kafkaVars
  <2> QED BY <2>1, <2>2, <2>3
<1>1. CASE UNCHANGED <<payments, overlapped>>
  BY <1>1, <1>u, <1>r, ChargeUnchanged DEF SagaStep, Saga!sagaVars
<1>2. ASSUME NEW o \in Orders, Inserts(o), UNCHANGED overlapped
      PROVE  SagaStep
  <2>1. UNCHANGED sagaCharge
    BY <1>2 DEF Inserts, sagaCharge, SagaCharge, TypeOK, PaymentTypeOK
  <2> QED BY <1>2, <1>u, <1>r, <2>1 DEF SagaStep, Saga!sagaVars
<1>3. ASSUME NEW o \in Orders, Contests(o)
      PROVE  SagaStep
  <2>1. payments[o] \notin Settled /\ Reserved(o)
    BY <1>3 DEF Contests, Settled
  <2>2. Saga!Undecided(o)
    BY <2>1, ChainFacts, SagaFacts DEF Saga!Undecided
  <2>3. Saga!Contest(o)
    BY <1>3, <1>u, <1>r, <2>2, ChargeUnchanged DEF Saga!Contest, Contests
  <2> QED BY <2>3 DEF SagaStep, Saga!Next
<1>4. ASSUME NEW o \in Orders, NEW status \in Settled, Ends(o, status), UNCHANGED overlapped
      PROVE  SagaStep
  <2> DEFINE outcome == IF status = "succeeded" THEN "taken" ELSE "declined"
  <2>1. Saga!Undecided(o) \/ (o \in overlapped /\ sagaHeld[o] # "none")
    <3>1. CASE payments[o] \in {"none", "processing"}
      <4>1. payments[o] \notin Settled /\ Reserved(o)
        BY <1>4, <3>1 DEF Ends, MaySettle, Settled, PaymentStatuses
      <4> QED BY <4>1, ChainFacts, SagaFacts DEF Saga!Undecided
    <3>2. CASE payments[o] \notin {"none", "processing"}
      <4>1. Reserved(o) /\ o \in overlapped
        BY <1>4, <3>2 DEF Ends, MaySettle, Spared
      <4> QED BY <4>1, SagaFacts
    <3> QED BY <3>1, <3>2
  <2>2. sagaCharge' = [sagaCharge EXCEPT ![o] = outcome]
    BY <1>4
    DEF Ends, sagaCharge, SagaCharge, TypeOK, PaymentTypeOK, Settled, PaymentStatuses
  <2>3. Saga!DecideCharge(o, outcome)
    BY <1>4, <1>u, <1>r, <2>1, <2>2 DEF Saga!DecideCharge
  <2> QED BY <2>3 DEF SagaStep, Saga!Next
<1> QED BY <1>1, <1>2, <1>3, <1>4, PaymentChange DEF PaymentStep

-----------------------------------------------------------------------------
LEMMA InitSaga == Init => Saga!Init
<1> SUFFICES ASSUME Init PROVE Saga!Init
  OBVIOUS
<1>1. \A o \in Orders : orders[o] = "none" /\ payments[o] = "none"
  BY DEF Init, OrderInit, PaymentInit
<1>2. \A o \in Orders : ~Reserved(o) /\ ~Released(o)
  <2>1. ledger = <<>>
    BY DEF Init, InventoryInit
  <2> QED BY <2>1 DEF Reserved, Released, Recorded
<1>3. \A o \in Orders : produced[TopicInventoryRejected][o] = 0
  BY DEF Init, KafkaInit, Topics, InventoryTopics
<1>4. sagaOrder = [o \in Orders |-> "none"] /\ sagaCharge = [o \in Orders |-> "none"]
  BY <1>1 DEF sagaOrder, SagaOrder, sagaCharge, SagaCharge
<1>5. sagaHeld = [o \in Orders |-> "none"]
  BY <1>2 DEF sagaHeld, SagaHeld
<1>6. sagaRefused = {}
  BY <1>3 DEF sagaRefused, Refused
<1>7. overlapped = {}
  BY DEF Init, PaymentInit
<1> QED BY <1>4, <1>5, <1>6, <1>7 DEF Saga!Init

(* The three services, whatever is lost, repeated or reordered between     *)
(* them and whichever of their handlers overlap, implement the promise of  *)
(* OrderSaga: stock is held before money is taken and given back only      *)
(* after a declined payment, an order is paid, or fails, only with cause,  *)
(* and a payment that handlers contest is the only one decided twice.      *)
THEOREM FlowImplementsSaga == Spec => ImplementsSaga
<1>1. TypeOK /\ CausalChain /\ [Next]_vars => [Saga!Next]_(Saga!sagaVars)
  <2> SUFFICES ASSUME TypeOK, CausalChain, [Next]_vars
               PROVE  SagaStep
    BY DEF SagaStep
  <2>1. CASE Next
    BY <2>1, OrderStepSaga, InventoryStepSaga, PaymentStepSaga DEF Next
  <2>2. CASE UNCHANGED vars
    <3>1. UNCHANGED <<orders, ledger, payments, produced, overlapped>>
      BY <2>2 DEF vars, kafkaVars, orderVars, inventoryVars, paymentVars
    <3>2. UNCHANGED <<sagaOrder, sagaHeld, sagaCharge, sagaRefused>>
      BY <3>1, OrderUnchanged, HeldUnchanged, ChargeUnchanged, RefusedUnchanged
    <3> QED BY <3>1, <3>2 DEF SagaStep, Saga!sagaVars
  <2> QED BY <2>1, <2>2
<1> QED BY <1>1, CausalChainInvariant, InitSaga, TypeCorrect, PTL
        DEF Spec, ImplementsSaga, Saga!Spec

=============================================================================
