----------------------------- MODULE PaymentApi -----------------------------
(***************************************************************************)
(* payment-api as the order flow drives it: the consumer of reserved stock *)
(* (PaymentUseCase.Create), the reconciler, the webhook, the outbox, and   *)
(* the payment provider's intents.                                         *)
(*                                                                         *)
(* CancelPayment, top-ups and refunds are not part of this module.         *)
(***************************************************************************)
EXTENDS Kafka

CONSTANTS
  InitialBalance,  \* points per user
  NewIntents,      \* statuses in which the provider may create an intent
  Reconcilers      \* replicas of payment-api, each of which reconciles

ASSUME PaymentConstantsAssumption ==
  /\ InitialBalance \in [Users -> Nat]
  /\ NewIntents \subseteq {"requires_action", "succeeded"}

VARIABLES
  payments,        \* payments.status, "none" while there is no row
  sources,         \* payment_sources: status, and whether provider_reference is set
  paymentOutbox,   \* outbox_events: state of the row per order and topic
  balance,         \* point_accounts.balance
  creating,        \* how far the handler running createStripe for an order is
  inFlight,        \* handlers between reading the payment and their transaction
  intents,         \* the provider's intent for the order's key
  events,          \* the types of the events the provider has sent and not lost
  receipts         \* provider_events: the types received, one event each

(* History, for the properties: payments that a handler has read while     *)
(* another one, for another outcome or another replica, was under way.     *)
VARIABLE overlapped

paymentVars ==
  <<payments, sources, paymentOutbox, balance, creating, inFlight, overlapped, intents,
    events, receipts>>

PaymentStatuses == {"processing", "succeeded", "failed", "canceled"}
SourceStatuses  == {"none", "pending", "authorized", "captured", "failed", "canceled"}
EventTypes      == {"succeeded", "failed", "canceled"}
IntentStatuses  == EventTypes \cup {"requires_action"}
HandlerStates   == {"none", "charging", "requires_action", "succeeded", "declined"}
Outcomes        == {"succeeded", "failed"}
InFlightKinds   ==
  ({"webhook"} \X EventTypes) \cup (Reconcilers \X (Outcomes \cup {"listed"}))

PaymentTypeOK ==
  /\ payments \in [Orders -> PaymentStatuses \cup {"none"}]
  /\ sources \in [Orders -> [status : SourceStatuses, reference : BOOLEAN]]
  /\ paymentOutbox \in [Orders -> [PaymentTopics -> {"none", "unpublished", "published"}]]
  /\ balance \in [Users -> Nat]
  /\ creating \in [Orders -> HandlerStates]
  /\ inFlight \in [Orders -> SUBSET InFlightKinds]
  /\ overlapped \subseteq Orders
  /\ intents \in [Orders -> IntentStatuses \cup {"none"}]
  /\ events \in [Orders -> SUBSET EventTypes]
  /\ receipts \in [Orders -> SUBSET EventTypes]

PaymentInit ==
  /\ payments = [o \in Orders |-> "none"]
  /\ sources = [o \in Orders |-> [status |-> "none", reference |-> FALSE]]
  /\ paymentOutbox = [o \in Orders |-> [t \in PaymentTopics |-> "none"]]
  /\ balance = InitialBalance
  /\ creating = [o \in Orders |-> "none"]
  /\ inFlight = [o \in Orders |-> {}]
  /\ overlapped = {}
  /\ intents = [o \in Orders |-> "none"]
  /\ events = [o \in Orders |-> {}]
  /\ receipts = [o \in Orders |-> {}]

-----------------------------------------------------------------------------
(* enqueue: the outbox row that tells order-api how the payment ended. *)
\* Mutants: every result is announced as a success; a success is announced as
\* a failure; canceled is no failure.
ResultTopicAlways(status) == TopicPaymentSucceeded
ResultTopicSwapped(status) ==
  IF status = "succeeded" THEN TopicPaymentFailed ELSE TopicPaymentSucceeded
ResultTopicUnlessFailed(status) ==
  IF status = "failed" THEN TopicPaymentFailed ELSE TopicPaymentSucceeded

ResultTopic(status) ==
  IF status = "succeeded" THEN TopicPaymentSucceeded ELSE TopicPaymentFailed

Enqueue(o, t) == paymentOutbox' = [paymentOutbox EXCEPT ![o][t] = "unpublished"]

(* The payment row takes its final status and its event is enqueued. *)
Settle(o, status) ==
  /\ payments' = [payments EXCEPT ![o] = status]
  /\ Enqueue(o, ResultTopic(status))

(* Charge with the order's key: the provider creates the intent, or        *)
(* returns the one it has; an intent that neither awaits the customer nor  *)
(* has succeeded is then captured.                                         *)
ChargedIntents(o) ==
  CASE intents[o] = "none"            -> NewIntents
    [] intents[o] = "requires_action" -> {"requires_action"}
    [] OTHER                          -> {"succeeded"}

(* The provider is charged, and answers with the status of the intent. *)
Charged(o, answer) ==
  intents' = [intents EXCEPT ![o] = answer]

(* Cancel leaves an intent that has succeeded as it is. *)
CanceledIntent(status) == IF status = "succeeded" THEN status ELSE "canceled"

(* The provider may refuse a key it has no intent for (HTTP 4xx). *)
MayDecline(o) == intents[o] = "none"

-----------------------------------------------------------------------------
(* Create, for an inventory.reserved.v1 record. *)
ReservedRecord(o) ==
  /\ Uncommitted("payment-api", TopicInventoryReserved, o)
  /\ creating[o] = "none"

AckReserved(o, acked) == Ack("payment-api", TopicInventoryReserved, o, acked)

(* A payment with this key exists: nothing but the commit is left to do. *)
ReplayPayment(o, acked) ==
  /\ ReservedRecord(o)
  /\ payments[o] # "none"
  /\ AckReserved(o, acked)
  /\ UNCHANGED <<paymentVars, produced>>

(* validate refuses an amount that is not positive, and such an amount     *)
(* cannot be recorded either: the record is committed without a trace.     *)
RefuseAmount(o, acked) ==
  /\ ReservedRecord(o)
  /\ payments[o] = "none"
  /\ TotalAmount(o) <= 0
  /\ AckReserved(o, acked)
  /\ UNCHANGED <<paymentVars, produced>>

\* Mutants: no look-up of the idempotency key; amounts of either sign.
NewPaymentUnkeyed(o, method) ==
  /\ ReservedRecord(o)
  /\ TotalAmount(o) > 0
  /\ PaymentMethod[o] = method

NewPaymentAnyAmount(o, method) ==
  /\ ReservedRecord(o)
  /\ payments[o] = "none"
  /\ PaymentMethod[o] = method

NewPayment(o, method) ==
  /\ ReservedRecord(o)
  /\ payments[o] = "none"
  /\ TotalAmount(o) > 0
  /\ PaymentMethod[o] = method

(* Adjust locks the account's row and refuses a result below zero. *)
\* Mutant: a balance that would be used up is refused.
EnoughPointsAndMore(o) == balance[UserOf[o]] > TotalAmount(o)

EnoughPoints(o) == balance[UserOf[o]] >= TotalAmount(o)

(* createPoint: payment, debit and event are one transaction. *)
CreatePoint(o, acked) ==
  /\ NewPayment(o, "point")
  /\ EnoughPoints(o)
  /\ balance' = [balance EXCEPT ![UserOf[o]] = @ - TotalAmount(o)]
  /\ Settle(o, "succeeded")
  /\ AckReserved(o, acked)
  /\ UNCHANGED <<sources, creating, inFlight, overlapped, intents, events, receipts, produced>>

(* createPoint without enough points: rolled back, then recorded as failed *)
(* in a second transaction whose error is ignored.                         *)
RejectPoint(o, recorded, acked) ==
  /\ NewPayment(o, "point")
  /\ ~EnoughPoints(o)
  /\ IF recorded
     THEN Settle(o, "failed")
     ELSE "reject_lost" \in Faults /\ UNCHANGED <<payments, paymentOutbox>>
  /\ AckReserved(o, acked)
  /\ UNCHANGED <<sources, balance, creating, inFlight, overlapped, intents, events,
                 receipts, produced>>

(* createStripe, first transaction. *)
InsertProcessing(o) ==
  /\ NewPayment(o, "card")
  /\ payments' = [payments EXCEPT ![o] = "processing"]
  /\ sources' = [sources EXCEPT ![o].status = "pending"]
  /\ creating' = [creating EXCEPT ![o] = "charging"]
  /\ UNCHANGED <<paymentOutbox, balance, inFlight, overlapped, intents, events,
                 receipts, kafkaVars>>

(* createStripe, the call to the provider. *)
Charge(o) ==
  /\ creating[o] = "charging"
  /\ \/ \E answer \in ChargedIntents(o) :
          Charged(o, answer) /\ creating' = [creating EXCEPT ![o] = answer]
     \/ /\ MayDecline(o)
        /\ creating' = [creating EXCEPT ![o] = "declined"]
        /\ UNCHANGED intents
  /\ UNCHANGED <<payments, sources, paymentOutbox, balance, inFlight, overlapped,
                 events, receipts, kafkaVars>>

(* createStripe, last transaction, one action per answer of the provider. *)
AwaitAction(o, acked) ==
  /\ creating[o] = "requires_action"
  /\ sources' = [sources EXCEPT ![o] = [status |-> "authorized", reference |-> TRUE]]
  /\ Enqueue(o, TopicPaymentActionRequired)
  /\ creating' = [creating EXCEPT ![o] = "none"]
  /\ AckReserved(o, acked)
  /\ UNCHANGED <<payments, balance, inFlight, overlapped, intents, events, receipts, produced>>

Capture(o, acked) ==
  /\ creating[o] = "succeeded"
  /\ sources' = [sources EXCEPT ![o] = [status |-> "captured", reference |-> TRUE]]
  /\ Settle(o, "succeeded")
  /\ creating' = [creating EXCEPT ![o] = "none"]
  /\ AckReserved(o, acked)
  /\ UNCHANGED <<balance, inFlight, overlapped, intents, events, receipts, produced>>

Decline(o, acked) ==
  /\ creating[o] = "declined"
  /\ sources' = [sources EXCEPT ![o].status = "failed"]
  /\ Settle(o, "failed")
  /\ creating' = [creating EXCEPT ![o] = "none"]
  /\ AckReserved(o, acked)
  /\ UNCHANGED <<balance, inFlight, overlapped, intents, events, receipts, produced>>

FinishCreate(o, acked) ==
  AwaitAction(o, acked) \/ Capture(o, acked) \/ Decline(o, acked)

(* The handler stops with the payment processing: the provider's answer    *)
(* was lost, the process died, or the last transaction failed - after an   *)
(* answer "succeeded" it then cancels the intent, which stays succeeded.   *)
(* The record is not committed; its next delivery is a replay.             *)
AbandonCreate(o) ==
  /\ "charge_lost" \in Faults
  /\ creating[o] # "none"
  /\ creating' = [creating EXCEPT ![o] = "none"]
  /\ UNCHANGED <<payments, sources, paymentOutbox, balance, inFlight, overlapped,
                 intents, events, receipts, kafkaVars>>

-----------------------------------------------------------------------------
(* The reconciler and the webhook read a payment as processing, and settle *)
(* it in a later transaction that does not look at it again.  Nothing      *)
(* keeps another of them from reading it meanwhile.  Two requests with one *)
(* event count as one handler: the second finds the receipt of the first.  *)
ReadProcessing(o, handler) ==
  /\ inFlight' = [inFlight EXCEPT ![o] = @ \cup {handler}]
  /\ overlapped' = IF inFlight[o] \subseteq {handler} THEN overlapped
                   ELSE overlapped \cup {o}

LeaveFlight(o, handler) ==
  /\ handler \in inFlight[o]
  /\ inFlight' = [inFlight EXCEPT ![o] = @ \ {handler}]
  /\ UNCHANGED overlapped

\* Mutants: sources of any age; sources that wait for the customer.
UnresolvedAnyAge(o) == sources[o].status = "pending" /\ payments[o] = "processing"
UnresolvedOnlyAuthorized(o) ==
  /\ sources[o].status = "authorized"
  /\ payments[o] = "processing"
  /\ creating[o] = "none"

(* ReconcileProcessing, for one pending source.  It looks at sources more  *)
(* than a minute old only, which outlives an attempt of the handler        *)
(* (10 seconds): no handler is creating the payment any more.              *)
Unresolved(o) ==
  /\ sources[o].status = "pending"
  /\ payments[o] = "processing"
  /\ creating[o] = "none"

ReconcileRead(o, r) ==
  /\ Unresolved(o)
  /\ \A outcome \in Outcomes : <<r, outcome>> \notin inFlight[o]
  /\ ReadProcessing(o, <<r, "listed">>)
  /\ UNCHANGED <<payments, sources, paymentOutbox, balance, creating, intents, events,
                  receipts, kafkaVars>>

(* What the answer to its charge lets reconciler r do to the payment. *)
Decide(o, r, outcome) ==
  /\ <<r, "listed">> \in inFlight[o]
  /\ inFlight' =
       [inFlight EXCEPT ![o] = (@ \ {<<r, "listed">>}) \cup {<<r, outcome>>}]
  /\ UNCHANGED overlapped

(* The charge.  Whatever status it is answered with, even one that asks    *)
(* for the customer, the payment is going to succeed.                      *)
ReconcileCharge(o, r) ==
  /\ Decide(o, r, "succeeded")
  /\ \E answer \in ChargedIntents(o) : Charged(o, answer)
  /\ UNCHANGED <<payments, sources, paymentOutbox, balance, creating,
                 events, receipts, kafkaVars>>

ReconcileRefused(o, r) ==
  /\ Decide(o, r, "failed")
  /\ MayDecline(o)
  /\ UNCHANGED <<payments, sources, paymentOutbox, balance, creating, intents, events, receipts,
                  kafkaVars>>

(* The answer to the charge is lost: the next tick tries again. *)
ReconcileUnanswered(o, r) ==
  /\ "charge_lost" \in Faults
  /\ LeaveFlight(o, <<r, "listed">>)
  /\ \E answer \in ChargedIntents(o) : Charged(o, answer)
  /\ UNCHANGED <<payments, sources, paymentOutbox, balance, creating, events, receipts,
                  kafkaVars>>

ReconcileSettle(o, r, outcome) ==
  /\ LeaveFlight(o, <<r, outcome>>)
  /\ sources' = [sources EXCEPT ![o] =
                   [status    |-> IF outcome = "succeeded" THEN "captured" ELSE "failed",
                    reference |-> outcome = "succeeded"]]
  /\ Settle(o, outcome)
  /\ UNCHANGED <<balance, creating, intents, events, receipts, kafkaVars>>

(* The transaction fails, and the reconciler cancels the intent it charged *)
(* if it still can: the source stays pending for the next tick.            *)
ReconcileRollback(o, r, outcome) ==
  /\ "charge_lost" \in Faults
  /\ LeaveFlight(o, <<r, outcome>>)
  /\ \/ UNCHANGED intents
     \/ /\ outcome = "succeeded"
        /\ intents' = [intents EXCEPT ![o] = CanceledIntent(@)]
  /\ UNCHANGED <<payments, sources, paymentOutbox, balance, creating,
                 events, receipts, kafkaVars>>

-----------------------------------------------------------------------------
(* The provider moves the intent and sends an event that says so, in one   *)
(* request.                                                                *)
Notify(o, type) ==
  /\ intents' = [intents EXCEPT ![o] = type]
  /\ events' = [events EXCEPT ![o] = @ \cup {type}]
  /\ UNCHANGED <<payments, sources, paymentOutbox, balance, creating,
                 inFlight, overlapped, receipts, kafkaVars>>

(* The request does not arrive, or is answered with an error: the event is *)
(* gone, unless the customer confirms again.                               *)
LoseEvent(o, type) ==
  /\ "event_lost" \in Faults
  /\ type \in events[o] \ receipts[o]
  /\ <<"webhook", type>> \notin inFlight[o]
  /\ events' = [events EXCEPT ![o] = @ \ {type}]
  /\ UNCHANGED <<payments, sources, paymentOutbox, balance, creating,
                 inFlight, overlapped, intents, receipts, kafkaVars>>

(* POST /3ds/{id}/confirm: the customer authenticates, in whatever status  *)
(* the intent is.  It may be repeated, and then sends the event again.     *)
ConfirmThreeDS(o) == intents[o] # "none" /\ Notify(o, "succeeded")

(* The provider gives up on an intent the customer did not authenticate. *)
ProviderEnds(o, type) == intents[o] = "requires_action" /\ Notify(o, type)

SourceAfterEvent(type) ==
  CASE type = "succeeded" -> "captured"
    [] type = "failed"    -> "failed"
    [] type = "canceled"  -> "canceled"

\* Mutant: only a payment that succeeded is protected from later events.
MovedByEventUnlessPaid(o) == payments[o] # "succeeded"

MovedByEvent(o) == payments[o] = "processing"

(* HandleProviderEvent, for the events in whatever order they arrive, up   *)
(* to its transaction: an event whose intent no source refers to changes   *)
(* nothing.  A handler that stops here is one that has not started, and    *)
(* its event is lost.                                                      *)
ReadEvent(o, type) ==
  /\ type \in events[o] \ receipts[o]
  /\ sources[o].reference
  /\ MovedByEvent(o)
  /\ ReadProcessing(o, <<"webhook", type>>)
  /\ UNCHANGED <<payments, sources, paymentOutbox, balance, creating, intents, events, receipts,
                  kafkaVars>>

(* ... and the transaction: receipt, payment, source and outbox row, or    *)
(* nothing when the receipt exists.                                        *)
ApplyEvent(o, type) ==
  /\ LeaveFlight(o, <<"webhook", type>>)
  /\ receipts' = [receipts EXCEPT ![o] = @ \cup {type}]
  /\ IF type \in receipts[o]
     THEN UNCHANGED <<payments, paymentOutbox, sources>>
     ELSE /\ Settle(o, type)
          /\ sources' = [sources EXCEPT ![o] =
                           [status |-> SourceAfterEvent(type), reference |-> TRUE]]
  /\ UNCHANGED <<balance, creating, intents, events, kafkaVars>>

(* Only a processing payment moves: for any other, the receipt is all. *)
LateEvent(o, type) ==
  /\ type \in events[o] \ receipts[o]
  /\ sources[o].reference
  /\ ~MovedByEvent(o)
  /\ receipts' = [receipts EXCEPT ![o] = @ \cup {type}]
  /\ UNCHANGED <<payments, sources, paymentOutbox, balance, creating, inFlight, overlapped,
                 intents, events, kafkaVars>>

-----------------------------------------------------------------------------
(* publishBatch goes through the rows in id order and stops at the first   *)
(* it cannot produce; an action-required row is older than the result.     *)
NextToPublish(o, t) ==
  t \in ResultTopics => paymentOutbox[o][TopicPaymentActionRequired] # "unpublished"

PublishPayment(o, t) ==
  /\ paymentOutbox[o][t] = "unpublished"
  /\ NextToPublish(o, t)
  /\ Produce(t, o)
  /\ paymentOutbox' = [paymentOutbox EXCEPT ![o][t] = "published"]
  /\ UNCHANGED <<payments, sources, balance, creating, inFlight, overlapped, intents,
                 events, receipts, committed>>

RepublishPayment(o, t) ==
  /\ paymentOutbox[o][t] # "none"
  /\ NextToPublish(o, t)
  /\ MayDuplicate("republish", t, o)
  /\ Produce(t, o)
  /\ UNCHANGED <<paymentVars, committed>>

HandleReserved(o, acked) ==
  \/ ReplayPayment(o, acked)
  \/ RefuseAmount(o, acked)
  \/ CreatePoint(o, acked)
  \/ \E recorded \in BOOLEAN : RejectPoint(o, recorded, acked)
  \/ FinishCreate(o, acked)

PaymentNext ==
  \E o \in Orders :
    \/ \E acked \in BOOLEAN : HandleReserved(o, acked)
    \/ InsertProcessing(o)
    \/ Charge(o)
    \/ AbandonCreate(o)
    \/ \E r \in Reconcilers :
         \/ ReconcileRead(o, r)
         \/ ReconcileCharge(o, r)
         \/ ReconcileRefused(o, r)
         \/ ReconcileUnanswered(o, r)
         \/ \E outcome \in Outcomes :
              ReconcileSettle(o, r, outcome) \/ ReconcileRollback(o, r, outcome)
    \/ ConfirmThreeDS(o)
    \/ \E type \in EventTypes \ {"succeeded"} : ProviderEnds(o, type)
    \/ \E type \in EventTypes :
         \/ LoseEvent(o, type)
         \/ ReadEvent(o, type) \/ ApplyEvent(o, type) \/ LateEvent(o, type)
    \/ \E t \in PaymentTopics : PublishPayment(o, t) \/ RepublishPayment(o, t)
=============================================================================
