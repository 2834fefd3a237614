----------------------------- MODULE CardPayment -----------------------------
(***************************************************************************)
(* payment-api: the rows of one external payment under concurrent calls,   *)
(* each of which reads them, asks the provider, and writes back in one     *)
(* transaction what it has read: CreatePayment, ReconcileProcessing,       *)
(* HandleProviderEvent and CancelPayment.                                  *)
(*                                                                         *)
(* A transaction holds the rows it has written until it ends; others see   *)
(* its writes from then on.                                                *)
(***************************************************************************)
EXTENDS Naturals, Sequences

CONSTANTS
  Calls,
  RequestOf,   \* the request each call carries
  Replicas,    \* processes of payment-api, each with one reconciler
  Purposes,    \* what the payment may be for
  NewIntents,  \* statuses in which the provider may create an intent
  MayFail      \* a statement, a call or the process may fail

EventTypes == {"succeeded", "failed", "canceled"}
Requests   == [op : {"create", "reconcile", "cancel", "webhook"},
               type : EventTypes, replica : Replicas]

ASSUME CardPaymentAssumption ==
  /\ RequestOf \in [Calls -> Requests]
  /\ Purposes \subseteq {"purchase", "point_topup"}
  /\ NewIntents \subseteq {"requires_action", "succeeded"}
  /\ MayFail \in BOOLEAN

VARIABLES
  purpose,   \* payments.purpose
  payment,   \* payments.status, "none" while there is no row
  source,    \* payment_sources: status, and whether provider_reference is set
  credits,   \* point_transactions: the credits for this payment
  results,   \* outbox_events: the results of this payment in id order
  receipts,  \* provider_events: the types of the events recorded
  intent,    \* the provider's intent for the idempotency key
  events,    \* the types of the events the provider has sent
  pc,        \* where each call is
  seen,      \* the rows a call has read
  outcome,   \* the status a call is going to write
  held       \* the rows the transaction of a call has written

(* History, for the properties: two reconcilers have been at work on this  *)
(* payment at the same time.                                               *)
VARIABLE raced

rows == <<purpose, payment, source, credits, results, receipts>>
provider == <<intent, events>>
vars == <<rows, provider, pc, seen, outcome, held, raced>>

PaymentStatuses == {"none", "processing", "succeeded", "failed", "canceled"}
SourceStatuses  == {"none", "pending", "authorized", "captured", "failed", "canceled"}
Sources  == [status : SourceStatuses, reference : BOOLEAN]
Outcomes == EventTypes \cup {"requires_action", "none"}
Tables   == {"provider_events", "payments", "payment_sources", "point_accounts"}
CallStates ==
  {"ready", "reading", "charging", "finding", "canceling", "writing", "compensating",
   "ended"}

NoSource == [status |-> "none", reference |-> FALSE]
Unread   == [payment |-> "none", source |-> NoSource]

Op(c) == RequestOf[c].op

Init ==
  /\ purpose \in Purposes
  /\ payment = "none"
  /\ source = NoSource
  /\ credits = 0
  /\ results = <<>>
  /\ receipts = {}
  /\ intent = "none"
  /\ events = {}
  /\ pc = [c \in Calls |-> "ready"]
  /\ seen = [c \in Calls |-> Unread]
  /\ outcome = [c \in Calls |-> "none"]
  /\ held = [c \in Calls |-> {}]
  /\ raced = FALSE

Goto(c, state) == pc' = [pc EXCEPT ![c] = state]

Write(c, status) ==
  /\ Goto(c, "writing")
  /\ outcome' = [outcome EXCEPT ![c] = status]

(* A call that ends forgets what it has read; how it is answered is left   *)
(* out.                                                                    *)
End(c) ==
  /\ Goto(c, "ended")
  /\ seen' = [seen EXCEPT ![c] = Unread]
  /\ outcome' = [outcome EXCEPT ![c] = "none"]
  /\ held' = [held EXCEPT ![c] = {}]

InFlight(c) == pc[c] \notin {"ready", "ended"}

-----------------------------------------------------------------------------
(* CreatePayment: the rows are inserted as processing and pending, unless  *)
(* the key is there, found before or by the failing INSERT.                *)
InsertProcessing(c) ==
  /\ pc[c] = "ready"
  /\ Op(c) = "create"
  /\ IF payment = "none"
     THEN /\ payment' = "processing"
          /\ source' = [status |-> "pending", reference |-> FALSE]
          /\ seen' = [seen EXCEPT ![c] = [payment |-> payment', source |-> source']]
          /\ Goto(c, "charging")
          /\ UNCHANGED <<outcome, held>>
     ELSE End(c) /\ UNCHANGED <<payment, source>>
  /\ UNCHANGED <<purpose, credits, results, receipts, provider, raced>>

(* Charge with the payment's key: the provider creates the intent or       *)
(* returns the one it has, and one that is neither succeeded nor awaits    *)
(* the customer is then captured.                                          *)
ChargedIntents ==
  CASE intent = "none"            -> NewIntents
    [] intent = "requires_action" -> {"requires_action"}
    [] OTHER                      -> {"succeeded"}

(* Cancel leaves an intent that has succeeded as it is. *)
CanceledIntent == IF intent \in {"none", "succeeded"} THEN intent ELSE "canceled"

(* The reconciler takes every answer for a success. *)
ChargeOutcome(c, answer) == IF Op(c) = "reconcile" THEN "succeeded" ELSE answer

Charge(c) ==
  /\ pc[c] = "charging"
  /\ \/ \E answer \in ChargedIntents :
          intent' = answer /\ Write(c, ChargeOutcome(c, answer))
     \/ intent = "none" /\ Write(c, "failed") /\ UNCHANGED intent
  /\ UNCHANGED <<rows, events, seen, held, raced>>

(* The charge is made, or its capture canceled, but the answer is lost. *)
ChargeUnanswered(c) ==
  /\ MayFail
  /\ pc[c] = "charging"
  /\ \/ intent' \in ChargedIntents
     \/ intent \in {"failed", "canceled"} /\ intent' = "canceled"
  /\ End(c)
  /\ UNCHANGED <<rows, events, raced>>

(* After a success that could not be written: Cancel, whose error is lost. *)
Compensate(c) ==
  /\ pc[c] = "compensating"
  /\ intent' = CanceledIntent
  /\ End(c)
  /\ UNCHANGED <<rows, events, raced>>

-----------------------------------------------------------------------------
(* ReconcileProcessing reads pending sources more than a minute old, which *)
(* outlives every call that creates one; a process runs it one at a time.  *)
Creating(d) == Op(d) = "create" /\ InFlight(d)

ReconcilerFree(c) ==
  \A d \in Calls :
    Op(d) = "reconcile" /\ InFlight(d) => RequestOf[d].replica # RequestOf[c].replica

ListPending(c) ==
  /\ pc[c] = "ready"
  /\ Op(c) = "reconcile"
  /\ ReconcilerFree(c)
  /\ source.status = "pending"
  /\ \A d \in Calls : ~Creating(d)
  /\ seen' = [seen EXCEPT ![c].source = source]
  /\ Goto(c, "reading")
  /\ raced' = (raced \/ \E d \in Calls : Op(d) = "reconcile" /\ InFlight(d))
  /\ UNCHANGED <<rows, provider, outcome, held>>

(* HandleProviderEvent: the source by its provider_reference. *)
FindByReference(c) ==
  /\ pc[c] = "ready"
  /\ Op(c) = "webhook"
  /\ RequestOf[c].type \in events
  /\ IF source.reference
     THEN /\ Goto(c, "reading")
          /\ seen' = [seen EXCEPT ![c].source = source]
          /\ UNCHANGED <<outcome, held>>
     ELSE End(c)
  /\ UNCHANGED <<rows, provider, raced>>

(* Both then read the payment, and the reconciler skips one that has       *)
(* ended; an event is recorded all the same.                               *)
FindPayment(c) ==
  /\ pc[c] = "reading"
  /\ IF Op(c) = "reconcile" /\ payment # "processing"
     THEN End(c)
     ELSE /\ seen' = [seen EXCEPT ![c].payment = payment]
          /\ IF Op(c) = "webhook"
             THEN Write(c, RequestOf[c].type)
             ELSE Goto(c, "charging") /\ UNCHANGED outcome
          /\ UNCHANGED held
  /\ UNCHANGED <<rows, provider, raced>>

(* CancelPayment: the payment, which must not have ended, its source ... *)
FindCancellable(c) ==
  /\ pc[c] = "ready"
  /\ Op(c) = "cancel"
  /\ payment # "none"
  /\ IF payment = "processing"
     THEN /\ Goto(c, "finding")
          /\ seen' = [seen EXCEPT ![c].payment = payment]
          /\ UNCHANGED <<outcome, held>>
     ELSE End(c)
  /\ UNCHANGED <<rows, provider, raced>>

FindSource(c) ==
  /\ pc[c] = "finding"
  /\ seen' = [seen EXCEPT ![c].source = source]
  /\ Goto(c, "canceling")
  /\ UNCHANGED <<rows, provider, outcome, held, raced>>

(* ... and the intent, when the source that was read names it. *)
CancelIntent(c) ==
  /\ pc[c] = "canceling"
  /\ intent' = IF seen[c].source.reference THEN CanceledIntent ELSE intent
  /\ \/ Write(c, "canceled") /\ UNCHANGED <<seen, held>>
     \/ MayFail /\ End(c)
  /\ UNCHANGED <<rows, events, raced>>

-----------------------------------------------------------------------------
(* The transactions.  None looks again at what was read before it began.   *)

(* Only a payment that was processing is moved by an event. *)
Moves(c) == Op(c) = "webhook" => seen[c].payment = "processing"

Settles(c) == Moves(c) /\ outcome[c] \in EventTypes

\* Mutant: the receipt is not part of the transaction.
WritesUnreceipted(c) ==
     (IF Settles(c) THEN {"payments"} ELSE {})
  \cup (IF Moves(c) THEN {"payment_sources"} ELSE {})
  \cup (IF Settles(c) /\ outcome[c] = "succeeded" /\ purpose = "point_topup"
        THEN {"point_accounts"} ELSE {})

\* Mutant: a webhook saves the payment only.
WritesNoSource(c) ==
     (IF Op(c) = "webhook" THEN {"provider_events"} ELSE {})
  \cup (IF Settles(c) THEN {"payments"} ELSE {})
  \cup (IF Op(c) # "webhook" THEN {"payment_sources"} ELSE {})
  \cup (IF Settles(c) /\ outcome[c] = "succeeded" /\ purpose = "point_topup"
        THEN {"point_accounts"} ELSE {})

(* The rows that a transaction writes. *)
Writes(c) ==
     (IF Op(c) = "webhook" THEN {"provider_events"} ELSE {})
  \cup (IF Settles(c) THEN {"payments"} ELSE {})
  \cup (IF Moves(c) THEN {"payment_sources"} ELSE {})
  \cup (IF Settles(c) /\ outcome[c] = "succeeded" /\ purpose = "point_topup"
        THEN {"point_accounts"} ELSE {})

\* Mutant: CancelPayment saves the source first.
WrittenBeforeCancelSwapped(c, t) ==
  IF Op(c) = "cancel" /\ t = "payments" THEN {"provider_events", "payment_sources"} ELSE
  IF Op(c) = "cancel" /\ t = "payment_sources" THEN {"provider_events"} ELSE
  CASE t = "provider_events" -> {}
    [] t = "payments"        -> {"provider_events"}
    [] t = "payment_sources" -> {"provider_events", "payments"}
    [] t = "point_accounts"  -> {"provider_events", "payments", "payment_sources"}

(* ... and their order, the same everywhere. *)
WrittenBefore(c, t) ==
  CASE t = "provider_events" -> {}
    [] t = "payments"        -> {"provider_events"}
    [] t = "payment_sources" -> {"provider_events", "payments"}
    [] t = "point_accounts"  -> {"provider_events", "payments", "payment_sources"}

(* Events of different types have rows of their own. *)
SameRow(c, d, t) == t = "provider_events" => RequestOf[c].type = RequestOf[d].type

RowFree(c, t) == \A d \in Calls \ {c} : t \in held[d] => ~SameRow(c, d, t)

NextRow(c, t) ==
  /\ t \in Writes(c) \ held[c]
  /\ Writes(c) \cap WrittenBefore(c, t) \subseteq held[c]

\* Mutant: the receipt is committed before the rest.
WriteRowReceiptFirst(c, t) ==
  /\ pc[c] = "writing"
  /\ NextRow(c, t)
  /\ RowFree(c, t)
  /\ IF t = "provider_events" /\ RequestOf[c].type \in receipts
     THEN End(c) /\ UNCHANGED receipts
     ELSE /\ held' = [held EXCEPT ![c] = @ \cup {t}]
          /\ receipts' = IF t = "provider_events"
                         THEN receipts \cup {RequestOf[c].type} ELSE receipts
          /\ UNCHANGED <<pc, seen, outcome>>
  /\ UNCHANGED <<purpose, payment, source, credits, results, provider, raced>>

(* A receipt that is there already ends the transaction. *)
WriteRow(c, t) ==
  /\ pc[c] = "writing"
  /\ NextRow(c, t)
  /\ RowFree(c, t)
  /\ IF t = "provider_events" /\ RequestOf[c].type \in receipts
     THEN End(c)
     ELSE held' = [held EXCEPT ![c] = @ \cup {t}] /\ UNCHANGED <<pc, seen, outcome>>
  /\ UNCHANGED <<rows, provider, raced>>

SourceStatus(status) ==
  CASE status = "succeeded"       -> "captured"
    [] status = "requires_action" -> "authorized"
    [] status = "failed"          -> "failed"
    [] status = "canceled"        -> "canceled"

(* Save writes every column; the ones not assigned are as they were read. *)
SavedSource(c) ==
  [status    |-> SourceStatus(outcome[c]),
   reference |-> \/ seen[c].source.reference
                 \/ /\ Op(c) \in {"create", "reconcile"}
                    /\ outcome[c] \in {"succeeded", "requires_action"}]

\* Mutant: the reason does not make a result a failure.
TopicUnlessFailed(status) ==
  CASE status = "failed"          -> "failed"
    [] status = "requires_action" -> "action_required"
    [] OTHER                      -> "succeeded"

(* The outbox row of the transaction, if the payment is for an order. *)
Topic(status) ==
  CASE status = "succeeded"       -> "succeeded"
    [] status = "requires_action" -> "action_required"
    [] OTHER                      -> "failed"

Commit(c) ==
  /\ pc[c] = "writing"
  /\ held[c] = Writes(c)
  /\ receipts' = IF "provider_events" \in Writes(c)
                 THEN receipts \cup {RequestOf[c].type} ELSE receipts
  /\ payment' = IF "payments" \in Writes(c) THEN outcome[c] ELSE payment
  /\ source' = IF "payment_sources" \in Writes(c) THEN SavedSource(c) ELSE source
  /\ credits' = IF "point_accounts" \in Writes(c) THEN credits + 1 ELSE credits
  /\ results' = IF purpose = "purchase" /\ Moves(c)
                THEN Append(results, Topic(outcome[c])) ELSE results
  /\ End(c)
  /\ UNCHANGED <<purpose, provider, raced>>

(* A statement fails: the transaction is rolled back. *)
Rollback(c) ==
  /\ MayFail
  /\ pc[c] = "writing"
  /\ IF Op(c) \in {"create", "reconcile"} /\ outcome[c] = "succeeded"
     THEN /\ Goto(c, "compensating")
          /\ held' = [held EXCEPT ![c] = {}]
          /\ UNCHANGED <<seen, outcome>>
     ELSE End(c)
  /\ UNCHANGED <<rows, provider, raced>>

(* The process stops, or a statement before the transaction fails. *)
Stop(c) ==
  /\ MayFail
  /\ InFlight(c)
  /\ End(c)
  /\ UNCHANGED <<rows, provider, raced>>

-----------------------------------------------------------------------------
(* The provider moves the intent and sends an event that says so: the      *)
(* customer confirms, in whatever status the intent is, or the provider    *)
(* gives up.                                                               *)
Notify(type) ==
  /\ intent # "none"
  /\ type = "succeeded" \/ intent = "requires_action"
  /\ intent' = type
  /\ events' = events \cup {type}
  /\ UNCHANGED <<rows, pc, seen, outcome, held, raced>>

Begin(c) == InsertProcessing(c) \/ ListPending(c) \/ FindByReference(c) \/ FindCancellable(c)

Proceed(c) ==
  \/ Charge(c)
  \/ Compensate(c)
  \/ FindPayment(c)
  \/ FindSource(c)
  \/ CancelIntent(c)
  \/ \E t \in Tables : WriteRow(c, t)
  \/ Commit(c)

Fail(c) == ChargeUnanswered(c) \/ Rollback(c) \/ Stop(c)

Next ==
  \/ \E c \in Calls : Begin(c) \/ Proceed(c) \/ Fail(c)
  \/ \E type \in EventTypes : Notify(type)

Spec == Init /\ [][Next]_vars

-----------------------------------------------------------------------------
TypeOK ==
  /\ purpose \in Purposes
  /\ payment \in PaymentStatuses
  /\ source \in Sources
  /\ credits \in Nat
  /\ results \in Seq({"succeeded", "failed", "action_required"})
  /\ receipts \subseteq EventTypes
  /\ intent \in Outcomes
  /\ events \subseteq EventTypes
  /\ pc \in [Calls -> CallStates]
  /\ seen \in [Calls -> [payment : PaymentStatuses, source : Sources]]
  /\ outcome \in [Calls -> Outcomes]
  /\ held \in [Calls -> SUBSET Tables]
  /\ raced \in BOOLEAN

(* Both rows of a payment say the same of it, whichever calls overlap and  *)
(* whatever they had read.  Only the source of a canceled payment may      *)
(* still await the customer: a creation under way has saved it last.       *)
PairAgrees ==
  /\ source.status = "captured" <=> payment = "succeeded"
  /\ source.status = "failed" <=> payment = "failed"
  /\ source.status = "canceled" => payment = "canceled"
  /\ source.status = "pending" => payment = "processing"
  /\ source.status = "authorized" => payment \in {"processing", "canceled"}

(* The points of a top-up are credited once at most, with events repeated  *)
(* and handled at the same time, calls retried and the provider's answers  *)
(* lost, unless two reconcilers were at work on it at the same time; and a *)
(* top-up that is shown as succeeded has been credited in any case.        *)
CreditedOnce ==
  /\ ~raced => credits <= 1
  /\ purpose = "point_topup" /\ payment = "succeeded" => credits # 0

(* The reconcilers of two replicas do not credit the points twice either.  *)
NeverCreditedTwice == credits <= 1

(* An event is on record only if it found the payment settled, or settled  *)
(* it: no event is lost by a failure between the two.                      *)
ReceiptSettles == receipts # {} => payment # "processing"

(* An order is told last what its payment came to. *)
IsResult(t) == t # "action_required"

Told == {i \in DOMAIN results : IsResult(results[i])}

LastResultTellsPayment ==
  purpose = "purchase" =>
    IF payment \in EventTypes
    THEN \E i \in Told : /\ \A j \in Told : j <= i
                        /\ results[i] = "succeeded" <=> payment = "succeeded"
    ELSE Told = {}

(* A cancellation takes back no payment that has ended.  The code does not *)
(* keep it.                                                                *)
CanceledBeforeEnd ==
  [][payment' = "canceled" /\ payment # "canceled" => payment = "processing"]_vars

(* Calls never all wait for each other: of those under way, one can go on. *)
Waits(c) == pc[c] = "writing" /\ \E t \in Tables : NextRow(c, t) /\ ~RowFree(c, t)

NoStandstill ==
  (\E c \in Calls : InFlight(c)) => \E c \in Calls : InFlight(c) /\ ~Waits(c)
=============================================================================
