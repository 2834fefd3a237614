------------------------------- MODULE Refunds -------------------------------
(***************************************************************************)
(* payment-api: RefundPayment, for one payment that has succeeded.  A call *)
(* reads the payment, then the sum of its refunds, then asks the provider  *)
(* for the money unless the payment was made with points, and records the  *)
(* refund in a transaction.  Nothing keeps two calls from doing so at the  *)
(* same time.  A retry is another call.                                    *)
(***************************************************************************)
EXTENDS Integers

CONSTANTS
  Calls,
  AmountOf,       \* request.amount of each call
  PaymentAmount,  \* payments.amount
  Methods,        \* the payment methods to look at
  MayFail         \* a statement, or the answer of the provider, may be lost

ASSUME RefundsAssumption ==
  /\ AmountOf \in [Calls -> Nat \ {0}]
  /\ PaymentAmount \in Nat \ {0}
  /\ Methods \subseteq {"point", "card"}
  /\ MayFail \in BOOLEAN

VARIABLES
  method,      \* payments.payment_method
  status,      \* payments.status
  refunded,    \* the sum of the succeeded rows of refunds
  points,      \* points given back to the account
  provider,    \* what the provider has refunded of the intent
  keys,        \* the idempotency keys of refunds the provider has made
  pc,          \* where each call is
  already      \* the sum of refunds each call has read

(* History, for the properties: a refund was recorded although another one *)
(* had been since its call read the sum.                                   *)
VARIABLE stale

vars == <<method, status, refunded, points, provider, keys, pc, already, stale>>

Refundable == {"succeeded", "partially_refunded"}
UnderWay   == {"reading", "paying", "recording"}
CallStates == UnderWay \cup {"ready", "done", "rejected", "failed"}

Init ==
  /\ method \in Methods
  /\ status = "succeeded"
  /\ refunded = 0
  /\ points = 0
  /\ provider = 0
  /\ keys = {}
  /\ pc = [c \in Calls |-> "ready"]
  /\ already = [c \in Calls |-> 0]
  /\ stale = FALSE

Goto(c, state) == pc' = [pc EXCEPT ![c] = state]

(* FindByID, and the check of the status. *)
ReadPayment(c) ==
  /\ pc[c] = "ready"
  /\ Goto(c, IF status \in Refundable THEN "reading" ELSE "rejected")
  /\ UNCHANGED <<method, status, refunded, points, provider, keys, already, stale>>

Fits(c, sum) == AmountOf[c] <= PaymentAmount - sum

(* SumSucceededAmount, and the check of what is left. *)
ReadRefunds(c) ==
  /\ pc[c] = "reading"
  /\ already' = [already EXCEPT ![c] = refunded]
  /\ Goto(c, IF ~Fits(c, refunded) THEN "rejected"
             ELSE IF method = "point" THEN "recording" ELSE "paying")
  /\ UNCHANGED <<method, status, refunded, points, provider, keys, stale>>

\* Mutant: the key does not tell one refund from the next.
RefundKeyOfAmount(c) == AmountOf[c]

(* The key "refund-<payment>-<sum after this refund>". *)
RefundKey(c) == already[c] + AmountOf[c]

(* The provider refunds a key once, and never more than was paid. *)
ProviderAccepts(c) ==
  RefundKey(c) \in keys \/ provider + AmountOf[c] <= PaymentAmount

ProviderRefunds(c) ==
  /\ provider' = IF RefundKey(c) \in keys THEN provider ELSE provider + AmountOf[c]
  /\ keys' = keys \cup {RefundKey(c)}

(* RefundExternal; when the answer is lost the call ends without a record. *)
PayBack(c) ==
  /\ pc[c] = "paying"
  /\ ProviderAccepts(c)
  /\ ProviderRefunds(c)
  /\ Goto(c, "recording") \/ (MayFail /\ Goto(c, "failed"))
  /\ UNCHANGED <<method, status, refunded, points, already, stale>>

PayBackRefused(c) ==
  /\ pc[c] = "paying"
  /\ ~ProviderAccepts(c)
  /\ Goto(c, "failed")
  /\ UNCHANGED <<method, status, refunded, points, provider, keys, already, stale>>

\* Mutant: a refund that is not the whole payment is a partial one.
StatusAfterWhole(c) ==
  IF AmountOf[c] = PaymentAmount THEN "refunded" ELSE "partially_refunded"

StatusAfter(c) ==
  IF AmountOf[c] = PaymentAmount - already[c] THEN "refunded" ELSE "partially_refunded"

(* One transaction: the refund's row, the whole payment row with its new   *)
(* status, and the points of a payment made with points.                   *)
Record(c) ==
  /\ pc[c] = "recording"
  /\ refunded' = refunded + AmountOf[c]
  /\ status' = StatusAfter(c)
  /\ points' = IF method = "point" THEN points + AmountOf[c] ELSE points
  /\ Goto(c, "done")
  /\ stale' = (stale \/ already[c] # refunded)
  /\ UNCHANGED <<method, provider, keys, already>>

(* A statement fails: nothing of the transaction remains. *)
Abort(c) ==
  /\ MayFail
  /\ pc[c] \in UnderWay
  /\ Goto(c, "failed")
  /\ UNCHANGED <<method, status, refunded, points, provider, keys, already, stale>>

Next ==
  \E c \in Calls :
    \/ ReadPayment(c)
    \/ ReadRefunds(c)
    \/ PayBack(c)
    \/ PayBackRefused(c)
    \/ Record(c)
    \/ Abort(c)

Spec == Init /\ [][Next]_vars

-----------------------------------------------------------------------------
(* Every variable keeps its type; in particular no key names a sum larger  *)
(* than the payment, whatever the calls have read.                         *)
TypeOK ==
  /\ method \in Methods
  /\ status \in Refundable \cup {"refunded"}
  /\ refunded \in Nat
  /\ points \in Nat
  /\ provider \in Nat
  /\ keys \subseteq 1..PaymentAmount
  /\ pc \in [Calls -> CallStates]
  /\ already \in [Calls -> Nat]
  /\ stale \in BOOLEAN

(* However a payment is refunded in parts, the customer never gets back    *)
(* more than was paid.                                                     *)
NeverOverRefunded == refunded <= PaymentAmount /\ points <= PaymentAmount

(* The status of the payment tells how much of it was refunded, however    *)
(* calls overlap and fail, until one records its refund on a stale sum;    *)
(* and a payment with a refund never shows as one without.                 *)
StatusTellsRefunds ==
  /\ status = "succeeded" <=> refunded = 0
  /\ ~stale => refunded <= PaymentAmount
  /\ ~stale => (status = "refunded" <=> refunded = PaymentAmount)

(* The provider never pays back more than was paid, however many calls ask *)
(* for it at once; and every refund that is recorded for a card payment    *)
(* has been paid by the provider, also when an answer of the provider was  *)
(* lost, the amount of the next attempt is another one, or the provider    *)
(* knows its key, until one is recorded on a stale sum.                    *)
ProviderPaidRefunds ==
  /\ provider <= PaymentAmount
  /\ method = "card" /\ ~stale => refunded <= provider
=============================================================================
