---------------------------- MODULE RefundsProofs ----------------------------
(***************************************************************************)
(* Proofs about Refunds for every payment, every set of calls and amounts, *)
(* however the calls overlap and whatever fails in between.                *)
(***************************************************************************)
EXTENDS Refunds, TLAPS

(* What a call has read was true, and refunds only become more. *)
ReadsFit ==
  \A c \in Calls : pc[c] \in {"paying", "recording"} =>
    already[c] <= refunded /\ RefundKey(c) <= PaymentAmount

(* A call is about to record only what the provider has paid. *)
RecordedIsPaid ==
  method = "card" => \A c \in Calls : pc[c] = "recording" => RefundKey(c) \in keys

(* As long as nothing was recorded on a stale sum, what the provider paid  *)
(* back covers what is recorded, and every key that it would answer        *)
(* without paying.                                                         *)
ProviderCovers ==
  method = "card" /\ ~stale =>
    /\ refunded <= provider
    /\ \A k \in keys : k <= provider

RefundsInv ==
  /\ TypeOK
  /\ provider <= PaymentAmount
  /\ ReadsFit
  /\ RecordedIsPaid
  /\ StatusTellsRefunds
  /\ ProviderCovers

LEMMA RefundsInit == Init => RefundsInv
<1> SUFFICES ASSUME Init PROVE RefundsInv
  OBVIOUS
<1>1. PaymentAmount \in Nat \ {0}
  BY RefundsAssumption
<1>2. TypeOK
  BY DEF Init, TypeOK, CallStates, UnderWay, Refundable
<1>3. ReadsFit /\ RecordedIsPaid
  BY DEF Init, ReadsFit, RecordedIsPaid
<1>4. provider <= PaymentAmount /\ StatusTellsRefunds /\ ProviderCovers
  BY <1>1 DEF Init, StatusTellsRefunds, ProviderCovers
<1> QED BY <1>2, <1>3, <1>4 DEF RefundsInv

(* A call that only moves, without having anything to remember. *)
LEMMA MoveKeepsInv ==
  ASSUME RefundsInv, NEW c \in Calls,
         NEW state \in CallStates \ {"paying", "recording"}, Goto(c, state),
         UNCHANGED <<method, status, refunded, points, provider, keys, already, stale>>
  PROVE  RefundsInv'
<1>1. pc \in [Calls -> CallStates]
  BY DEF RefundsInv, TypeOK
<1>2. \A d \in Calls : pc'[d] = IF d = c THEN state ELSE pc[d]
  BY <1>1 DEF Goto
<1>3. TypeOK'
  BY <1>1 DEF RefundsInv, TypeOK, Goto
<1>4. ReadsFit' /\ RecordedIsPaid'
  BY <1>2 DEF RefundsInv, ReadsFit, RecordedIsPaid, RefundKey
<1>5. (provider <= PaymentAmount)' /\ StatusTellsRefunds' /\ ProviderCovers'
  BY DEF RefundsInv, StatusTellsRefunds, ProviderCovers
<1> QED BY <1>3, <1>4, <1>5 DEF RefundsInv

LEMMA ReadPaymentStep ==
  ASSUME RefundsInv, NEW c \in Calls, ReadPayment(c)
  PROVE  RefundsInv'
<1>1. PICK state \in {"reading", "rejected"} : Goto(c, state)
  BY DEF ReadPayment
<1> QED BY <1>1, MoveKeepsInv DEF ReadPayment, CallStates, UnderWay

LEMMA EndStep ==
  ASSUME RefundsInv, NEW c \in Calls, PayBackRefused(c) \/ Abort(c)
  PROVE  RefundsInv'
BY MoveKeepsInv DEF PayBackRefused, Abort, CallStates, UnderWay

LEMMA ReadRefundsStep ==
  ASSUME RefundsInv, NEW c \in Calls, ReadRefunds(c)
  PROVE  RefundsInv'
<1>1. /\ pc \in [Calls -> CallStates]
      /\ already \in [Calls -> Nat]
      /\ refunded \in Nat
  BY DEF RefundsInv, TypeOK
<1>2. PaymentAmount \in Nat /\ AmountOf[c] \in Nat \ {0}
  BY RefundsAssumption
<1>3. PICK state \in {"rejected", "paying", "recording"} :
        /\ Goto(c, state)
        /\ state # "rejected" => refunded + AmountOf[c] <= PaymentAmount
        /\ state = "recording" => method = "point"
  BY <1>1, <1>2 DEF ReadRefunds, Fits
<1>4. /\ \A d \in Calls : pc'[d] = IF d = c THEN state ELSE pc[d]
      /\ \A d \in Calls : already'[d] = IF d = c THEN refunded ELSE already[d]
  BY <1>1, <1>3 DEF ReadRefunds, Goto
<1>5. TypeOK'
  <2>1. pc' \in [Calls -> CallStates]
    BY <1>1, <1>3 DEF Goto, CallStates, UnderWay
  <2>2. already' \in [Calls -> Nat]
    BY <1>1 DEF ReadRefunds
  <2> QED BY <2>1, <2>2 DEF RefundsInv, TypeOK, ReadRefunds
<1>6. ReadsFit'
  BY <1>1, <1>3, <1>4 DEF RefundsInv, ReadsFit, RefundKey, ReadRefunds
<1>7. RecordedIsPaid'
  BY <1>3, <1>4 DEF RefundsInv, RecordedIsPaid, RefundKey, ReadRefunds
<1>8. (provider <= PaymentAmount)' /\ StatusTellsRefunds' /\ ProviderCovers'
  BY DEF RefundsInv, StatusTellsRefunds, ProviderCovers, ReadRefunds
<1> QED BY <1>5, <1>6, <1>7, <1>8 DEF RefundsInv

(* A key the provider does not know is larger than what it has paid by no  *)
(* more than the refund it names.                                          *)
LEMMA PayBackStep ==
  ASSUME RefundsInv, NEW c \in Calls, PayBack(c)
  PROVE  RefundsInv'
<1>1. /\ pc \in [Calls -> CallStates]
      /\ already \in [Calls -> Nat]
      /\ refunded \in Nat /\ provider \in Nat
      /\ keys \subseteq 1..PaymentAmount
      /\ pc[c] = "paying"
  BY DEF RefundsInv, TypeOK, PayBack
<1>2. PaymentAmount \in Nat /\ AmountOf[c] \in Nat \ {0}
  BY RefundsAssumption
<1>3. already[c] <= refunded /\ RefundKey(c) \in 1..PaymentAmount
  BY <1>1, <1>2 DEF RefundsInv, ReadsFit, RefundKey
<1>4. PICK state \in {"recording", "failed"} : Goto(c, state)
  BY DEF PayBack
<1>5. \A d \in Calls : pc'[d] = IF d = c THEN state ELSE pc[d]
  BY <1>1, <1>4 DEF Goto
<1>6. keys' = keys \cup {RefundKey(c)}
  BY DEF PayBack, ProviderRefunds
<1>7. provider' \in Nat /\ provider <= provider' /\ provider' <= PaymentAmount
  BY <1>1, <1>2 DEF RefundsInv, PayBack, ProviderRefunds, ProviderAccepts
<1>8. TypeOK'
  <2>1. pc' \in [Calls -> CallStates]
    BY <1>1, <1>4 DEF Goto, CallStates, UnderWay
  <2>2. keys' \subseteq 1..PaymentAmount
    BY <1>1, <1>3, <1>6
  <2> QED BY <2>1, <2>2, <1>7 DEF RefundsInv, TypeOK, PayBack
<1>9. ReadsFit'
  BY <1>1, <1>5 DEF RefundsInv, ReadsFit, RefundKey, PayBack
<1>10. RecordedIsPaid'
  BY <1>5, <1>6 DEF RefundsInv, RecordedIsPaid, RefundKey, PayBack
<1>11. ProviderCovers'
  <2> SUFFICES ASSUME method = "card", ~stale
               PROVE  refunded <= provider' /\ \A k \in keys' : k <= provider'
    BY DEF ProviderCovers, PayBack
  <2>1. refunded <= provider /\ \A k \in keys : k <= provider
    BY DEF RefundsInv, ProviderCovers
  <2>2. RefundKey(c) <= provider'
    BY <1>1, <1>2, <1>3, <2>1 DEF PayBack, ProviderRefunds, RefundKey
  <2> QED BY <1>1, <1>6, <1>7, <2>1, <2>2
<1>12. StatusTellsRefunds'
  BY DEF RefundsInv, StatusTellsRefunds, PayBack
<1> QED BY <1>7, <1>8, <1>9, <1>10, <1>11, <1>12 DEF RefundsInv

LEMMA RecordStep ==
  ASSUME RefundsInv, NEW c \in Calls, Record(c)
  PROVE  RefundsInv'
<1>1. /\ pc \in [Calls -> CallStates]
      /\ already \in [Calls -> Nat]
      /\ refunded \in Nat /\ points \in Nat /\ provider \in Nat
      /\ keys \subseteq 1..PaymentAmount
      /\ pc[c] = "recording"
  BY DEF RefundsInv, TypeOK, Record
<1>2. PaymentAmount \in Nat /\ AmountOf[c] \in Nat \ {0}
  BY RefundsAssumption
<1>3. \A d \in Calls : pc'[d] = IF d = c THEN "done" ELSE pc[d]
  BY <1>1 DEF Record, Goto
<1>4. refunded' = refunded + AmountOf[c] /\ refunded' \in Nat \ {0}
  BY <1>1, <1>2 DEF Record
<1>5. /\ status' = StatusAfter(c)
      /\ status' \in {"refunded", "partially_refunded"}
  BY DEF Record, StatusAfter
<1>6. ~stale' => ~stale /\ refunded' = RefundKey(c) /\ refunded' <= PaymentAmount
  BY <1>1, <1>4 DEF RefundsInv, ReadsFit, Record, RefundKey
<1>7. TypeOK'
  <2>1. pc' \in [Calls -> CallStates]
    BY <1>1 DEF Record, Goto, CallStates
  <2>2. points' \in Nat
    BY <1>1, <1>2 DEF Record
  <2>3. stale' \in BOOLEAN
    BY DEF Record
  <2> QED BY <2>1, <2>2, <2>3, <1>4, <1>5 DEF RefundsInv, TypeOK, Record, Refundable
<1>8. ReadsFit'
  <2>1. \A d \in Calls : already[d] <= refunded => already[d] <= refunded'
    BY <1>1, <1>2, <1>4
  <2> QED BY <1>3, <2>1 DEF RefundsInv, ReadsFit, Record, RefundKey
<1>9. RecordedIsPaid'
  BY <1>3 DEF RefundsInv, RecordedIsPaid, RefundKey, Record
<1>10. StatusTellsRefunds'
  <2>1. ~stale' => (status' = "refunded" <=> refunded' = PaymentAmount)
    BY <1>1, <1>2, <1>5, <1>6 DEF StatusAfter, RefundKey
  <2> QED BY <1>4, <1>5, <1>6, <2>1 DEF StatusTellsRefunds
<1>11. ProviderCovers'
  BY <1>1, <1>6 DEF RefundsInv, ProviderCovers, RecordedIsPaid, Record
<1> QED BY <1>7, <1>8, <1>9, <1>10, <1>11 DEF RefundsInv, Record

LEMMA RefundsStep ==
  ASSUME RefundsInv, [Next]_vars
  PROVE  RefundsInv'
<1>1. CASE UNCHANGED vars
  BY <1>1
  DEF vars, RefundsInv, TypeOK, ReadsFit, RecordedIsPaid, RefundKey, StatusTellsRefunds,
      ProviderCovers
<1>2. CASE Next
  BY <1>2, ReadPaymentStep, EndStep, ReadRefundsStep, PayBackStep, RecordStep DEF Next
<1> QED BY <1>1, <1>2

(* Every variable keeps its type, and no key names a sum larger than the   *)
(* payment: each call asks the provider only for what it read to be left.  *)
THEOREM TypeCorrect == Spec => []TypeOK
<1>1. RefundsInv => TypeOK
  BY DEF RefundsInv
<1> QED BY RefundsInit, RefundsStep, <1>1, PTL DEF Spec

(* The status of the payment tells how much was refunded, until a refund   *)
(* is recorded on a stale sum.                                             *)
THEOREM StatusCorrect == Spec => []StatusTellsRefunds
<1>1. RefundsInv => StatusTellsRefunds
  BY DEF RefundsInv
<1> QED BY RefundsInit, RefundsStep, <1>1, PTL DEF Spec

(* The provider never pays back more than was paid, and every recorded     *)
(* refund of a card payment was paid by it, until one is recorded on a     *)
(* stale sum.                                                              *)
THEOREM ProviderPaid == Spec => []ProviderPaidRefunds
<1>1. RefundsInv => ProviderPaidRefunds
  BY DEF RefundsInv, ProviderCovers, ProviderPaidRefunds
<1> QED BY RefundsInit, RefundsStep, <1>1, PTL DEF Spec
=============================================================================
