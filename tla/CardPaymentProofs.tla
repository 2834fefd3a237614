-------------------------- MODULE CardPaymentProofs --------------------------
(***************************************************************************)
(* Proofs about CardPayment, for any calls, requests and failures.         *)
(***************************************************************************)
EXTENDS CardPayment, TLAPS

(* Nobody is at work on a payment that does not exist. *)
NothingBeforeRow ==
  payment = "none" => /\ \A c \in Calls : ~InFlight(c)
                      /\ receipts = {}
                      /\ credits = 0
                      /\ source = NoSource

(* What a call that has got so far must have read or decided. *)
CallFacts(c) ==
  /\ pc[c] \in {"charging", "compensating"} => Op(c) \in {"create", "reconcile"}
  /\ pc[c] = "reading" => Op(c) \in {"reconcile", "webhook"}
  /\ pc[c] \in {"finding", "canceling"} => Op(c) = "cancel"
  /\ pc[c] = "writing" =>
       /\ outcome[c] \in EventTypes \/ (Op(c) = "create" /\ outcome[c] = "requires_action")
       /\ Op(c) = "webhook" => outcome[c] = RequestOf[c].type
       /\ Op(c) = "cancel" => outcome[c] = "canceled"
  /\ pc[c] = "ready" => seen[c] = Unread
  /\ held[c] # {} => pc[c] = "writing"

TypeInv == TypeOK /\ \A c \in Calls : CallFacts(c)

(* While a call creates the payment, only cancellations are under way, and *)
(* the provider's reference is not known.                                  *)
Unreferenced(c) == Op(c) = "cancel" /\ ~seen[c].source.reference

AloneWithCancels(c) ==
  /\ payment \in {"processing", "canceled"}
  /\ ~source.reference
  /\ credits = 0
  /\ \A d \in Calls \ {c} : InFlight(d) => Unreferenced(d)

CreatorAlone == \A c \in Calls : Creating(c) => AloneWithCancels(c)

PairInv ==
  /\ TypeInv
  /\ NothingBeforeRow
  /\ CreatorAlone
  /\ PairAgrees

(* An event that is being recorded without moving the payment has seen it  *)
(* settled.                                                                *)
SeenSettled(c) ==
  Op(c) = "webhook" /\ pc[c] = "writing" /\ seen[c].payment # "processing"
    => payment \notin {"none", "processing"}

ReceiptInv == PairInv /\ (\A c \in Calls : SeenSettled(c)) /\ ReceiptSettles

(* As long as reconcilers have not met, whoever charges is alone with      *)
(* cancellations.                                                          *)
Charging(c) == Op(c) \in {"create", "reconcile"} /\ InFlight(c)

ChargerAlone == \A c \in Calls : Charging(c) => AloneWithCancels(c)

(* A pending source has not been referred to by anyone. *)
PendingUntouched ==
  source.status = "pending" =>
    /\ ~source.reference
    /\ credits = 0
    /\ \A c \in Calls :
         InFlight(c) => Op(c) \in {"create", "reconcile"} \/ Unreferenced(c)

(* The receipt of an event is written by one transaction at a time, and    *)
(* by none that finds it.                                                  *)
ReceiptHeldOnce ==
  \A c \in Calls : "provider_events" \in held[c] =>
    /\ Op(c) = "webhook"
    /\ RequestOf[c].type \notin receipts
    /\ \A d \in Calls \ {c} :
         "provider_events" \in held[d] => RequestOf[d].type # RequestOf[c].type

(* Once the points are credited, nobody is left who could credit again. *)
NoSecondCredit ==
  credits # 0 =>
    /\ credits = 1
    /\ payment # "processing"
    /\ \A c \in Calls :
         Op(c) = "webhook" /\ pc[c] = "writing" /\ outcome[c] = "succeeded"
           /\ seen[c].payment = "processing" => "succeeded" \in receipts

CreditInv ==
  /\ PairInv
  /\ ChargerAlone
  /\ PendingUntouched
  /\ ReceiptHeldOnce
  /\ NoSecondCredit

(* A top-up that is shown as succeeded has been credited. *)
ShownIsCredited == purpose = "point_topup" /\ payment = "succeeded" => credits # 0

(* What a transaction has written so far is what comes first. *)
HeldInOrder(c) ==
  /\ held[c] \subseteq Writes(c)
  /\ \A t \in held[c] : Writes(c) \cap WrittenBefore(c, t) \subseteq held[c]

-----------------------------------------------------------------------------
LEMMA InitType == Init => TypeOK
<1> SUFFICES ASSUME Init PROVE TypeOK
  OBVIOUS
<1>1. NoSource \in Sources /\ "none" \in PaymentStatuses /\ "none" \in Outcomes
  BY DEF NoSource, Sources, SourceStatuses, PaymentStatuses, Outcomes
<1>2. /\ pc \in [Calls -> CallStates]
      /\ seen \in [Calls -> [payment : PaymentStatuses, source : Sources]]
      /\ outcome \in [Calls -> Outcomes]
      /\ held \in [Calls -> SUBSET Tables]
  BY <1>1 DEF Init, Unread, CallStates
<1>3. results \in Seq({"succeeded", "failed", "action_required"})
  BY DEF Init
<1> QED BY <1>1, <1>2, <1>3, CardPaymentAssumption DEF Init, TypeOK

(* What an action may do to the variables of the calls keeps their types. *)
LEMMA GotoType ==
  ASSUME NEW c \in Calls, NEW state \in CallStates, TypeOK, Goto(c, state)
  PROVE  pc' \in [Calls -> CallStates]
BY DEF TypeOK, Goto

LEMMA EndType ==
  ASSUME NEW c \in Calls, TypeOK, End(c)
  PROVE  /\ pc' \in [Calls -> CallStates]
         /\ seen' \in [Calls -> [payment : PaymentStatuses, source : Sources]]
         /\ outcome' \in [Calls -> Outcomes]
         /\ held' \in [Calls -> SUBSET Tables]
BY DEF TypeOK, End, Goto, CallStates, Unread, NoSource, PaymentStatuses, Sources, SourceStatuses,
   Outcomes

LEMMA NextType == TypeInv /\ [Next]_vars => TypeOK'
<1> SUFFICES ASSUME TypeOK, \A c \in Calls : CallFacts(c), [Next]_vars PROVE TypeOK'
  BY DEF TypeInv
<1> USE DEF rows, provider
<1>1. ASSUME NEW c \in Calls, InsertProcessing(c) PROVE TypeOK'
  <2>1. CASE payment = "none"
    <3>0. payment' = "processing" /\ source' = [status |-> "pending", reference |-> FALSE]
      BY <1>1, <2>1 DEF InsertProcessing
    <3>1. payment' \in PaymentStatuses /\ source' \in Sources
      BY <3>0 DEF PaymentStatuses, Sources, SourceStatuses
    <3>2. [payment |-> payment', source |-> source'] \in [payment : PaymentStatuses, source : Sources]
      BY <3>1
    <3>3. seen' = [seen EXCEPT ![c] = [payment |-> payment', source |-> source']]
      BY <1>1, <2>1 DEF InsertProcessing
    <3>4. seen' \in [Calls -> [payment : PaymentStatuses, source : Sources]]
      BY <3>2, <3>3 DEF TypeOK
    <3>5. pc' \in [Calls -> CallStates]
      BY <1>1, <2>1, GotoType DEF InsertProcessing, CallStates
    <3> QED BY <1>1, <2>1, <3>1, <3>4, <3>5 DEF InsertProcessing, TypeOK
  <2>2. CASE payment # "none"
    BY <1>1, <2>2, EndType DEF InsertProcessing, TypeOK
  <2> QED BY <2>1, <2>2
<1>2. ASSUME NEW c \in Calls, ListPending(c) PROVE TypeOK'
  BY <1>2 DEF ListPending, TypeOK, Goto, CallStates
<1>3. ASSUME NEW c \in Calls, FindByReference(c) PROVE TypeOK'
  <2>1. CASE source.reference
    BY <1>3, <2>1 DEF FindByReference, TypeOK, Goto, CallStates
  <2>2. CASE ~source.reference
    BY <1>3, <2>2, EndType DEF FindByReference, TypeOK
  <2> QED BY <2>1, <2>2
<1>4. ASSUME NEW c \in Calls, FindCancellable(c) PROVE TypeOK'
  <2>1. CASE payment = "processing"
    BY <1>4, <2>1 DEF FindCancellable, TypeOK, Goto, CallStates
  <2>2. CASE payment # "processing"
    BY <1>4, <2>2, EndType DEF FindCancellable, TypeOK
  <2> QED BY <2>1, <2>2
<1>5. ASSUME NEW c \in Calls, Charge(c) PROVE TypeOK'
  <2>1. ChargedIntents \subseteq Outcomes
    BY CardPaymentAssumption DEF ChargedIntents, Outcomes, EventTypes
  <2>2. \A answer \in ChargedIntents : ChargeOutcome(c, answer) \in Outcomes
    BY <2>1 DEF ChargeOutcome, Outcomes, EventTypes
  <2>3. "failed" \in Outcomes /\ "writing" \in CallStates
    BY DEF Outcomes, EventTypes, CallStates
  <2> QED BY <1>5, <2>1, <2>2, <2>3 DEF Charge, Write, Goto, TypeOK
<1>6. ASSUME NEW c \in Calls, Compensate(c) PROVE TypeOK'
  <2>1. CanceledIntent \in Outcomes
    BY DEF CanceledIntent, TypeOK, Outcomes, EventTypes
  <2> QED BY <1>6, <2>1, EndType DEF Compensate, TypeOK
<1>7. ASSUME NEW c \in Calls, FindPayment(c) PROVE TypeOK'
  <2>1. CASE Op(c) = "reconcile" /\ payment # "processing"
    BY <1>7, <2>1, EndType DEF FindPayment, TypeOK
  <2>2. CASE ~(Op(c) = "reconcile" /\ payment # "processing")
    <3>1. RequestOf[c].type \in Outcomes
      BY CardPaymentAssumption DEF Requests, Outcomes
    <3>2. {"writing", "charging"} \subseteq CallStates
      BY DEF CallStates
    <3> QED BY <1>7, <2>2, <3>1, <3>2 DEF FindPayment, Write, Goto, TypeOK
  <2> QED BY <2>1, <2>2
<1>8. ASSUME NEW c \in Calls, FindSource(c) PROVE TypeOK'
  BY <1>8 DEF FindSource, TypeOK, Goto, CallStates
<1>9. ASSUME NEW c \in Calls, CancelIntent(c) PROVE TypeOK'
  <2>1. intent' \in Outcomes
    BY <1>9 DEF CancelIntent, CanceledIntent, TypeOK, Outcomes, EventTypes
  <2>2. CASE Write(c, "canceled") /\ UNCHANGED <<seen, held>>
    BY <1>9, <2>1, <2>2 DEF CancelIntent, Write, Goto, TypeOK, CallStates, Outcomes, EventTypes
  <2>3. CASE End(c)
    BY <1>9, <2>1, <2>3, EndType DEF CancelIntent, TypeOK
  <2> QED BY <1>9, <2>2, <2>3 DEF CancelIntent
<1>10. ASSUME NEW c \in Calls, NEW t \in Tables, WriteRow(c, t) PROVE TypeOK'
  <2>1. CASE End(c)
    BY <1>10, <2>1, EndType DEF WriteRow, TypeOK
  <2>2. CASE held' = [held EXCEPT ![c] = @ \cup {t}] /\ UNCHANGED <<pc, seen, outcome>>
    BY <1>10, <2>2 DEF WriteRow, TypeOK
  <2> QED BY <1>10, <2>1, <2>2 DEF WriteRow
<1>11. ASSUME NEW c \in Calls, Commit(c) PROVE TypeOK'
  <2>1. outcome[c] \in EventTypes \cup {"requires_action"}
    BY <1>11 DEF Commit, CallFacts
  <2>2. SavedSource(c) \in Sources
    BY <2>1 DEF SavedSource, SourceStatus, Sources, SourceStatuses, EventTypes
  <2>3. Topic(outcome[c]) \in {"succeeded", "failed", "action_required"}
    BY DEF Topic
  <2>4. "payments" \in Writes(c) => outcome[c] \in PaymentStatuses
    BY DEF Writes, Settles, EventTypes, PaymentStatuses
  <2>5. RequestOf[c].type \in EventTypes
    BY CardPaymentAssumption DEF Requests
  <2>6. results' \in Seq({"succeeded", "failed", "action_required"})
    BY <1>11, <2>3 DEF Commit, TypeOK
  <2>7. payment' \in PaymentStatuses /\ source' \in Sources /\ credits' \in Nat
    BY <1>11, <2>2, <2>4 DEF Commit, TypeOK
  <2>8. receipts' \subseteq EventTypes
    BY <1>11, <2>5 DEF Commit, TypeOK
  <2>9. End(c) /\ UNCHANGED <<purpose, provider, raced>>
    BY <1>11 DEF Commit
  <2> QED BY <2>6, <2>7, <2>8, <2>9, EndType DEF TypeOK
<1>12. ASSUME NEW c \in Calls, Fail(c) PROVE TypeOK'
  <2>1. CASE ChargeUnanswered(c)
    <3>1. intent' \in Outcomes
      BY <2>1, CardPaymentAssumption DEF ChargeUnanswered, ChargedIntents, Outcomes, EventTypes
    <3> QED BY <2>1, <3>1, EndType DEF ChargeUnanswered, TypeOK
  <2>2. CASE Rollback(c)
    <3>1. CASE End(c)
      BY <2>2, <3>1, EndType DEF Rollback, TypeOK
    <3>2. CASE Goto(c, "compensating") /\ held' = [held EXCEPT ![c] = {}]
                 /\ UNCHANGED <<seen, outcome>>
      BY <2>2, <3>2 DEF Rollback, TypeOK, Goto, CallStates
    <3> QED BY <2>2, <3>1, <3>2 DEF Rollback
  <2>3. CASE Stop(c)
    BY <2>3, EndType DEF Stop, TypeOK
  <2> QED BY <1>12, <2>1, <2>2, <2>3 DEF Fail
<1>13. ASSUME NEW type \in EventTypes, Notify(type) PROVE TypeOK'
  BY <1>13 DEF Notify, TypeOK, Outcomes, EventTypes
<1>14. CASE UNCHANGED vars
  BY <1>14 DEF vars, TypeOK
<1> QED BY <1>1, <1>2, <1>3, <1>4, <1>5, <1>6, <1>7, <1>8, <1>9, <1>10, <1>11, <1>12, <1>13, <1>14
        DEF Next, Begin, Proceed

(* A call touches nothing of another one. *)
CallStep(c) == Begin(c) \/ Proceed(c) \/ Fail(c)

Untouched(d) ==
  pc'[d] = pc[d] /\ seen'[d] = seen[d] /\ outcome'[d] = outcome[d] /\ held'[d] = held[d]

LEMMA OthersUntouched ==
  ASSUME TypeOK, NEW c \in Calls, CallStep(c), NEW d \in Calls \ {c}
  PROVE  Untouched(d)
<1> USE DEF TypeOK, Untouched, Goto, Write, End
<1>1. CASE Begin(c)
  BY <1>1 DEF Begin, InsertProcessing, ListPending, FindByReference, FindCancellable
<1>2. CASE Charge(c) \/ Compensate(c) \/ FindPayment(c)
  BY <1>2 DEF Charge, Compensate, FindPayment
<1>3. CASE FindSource(c) \/ CancelIntent(c) \/ Commit(c)
  BY <1>3 DEF FindSource, CancelIntent, Commit
<1>4. ASSUME NEW t \in Tables, WriteRow(c, t) PROVE Untouched(d)
  BY <1>4 DEF WriteRow
<1>5. CASE Fail(c)
  BY <1>5 DEF Fail, ChargeUnanswered, Rollback, Stop
<1> QED BY <1>1, <1>2, <1>3, <1>4, <1>5 DEF CallStep, Proceed

LEMMA ChargeOutcomes ==
  ASSUME NEW c \in Calls, Op(c) \in {"create", "reconcile"}, NEW answer \in ChargedIntents
  PROVE  \/ ChargeOutcome(c, answer) = "succeeded"
         \/ Op(c) = "create" /\ ChargeOutcome(c, answer) = "requires_action"
<1>1. ChargedIntents \subseteq {"requires_action", "succeeded"}
  BY CardPaymentAssumption DEF ChargedIntents
<1> QED BY <1>1 DEF ChargeOutcome

LEMMA NextFacts == TypeInv /\ [Next]_vars => \A c \in Calls : CallFacts(c)'
<1> SUFFICES ASSUME TypeOK, \A c \in Calls : CallFacts(c), [Next]_vars, NEW e \in Calls
             PROVE  CallFacts(e)'
  BY DEF TypeInv
<1>1. ASSUME NEW c \in Calls, CallStep(c), e # c PROVE CallFacts(e)'
  <2>1. Untouched(e)
    BY <1>1, OthersUntouched
  <2> QED BY <2>1 DEF CallFacts, Untouched
<1>2. CASE CallStep(e)
  <2> USE DEF TypeOK, CallFacts, Goto, Write, End, Op
  <2>1. CASE Begin(e)
    BY <2>1 DEF Begin, InsertProcessing, ListPending, FindByReference, FindCancellable
  <2>2. CASE Charge(e)
    <3>2. Op(e) \in {"create", "reconcile"} /\ {"failed", "succeeded"} \subseteq EventTypes
      BY <2>2 DEF Charge, EventTypes
    <3>1. \A answer \in ChargedIntents :
            \/ ChargeOutcome(e, answer) = "succeeded"
            \/ Op(e) = "create" /\ ChargeOutcome(e, answer) = "requires_action"
      BY <3>2, ChargeOutcomes
    <3> QED BY <2>2, <3>1, <3>2 DEF Charge
  <2>3. CASE FindPayment(e)
    <3>1. Op(e) \in {"reconcile", "webhook"} /\ RequestOf[e].type \in EventTypes
      BY <2>3, CardPaymentAssumption DEF FindPayment, Requests
    <3> QED BY <2>3, <3>1 DEF FindPayment
  <2>4. CASE FindSource(e) \/ CancelIntent(e)
    BY <2>4 DEF FindSource, CancelIntent, EventTypes
  <2>5. CASE Compensate(e) \/ Commit(e)
    BY <2>5 DEF Compensate, Commit
  <2>6. ASSUME NEW t \in Tables, WriteRow(e, t) PROVE CallFacts(e)'
    BY <2>6 DEF WriteRow
  <2>7. CASE Fail(e)
    BY <2>7 DEF Fail, ChargeUnanswered, Rollback, Stop
  <2> QED BY <1>2, <2>1, <2>2, <2>3, <2>4, <2>5, <2>6, <2>7 DEF CallStep, Proceed
<1>3. ASSUME NEW type \in EventTypes, Notify(type) PROVE CallFacts(e)'
  BY <1>3 DEF Notify, CallFacts
<1>4. CASE UNCHANGED vars
  BY <1>4 DEF vars, CallFacts
<1> QED BY <1>1, <1>2, <1>3, <1>4 DEF Next, CallStep

LEMMA InitInv == Init => TypeInv
BY InitType DEF TypeInv, Init, CallFacts

LEMMA NextInv == TypeInv /\ [Next]_vars => TypeInv'
BY NextType, NextFacts DEF TypeInv

(* Every variable keeps its type, whoever calls. *)
THEOREM TypeCorrect == Spec => []TypeOK
<1>1. TypeInv => TypeOK
  BY DEF TypeInv
<1> QED BY InitInv, NextInv, <1>1, PTL DEF Spec

-----------------------------------------------------------------------------
(* The two rows. *)
LEMMA WritesIs ==
  ASSUME NEW c \in Calls
  PROVE  /\ "provider_events" \in Writes(c) <=> Op(c) = "webhook"
         /\ "payments" \in Writes(c) <=> Settles(c)
         /\ "payment_sources" \in Writes(c) <=> Moves(c)
         /\ "point_accounts" \in Writes(c)
              <=> Settles(c) /\ outcome[c] = "succeeded" /\ purpose = "point_topup"
         /\ Writes(c) \subseteq Tables
BY DEF Writes, Tables

(* Only an insertion and a commit change a row. *)
LEMMA RowsKept ==
  ASSUME NEW c \in Calls, CallStep(c), ~InsertProcessing(c), ~Commit(c)
  PROVE  UNCHANGED rows
BY DEF CallStep, Begin, ListPending, FindByReference, FindCancellable, Proceed, Charge, Compensate,
   FindPayment, FindSource, CancelIntent, WriteRow, Fail, ChargeUnanswered, Rollback, Stop

(* A call under way has begun, and begins once. *)
LEMMA UnderWay ==
  ASSUME TypeInv, NEW c \in Calls, CallStep(c)
  PROVE  /\ Begin(c) <=> ~InFlight(c)
         /\ Begin(c) => pc[c] = "ready"
BY DEF CallStep, Begin, InsertProcessing, ListPending, FindByReference, FindCancellable, Proceed,
   Charge, Compensate, FindPayment, FindSource, CancelIntent, WriteRow, Commit,
   Fail, ChargeUnanswered, Rollback, Stop, InFlight

LEMMA EndIsNotInFlight ==
  ASSUME TypeInv, NEW c \in Calls, End(c)
  PROVE  ~InFlight(c)'
BY DEF TypeInv, TypeOK, End, Goto, InFlight

LEMMA CommitRows ==
  ASSUME TypeInv, NEW c \in Calls, Commit(c)
  PROVE  /\ Settles(c) => /\ payment' = outcome[c] /\ outcome[c] \in EventTypes
                          /\ source'.status = SourceStatus(outcome[c])
         /\ ~Settles(c) => payment' = payment
         /\ Moves(c) /\ ~Settles(c) =>
              Op(c) = "create" /\ source'.status = "authorized"
         /\ ~Moves(c) => source' = source
         /\ pc[c] = "writing"
         /\ ~InFlight(c)'
<1>1. pc[c] = "writing" /\ CallFacts(c) /\ ~InFlight(c)'
  BY EndIsNotInFlight DEF Commit, TypeInv
<1>2. Moves(c) => source' = SavedSource(c)
  BY WritesIs DEF Commit
<1> QED BY <1>1, <1>2, WritesIs DEF Commit, Settles, CallFacts, SavedSource, SourceStatus, EventTypes

LEMMA NextNothingBeforeRow == TypeInv /\ NothingBeforeRow /\ [Next]_vars => NothingBeforeRow'
<1> SUFFICES ASSUME TypeInv, NothingBeforeRow, [Next]_vars, payment' = "none"
             PROVE  /\ \A d \in Calls : ~InFlight(d)'
                    /\ receipts' = {} /\ credits' = 0 /\ source' = NoSource
  BY DEF NothingBeforeRow
<1>1. ASSUME NEW c \in Calls, CallStep(c)
      PROVE  /\ \A d \in Calls : ~InFlight(d)'
             /\ receipts' = {} /\ credits' = 0 /\ source' = NoSource
  <2>1. ~Commit(c) \/ payment = "none"
    BY CommitRows DEF EventTypes
  <2>2. ~InsertProcessing(c)
    BY DEF InsertProcessing
  <2>3. payment = "none"
    BY <1>1, <2>1, <2>2, RowsKept DEF rows
  <2>4. /\ \A d \in Calls : ~InFlight(d)
        /\ receipts = {} /\ credits = 0 /\ source = NoSource
    BY <2>3 DEF NothingBeforeRow
  <2>5. Begin(c)
    BY <1>1, <2>4, UnderWay
  <2>6. ~Commit(c)
    BY <2>4 DEF Commit, InFlight
  <2>7. UNCHANGED rows
    BY <1>1, <2>2, <2>6, RowsKept
  <2>8. FindByReference(c) /\ End(c)
    BY <2>2, <2>3, <2>4, <2>5
       DEF Begin, ListPending, FindByReference, FindCancellable, NoSource
  <2>9. ~InFlight(c)'
    BY <2>8, EndIsNotInFlight
  <2>10. \A d \in Calls \ {c} : ~InFlight(d)'
    BY <1>1, <2>4, OthersUntouched DEF TypeInv, Untouched, InFlight
  <2> QED BY <2>4, <2>7, <2>9, <2>10 DEF rows
<1>2. ASSUME NEW type \in EventTypes, Notify(type)
      PROVE  /\ \A d \in Calls : ~InFlight(d)'
             /\ receipts' = {} /\ credits' = 0 /\ source' = NoSource
  BY <1>2 DEF Notify, rows, NothingBeforeRow, InFlight
<1>3. CASE UNCHANGED vars
  BY <1>3 DEF vars, rows, NothingBeforeRow, InFlight
<1> QED BY <1>1, <1>2, <1>3 DEF Next, CallStep

(* A cancellation that has not seen the reference sees none that is not there. *)
LEMMA UnreferencedStays ==
  ASSUME TypeInv, NEW c \in Calls, CallStep(c), ~source.reference, Op(c) = "cancel",
         InFlight(c) => Unreferenced(c)
  PROVE  InFlight(c)' => Unreferenced(c)'
<1>0. TypeOK /\ CallFacts(c)
  BY DEF TypeInv
<1>1. CASE FindSource(c)
  BY <1>0, <1>1 DEF FindSource, Unreferenced, TypeOK, Op
<1>2. CASE FindCancellable(c)
  <2>1. End(c) \/ seen'[c].source = NoSource
    BY <1>0, <1>2 DEF FindCancellable, CallFacts, Unread, TypeOK
  <2> QED BY <2>1, EndIsNotInFlight DEF Unreferenced, NoSource, Op
<1>3. CASE ~FindSource(c) /\ ~FindCancellable(c)
  <2>1. ~Begin(c)
    BY <1>3 DEF Begin, InsertProcessing, ListPending, FindByReference
  <2>2. Unreferenced(c)
    BY <2>1, UnderWay
  <2>3. seen'[c] = seen[c] \/ End(c)
    BY <1>0, <1>3, <2>1 DEF CallStep, Proceed, Charge, Compensate, FindPayment, CancelIntent,
       WriteRow, Commit, Fail, ChargeUnanswered, Rollback, Stop, CallFacts
  <2> QED BY <2>2, <2>3, EndIsNotInFlight DEF Unreferenced, Op
<1> QED BY <1>1, <1>2, <1>3

(* Only a round of the reconciler could join a call that charges. *)
LEMMA AloneStays ==
  ASSUME PairInv, NEW e \in Calls, AloneWithCancels(e),
         NEW c \in Calls \ {e}, CallStep(c), ~ListPending(c)
  PROVE  AloneWithCancels(e)'
<1>0. TypeInv /\ TypeOK /\ CallFacts(c)
  BY DEF PairInv, TypeInv
<1>1. \A d \in Calls \ {c} : Untouched(d)
  BY <1>0, OthersUntouched
<1>2. InFlight(c) => Unreferenced(c)
  BY DEF AloneWithCancels
<1>3. InFlight(c)' => Unreferenced(c)'
  <2>1. CASE Op(c) = "cancel"
    BY <1>0, <1>2, <2>1, UnreferencedStays DEF AloneWithCancels
  <2>2. CASE Op(c) # "cancel"
    <3>1. Begin(c)
      BY <1>0, <1>2, <2>2, UnderWay DEF Unreferenced
    <3>2. End(c)
      BY <2>2, <3>1 DEF Begin, InsertProcessing, FindByReference, FindCancellable, AloneWithCancels
    <3> QED BY <1>0, <3>2, EndIsNotInFlight
  <2> QED BY <2>1, <2>2
<1>4. CASE Commit(c)
  <2>1. InFlight(c) /\ Unreferenced(c)
    BY <1>2, <1>4 DEF Commit, InFlight
  <2>2. outcome[c] = "canceled" /\ Settles(c) /\ Moves(c)
    BY <1>0, <1>4, <2>1 DEF Commit, CallFacts, Unreferenced, Settles, Moves, EventTypes
  <2>3. payment' = "canceled" /\ source' = SavedSource(c) /\ credits' = credits
    BY <1>4, <2>2, WritesIs DEF Commit
  <2>4. ~source'.reference
    BY <2>1, <2>2, <2>3 DEF SavedSource, Unreferenced
  <2> QED BY <1>1, <1>3, <2>3, <2>4 DEF AloneWithCancels, Untouched, InFlight, Unreferenced, Op
<1>5. CASE ~Commit(c)
  <2>1. UNCHANGED rows
    BY <1>5, RowsKept DEF InsertProcessing, AloneWithCancels, rows
  <2> QED BY <1>1, <1>3, <2>1 DEF rows, AloneWithCancels, Untouched, InFlight, Unreferenced, Op
<1> QED BY <1>4, <1>5

(* ... nor does the call itself change that. *)
LEMMA AloneOnward ==
  ASSUME PairInv, NEW e \in Calls, AloneWithCancels(e), CallStep(e), InFlight(e), InFlight(e)'
  PROVE  AloneWithCancels(e)'
<1>0. TypeInv /\ TypeOK
  BY DEF PairInv, TypeInv
<1>1. ~Commit(e) /\ ~InsertProcessing(e)
  BY <1>0, CommitRows, UnderWay DEF Begin
<1>2. UNCHANGED rows
  BY <1>1, RowsKept
<1>3. \A d \in Calls \ {e} : Untouched(d)
  BY <1>0, OthersUntouched
<1> QED BY <1>2, <1>3 DEF rows, AloneWithCancels, Untouched, InFlight, Unreferenced, Op

LEMMA AloneUnmoved ==
  ASSUME PairInv, NEW e \in Calls, AloneWithCancels(e), UNCHANGED <<rows, pc, seen>>
  PROVE  AloneWithCancels(e)'
BY DEF rows, AloneWithCancels, InFlight, Unreferenced, Op

LEMMA NextCreatorAlone == PairInv /\ [Next]_vars => CreatorAlone'
<1> SUFFICES ASSUME PairInv, [Next]_vars, NEW e \in Calls, Creating(e)'
             PROVE  AloneWithCancels(e)'
  BY DEF CreatorAlone
<1>0. TypeInv /\ NothingBeforeRow /\ CreatorAlone
  BY DEF PairInv
<1>1. CASE CallStep(e)
  <2>1. CASE InFlight(e)
    BY <1>0, <1>1, <2>1, AloneOnward DEF Creating, CreatorAlone, Op
  <2>2. CASE ~InFlight(e)
    <3>1. InsertProcessing(e)
      BY <1>0, <1>1, <2>2, UnderWay
         DEF Begin, ListPending, FindByReference, FindCancellable, Creating, Op
    <3>2. payment = "none"
      BY <1>0, <3>1, EndIsNotInFlight DEF InsertProcessing, Creating
    <3>3. /\ payment' = "processing" /\ source' = [status |-> "pending", reference |-> FALSE]
          /\ credits' = credits
      BY <3>1, <3>2 DEF InsertProcessing
    <3>4. credits = 0 /\ \A d \in Calls : ~InFlight(d)
      BY <1>0, <3>2 DEF NothingBeforeRow
    <3>5. \A d \in Calls \ {e} : Untouched(d)
      BY <1>0, <1>1, OthersUntouched DEF TypeInv
    <3> QED BY <3>3, <3>4, <3>5 DEF AloneWithCancels, Untouched, InFlight
  <2> QED BY <2>1, <2>2
<1>2. ASSUME NEW c \in Calls \ {e}, CallStep(c) PROVE AloneWithCancels(e)'
  <2>1. Untouched(e)
    BY <1>0, <1>2, OthersUntouched DEF TypeInv
  <2>2. Creating(e) /\ AloneWithCancels(e)
    BY <1>0, <2>1 DEF Creating, CreatorAlone, Op, InFlight, Untouched
  <2>3. ~ListPending(c)
    BY <2>2 DEF ListPending
  <2> QED BY <1>2, <2>2, <2>3, AloneStays
<1>3. CASE UNCHANGED <<rows, pc, seen>>
  BY <1>0, <1>3, AloneUnmoved DEF CreatorAlone, Creating, InFlight, Op
<1> QED BY <1>1, <1>2, <1>3 DEF Next, CallStep, Notify, vars

LEMMA NextPairAgrees == PairInv /\ [Next]_vars => PairAgrees'
<1> SUFFICES ASSUME PairInv, [Next]_vars PROVE PairAgrees'
  OBVIOUS
<1>0. TypeInv /\ CreatorAlone /\ PairAgrees
  BY DEF PairInv
<1>1. ASSUME NEW c \in Calls, CallStep(c) PROVE PairAgrees'
  <2>1. CASE InsertProcessing(c)
    BY <1>0, <2>1 DEF InsertProcessing, PairAgrees
  <2>2. CASE Commit(c)
    <3>1. CASE Settles(c)
      BY <1>0, <2>2, <3>1, CommitRows DEF PairAgrees, SourceStatus, EventTypes
    <3>2. CASE Moves(c) /\ ~Settles(c)
      <4>1. Creating(c)
        BY <1>0, <2>2, <3>2, CommitRows DEF Creating, InFlight
      <4>2. payment \in {"processing", "canceled"}
        BY <1>0, <4>1 DEF CreatorAlone, AloneWithCancels
      <4> QED BY <1>0, <2>2, <3>2, <4>2, CommitRows DEF PairAgrees
    <3>3. CASE ~Moves(c)
      BY <1>0, <2>2, <3>3, CommitRows DEF PairAgrees, Settles
    <3> QED BY <3>1, <3>2, <3>3
  <2>3. CASE ~InsertProcessing(c) /\ ~Commit(c)
    BY <1>0, <1>1, <2>3, RowsKept DEF rows, PairAgrees
  <2> QED BY <2>1, <2>2, <2>3
<1>2. ASSUME NEW type \in EventTypes, Notify(type) PROVE PairAgrees'
  BY <1>0, <1>2 DEF Notify, rows, PairAgrees
<1>3. CASE UNCHANGED vars
  BY <1>0, <1>3 DEF vars, rows, PairAgrees
<1> QED BY <1>1, <1>2, <1>3 DEF Next, CallStep

LEMMA InitPair == Init => PairInv
BY InitInv DEF PairInv, Init, NothingBeforeRow, CreatorAlone, Creating, InFlight, PairAgrees, NoSource

LEMMA NextPair == PairInv /\ [Next]_vars => PairInv'
BY NextInv, NextNothingBeforeRow, NextCreatorAlone, NextPairAgrees DEF PairInv

(* The payment and its source agree, whichever calls overlap. *)
THEOREM PairsAgree == Spec => []PairAgrees
<1>1. PairInv => PairAgrees
  BY DEF PairInv
<1> QED BY InitPair, NextPair, <1>1, PTL DEF Spec

-----------------------------------------------------------------------------
(* Receipts. *)
LEMMA NextReceipt == ReceiptInv /\ [Next]_vars => ReceiptInv'
<1> SUFFICES ASSUME ReceiptInv, [Next]_vars PROVE ReceiptInv'
  OBVIOUS
<1>0. /\ PairInv /\ TypeInv /\ NothingBeforeRow /\ ReceiptSettles
      /\ \A c \in Calls : SeenSettled(c)
  BY DEF ReceiptInv, PairInv
<1>1. PairInv'
  BY <1>0, NextPair
<1>2. ASSUME NEW c \in Calls, CallStep(c) PROVE ReceiptSettles' /\ \A d \in Calls : SeenSettled(d)'
  <2>1. payment \notin {"none", "processing"} => payment' \notin {"none", "processing"}
    <3>1. CASE Commit(c)
      BY <1>0, <3>1, CommitRows DEF EventTypes
    <3>2. CASE ~Commit(c)
      BY <1>2, <3>2, RowsKept DEF rows, InsertProcessing
    <3> QED BY <3>1, <3>2
  <2>2. ReceiptSettles'
    <3>1. CASE Commit(c)
      <4>1. CASE Settles(c)
        BY <1>0, <3>1, <4>1, CommitRows DEF ReceiptSettles, EventTypes
      <4>2. CASE Op(c) = "webhook" /\ ~Moves(c)
        BY <1>0, <2>1, <3>1, <4>2, CommitRows DEF SeenSettled, Moves, ReceiptSettles
      <4>3. CASE Op(c) # "webhook" /\ ~Settles(c)
        <5>1. receipts' = receipts /\ payment' = payment
          BY <1>0, <3>1, <4>3, CommitRows, WritesIs DEF Commit
        <5> QED BY <1>0, <5>1 DEF ReceiptSettles
      <4>4. Op(c) = "webhook" /\ Moves(c) => Settles(c)
        BY <1>0, <3>1, CardPaymentAssumption DEF TypeInv, CallFacts, Commit, Settles, Requests
      <4> QED BY <4>1, <4>2, <4>3, <4>4
    <3>2. CASE InsertProcessing(c)
      BY <1>0, <3>2 DEF InsertProcessing, ReceiptSettles, NothingBeforeRow
    <3>3. CASE ~Commit(c) /\ ~InsertProcessing(c)
      BY <1>0, <1>2, <3>3, RowsKept DEF rows, ReceiptSettles
    <3> QED BY <3>1, <3>2, <3>3
  <2>3. ASSUME NEW d \in Calls \ {c} PROVE SeenSettled(d)'
    BY <1>0, <1>2, <2>1, <2>3, OthersUntouched DEF TypeInv, Untouched, SeenSettled, Op
  <2>4. SeenSettled(c)'
    <3> SUFFICES ASSUME Op(c) = "webhook", pc'[c] = "writing", seen'[c].payment # "processing"
                 PROVE  payment' \notin {"none", "processing"}
      BY DEF SeenSettled, Op
    <3>1. InFlight(c)'
      BY DEF InFlight
    <3>2. ~End(c)
      BY <1>0, <3>1, EndIsNotInFlight
    <3>3. CASE FindPayment(c)
      <4>1. payment # "none"
        BY <1>0, <3>3 DEF FindPayment, InFlight, NothingBeforeRow
      <4>2. seen'[c].payment = payment /\ payment' = payment
        BY <1>0, <3>2, <3>3 DEF FindPayment, TypeInv, TypeOK, rows
      <4> QED BY <4>1, <4>2
    <3>4. CASE ~FindPayment(c)
      <4>1. CASE \E t \in Tables : WriteRow(c, t)
        BY <1>0, <2>1, <3>2, <4>1 DEF WriteRow, SeenSettled
      <4>2. CASE ~\E t \in Tables : WriteRow(c, t)
        BY <1>0, <1>2, <3>2, <3>4, <4>2
           DEF CallStep, Begin, InsertProcessing, ListPending, FindByReference, FindCancellable,
               Proceed, Charge, Compensate, FindSource, CancelIntent, Commit, Fail,
               ChargeUnanswered, Rollback, Stop, Goto, TypeInv, TypeOK, CallFacts
      <4> QED BY <4>1, <4>2
    <3> QED BY <3>3, <3>4
  <2> QED BY <2>2, <2>3, <2>4
<1>3. ASSUME NEW type \in EventTypes, Notify(type)
      PROVE  ReceiptSettles' /\ \A d \in Calls : SeenSettled(d)'
  BY <1>0, <1>3 DEF Notify, rows, ReceiptSettles, SeenSettled, Op
<1>4. CASE UNCHANGED vars
  BY <1>0, <1>1, <1>4 DEF vars, rows, ReceiptInv, ReceiptSettles, SeenSettled, Op
<1> QED BY <1>1, <1>2, <1>3, <1>4 DEF Next, CallStep, ReceiptInv

(* An event on record has found the payment settled, or settled it. *)
THEOREM ReceiptsSettle == Spec => []ReceiptSettles
<1>1. Init => ReceiptInv
  BY InitPair DEF ReceiptInv, Init, SeenSettled, ReceiptSettles
<1>2. ReceiptInv => ReceiptSettles
  BY DEF ReceiptInv
<1> QED BY <1>1, <1>2, NextReceipt, PTL DEF Spec
-----------------------------------------------------------------------------
(* Credits. *)
LEMMA NextChargerAlone ==
  CreditInv /\ [Next]_vars /\ ~raced' => ChargerAlone'
<1> SUFFICES ASSUME CreditInv, [Next]_vars, ~raced', NEW e \in Calls, Charging(e)'
             PROVE  AloneWithCancels(e)'
  BY DEF ChargerAlone
<1>0. PairInv /\ TypeInv /\ ChargerAlone /\ PendingUntouched
  BY DEF CreditInv, PairInv
<1>1. CASE CallStep(e)
  <2>1. CASE InFlight(e)
    BY <1>0, <1>1, <2>1, AloneOnward DEF Charging, ChargerAlone, Op
  <2>2. CASE InsertProcessing(e)
    <3>1. Creating(e)'
      BY <2>2 DEF InsertProcessing, Creating, Charging, Op
    <3>2. CreatorAlone'
      BY <1>0, NextCreatorAlone
    <3> QED BY <3>1, <3>2 DEF CreatorAlone
  <2>3. CASE ListPending(e)
    <3>1. source.status = "pending" /\ UNCHANGED rows
      BY <2>3 DEF ListPending
    <3>2. \A d \in Calls : InFlight(d) => Unreferenced(d)
      BY <1>0, <2>3 DEF ListPending, Creating, PendingUntouched
    <3>3. payment = "processing"
      BY <1>0, <3>1 DEF PairInv, PairAgrees
    <3>4. \A d \in Calls \ {e} : Untouched(d)
      BY <1>0, <1>1, OthersUntouched DEF TypeInv
    <3> QED BY <1>0, <3>1, <3>2, <3>3, <3>4
            DEF PendingUntouched, AloneWithCancels, Untouched, InFlight, Unreferenced, rows, Op
  <2> QED BY <1>0, <1>1, <2>1, <2>2, <2>3, UnderWay
          DEF Begin, FindByReference, FindCancellable, Charging, Op
<1>2. ASSUME NEW c \in Calls \ {e}, CallStep(c) PROVE AloneWithCancels(e)'
  <2>1. Untouched(e)
    BY <1>0, <1>2, OthersUntouched DEF TypeInv
  <2>2. Charging(e) /\ AloneWithCancels(e)
    BY <1>0, <2>1 DEF Charging, ChargerAlone, Op, InFlight, Untouched
  <2>3. ~ListPending(c)
    BY <2>2 DEF ListPending, Charging, Creating
  <2> QED BY <1>0, <1>2, <2>2, <2>3, AloneStays
<1>3. CASE UNCHANGED <<rows, pc, seen>>
  BY <1>0, <1>3, AloneUnmoved DEF ChargerAlone, Charging, InFlight, Op
<1> QED BY <1>1, <1>2, <1>3 DEF Next, CallStep, Notify, vars

LEMMA NextPendingUntouched == CreditInv /\ [Next]_vars => PendingUntouched'
<1> SUFFICES ASSUME CreditInv, [Next]_vars, source'.status = "pending"
             PROVE  /\ ~source'.reference /\ credits' = 0
                    /\ \A d \in Calls :
                         InFlight(d)' => Op(d) \in {"create", "reconcile"} \/ Unreferenced(d)'
  BY DEF PendingUntouched, Op
<1>0. PairInv /\ TypeInv /\ TypeOK /\ NothingBeforeRow /\ PendingUntouched
  BY DEF CreditInv, PairInv, TypeInv
<1>1. ASSUME NEW c \in Calls, CallStep(c)
      PROVE  /\ ~source'.reference /\ credits' = 0
             /\ \A d \in Calls :
                  InFlight(d)' => Op(d) \in {"create", "reconcile"} \/ Unreferenced(d)'
  <2>1. \A d \in Calls \ {c} : Untouched(d)
    BY <1>0, <1>1, OthersUntouched
  <2>2. CASE InsertProcessing(c) /\ payment = "none"
    <3>1. ~source'.reference /\ credits' = credits /\ Op(c) = "create"
      BY <2>2 DEF InsertProcessing
    <3>2. credits = 0 /\ \A d \in Calls : ~InFlight(d)
      BY <1>0, <2>2 DEF NothingBeforeRow
    <3> QED BY <2>1, <3>1, <3>2 DEF Untouched, InFlight
  <2>3. CASE ~(InsertProcessing(c) /\ payment = "none")
    <3>1. ~Commit(c)
      <4>1. ASSUME Commit(c) PROVE FALSE
        <5>1. ~Moves(c)
          BY <1>0, <4>1, CommitRows DEF SourceStatus, EventTypes
        <5>2. source.status = "pending" /\ InFlight(c) /\ Op(c) = "webhook"
          BY <1>0, <4>1, <5>1, CommitRows DEF Moves, InFlight
        <5> QED BY <1>0, <5>2 DEF PendingUntouched, Unreferenced
      <4> QED BY <4>1
    <3>2. UNCHANGED rows
      BY <1>1, <2>3, <3>1, RowsKept DEF InsertProcessing, rows
    <3>3. /\ source.status = "pending" /\ ~source.reference /\ credits = 0
          /\ \A d \in Calls : InFlight(d) => Op(d) \in {"create", "reconcile"} \/ Unreferenced(d)
      BY <1>0, <3>2 DEF PendingUntouched, rows
    <3>4. InFlight(c)' => Op(c) \in {"create", "reconcile"} \/ Unreferenced(c)'
      <4>1. CASE Op(c) = "cancel"
        BY <1>0, <1>1, <3>3, <4>1, UnreferencedStays
      <4>2. CASE Op(c) = "webhook"
        <5>1. FindByReference(c)
          BY <1>0, <1>1, <3>3, <4>2, UnderWay
             DEF Begin, InsertProcessing, ListPending, FindCancellable, Unreferenced
        <5>2. End(c)
          BY <3>3, <5>1 DEF FindByReference
        <5> QED BY <1>0, <5>2, EndIsNotInFlight
      <4> QED BY <4>1, <4>2, CardPaymentAssumption DEF Op, Requests
    <3> QED BY <2>1, <3>2, <3>3, <3>4 DEF rows, Untouched, InFlight, Unreferenced, Op
  <2> QED BY <2>2, <2>3
<1>2. CASE UNCHANGED <<rows, pc, seen>>
  BY <1>0, <1>2 DEF rows, PendingUntouched, InFlight, Unreferenced, Op
<1> QED BY <1>1, <1>2 DEF Next, CallStep, Notify, vars

(* What a call holds changes as its transaction does. *)
LEMMA HeldSteps ==
  ASSUME TypeInv, NEW c \in Calls, CallStep(c)
  PROVE  \/ held'[c] = {}
         \/ UNCHANGED <<pc, seen, outcome, rows>>
              /\ \E t \in Tables : /\ NextRow(c, t) /\ RowFree(c, t)
                                   /\ ~(t = "provider_events" /\ RequestOf[c].type \in receipts)
                                   /\ held'[c] = held[c] \cup {t}
<1>0. TypeOK /\ CallFacts(c)
  BY DEF TypeInv
<1>1. ASSUME NEW t \in Tables, WriteRow(c, t), ~End(c)
      PROVE  /\ UNCHANGED <<pc, seen, outcome, rows>>
             /\ NextRow(c, t) /\ RowFree(c, t)
             /\ ~(t = "provider_events" /\ RequestOf[c].type \in receipts)
             /\ held'[c] = held[c] \cup {t}
  BY <1>0, <1>1 DEF WriteRow, TypeOK
<1>2. End(c) => held'[c] = {}
  BY <1>0 DEF End, TypeOK
<1>3. pc[c] # "writing" => held[c] = {}
  BY <1>0 DEF CallFacts
<1>4. CASE Begin(c)
  BY <1>2, <1>3, <1>4
     DEF Begin, InsertProcessing, ListPending, FindByReference, FindCancellable
<1>5. CASE Charge(c) \/ Compensate(c) \/ FindPayment(c) \/ FindSource(c) \/ CancelIntent(c)
  BY <1>2, <1>3, <1>5 DEF Charge, Compensate, FindPayment, FindSource, CancelIntent
<1>6. CASE Commit(c) \/ Fail(c)
  BY <1>0, <1>2, <1>6 DEF Commit, Fail, ChargeUnanswered, Rollback, Stop, TypeOK
<1> QED BY <1>1, <1>2, <1>4, <1>5, <1>6 DEF CallStep, Proceed

LEMMA NextReceiptHeldOnce == CreditInv /\ [Next]_vars => ReceiptHeldOnce'
<1> SUFFICES ASSUME CreditInv, [Next]_vars, NEW e \in Calls, "provider_events" \in held'[e]
             PROVE  /\ Op(e) = "webhook" /\ RequestOf[e].type \notin receipts'
                    /\ \A d \in Calls \ {e} : "provider_events" \in held'[d]
                         => RequestOf[d].type # RequestOf[e].type
  BY DEF ReceiptHeldOnce, Op
<1>0. PairInv /\ TypeInv /\ TypeOK /\ ReceiptHeldOnce
  BY DEF CreditInv, PairInv, TypeInv
<1>1. ASSUME NEW c \in Calls, CallStep(c)
      PROVE  /\ Op(e) = "webhook" /\ RequestOf[e].type \notin receipts'
             /\ \A d \in Calls \ {e} : "provider_events" \in held'[d]
                  => RequestOf[d].type # RequestOf[e].type
  <2>1. \A d \in Calls \ {c} : held'[d] = held[d]
    BY <1>0, <1>1, OthersUntouched DEF Untouched
  <2>2. CASE Commit(c)
    <3>1. held'[c] = {} /\ e # c
      BY <1>0, <2>2 DEF Commit, End, TypeOK
    <3>2. receipts' = receipts
            \/ ("provider_events" \in held[c] /\ receipts' = receipts \cup {RequestOf[c].type})
      BY <2>2 DEF Commit
    <3> QED BY <1>0, <2>1, <3>1, <3>2 DEF ReceiptHeldOnce
  <2>3. CASE ~Commit(c)
    <3>1. receipts' = receipts
      BY <1>1, <2>3, RowsKept DEF rows, InsertProcessing
    <3>2. CASE held'[c] = {}
      BY <1>0, <2>1, <3>1, <3>2 DEF ReceiptHeldOnce
    <3>3. ASSUME NEW t \in Tables, NextRow(c, t), RowFree(c, t), held'[c] = held[c] \cup {t},
                 ~(t = "provider_events" /\ RequestOf[c].type \in receipts)
          PROVE  /\ Op(e) = "webhook" /\ RequestOf[e].type \notin receipts'
                 /\ \A d \in Calls \ {e} : "provider_events" \in held'[d]
                      => RequestOf[d].type # RequestOf[e].type
      <4>1. CASE t = "provider_events"
        <5>1. Op(c) = "webhook" /\ RequestOf[c].type \notin receipts
          BY <3>3, <4>1, WritesIs DEF NextRow
        <5>2. \A d \in Calls \ {c} :
                "provider_events" \in held[d] => RequestOf[d].type # RequestOf[c].type
          BY <3>3, <4>1 DEF RowFree, SameRow
        <5> QED BY <1>0, <2>1, <3>1, <3>3, <5>1, <5>2 DEF ReceiptHeldOnce
      <4>2. CASE t # "provider_events"
        BY <1>0, <2>1, <3>1, <3>3, <4>2 DEF ReceiptHeldOnce
      <4> QED BY <4>1, <4>2
    <3> QED BY <1>0, <1>1, <3>2, <3>3, HeldSteps
  <2> QED BY <2>2, <2>3
<1>2. CASE UNCHANGED <<rows, held>>
  BY <1>0, <1>2 DEF rows, ReceiptHeldOnce
<1> QED BY <1>1, <1>2 DEF Next, CallStep, Notify, vars

(* A commit that credits finds nothing credited. *)
LEMMA CreditIsFirst ==
  ASSUME CreditInv, NEW c \in Calls, Commit(c), "point_accounts" \in Writes(c)
  PROVE  /\ credits = 0 /\ payment' = "succeeded"
         /\ \A d \in Calls \ {c} :
              InFlight(d) /\ Op(d) = "webhook" => "succeeded" \in receipts'
<1>0. PairInv /\ TypeInv /\ CallFacts(c) /\ ChargerAlone /\ ReceiptHeldOnce /\ NoSecondCredit
  BY DEF CreditInv, PairInv, TypeInv
<1>1. Settles(c) /\ Moves(c) /\ outcome[c] = "succeeded" /\ payment' = "succeeded"
  BY <1>0, WritesIs, CommitRows DEF Settles
<1>2. pc[c] = "writing" /\ InFlight(c) /\ held[c] = Writes(c)
  BY DEF Commit, InFlight
<1>3. CASE Op(c) \in {"create", "reconcile"}
  BY <1>0, <1>1, <1>2, <1>3 DEF Charging, ChargerAlone, AloneWithCancels, Unreferenced
<1>4. CASE Op(c) = "webhook"
  <2>1. RequestOf[c].type = "succeeded" /\ seen[c].payment = "processing"
    BY <1>0, <1>1, <1>2, <1>4 DEF CallFacts, Moves
  <2>2. "succeeded" \notin receipts
    BY <1>0, <1>2, <1>4, <2>1, WritesIs DEF ReceiptHeldOnce
  <2>3. credits = 0
    BY <1>0, <1>1, <1>2, <1>4, <2>1, <2>2 DEF NoSecondCredit
  <2>4. "succeeded" \in receipts'
    BY <1>4, <2>1, WritesIs DEF Commit
  <2> QED BY <1>1, <2>3, <2>4
<1>5. Op(c) # "cancel"
  BY <1>0, <1>1, <1>2 DEF CallFacts
<1> QED BY <1>3, <1>4, <1>5, CardPaymentAssumption DEF Op, Requests

LEMMA NextNoSecondCredit == CreditInv /\ [Next]_vars => NoSecondCredit'
<1> SUFFICES ASSUME CreditInv, [Next]_vars PROVE NoSecondCredit'
  OBVIOUS
<1>0. PairInv /\ TypeInv /\ TypeOK /\ NothingBeforeRow /\ NoSecondCredit
  BY DEF CreditInv, PairInv, TypeInv
<1>1. ASSUME NEW c \in Calls, CallStep(c) PROVE NoSecondCredit'
  <2>1. \A d \in Calls \ {c} : Untouched(d)
    BY <1>0, <1>1, OthersUntouched
  <2>2. CASE Commit(c)
    <3>0. ~InFlight(c)' /\ purpose' = purpose /\ receipts \subseteq receipts'
      BY <1>0, <2>2, CommitRows DEF Commit
    <3>1. CASE "point_accounts" \in Writes(c)
      <4>1. /\ credits = 0 /\ payment' = "succeeded"
            /\ \A d \in Calls \ {c} :
                 InFlight(d) /\ Op(d) = "webhook" => "succeeded" \in receipts'
        BY <2>2, <3>1, CreditIsFirst
      <4>2. credits' = 1
        BY <2>2, <3>1, <4>1 DEF Commit
      <4> QED BY <2>1, <3>0, <4>1, <4>2
              DEF NoSecondCredit, Untouched, InFlight, Op
    <3>2. CASE "point_accounts" \notin Writes(c)
      <4>1. credits' = credits
        BY <2>2, <3>2 DEF Commit
      <4>2. payment # "processing" => payment' # "processing"
        BY <1>0, <2>2, CommitRows DEF EventTypes
      <4> QED BY <1>0, <2>1, <3>0, <4>1, <4>2
              DEF NoSecondCredit, Untouched, InFlight, Op
    <3> QED BY <3>1, <3>2
  <2>3. CASE InsertProcessing(c) /\ payment = "none"
    BY <1>0, <2>3 DEF InsertProcessing, NothingBeforeRow, NoSecondCredit
  <2>4. CASE ~Commit(c) /\ ~(InsertProcessing(c) /\ payment = "none")
    <3>1. UNCHANGED rows
      BY <1>1, <2>4, RowsKept DEF InsertProcessing, rows
    <3>2. SUFFICES ASSUME credits # 0, Op(c) = "webhook", pc'[c] = "writing",
                          outcome'[c] = "succeeded", seen'[c].payment = "processing"
                   PROVE  "succeeded" \in receipts
      BY <1>0, <2>1, <3>1 DEF NoSecondCredit, Untouched, rows, Op
    <3>3. ~End(c)
      BY <1>0, EndIsNotInFlight, <3>2 DEF InFlight
    <3>4. CASE FindPayment(c)
      <4>1. seen'[c].payment = payment
        BY <1>0, <3>3, <3>4 DEF FindPayment, TypeOK
      <4> QED BY <1>0, <3>2, <4>1 DEF NoSecondCredit
    <3>5. CASE ~FindPayment(c)
      <4>1. CASE \E t \in Tables : WriteRow(c, t)
        BY <1>0, <3>2, <3>3, <4>1 DEF WriteRow, NoSecondCredit
      <4>2. CASE ~\E t \in Tables : WriteRow(c, t)
        BY <1>0, <1>1, <2>4, <3>2, <3>3, <3>5, <4>2
           DEF CallStep, Begin, InsertProcessing, ListPending, FindByReference, FindCancellable,
               Proceed, Charge, Compensate, FindSource, CancelIntent, Fail,
               ChargeUnanswered, Rollback, Stop, Goto, TypeInv, TypeOK, CallFacts
      <4> QED BY <4>1, <4>2
    <3> QED BY <3>4, <3>5
  <2> QED BY <2>2, <2>3, <2>4
<1>2. CASE UNCHANGED <<rows, pc, seen, outcome>>
  BY <1>0, <1>2 DEF rows, NoSecondCredit, Op
<1> QED BY <1>1, <1>2 DEF Next, CallStep, Notify, vars

(* Whoever settles a top-up as succeeded credits it. *)
LEMMA NextShownIsCredited == PairInv /\ ShownIsCredited /\ [Next]_vars => ShownIsCredited'
<1> SUFFICES ASSUME PairInv, ShownIsCredited, [Next]_vars PROVE ShownIsCredited'
  OBVIOUS
<1>0. TypeInv /\ TypeOK
  BY DEF PairInv, TypeInv
<1>1. ASSUME NEW c \in Calls, CallStep(c) PROVE ShownIsCredited'
  <2>1. CASE Commit(c)
    <3>1. purpose' = purpose
      BY <2>1 DEF Commit
    <3>2. CASE "point_accounts" \in Writes(c)
      BY <1>0, <2>1, <3>2 DEF Commit, ShownIsCredited, TypeOK
    <3>3. CASE "point_accounts" \notin Writes(c)
      <4>1. credits' = credits
        BY <2>1, <3>3 DEF Commit
      <4>2. purpose = "point_topup" /\ payment' = "succeeded" => payment = "succeeded"
        BY <1>0, <2>1, <3>3, CommitRows, WritesIs
      <4> QED BY <3>1, <4>1, <4>2 DEF ShownIsCredited
    <3> QED BY <3>2, <3>3
  <2>2. CASE InsertProcessing(c) /\ payment = "none"
    BY <2>2 DEF InsertProcessing, ShownIsCredited
  <2>3. CASE ~Commit(c) /\ ~(InsertProcessing(c) /\ payment = "none")
    <3>1. UNCHANGED rows
      BY <1>0, <1>1, <2>3, RowsKept DEF InsertProcessing, rows
    <3> QED BY <3>1 DEF ShownIsCredited, rows
  <2> QED BY <2>1, <2>2, <2>3
<1>2. CASE UNCHANGED rows
  BY <1>2 DEF rows, ShownIsCredited
<1> QED BY <1>1, <1>2 DEF Next, CallStep, Notify, vars

(* Nobody forgets that reconcilers have met. *)
LEMMA RacedStays == [Next]_vars /\ raced => raced'
BY DEF Next, Begin, InsertProcessing, ListPending, FindByReference, FindCancellable, Proceed,
       Charge, Compensate, FindPayment, FindSource, CancelIntent, WriteRow, Commit, Fail,
       ChargeUnanswered, Rollback, Stop, Notify, vars

(* The points of a top-up are credited once at most, unless two            *)
(* reconcilers were at work on it at the same time, and have been in any   *)
(* case when it is shown as succeeded.                                     *)
THEOREM PointsCreditedOnce == Spec => []CreditedOnce
<1> DEFINE Inv == PairInv /\ ShownIsCredited /\ (~raced => CreditInv)
<1>1. Init => Inv
  <2> SUFFICES ASSUME Init PROVE Inv
    OBVIOUS
  <2>1. PairInv
    BY InitPair
  <2> QED BY <2>1
          DEF CreditInv, Init, ChargerAlone, Charging, InFlight, PendingUntouched, NoSource,
              ReceiptHeldOnce, NoSecondCredit, ShownIsCredited
<1>2. Inv /\ [Next]_vars => Inv'
  <2> SUFFICES ASSUME Inv, [Next]_vars PROVE Inv'
    OBVIOUS
  <2>1. PairInv' /\ ShownIsCredited'
    BY NextPair, NextShownIsCredited
  <2>2. ASSUME ~raced' PROVE CreditInv'
    <3>1. CreditInv
      BY <2>2, RacedStays
    <3> QED BY <2>1, <2>2, <3>1, NextChargerAlone, NextPendingUntouched,
               NextReceiptHeldOnce, NextNoSecondCredit DEF CreditInv
  <2> QED BY <2>1, <2>2
<1>3. Inv => CreditedOnce
  BY DEF CreditInv, NoSecondCredit, ShownIsCredited, CreditedOnce
<1> QED BY <1>1, <1>2, <1>3, PTL DEF Spec

-----------------------------------------------------------------------------
(* Standstill. *)
LEMMA NextHeldInOrder ==
  TypeInv /\ (\A c \in Calls : HeldInOrder(c)) /\ [Next]_vars => \A c \in Calls : HeldInOrder(c)'
<1> SUFFICES ASSUME TypeInv, \A c \in Calls : HeldInOrder(c), [Next]_vars, NEW e \in Calls
             PROVE  HeldInOrder(e)'
  OBVIOUS
<1>1. ASSUME NEW c \in Calls, CallStep(c) PROVE HeldInOrder(e)'
  <2>1. purpose' = purpose
    BY <1>1, RowsKept DEF rows, InsertProcessing, Commit
  <2>2. CASE e # c
    <3>1. Untouched(e)
      BY <1>1, <2>2, OthersUntouched DEF TypeInv
    <3>2. Writes(e)' = Writes(e)
      BY <2>1, <3>1 DEF Untouched, Writes, Settles, Moves, Op
    <3> QED BY <3>1, <3>2 DEF HeldInOrder, Untouched, WrittenBefore
  <2>3. CASE e = c /\ held'[c] = {}
    BY <2>3 DEF HeldInOrder
  <2>4. ASSUME e = c, UNCHANGED <<pc, seen, outcome, rows>>, NEW t \in Tables, NextRow(c, t),
               held'[c] = held[c] \cup {t}
        PROVE  HeldInOrder(e)'
    <3>1. Writes(c)' = Writes(c)
      BY <2>1, <2>4 DEF Writes, Settles, Moves, Op
    <3> QED BY <2>4, <3>1 DEF HeldInOrder, NextRow, WrittenBefore
  <2> QED BY <1>1, <2>2, <2>3, <2>4, HeldSteps
<1>2. CASE UNCHANGED <<rows, pc, seen, outcome, held>>
  BY <1>2 DEF rows, HeldInOrder, Writes, Settles, Moves, Op, WrittenBefore
<1> QED BY <1>1, <1>2 DEF Next, CallStep, Notify, vars

(* Who holds a row and waits, waits for a later one. *)
LEMMA WaitsForLater ==
  ASSUME TypeInv, \A c \in Calls : HeldInOrder(c), \A c \in Calls : InFlight(c) => Waits(c),
         NEW d \in Calls, NEW t \in held[d]
  PROVE  \E e \in Calls : \E u \in held[e] : u \in Tables /\ t \in WrittenBefore(d, u)
<1>1. InFlight(d) /\ Waits(d) /\ t \in Tables
  BY DEF TypeInv, TypeOK, CallFacts, InFlight
<1>2. PICK u \in Tables : NextRow(d, u) /\ ~RowFree(d, u)
  BY <1>1 DEF Waits
<1>3. PICK e \in Calls : u \in held[e]
  BY <1>2 DEF RowFree
<1>4. u \notin WrittenBefore(d, t) /\ u # t
  BY <1>2 DEF HeldInOrder, NextRow
<1>5. t \in WrittenBefore(d, u)
  BY <1>1, <1>4 DEF WrittenBefore, Tables
<1> QED BY <1>3, <1>5

LEMMA OrderedIsLive ==
  ASSUME TypeInv, \A c \in Calls : HeldInOrder(c)
  PROVE  NoStandstill
<1> SUFFICES ASSUME NEW c \in Calls, InFlight(c), \A d \in Calls : InFlight(d) => Waits(d)
             PROVE  FALSE
  BY DEF NoStandstill
<1>1. \A d \in Calls : "point_accounts" \notin held[d]
  BY WaitsForLater DEF WrittenBefore, Tables
<1>2. \A d \in Calls : "payment_sources" \notin held[d]
  BY <1>1, WaitsForLater DEF WrittenBefore, Tables
<1>3. \A d \in Calls : "payments" \notin held[d]
  BY <1>1, <1>2, WaitsForLater DEF WrittenBefore, Tables
<1>4. \A d \in Calls : "provider_events" \notin held[d]
  BY <1>1, <1>2, <1>3, WaitsForLater DEF WrittenBefore, Tables
<1>5. \A d \in Calls : held[d] = {}
  BY <1>1, <1>2, <1>3, <1>4 DEF TypeInv, TypeOK, Tables
<1> QED BY <1>5 DEF Waits, RowFree

(* Calls under way never all wait for each other's rows. *)
THEOREM NoDeadlock == Spec => []NoStandstill
<1>1. Init => TypeInv /\ \A c \in Calls : HeldInOrder(c)
  BY InitInv DEF Init, HeldInOrder
<1>2. TypeInv /\ (\A c \in Calls : HeldInOrder(c)) /\ [Next]_vars
        => (TypeInv /\ \A c \in Calls : HeldInOrder(c))'
  BY NextInv, NextHeldInOrder
<1>3. TypeInv /\ (\A c \in Calls : HeldInOrder(c)) => NoStandstill
  BY OrderedIsLive
<1> QED BY <1>1, <1>2, <1>3, PTL DEF Spec

-----------------------------------------------------------------------------
(* What the order is told. *)
LEMMA AppendTold ==
  ASSUME TypeInv, NEW c \in Calls, results' = Append(results, Topic(outcome[c]))
  PROVE  /\ ~IsResult(Topic(outcome[c])) => Told' = Told
         /\ IsResult(Topic(outcome[c])) => Told' = Told \cup {Len(results) + 1}
         /\ results'[Len(results) + 1] = Topic(outcome[c])
         /\ \A i \in Told : i \in Nat /\ i <= Len(results) /\ results'[i] = results[i]
         /\ Len(results) \in Nat
<1>1. results \in Seq({"succeeded", "failed", "action_required"}) /\ Len(results) \in Nat
  BY DEF TypeInv, TypeOK
<1>2. /\ DOMAIN results = 1 .. Len(results)
      /\ DOMAIN results' = 1 .. Len(results) + 1
      /\ \A i \in 1 .. Len(results) : results'[i] = results[i]
      /\ results'[Len(results) + 1] = Topic(outcome[c])
  BY <1>1 DEF Topic
<1> QED BY <1>1, <1>2 DEF Told

LEMMA NextLastResult == TypeInv /\ LastResultTellsPayment /\ [Next]_vars => LastResultTellsPayment'
<1> SUFFICES ASSUME TypeInv, LastResultTellsPayment, [Next]_vars, purpose' = "purchase"
             PROVE  IF payment' \in EventTypes
                    THEN \E i \in Told' : /\ \A j \in Told' : j <= i
                                         /\ results'[i] = "succeeded" <=> payment' = "succeeded"
                    ELSE Told' = {}
  BY DEF LastResultTellsPayment
<1> DEFINE Tells == IF payment' \in EventTypes
                    THEN \E i \in Told' : /\ \A j \in Told' : j <= i
                                         /\ results'[i] = "succeeded" <=> payment' = "succeeded"
                    ELSE Told' = {}
<1>0. ASSUME UNCHANGED <<purpose, payment, results>> PROVE Tells
  BY <1>0 DEF LastResultTellsPayment, Told
<1>1. ASSUME NEW c \in Calls, Commit(c), Moves(c) PROVE Tells
  <2>1. purpose = "purchase" /\ results' = Append(results, Topic(outcome[c]))
    BY <1>1 DEF Commit
  <2>2. CASE Settles(c)
    <3>1. payment' = outcome[c] /\ outcome[c] \in EventTypes
      BY <1>1, <2>2, CommitRows
    <3>2. IsResult(Topic(outcome[c])) /\ (Topic(outcome[c]) = "succeeded" <=> payment' = "succeeded")
      BY <3>1 DEF IsResult, Topic, EventTypes
    <3>3. /\ Len(results) + 1 \in Told' /\ \A j \in Told' : j <= Len(results) + 1
          /\ results'[Len(results) + 1] = Topic(outcome[c])
      BY <2>1, <3>2, AppendTold
    <3> QED BY <3>1, <3>2, <3>3
  <2>3. CASE ~Settles(c)
    <3>1. payment' = payment /\ outcome[c] = "requires_action"
      BY <1>1, <2>3, CommitRows DEF Settles, TypeInv, CallFacts
    <3>2. ~IsResult(Topic(outcome[c]))
      BY <3>1 DEF IsResult, Topic
    <3>3. Told' = Told /\ \A i \in Told : results'[i] = results[i]
      BY <2>1, <3>2, AppendTold
    <3> QED BY <2>1, <3>1, <3>3 DEF LastResultTellsPayment
  <2> QED BY <2>2, <2>3
<1>2. ASSUME NEW c \in Calls, Commit(c), ~Moves(c) PROVE Tells
  BY <1>0, <1>2, CommitRows DEF Commit, Settles
<1>3. ASSUME NEW c \in Calls, InsertProcessing(c) PROVE Tells
  <2>1. CASE payment = "none"
    <3>1. payment' = "processing" /\ UNCHANGED <<purpose, results>>
      BY <1>3, <2>1 DEF InsertProcessing
    <3> QED BY <2>1, <3>1 DEF LastResultTellsPayment, Told, EventTypes
  <2>2. CASE payment # "none"
    BY <1>0, <1>3, <2>2 DEF InsertProcessing
  <2> QED BY <2>1, <2>2
<1>4. ASSUME NEW c \in Calls, CallStep(c), ~InsertProcessing(c), ~Commit(c) PROVE Tells
  BY <1>0, <1>4, RowsKept DEF rows
<1>5. CASE UNCHANGED rows
  BY <1>0, <1>5 DEF rows
<1> QED BY <1>1, <1>2, <1>3, <1>4, <1>5 DEF Next, CallStep, Notify, vars

(* The last result in the outbox of a purchase tells what its payment has  *)
(* come to, whichever calls overlap, however many times it is settled.     *)
THEOREM OrderToldLastOutcome == Spec => []LastResultTellsPayment
<1>1. Init => TypeInv /\ LastResultTellsPayment
  <2>1. Init => LastResultTellsPayment
    BY DEF Init, LastResultTellsPayment, Told, EventTypes
  <2> QED BY <2>1, InitInv
<1>2. TypeInv /\ LastResultTellsPayment /\ [Next]_vars => (TypeInv /\ LastResultTellsPayment)'
  BY NextInv, NextLastResult
<1> QED BY <1>1, <1>2, PTL DEF Spec
=============================================================================
