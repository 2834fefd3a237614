---------------------------- MODULE CheckoutProofs ----------------------------
(***************************************************************************)
(* Proofs about Checkout, for any items, and any number of presses,        *)
(* attempts and polls.                                                     *)
(***************************************************************************)
EXTENDS Checkout, TLAPS, FiniteSetTheorems

(* A key that is being inserted has no row, and is inserted once. *)
InsertedAlone ==
  \A c \in calls : c.stage = "inserted" =>
    /\ RowsOf(c.key) = {}
    /\ \A d \in calls : d.stage = "inserted" /\ d.key = c.key => d = c

(* The item a purchase is at is one of those it has still to buy. *)
ItemKnown ==
  \A a \in Presses :
    purchases[a].pc \in {"create", "wait"} => purchases[a].item \in purchases[a].todo

OnceInv == TypeOK /\ ItemKnown /\ InsertedAlone /\ OrderedOnce

(* Only the current item of a press may be ordered yet or not be paid, and *)
(* between two items there is no such item.                                *)
Current(a, i) == purchases[a].item = i /\ purchases[a].pc # "next"

NothingBeforePress(a) ==
  /\ a > presses => purchases[a] = NoPurchase
  /\ purchases[a].pc = "none" =>
       /\ \A c \in calls : c.key[1] # a
       /\ \A id \in DOMAIN orders : orders[id].key[1] # a

CallsAreCurrent ==
  \A c \in calls : RowsOf(c.key) = {} => Current(c.key[1], c.key[2])

OpenIsCurrent ==
  \A id \in DOMAIN orders :
    orders[id].status # "paid" => Current(orders[id].key[1], orders[id].key[2])

SeenIsPaid ==
  \A a \in Presses :
    purchases[a].pc = "wait" /\ purchases[a].seen = "paid" =>
      orders[purchases[a].id].status = "paid"

LoopInv ==
  /\ OnceInv
  /\ \A a \in Presses : NothingBeforePress(a)
  /\ CallsAreCurrent
  /\ OpenIsCurrent
  /\ SeenIsPaid

-----------------------------------------------------------------------------
LEMMA NumbersPositive ==
  /\ MaxAttempts \in Nat \ {0} /\ MaxPolls \in Nat \ {0}
  /\ MaxPresses \in Nat \ {0} /\ MaxRetries \in Nat \ {0}
BY CheckoutAssumption

LEMMA FirstTry == <<1, 1>> \in Tries
BY NumbersPositive DEF Tries

LEMMA NoPurchaseType == NoPurchase \in Purchases
BY FirstTry, NumbersPositive DEF NoPurchase, Purchases, Statuses

LEMMA InitType == Init => TypeOK
BY NoPurchaseType, NumbersPositive DEF Init, TypeOK

(* What is in a row of orders. *)
LEMMA OrderRow ==
  ASSUME TypeOK, NEW id \in DOMAIN orders
  PROVE  /\ orders[id] \in [key : Keys, status : Statuses]
         /\ orders[id].key \in Keys /\ orders[id].status \in Statuses
         /\ id \in Nat
<1> DEFINE Row == [key : Keys, status : Statuses]
<1>1. orders \in Seq(Row)
  BY DEF TypeOK
<1> HIDE DEF Row
<1>2. orders[id] \in Row /\ id \in Nat
  BY <1>1
<1> QED
  BY <1>2 DEF Row

(* What is left of a purchase that is done with an order. *)
LEMMA LeftType ==
  ASSUME NEW p \in Purchases
  PROVE  /\ Left(p) \in Purchases
         /\ Left(p).pc = p.pc /\ Left(p).item = p.item /\ Left(p).result = p.result
         /\ Left(p).todo = p.todo /\ Left(p).purchased = p.purchased
<1> DEFINE first == <<1, 1>>
           q == [[[p EXCEPT !.try = first] EXCEPT !.id = 0] EXCEPT !.seen = "pending"]
<1>1. 0 \in 0..MaxPolls /\ "pending" \in Statuses /\ first \in Tries
  BY FirstTry, NumbersPositive DEF Statuses
<1>2. Left(p) = [q EXCEPT !.polls = 0]
  BY DEF Left
<1> HIDE DEF first
<1>3. [p EXCEPT !.try = first] \in Purchases
  BY <1>1 DEF Purchases
<1>4. q \in Purchases
  BY <1>1, <1>3 DEF Purchases
<1>5. /\ q.pc = p.pc /\ q.item = p.item /\ q.result = p.result
      /\ q.todo = p.todo /\ q.purchased = p.purchased
  BY DEF Purchases
<1> HIDE DEF q
<1> QED
  BY <1>1, <1>2, <1>4, <1>5 DEF Purchases

(* What the purchase becomes at the end of a wait or of the loop. *)
LEMMA EndsType ==
  ASSUME NEW p \in Purchases, NEW result \in {"done", "error", "action"}
  PROVE  /\ Ends(p, result) \in Purchases
         /\ Ends(p, result).pc = "over" /\ Ends(p, result).result = result
         /\ Ends(p, result).item = p.item /\ Ends(p, result).purchased = p.purchased
BY LeftType DEF Ends, Purchases

LEMMA BoughtType ==
  ASSUME NEW p \in Purchases, p.item \in Items
  PROVE  /\ Bought(p) \in Purchases
         /\ Bought(p).pc = "next" /\ Bought(p).result = p.result /\ Bought(p).item = p.item
         /\ Bought(p).purchased = p.purchased \cup {p.item}
         /\ Bought(p).todo = p.todo \ {p.item}
BY LeftType DEF Bought, Purchases

(* The shopper is sent to the payment of the item. *)
Acts(p) == Ends([p EXCEPT !.purchased = @ \cup {p.item}], "action")

LEMMA ActsType ==
  ASSUME NEW p \in Purchases, p.item \in Items
  PROVE  /\ Acts(p) \in Purchases
         /\ Acts(p).pc = "over" /\ Acts(p).result = "action" /\ Acts(p).item = p.item
         /\ Acts(p).purchased = p.purchased \cup {p.item}
<1> DEFINE q == [p EXCEPT !.purchased = @ \cup {p.item}]
<1>1. q \in Purchases /\ q.item = p.item /\ q.purchased = p.purchased \cup {p.item}
  BY DEF Purchases
<1>2. Acts(p) = Ends(q, "action")
  BY DEF Acts
<1> HIDE DEF q
<1> QED
  BY <1>1, <1>2, EndsType

LEMMA AfterWaitCases ==
  ASSUME NEW p
  PROVE  \/ AfterWait(p) = AfterError(p)
         \/ p.seen = "paid" /\ AfterWait(p) = Bought(p)
         \/ p.seen = "payment_action_required" /\ AfterWait(p) = Acts(p)
BY DEF AfterWait, Acts

LEMMA KeyType ==
  ASSUME NEW key \in Keys
  PROVE  key = KeyOf(key[1], key[2]) /\ key[1] \in Presses /\ key[2] \in Items
BY DEF Keys, KeyOf

LEMMA OfKey ==
  ASSUME NEW a \in Presses, NEW i \in Items
  PROVE  KeyOf(a, i) \in Keys /\ KeyOf(a, i)[1] = a /\ KeyOf(a, i)[2] = i
BY DEF Keys, KeyOf

(* Every step of a purchase of its own changes its record only, into one   *)
(* of these.                                                               *)
Moves(p, q) ==
  \/ /\ p.pc = "next" /\ q.pc = "create" /\ q.item \in p.todo
     /\ q.todo = p.todo /\ q.purchased = p.purchased /\ q.result = p.result
  \/ p.pc = "next" /\ p.todo = {} /\ q = Ends(p, "done")
  \/ p.pc \in {"create", "wait"} /\ q = AfterError(p)
  \/ p.pc = "wait" /\ p.seen = "paid" /\ q = Bought(p)
  \/ p.pc = "wait" /\ p.seen = "payment_action_required" /\ q = Acts(p)
  \/ /\ p.pc = q.pc /\ p.pc \in {"create", "wait"} /\ q.item = p.item /\ q.id = p.id
     /\ q.seen = p.seen \/ q.seen = orders[p.id].status
     /\ q.todo = p.todo /\ q.purchased = p.purchased /\ q.result = p.result

LEMMA PurchaseMoves ==
  ASSUME OnceInv, NEW a \in Presses, Purchase(a) \/ Retry(a)
  PROVE  \E q \in Purchases :
           purchases' = [purchases EXCEPT ![a] = q] /\ Moves(purchases[a], q)
<1> DEFINE p == purchases[a]
<1>0. p \in Purchases /\ (p.pc \in {"create", "wait"} => p.item \in p.todo /\ p.item \in Items)
  BY DEF OnceInv, TypeOK, ItemKnown, Purchases
<1>1. CASE PlaceOrder(a)
  <2> DEFINE first == <<1, 1>>
  <2>1. PICK i \in p.todo :
          purchases' = [purchases EXCEPT ![a] = [@ EXCEPT !.pc = "create", !.item = i, !.try = first]]
    BY <1>1 DEF PlaceOrder
  <2>2. p.pc = "next" /\ first \in Tries /\ i \in Items
    BY <1>0, <1>1, FirstTry DEF PlaceOrder, Purchases
  <2> HIDE DEF first
  <2> DEFINE q == [p EXCEPT !.pc = "create", !.item = i, !.try = first]
  <2>3. q \in Purchases
    BY <1>0, <2>2 DEF Purchases
  <2>4. Moves(p, q)
    BY <1>0, <2>2 DEF Moves, Purchases
  <2>5. purchases' = [purchases EXCEPT ![a] = q]
    BY <2>1
  <2> QED
    BY <2>3, <2>4, <2>5
<1>2. CASE AllBought(a)
  <2>1. purchases' = [purchases EXCEPT ![a] = Ends(p, "done")]
    BY <1>2 DEF AllBought
  <2> QED
    BY <1>0, <1>2, <2>1, EndsType DEF AllBought, Moves
<1>3. CASE GiveUp(a)
  <2>1. purchases' = [purchases EXCEPT ![a] = AfterError(p)] /\ AfterError(p) \in Purchases
    BY <1>0, <1>3, EndsType DEF GiveUp, AfterError
  <2> QED
    BY <1>3, <2>1 DEF GiveUp, Moves
<1>4. CASE StopWaiting(a)
  <2>1. purchases' = [purchases EXCEPT ![a] = AfterWait(p)] /\ p.pc = "wait"
    BY <1>4 DEF StopWaiting
  <2>2. p.item \in Items
    BY <1>0, <2>1
  <2>3. AfterError(p) \in Purchases /\ Bought(p) \in Purchases /\ Acts(p) \in Purchases
    BY <1>0, <2>2, EndsType, BoughtType, ActsType DEF AfterError
  <2>4. Moves(p, AfterWait(p))
    BY <2>1, AfterWaitCases DEF Moves
  <2> QED
    BY <2>1, <2>3, <2>4, AfterWaitCases
<1>5. CASE Poll(a)
  <2>1. CASE purchases' = [purchases EXCEPT ![a] = AfterError(@)]
    <3>1. AfterError(p) \in Purchases
      BY <1>0, EndsType DEF AfterError
    <3> QED
      BY <1>5, <2>1, <3>1 DEF Poll, Moves
  <2>2. CASE purchases' = [purchases EXCEPT ![a].polls = @ + 1,
                                            ![a].seen = orders[purchases[a].id].status]
    <3> DEFINE status == orders[p.id].status
               q == [p EXCEPT !.polls = @ + 1, !.seen = status]
    <3>1. p.pc = "wait" /\ p.polls < MaxPolls
      BY <1>5 DEF Poll
    <3>2. status \in Statuses
      <4>1. p.id \in DOMAIN orders
        BY <3>1 DEF OnceInv, OrderedOnce, RowsOf
      <4> QED
        BY <4>1, OrderRow DEF OnceInv
    <3>3. purchases' = [purchases EXCEPT ![a] = q]
      BY <2>2
    <3>4. p.polls + 1 \in 0..MaxPolls
      BY <1>0, <3>1, NumbersPositive DEF Purchases
    <3> HIDE DEF status
    <3>5. q \in Purchases
      BY <1>0, <3>2, <3>4 DEF Purchases
    <3>6. Moves(p, q)
      BY <1>0, <3>1 DEF Moves, Purchases, status
    <3> QED
      BY <3>3, <3>5, <3>6
  <2> QED
    BY <1>5, <2>1, <2>2 DEF Poll
<1>6. CASE Retry(a)
  <2>1. PICK t \in NextTries(p.try) : purchases' = [purchases EXCEPT ![a].try = t]
    BY <1>6 DEF Retry
  <2>2. p.pc = "create" /\ t \in Tries
    BY <1>6 DEF Retry, NextTries
  <2> DEFINE q == [p EXCEPT !.try = t]
  <2>3. q \in Purchases
    BY <1>0, <2>2 DEF Purchases
  <2>4. Moves(p, q)
    BY <1>0, <2>2 DEF Moves, Purchases
  <2>5. purchases' = [purchases EXCEPT ![a] = q]
    BY <2>1
  <2> QED
    BY <2>3, <2>4, <2>5
<1> QED
  BY <1>1, <1>2, <1>3, <1>4, <1>5, <1>6 DEF Purchase

(* ... and it sends a request for the item it is then at, or none. *)
LEMMA PurchaseSends ==
  ASSUME OnceInv, NEW a \in Presses, Purchase(a) \/ Retry(a)
  PROVE  /\ \/ calls' = calls
            \/ \E i \in Items, t \in Tries :
                 /\ calls' = calls \cup {Call(KeyOf(a, i), t)}
                 /\ purchases'[a].item = i /\ purchases'[a].pc = "create"
         /\ retries' \in 0..MaxRetries
         /\ UNCHANGED <<cart, browser, presses, orders>>
<1>0. purchases \in [Presses -> Purchases] /\ purchases[a] \in Purchases /\ retries \in 0..MaxRetries
  BY DEF OnceInv, TypeOK
<1>1. CASE PlaceOrder(a)
  <2> DEFINE first == <<1, 1>>
  <2>1. PICK i \in purchases[a].todo :
          /\ purchases' = [purchases EXCEPT ![a] =
                             [@ EXCEPT !.pc = "create", !.item = i, !.try = first]]
          /\ calls' = calls \cup {Call(KeyOf(a, i), first)}
    BY <1>1 DEF PlaceOrder
  <2>2. i \in Items /\ first \in Tries
    BY <1>0, FirstTry DEF Purchases
  <2> HIDE DEF first
  <2>3. purchases'[a].item = i /\ purchases'[a].pc = "create"
    BY <1>0, <2>1 DEF Purchases
  <2> QED
    BY <1>0, <1>1, <2>1, <2>2, <2>3 DEF PlaceOrder
<1>2. CASE Retry(a)
  <2>1. PICK t \in NextTries(purchases[a].try) :
          /\ purchases' = [purchases EXCEPT ![a].try = t]
          /\ calls' = calls \cup {Call(KeyOf(a, purchases[a].item), t)}
    BY <1>2 DEF Retry
  <2>2. purchases[a].item \in Items /\ t \in Tries
    BY <1>0, <1>2 DEF Retry, OnceInv, ItemKnown, Purchases, NextTries
  <2>3. purchases'[a].item = purchases[a].item /\ purchases'[a].pc = "create"
    BY <1>0, <1>2, <2>1 DEF Purchases, Retry
  <2>4. retries' \in 0..MaxRetries
    BY <1>0, <1>2, NumbersPositive DEF Retry
  <2> QED
    BY <1>2, <2>1, <2>2, <2>3, <2>4 DEF Retry
<1> QED
  BY <1>0, <1>1, <1>2 DEF Purchase, AllBought, GiveUp, StopWaiting, Poll

(* An answer is taken by the purchase that waits for it, or by nobody. *)
Takes(p, q, id) ==
  /\ p.pc = "create" /\ q.pc = "wait" /\ q.id = id
  /\ q.item = p.item /\ q.todo = p.todo /\ q.purchased = p.purchased /\ q.result = p.result

LEMMA AnswerTaken ==
  ASSUME TypeOK, NEW c \in calls, NEW id \in Nat, orders'[id].status \in Statuses, Answered(c, id)
  PROVE  \/ purchases' = purchases
         \/ \E q \in Purchases :
              /\ purchases' = [purchases EXCEPT ![c.key[1]] = q]
              /\ Takes(purchases[c.key[1]], q, id)
              /\ q.seen = orders'[id].status
              /\ q.item = c.key[2]
<1> DEFINE a == c.key[1]
           p == purchases[a]
           status == orders'[id].status
           q == [p EXCEPT !.pc = "wait", !.id = id, !.seen = status]
<1>1. c.key \in Keys
  BY DEF TypeOK, Calls
<1>2. p \in Purchases
  BY <1>1, KeyType DEF TypeOK
<1>3. CASE Awaited(c)
  <2>1. p.pc = "create" /\ p.item = c.key[2]
    BY <1>3 DEF Awaited
  <2>2. purchases' = [purchases EXCEPT ![a] = q]
    BY <1>3 DEF Answered
  <2> HIDE DEF status
  <2>3. q \in Purchases
    BY <1>2 DEF Purchases, status
  <2>4. Takes(p, q, id) /\ q.seen = status /\ q.item = p.item
    BY <1>2, <2>1 DEF Takes, Purchases
  <2> QED
    BY <2>1, <2>2, <2>3, <2>4 DEF status
<1> QED
  BY <1>3 DEF Answered

LEMMA CommitAppends ==
  ASSUME OnceInv, NEW c \in calls, Commit(c)
  PROVE  /\ orders' \in Seq([key : Keys, status : Statuses])
         /\ DOMAIN orders' = DOMAIN orders \cup {Len(orders) + 1}
         /\ Len(orders) + 1 \in Nat /\ Len(orders) + 1 \notin DOMAIN orders
         /\ \A id \in DOMAIN orders : orders'[id] = orders[id]
         /\ orders'[Len(orders) + 1].key = c.key
         /\ orders'[Len(orders) + 1].status = "pending"
         /\ Answered(c, Len(orders) + 1)
         /\ c.key \in Keys /\ c.stage = "inserted"
<1> DEFINE Row == [key : Keys, status : Statuses]
           row == [key |-> c.key, status |-> "pending"]
<1>1. c.key \in Keys /\ "pending" \in Statuses
  BY DEF OnceInv, TypeOK, Calls, Statuses
<1>2. row \in Row /\ row.key = c.key /\ row.status = "pending"
  BY <1>1
<1>3. orders \in Seq(Row) /\ orders' = Append(orders, row)
  BY DEF OnceInv, TypeOK, Commit
<1> HIDE DEF Row, row
<1>4. /\ orders' \in Seq(Row)
      /\ DOMAIN orders' = DOMAIN orders \cup {Len(orders) + 1}
      /\ Len(orders) + 1 \in Nat /\ Len(orders) + 1 \notin DOMAIN orders
      /\ \A id \in DOMAIN orders : orders'[id] = orders[id]
      /\ orders'[Len(orders) + 1] = row
  BY <1>2, <1>3
<1> QED
  BY <1>1, <1>2, <1>4 DEF Commit, Row

LEMMA SettleKeeps ==
  ASSUME OnceInv, NEW id \in DOMAIN orders, NEW status \in Statuses, Settle(id, status)
  PROVE  /\ orders' \in Seq([key : Keys, status : Statuses])
         /\ DOMAIN orders' = DOMAIN orders
         /\ \A k \in DOMAIN orders : orders'[k].key = orders[k].key
         /\ \A k \in DOMAIN orders : orders[k].status = "paid" => orders'[k].status = "paid"
         /\ UNCHANGED <<cart, browser, presses, purchases, calls, retries>>
<1> DEFINE Row == [key : Keys, status : Statuses]
           row == [orders[id] EXCEPT !.status = status]
<1>1. orders[id] \in Row /\ orders[id].status # "paid"
  BY OrderRow DEF OnceInv, Settle
<1>2. row \in Row /\ row.key = orders[id].key
  BY <1>1
<1>3. orders \in Seq(Row) /\ orders' = [orders EXCEPT ![id] = row]
  BY DEF OnceInv, TypeOK, Settle
<1> HIDE DEF Row, row
<1>4. orders' \in Seq(Row) /\ DOMAIN orders' = DOMAIN orders
  BY <1>2, <1>3
<1> QED
  BY <1>1, <1>2, <1>3, <1>4 DEF Row, Settle

-----------------------------------------------------------------------------
(* The steps of the browser leave requests and orders alone, and of the    *)
(* purchases only begin another one.                                       *)
LEMMA PageSteps ==
  ASSUME OnceInv, Page
  PROVE  /\ cart' \in SUBSET Items /\ browser' \in {"idle", "busy", "stuck"}
         /\ presses' \in 0..MaxPresses
         /\ UNCHANGED <<calls, orders, retries>>
         /\ \/ Press
            \/ UNCHANGED <<purchases, presses>>
<1>1. cart \in SUBSET Items /\ presses \in 0..MaxPresses /\ browser \in {"idle", "busy", "stuck"}
  BY DEF OnceInv, TypeOK
<1>2. CASE AddItem
  BY <1>1, <1>2 DEF AddItem
<1>3. CASE RemoveItem
  BY <1>1, <1>3 DEF RemoveItem
<1>4. CASE Press
  BY <1>1, <1>4, NumbersPositive DEF Press
<1>5. CASE Return
  BY <1>1, <1>5 DEF Return, CartsAfter
<1>6. CASE LoseAnswer
  BY <1>1, <1>6 DEF LoseAnswer
<1>7. CASE Reload
  BY <1>1, <1>7 DEF Reload
<1> QED
  BY <1>2, <1>3, <1>4, <1>5, <1>6, <1>7 DEF Page

LEMMA PressBegins ==
  ASSUME OnceInv, Press
  PROVE  /\ presses' \in Presses /\ presses' = presses + 1
         /\ \E q \in Purchases :
              /\ purchases' = [purchases EXCEPT ![presses'] = q]
              /\ q.pc = "next" /\ q.todo = cart
              /\ q.item = purchases[presses'].item /\ q.purchased = purchases[presses'].purchased
              /\ q.result = purchases[presses'].result
<1> DEFINE p == purchases[presses']
           q == [p EXCEPT !.pc = "next", !.todo = cart]
<1>1. presses' \in Presses /\ presses' = presses + 1
  BY NumbersPositive DEF Press, OnceInv, TypeOK, Presses
<1>2. p \in Purchases /\ cart \in SUBSET Items
  BY <1>1 DEF OnceInv, TypeOK
<1>3. q \in Purchases
  BY <1>2 DEF Purchases
<1>4. /\ q.pc = "next" /\ q.todo = cart /\ q.item = p.item
      /\ q.purchased = p.purchased /\ q.result = p.result
  BY <1>2 DEF Purchases
<1>5. purchases' = [purchases EXCEPT ![presses'] = q]
  BY DEF Press
<1> QED
  BY <1>1, <1>3, <1>4, <1>5

(* A handler that is not at its end only changes what is known of itself.  *)
LEMMA HandlerCalls ==
  ASSUME TypeOK, NEW c \in calls, Handler(c)
  PROVE  /\ calls' \in SUBSET Calls
         /\ UNCHANGED <<cart, browser, presses, retries>>
         /\ \/ calls' = calls \ {c}
            \/ /\ c.stage = "sent"
               /\ \E d \in Calls :
                    /\ d.key = c.key
                    /\ calls' = (calls \ {c}) \cup {d}
                    /\ d.stage = "inserted" => KeyFree(c.key)
               /\ UNCHANGED <<purchases, orders>>
<1>1. c \in Calls /\ calls \subseteq Calls
  BY DEF TypeOK
<1>2. CASE Insert(c)
  <2> DEFINE d == [c EXCEPT !.stage = "inserted"]
  <2>1. d \in Calls /\ d.key = c.key
    BY <1>1 DEF Calls
  <2>2. calls' = (calls \ {c}) \cup {d}
    BY <1>2 DEF Insert, Advance
  <2> QED
    BY <1>1, <1>2, <2>1, <2>2 DEF Insert
<1>3. CASE Duplicate(c)
  <2> DEFINE d == [c EXCEPT !.stage = "duplicate"]
  <2>1. d \in Calls /\ d.key = c.key /\ d.stage = "duplicate"
    BY <1>1 DEF Calls
  <2>2. calls' = (calls \ {c}) \cup {d}
    BY <1>3 DEF Duplicate, Advance
  <2> QED
    BY <1>1, <1>3, <2>1, <2>2 DEF Duplicate
<1>4. CASE Commit(c)
  BY <1>1, <1>4 DEF Commit, Answered
<1>5. CASE ReadExisting(c)
  BY <1>1, <1>5 DEF ReadExisting, Answered
<1>6. CASE Lose(c)
  BY <1>1, <1>6 DEF Lose
<1> QED
  BY <1>2, <1>3, <1>4, <1>5, <1>6 DEF Handler

(* A handler inserts a row for its key, answers, or leaves the purchases   *)
(* and orders alone.                                                       *)
Appends(c) ==
  /\ DOMAIN orders' = DOMAIN orders \cup {Len(orders) + 1}
  /\ Len(orders) + 1 \notin DOMAIN orders
  /\ \A id \in DOMAIN orders : orders'[id] = orders[id]
  /\ orders'[Len(orders) + 1].key = c.key
  /\ c.stage = "inserted" /\ calls' = calls \ {c}

Hears(c) ==
  \E q \in Purchases, id \in DOMAIN orders' :
    /\ purchases' = [purchases EXCEPT ![c.key[1]] = q]
    /\ Takes(purchases[c.key[1]], q, id)
    /\ q.seen = orders'[id].status
    /\ q.item = c.key[2]
    /\ orders'[id].key = c.key

LEMMA HandlerAnswers ==
  ASSUME OnceInv, NEW c \in calls, Handler(c)
  PROVE  /\ orders' \in Seq([key : Keys, status : Statuses])
         /\ orders' = orders \/ Appends(c)
         /\ purchases' = purchases \/ Hears(c)
<1>1. CASE Commit(c)
  <2> DEFINE id == Len(orders) + 1
  <2>1. /\ orders' \in Seq([key : Keys, status : Statuses])
        /\ Appends(c) /\ Answered(c, id) /\ id \in Nat /\ id \in DOMAIN orders'
        /\ orders'[id].key = c.key /\ orders'[id].status \in Statuses
    BY <1>1, CommitAppends DEF Appends, Answered, Statuses
  <2> HIDE DEF id
  <2> QED
    BY <2>1, AnswerTaken DEF Hears, OnceInv
<1>2. CASE ReadExisting(c)
  <2>1. PICK id \in RowsOf(c.key) : Answered(c, id)
    BY <1>2 DEF ReadExisting
  <2>2. orders' = orders /\ id \in DOMAIN orders /\ orders[id].key = c.key
    BY <1>2, <2>1 DEF ReadExisting, RowsOf
  <2>3. id \in Nat /\ orders'[id].status \in Statuses
    BY <2>2, OrderRow DEF OnceInv
  <2>4. orders' \in Seq([key : Keys, status : Statuses])
    BY <2>2 DEF OnceInv, TypeOK
  <2> QED
    BY <2>1, <2>2, <2>3, <2>4, AnswerTaken DEF Hears, OnceInv
<1>3. CASE Insert(c) \/ Duplicate(c) \/ Lose(c)
  BY <1>3 DEF Insert, Duplicate, Lose, OnceInv, TypeOK
<1> QED
  BY <1>1, <1>2, <1>3 DEF Handler

-----------------------------------------------------------------------------
(* Each key is ordered once. *)
LEMMA ReplacePurchase ==
  ASSUME TypeOK, NEW a \in Presses, NEW q \in Purchases, purchases' = [purchases EXCEPT ![a] = q]
  PROVE  /\ purchases' \in [Presses -> Purchases]
         /\ purchases'[a] = q
         /\ \A b \in Presses : b # a => purchases'[b] = purchases[b]
BY DEF TypeOK

LEMMA MovesKeepItem ==
  ASSUME NEW p \in Purchases, NEW q \in Purchases, Moves(p, q)
  PROVE  /\ q.pc \in {"create", "wait"} => q.item \in q.todo
            \/ (q.item = p.item /\ q.todo = p.todo /\ q.pc = p.pc)
         /\ q.pc = "wait" => /\ p.pc = "wait" /\ q.item = p.item /\ q.id = p.id
                             /\ q.seen = p.seen \/ q.seen = orders[p.id].status
<1>1. Ends(p, "done").pc = "over" /\ AfterError(p).pc = "over"
  BY EndsType DEF AfterError
<1>2. Bought(p).pc = "next" /\ Acts(p).pc = "over"
  BY DEF Bought, Acts, Ends, Left, Purchases
<1> QED
  BY <1>1, <1>2 DEF Moves

LEMMA PageOnce == OnceInv /\ Page => OnceInv'
<1> SUFFICES ASSUME OnceInv, Page PROVE OnceInv'
  OBVIOUS
<1>1. TypeOK
  BY DEF OnceInv
<1>2. CASE Press
  <2>1. PICK q \in Purchases :
          /\ purchases' = [purchases EXCEPT ![presses'] = q]
          /\ q.pc = "next"
    BY <1>2, PressBegins
  <2>2. presses' \in Presses
    BY <1>2, PressBegins
  <2>3. /\ purchases' \in [Presses -> Purchases]
        /\ purchases'[presses'] = q
        /\ \A b \in Presses : b # presses' => purchases'[b] = purchases[b]
    BY <1>1, <2>1, <2>2, ReplacePurchase
  <2>4. TypeOK'
    BY <2>3, PageSteps DEF OnceInv, TypeOK
  <2>5. UNCHANGED <<calls, orders>>
    BY PageSteps
  <2>6. ItemKnown'
    BY <2>1, <2>3 DEF OnceInv, ItemKnown
  <2>7. InsertedAlone'
    BY <2>5 DEF OnceInv, InsertedAlone, RowsOf
  <2>8. OrderedOnce'
    BY <2>1, <2>3, <2>5 DEF OnceInv, OrderedOnce, RowsOf, KeyOf
  <2> QED
    BY <2>4, <2>6, <2>7, <2>8 DEF OnceInv
<1>3. CASE UNCHANGED <<purchases, presses>>
  <2>1. UNCHANGED <<purchases, presses, calls, orders, retries>>
    BY <1>3, PageSteps
  <2>2. TypeOK'
    BY <2>1, PageSteps DEF OnceInv, TypeOK
  <2> QED
    BY <2>1, <2>2 DEF OnceInv, ItemKnown, InsertedAlone, OrderedOnce, RowsOf, KeyOf
<1> QED
  BY <1>2, <1>3, PageSteps

LEMMA PurchaseOnce ==
  ASSUME OnceInv, NEW a \in Presses, Purchase(a) \/ Retry(a)
  PROVE  OnceInv'
<1>1. TypeOK
  BY DEF OnceInv
<1>2. PICK q \in Purchases :
        purchases' = [purchases EXCEPT ![a] = q] /\ Moves(purchases[a], q)
  BY PurchaseMoves
<1>3. /\ purchases' \in [Presses -> Purchases]
      /\ purchases'[a] = q
      /\ \A b \in Presses : b # a => purchases'[b] = purchases[b]
  BY <1>1, <1>2, ReplacePurchase
<1>4. UNCHANGED <<cart, browser, presses, orders>> /\ retries' \in 0..MaxRetries
  BY PurchaseSends
<1>5. /\ calls' \in SUBSET Calls
      /\ \A c \in calls' : c \in calls \/ c.stage = "sent"
  <2>1. CASE calls' = calls
    BY <1>1, <2>1 DEF TypeOK
  <2>2. ASSUME NEW i \in Items, NEW t \in Tries, calls' = calls \cup {Call(KeyOf(a, i), t)}
        PROVE  calls' \in SUBSET Calls /\ \A c \in calls' : c \in calls \/ c.stage = "sent"
    <3>1. KeyOf(a, i) \in Keys
      BY OfKey
    <3>2. Call(KeyOf(a, i), t) \in Calls /\ Call(KeyOf(a, i), t).stage = "sent"
      BY <3>1 DEF Call, Calls
    <3> QED
      BY <1>1, <2>2, <3>2 DEF TypeOK
  <2> QED
    BY <2>1, <2>2, PurchaseSends
<1>6. TypeOK'
  BY <1>1, <1>3, <1>4, <1>5 DEF TypeOK
<1>7. purchases[a] \in Purchases
  BY <1>1 DEF TypeOK
<1>8. ItemKnown'
  BY <1>3, <1>7, <1>2, MovesKeepItem DEF OnceInv, ItemKnown
<1>9. InsertedAlone'
  BY <1>4, <1>5 DEF OnceInv, InsertedAlone, RowsOf
<1>10. OrderedOnce'
  <2>1. \A i, j \in DOMAIN orders' : orders'[i].key = orders'[j].key => i = j
    BY <1>4 DEF OnceInv, OrderedOnce
  <2>2. ASSUME NEW b \in Presses, purchases'[b].pc = "wait"
        PROVE  (purchases[b].id \in RowsOf(KeyOf(b, purchases[b].item)))'
    <3>1. purchases[b].pc = "wait" /\ purchases'[b].item = purchases[b].item
             /\ purchases'[b].id = purchases[b].id
      BY <1>2, <1>3, <1>7, <2>2, MovesKeepItem
    <3> QED
      BY <1>4, <3>1 DEF OnceInv, OrderedOnce, RowsOf, KeyOf
  <2> QED
    BY <2>1, <2>2 DEF OrderedOnce
<1> QED
  BY <1>6, <1>8, <1>9, <1>10 DEF OnceInv

(* A row is appended for a key that has none, and nobody else is inserting *)
(* it then.                                                                *)
LEMMA AppendsOnce ==
  ASSUME OnceInv, NEW c \in calls, Appends(c)
  PROVE  /\ (\A i, j \in DOMAIN orders : orders[i].key = orders[j].key => i = j)'
         /\ InsertedAlone'
<1> DEFINE new == Len(orders) + 1
<1>1. /\ DOMAIN orders' = DOMAIN orders \cup {new}
      /\ \A id \in DOMAIN orders : orders'[id] = orders[id]
      /\ orders'[new].key = c.key
      /\ calls' = calls \ {c} /\ c.stage = "inserted"
  BY DEF Appends
<1> HIDE DEF new
<1>2. /\ \A i, j \in DOMAIN orders : orders[i].key = orders[j].key => i = j
      /\ \A i \in DOMAIN orders : orders[i].key # c.key
      /\ \A d \in calls : d.stage = "inserted" /\ d.key = c.key => d = c
  BY <1>1 DEF OnceInv, OrderedOnce, InsertedAlone, RowsOf
<1>3. \A i, j \in DOMAIN orders' : orders'[i].key = orders'[j].key => i = j
  BY <1>1, <1>2
<1>4. InsertedAlone'
  BY <1>1, <1>2 DEF OnceInv, InsertedAlone, RowsOf
<1> QED
  BY <1>3, <1>4

LEMMA HandlerOnce ==
  ASSUME OnceInv, NEW c \in calls, Handler(c)
  PROVE  OnceInv'
<1>1. TypeOK /\ c.key \in Keys
  BY DEF OnceInv, TypeOK, Calls
<1>2. c.key[1] \in Presses
  BY <1>1, KeyType
<1>3. /\ calls' \in SUBSET Calls
      /\ UNCHANGED <<cart, browser, presses, retries>>
      /\ orders' \in Seq([key : Keys, status : Statuses])
  BY <1>1, HandlerCalls, HandlerAnswers
<1>4. ASSUME Hears(c)
      PROVE  /\ purchases' \in [Presses -> Purchases]
             /\ \A b \in Presses : b # c.key[1] => purchases'[b] = purchases[b]
             /\ purchases'[c.key[1]].id \in DOMAIN orders'
             /\ orders'[purchases'[c.key[1]].id].key = c.key
             /\ purchases'[c.key[1]].item = c.key[2]
             /\ \E id : Takes(purchases[c.key[1]], purchases'[c.key[1]], id)
  <2>1. PICK q \in Purchases, id \in DOMAIN orders' :
          /\ purchases' = [purchases EXCEPT ![c.key[1]] = q]
          /\ Takes(purchases[c.key[1]], q, id)
          /\ q.item = c.key[2]
          /\ orders'[id].key = c.key
    BY <1>4 DEF Hears
  <2>2. /\ purchases' \in [Presses -> Purchases]
        /\ purchases'[c.key[1]] = q
        /\ \A b \in Presses : b # c.key[1] => purchases'[b] = purchases[b]
    BY <1>1, <1>2, <2>1, ReplacePurchase
  <2> QED
    BY <2>1, <2>2 DEF Takes
<1>5. purchases' \in [Presses -> Purchases]
  BY <1>1, <1>4, HandlerAnswers DEF TypeOK
<1>6. TypeOK'
  BY <1>1, <1>3, <1>5 DEF TypeOK
<1>7. ItemKnown'
  <2>1. CASE purchases' = purchases
    BY <2>1 DEF OnceInv, ItemKnown
  <2>2. CASE Hears(c)
    BY <1>4, <2>2 DEF OnceInv, ItemKnown, Takes
  <2> QED
    BY <2>1, <2>2, HandlerAnswers
<1>8. InsertedAlone' /\ (\A i, j \in DOMAIN orders : orders[i].key = orders[j].key => i = j)'
  <2>1. CASE Appends(c)
    BY <2>1, AppendsOnce
  <2>2. CASE orders' = orders
    <3>1. InsertedAlone'
      <4>1. CASE calls' = calls \ {c}
        BY <2>2, <4>1 DEF OnceInv, InsertedAlone, RowsOf
      <4>2. ASSUME NEW d \in Calls, d.key = c.key, calls' = (calls \ {c}) \cup {d},
                   d.stage = "inserted" => KeyFree(c.key)
            PROVE  InsertedAlone'
        BY <2>2, <4>2 DEF OnceInv, InsertedAlone, RowsOf, KeyFree
      <4> QED
        BY <1>1, <4>1, <4>2, HandlerCalls
    <3> QED
      BY <2>2, <3>1 DEF OnceInv, OrderedOnce
  <2> QED
    BY <2>1, <2>2, HandlerAnswers
<1>9. ASSUME NEW b \in Presses, purchases'[b].pc = "wait"
      PROVE  (purchases[b].id \in RowsOf(KeyOf(b, purchases[b].item)))'
  <2>1. ASSUME purchases'[b] = purchases[b]
        PROVE  (purchases[b].id \in RowsOf(KeyOf(b, purchases[b].item)))'
    <3>1. purchases[b].id \in RowsOf(KeyOf(b, purchases[b].item))
      BY <1>9, <2>1 DEF OnceInv, OrderedOnce
    <3>2. CASE orders' = orders
      BY <2>1, <3>1, <3>2 DEF RowsOf, KeyOf
    <3>3. CASE Appends(c)
      BY <2>1, <3>1, <3>3 DEF RowsOf, KeyOf, Appends
    <3> QED
      BY <3>2, <3>3, HandlerAnswers
  <2>2. CASE Hears(c) /\ b = c.key[1]
    <3>1. c.key = KeyOf(b, purchases'[b].item)
      BY <1>1, <1>4, <2>2, KeyType
    <3> QED
      BY <1>4, <2>2, <3>1 DEF RowsOf, KeyOf
  <2> QED
    BY <1>4, <2>1, <2>2, HandlerAnswers
<1> QED
  BY <1>6, <1>7, <1>8, <1>9 DEF OnceInv, OrderedOnce

LEMMA SettleOnce ==
  ASSUME OnceInv, NEW id \in DOMAIN orders, NEW status \in Statuses, Settle(id, status)
  PROVE  OnceInv'
<1>1. /\ orders' \in Seq([key : Keys, status : Statuses])
      /\ DOMAIN orders' = DOMAIN orders
      /\ \A k \in DOMAIN orders : orders'[k].key = orders[k].key
      /\ UNCHANGED <<cart, browser, presses, purchases, calls, retries>>
  BY SettleKeeps
<1>2. TypeOK'
  BY <1>1 DEF OnceInv, TypeOK
<1> QED
  BY <1>1, <1>2 DEF OnceInv, ItemKnown, InsertedAlone, OrderedOnce, RowsOf, KeyOf

LEMMA NextOnce == OnceInv /\ [Next]_vars => OnceInv'
<1> SUFFICES ASSUME OnceInv, [Next]_vars PROVE OnceInv'
  OBVIOUS
<1>1. CASE UNCHANGED vars
  BY <1>1 DEF vars, OnceInv, TypeOK, ItemKnown, InsertedAlone, OrderedOnce, RowsOf, KeyOf
<1> QED
  BY <1>1, PageOnce, PurchaseOnce, HandlerOnce, SettleOnce DEF Next

LEMMA InitOnce == Init => OnceInv
<1> SUFFICES ASSUME Init PROVE OnceInv
  OBVIOUS
<1>1. calls = {} /\ DOMAIN orders = {} /\ \A a \in Presses : purchases[a].pc = "none"
  BY DEF Init, NoPurchase
<1> QED
  BY <1>1, InitType DEF OnceInv, ItemKnown, InsertedAlone, OrderedOnce, RowsOf

LEMMA AlwaysOnce == Spec => []OnceInv
BY InitOnce, NextOnce, PTL DEF Spec

(* Every variable keeps its type. *)
THEOREM TypeCorrect == Spec => []TypeOK
<1>1. OnceInv => TypeOK
  BY DEF OnceInv
<1> QED
  BY <1>1, AlwaysOnce, PTL

(* A press orders each item at most once and waits for that order,         *)
(* whichever attempts are repeated, lost or carried out late.              *)
THEOREM EachOrderedOnce == Spec => []OrderedOnce
<1>1. OnceInv => OrderedOnce
  BY DEF OnceInv
<1> QED
  BY <1>1, AlwaysOnce, PTL

-----------------------------------------------------------------------------
(* One order of a press is open at a time. *)

(* What a move of the loop means for its item. *)
LEMMA MovesKeepCurrent ==
  ASSUME NEW p \in Purchases, NEW q \in Purchases, Moves(p, q)
  PROVE  /\ p.pc # "none" /\ q.pc # "none"
         /\ p.pc # "next" =>
              \/ q.item = p.item /\ q.pc # "next"
              \/ p.pc = "wait" /\ p.seen = "paid"
<1>1. \A r \in {"done", "error", "action"} : Ends(p, r).pc = "over" /\ Ends(p, r).item = p.item
  BY EndsType
<1>2. Bought(p).pc = "next" /\ Acts(p).pc = "over" /\ Acts(p).item = p.item
  BY DEF Bought, Acts, Ends, Left, Purchases
<1> QED
  BY <1>1, <1>2 DEF Moves, AfterError

LEMMA PageLoop ==
  ASSUME LoopInv, Page
  PROVE  LoopInv'
<1>1. OnceInv /\ OnceInv'
  BY PageOnce DEF LoopInv
<1>2. UNCHANGED <<calls, orders>>
  BY <1>1, PageSteps
<1>3. CASE Press
  <2>1. presses' \in Presses /\ presses' = presses + 1
    BY <1>1, <1>3, PressBegins
  <2>2. PICK q \in Purchases :
          purchases' = [purchases EXCEPT ![presses'] = q] /\ q.pc = "next"
    BY <1>1, <1>3, PressBegins
  <2>3. /\ purchases'[presses'] = q
        /\ \A b \in Presses : b # presses' => purchases'[b] = purchases[b]
    BY <1>1, <2>1, <2>2, ReplacePurchase DEF OnceInv
  <2>4. presses \in Nat
    BY <1>1 DEF OnceInv, TypeOK
  <2>5. purchases[presses'] = NoPurchase
    BY <2>1, <2>4 DEF LoopInv, NothingBeforePress
  <2>6. purchases[presses'].pc = "none"
    BY <2>5 DEF NoPurchase
  <2>7. /\ \A c \in calls : c.key[1] # presses'
        /\ \A id \in DOMAIN orders : orders[id].key[1] # presses'
    BY <2>1, <2>6 DEF LoopInv, NothingBeforePress
  <2>8. /\ \A c \in calls : c.key[1] \in Presses
        /\ \A id \in DOMAIN orders : orders[id].key[1] \in Presses
    BY <1>1, OrderRow, KeyType DEF OnceInv, TypeOK, Calls
  <2>9. ASSUME NEW a \in Presses PROVE NothingBeforePress(a)'
    <3>1. CASE a = presses'
      BY <2>1, <2>2, <2>3, <2>4, <3>1 DEF NothingBeforePress
    <3>2. CASE a # presses'
      <4>1. a \in Nat
        BY DEF Presses
      <4>2. a > presses' => a > presses
        BY <2>1, <2>4, <4>1
      <4> QED
        BY <1>2, <2>3, <3>2, <4>2 DEF LoopInv, NothingBeforePress
    <3> QED
      BY <3>1, <3>2
  <2>10. CallsAreCurrent' /\ OpenIsCurrent'
    BY <1>2, <2>3, <2>7, <2>8 DEF LoopInv, CallsAreCurrent, OpenIsCurrent, Current, RowsOf
  <2>11. SeenIsPaid'
    BY <1>2, <2>2, <2>3 DEF LoopInv, SeenIsPaid
  <2> QED
    BY <1>1, <2>9, <2>10, <2>11 DEF LoopInv
<1>4. CASE UNCHANGED <<purchases, presses>>
  BY <1>1, <1>2, <1>4 DEF LoopInv, NothingBeforePress, CallsAreCurrent, OpenIsCurrent, Current,
     RowsOf, SeenIsPaid
<1> QED
  BY <1>1, <1>3, <1>4, PageSteps

LEMMA PurchaseLoop ==
  ASSUME LoopInv, NEW a \in Presses, Purchase(a) \/ Retry(a)
  PROVE  LoopInv'
<1>1. OnceInv /\ OnceInv' /\ TypeOK
  BY PurchaseOnce DEF LoopInv, OnceInv
<1>2. PICK q \in Purchases :
        purchases' = [purchases EXCEPT ![a] = q] /\ Moves(purchases[a], q)
  BY <1>1, PurchaseMoves
<1>3. /\ purchases'[a] = q
      /\ \A b \in Presses : b # a => purchases'[b] = purchases[b]
  BY <1>1, <1>2, ReplacePurchase
<1> DEFINE p == purchases[a]
<1>4. p \in Purchases
  BY <1>1 DEF TypeOK
<1>5. /\ p.pc # "none" /\ q.pc # "none"
      /\ p.pc # "next" =>
           \/ q.item = p.item /\ q.pc # "next"
           \/ p.pc = "wait" /\ p.seen = "paid"
  BY <1>2, <1>4, MovesKeepCurrent
<1>6. UNCHANGED <<presses, orders>>
  BY <1>1, PurchaseSends
<1>7. ~(a > presses)
  BY <1>5 DEF LoopInv, NothingBeforePress, NoPurchase
<1>8. \/ calls' = calls
      \/ \E i \in Items, t \in Tries :
           /\ calls' = calls \cup {Call(KeyOf(a, i), t)}
           /\ q.item = i /\ q.pc = "create"
  BY <1>1, <1>3, PurchaseSends
<1>9. \A c \in calls' : c \in calls \/ (c.key[1] = a /\ q.item = c.key[2] /\ q.pc = "create")
  BY <1>8, OfKey DEF Call
<1>10. /\ \A c \in calls : c.key \in Keys /\ c.key[1] \in Presses /\ c.key = KeyOf(c.key[1], c.key[2])
       /\ \A id \in DOMAIN orders :
            /\ orders[id].key[1] \in Presses
            /\ orders[id].key = KeyOf(orders[id].key[1], orders[id].key[2])
  BY <1>1, OrderRow, KeyType DEF TypeOK, Calls
(* An item that is bought has its order, and it is paid. *)
<1>11. p.pc = "wait" /\ p.seen = "paid" =>
         /\ RowsOf(KeyOf(a, p.item)) # {}
         /\ \A id \in RowsOf(KeyOf(a, p.item)) : orders[id].status = "paid"
  BY <1>1 DEF OnceInv, OrderedOnce, RowsOf, LoopInv, SeenIsPaid
<1>12. ASSUME NEW b \in Presses PROVE NothingBeforePress(b)'
  <2>1. CASE b = a
    BY <1>3, <1>5, <1>6, <1>7, <2>1 DEF NothingBeforePress
  <2>2. CASE b # a
    BY <1>3, <1>6, <1>9, <2>2 DEF LoopInv, NothingBeforePress
  <2> QED
    BY <2>1, <2>2
<1>13. CallsAreCurrent'
  <2>1. SUFFICES ASSUME NEW c \in calls, RowsOf(c.key) = {}
                 PROVE  Current(c.key[1], c.key[2])'
    BY <1>3, <1>6, <1>9 DEF CallsAreCurrent, Current, RowsOf
  <2>2. Current(c.key[1], c.key[2])
    BY <2>1 DEF LoopInv, CallsAreCurrent
  <2>3. CASE c.key[1] # a
    BY <1>3, <1>10, <2>2, <2>3 DEF Current
  <2>4. CASE c.key[1] = a
    <3>1. p.item = c.key[2] /\ p.pc # "next" /\ c.key = KeyOf(a, p.item)
      BY <1>10, <2>2, <2>4 DEF Current
    <3>2. q.item = p.item /\ q.pc # "next"
      BY <1>5, <1>11, <2>1, <3>1
    <3> QED
      BY <1>3, <2>4, <3>1, <3>2 DEF Current
  <2> QED
    BY <2>3, <2>4
<1>14. OpenIsCurrent'
  <2>1. SUFFICES ASSUME NEW id \in DOMAIN orders, orders[id].status # "paid"
                 PROVE  Current(orders[id].key[1], orders[id].key[2])'
    BY <1>6 DEF OpenIsCurrent, Current
  <2>2. Current(orders[id].key[1], orders[id].key[2])
    BY <2>1 DEF LoopInv, OpenIsCurrent
  <2>3. CASE orders[id].key[1] # a
    BY <1>3, <1>6, <1>10, <2>2, <2>3 DEF Current
  <2>4. CASE orders[id].key[1] = a
    <3>1. p.item = orders[id].key[2] /\ p.pc # "next" /\ id \in RowsOf(KeyOf(a, p.item))
      BY <1>10, <2>2, <2>4 DEF Current, RowsOf
    <3>2. q.item = p.item /\ q.pc # "next"
      BY <1>5, <1>11, <2>1, <3>1
    <3> QED
      BY <1>3, <1>6, <2>4, <3>1, <3>2 DEF Current
  <2> QED
    BY <2>3, <2>4
<1>15. SeenIsPaid'
  BY <1>2, <1>3, <1>4, <1>6, MovesKeepItem DEF LoopInv, SeenIsPaid
<1> QED
  BY <1>1, <1>12, <1>13, <1>14, <1>15 DEF LoopInv

(* A handler keeps the orders there are and may add the one of its key; a  *)
(* purchase hears of an order or stays as it is.                           *)
LEMMA HandlerChanges ==
  ASSUME OnceInv, NEW c \in calls, Handler(c)
  PROVE  /\ \A id \in DOMAIN orders : id \in DOMAIN orders' /\ orders'[id] = orders[id]
         /\ \A id \in DOMAIN orders' :
              \/ id \in DOMAIN orders /\ orders'[id] = orders[id]
              \/ orders'[id].key = c.key /\ c.stage = "inserted"
         /\ \A b \in Presses :
              \/ purchases'[b] = purchases[b]
              \/ \E id \in DOMAIN orders' :
                   /\ Takes(purchases[b], purchases'[b], id)
                   /\ purchases'[b].seen = orders'[id].status
<1>1. c.key[1] \in Presses /\ TypeOK
  BY KeyType DEF OnceInv, TypeOK, Calls
<1>2. /\ \A id \in DOMAIN orders : id \in DOMAIN orders' /\ orders'[id] = orders[id]
      /\ \A id \in DOMAIN orders' :
           \/ id \in DOMAIN orders /\ orders'[id] = orders[id]
           \/ orders'[id].key = c.key /\ c.stage = "inserted"
  BY HandlerAnswers DEF Appends
<1>3. ASSUME NEW b \in Presses, Hears(c)
      PROVE  \/ purchases'[b] = purchases[b]
             \/ \E id \in DOMAIN orders' :
                  /\ Takes(purchases[b], purchases'[b], id)
                  /\ purchases'[b].seen = orders'[id].status
  <2>1. PICK q \in Purchases, id \in DOMAIN orders' :
          /\ purchases' = [purchases EXCEPT ![c.key[1]] = q]
          /\ Takes(purchases[c.key[1]], q, id)
          /\ q.seen = orders'[id].status
    BY <1>3 DEF Hears
  <2>2. /\ purchases'[c.key[1]] = q
        /\ \A d \in Presses : d # c.key[1] => purchases'[d] = purchases[d]
    BY <1>1, <2>1, ReplacePurchase
  <2> QED
    BY <2>1, <2>2
<1> QED
  BY <1>2, <1>3, HandlerAnswers

LEMMA HandlerLoop ==
  ASSUME LoopInv, NEW c \in calls, Handler(c)
  PROVE  LoopInv'
<1>1. OnceInv /\ OnceInv' /\ TypeOK
  BY HandlerOnce DEF LoopInv, OnceInv
<1>2. c.key \in Keys /\ c.key[1] \in Presses
  BY <1>1, KeyType DEF TypeOK, Calls
<1>3. UNCHANGED presses /\ \A d \in calls' : \E e \in calls : e.key = d.key
  BY <1>1, HandlerCalls
<1>4. /\ \A id \in DOMAIN orders : id \in DOMAIN orders' /\ orders'[id] = orders[id]
      /\ \A id \in DOMAIN orders' :
           \/ id \in DOMAIN orders /\ orders'[id] = orders[id]
           \/ orders'[id].key = c.key /\ c.stage = "inserted"
  BY <1>1, HandlerChanges
<1>5. ASSUME NEW b \in Presses
      PROVE  \/ purchases'[b] = purchases[b]
             \/ \E id \in DOMAIN orders' :
                  /\ Takes(purchases[b], purchases'[b], id)
                  /\ purchases'[b].seen = orders'[id].status
  BY <1>1, HandlerChanges
<1>6. ASSUME NEW b \in Presses, NEW i, Current(b, i)
      PROVE  Current(b, i)'
  BY <1>5, <1>6 DEF Current, Takes
<1>7. ASSUME NEW b \in Presses, purchases[b].pc = "none" \/ purchases'[b].pc = "none"
      PROVE  purchases'[b] = purchases[b]
  BY <1>5, <1>7 DEF Takes
<1>8. ASSUME NEW b \in Presses PROVE NothingBeforePress(b)'
  <2>1. b > presses => purchases'[b] = NoPurchase
    BY <1>7 DEF LoopInv, NothingBeforePress, NoPurchase
  <2>2. ASSUME purchases'[b].pc = "none"
        PROVE  /\ \A d \in calls' : d.key[1] # b
               /\ \A id \in DOMAIN orders' : orders'[id].key[1] # b
    <3>1. /\ \A d \in calls : d.key[1] # b
          /\ \A id \in DOMAIN orders : orders[id].key[1] # b
      BY <1>7, <2>2 DEF LoopInv, NothingBeforePress
    <3> QED
      BY <1>3, <1>4, <3>1
  <2> QED
    BY <1>3, <2>1, <2>2 DEF NothingBeforePress
<1>9. CallsAreCurrent'
  <2>1. SUFFICES ASSUME NEW d \in calls', RowsOf(d.key)' = {}
                 PROVE  Current(d.key[1], d.key[2])'
    BY DEF CallsAreCurrent, Current, RowsOf
  <2>2. PICK e \in calls : e.key = d.key
    BY <1>3
  <2>3. RowsOf(e.key) = {}
    BY <1>4, <2>1, <2>2 DEF RowsOf
  <2>4. Current(e.key[1], e.key[2]) /\ e.key[1] \in Presses
    BY <1>1, <2>3, KeyType DEF LoopInv, CallsAreCurrent, TypeOK, Calls
  <2>5. Current(e.key[1], e.key[2])'
    BY <1>3, <1>5, <2>4 DEF Current, Takes
  <2> QED
    BY <2>2, <2>5 DEF Current
<1>10. OpenIsCurrent'
  <2>1. SUFFICES ASSUME NEW id \in DOMAIN orders', orders'[id].status # "paid"
                 PROVE  Current(orders[id].key[1], orders[id].key[2])'
    BY DEF OpenIsCurrent, Current
  <2>2. CASE id \in DOMAIN orders /\ orders'[id] = orders[id]
    <3>1. /\ Current(orders[id].key[1], orders[id].key[2])
          /\ orders[id].key[1] \in Presses
      BY <1>1, <2>1, <2>2, OrderRow, KeyType DEF LoopInv, OpenIsCurrent
    <3> QED
      BY <1>5, <2>2, <3>1 DEF Current, Takes
  <2>3. CASE orders'[id].key = c.key /\ c.stage = "inserted"
    <3>1. Current(c.key[1], c.key[2])
      BY <1>1, <2>3 DEF LoopInv, OnceInv, InsertedAlone, CallsAreCurrent
    <3> QED
      BY <1>2, <1>5, <2>3, <3>1 DEF Current, Takes
  <2> QED
    BY <1>4, <2>2, <2>3
<1>11. SeenIsPaid'
  <2>1. SUFFICES ASSUME NEW b \in Presses, purchases'[b].pc = "wait", purchases'[b].seen = "paid"
                 PROVE  orders'[purchases'[b].id].status = "paid"
    BY DEF SeenIsPaid
  <2>2. CASE purchases'[b] = purchases[b]
    <3>1. /\ purchases[b].id \in DOMAIN orders
          /\ orders[purchases[b].id].status = "paid"
      BY <1>1, <2>1, <2>2 DEF LoopInv, SeenIsPaid, OnceInv, OrderedOnce, RowsOf
    <3> QED
      BY <1>4, <2>2, <3>1
  <2> QED
    BY <1>5, <2>1, <2>2 DEF Takes
<1> QED
  BY <1>1, <1>8, <1>9, <1>10, <1>11 DEF LoopInv

LEMMA SettleLoop ==
  ASSUME LoopInv, NEW id \in DOMAIN orders, NEW status \in Statuses, Settle(id, status)
  PROVE  LoopInv'
<1>1. OnceInv /\ OnceInv'
  BY SettleOnce DEF LoopInv
<1>2. /\ DOMAIN orders' = DOMAIN orders
      /\ \A k \in DOMAIN orders : orders'[k].key = orders[k].key
      /\ \A k \in DOMAIN orders : orders[k].status = "paid" => orders'[k].status = "paid"
      /\ UNCHANGED <<presses, purchases, calls>>
  BY <1>1, SettleKeeps
<1>3. \A a \in Presses : purchases[a].pc = "wait" => purchases[a].id \in DOMAIN orders
  BY <1>1 DEF OnceInv, OrderedOnce, RowsOf
<1> QED
  BY <1>1, <1>2, <1>3 DEF LoopInv, NothingBeforePress, CallsAreCurrent, OpenIsCurrent, Current,
     RowsOf, SeenIsPaid

LEMMA NextLoop == LoopInv /\ [Next]_vars => LoopInv'
<1> SUFFICES ASSUME LoopInv, [Next]_vars PROVE LoopInv'
  OBVIOUS
<1>1. CASE UNCHANGED vars
  <2>1. OnceInv'
    BY <1>1, NextOnce DEF LoopInv
  <2> QED
    BY <1>1, <2>1 DEF vars, LoopInv, NothingBeforePress, CallsAreCurrent, OpenIsCurrent, Current,
       RowsOf, SeenIsPaid
<1> QED
  BY <1>1, PageLoop, PurchaseLoop, HandlerLoop, SettleLoop DEF Next

LEMMA InitLoop == Init => LoopInv
<1> SUFFICES ASSUME Init PROVE LoopInv
  OBVIOUS
<1>1. calls = {} /\ DOMAIN orders = {} /\ \A a \in Presses : purchases[a] = NoPurchase
  BY DEF Init
<1>2. NoPurchase.pc = "none"
  BY DEF NoPurchase
<1> QED
  BY <1>1, <1>2, InitOnce DEF LoopInv, NothingBeforePress, CallsAreCurrent, OpenIsCurrent,
     SeenIsPaid

LEMMA AlwaysLoop == Spec => []LoopInv
BY InitLoop, NextLoop, PTL DEF Spec

(* What OneOpenOrder counts has one member at most: all of it is the       *)
(* current item's.                                                         *)
LEMMA LoopOneOpen == LoopInv => OneOpenOrder
<1> SUFFICES ASSUME LoopInv, NEW a \in Presses
             PROVE  Cardinality({id \in DOMAIN orders :
                      orders[id].key[1] = a /\ orders[id].status # "paid"}) <= 1
  BY DEF OneOpenOrder
<1> DEFINE Open == {id \in DOMAIN orders : orders[id].key[1] = a /\ orders[id].status # "paid"}
<1>1. \A id \in Open : orders[id].key = KeyOf(a, purchases[a].item)
  <2>1. \A id \in DOMAIN orders : orders[id].key = KeyOf(orders[id].key[1], orders[id].key[2])
    BY OrderRow, KeyType DEF LoopInv, OnceInv
  <2> QED
    BY <2>1 DEF LoopInv, OpenIsCurrent, Current
<1>2. \A i, j \in Open : i = j
  BY <1>1 DEF LoopInv, OnceInv, OrderedOnce
<1>3. CASE Open = {}
  BY <1>3, FS_EmptySet
<1>4. ASSUME NEW id \in Open PROVE Cardinality(Open) <= 1
  <2>1. Open = {id}
    BY <1>2, <1>4
  <2>2. Cardinality({id}) = 1
    BY FS_Singleton
  <2> QED
    BY <2>1, <2>2
<1> QED
  BY <1>3, <1>4

(* A press never has two orders that are not paid: the next item waits     *)
(* until the one before is paid for, and after an answer that did not come *)
(* nothing else is ordered.                                                *)
THEOREM OneOrderOpen == Spec => []OneOpenOrder
BY AlwaysLoop, LoopOneOpen, PTL

-----------------------------------------------------------------------------
(* What is not paid for stays in the cart. *)

PaidFor(a, i) == \E id \in RowsOf(KeyOf(a, i)) : orders[id].status = "paid"

BoughtIsPaid ==
  \A a \in Presses : \A i \in purchases[a].purchased :
    PaidFor(a, i) \/ (purchases[a].result = "action" /\ i = purchases[a].item)

ResultAtEnd ==
  \A a \in Presses : purchases[a].result # "none" => purchases[a].pc = "over"

(* While the button is busy the cart is what the purchase has to buy. *)
CartInBusy ==
  browser = "busy" =>
    /\ presses \in Presses
    /\ purchases[presses].pc # "over" =>
         cart \subseteq purchases[presses].todo \cup purchases[presses].purchased
    /\ purchases[presses].result = "done" => cart \subseteq purchases[presses].purchased

CartInv == LoopInv /\ BoughtIsPaid /\ ResultAtEnd /\ CartInBusy

Kept ==
  browser = "busy" /\ browser' = "idle" /\ (cart' # {} \/ purchases[presses].result = "done")
    => \A i \in cart \ cart' :
         \/ \E id \in RowsOf(KeyOf(presses, i)) : orders[id].status = "paid"
         \/ purchases[presses].result = "action" /\ i = purchases[presses].item

LEMMA MovesBuyPaid ==
  ASSUME NEW p \in Purchases, NEW q \in Purchases, Moves(p, q),
         p.pc = "wait" => p.item \in Items,
         p.result # "none" => p.pc = "over"
  PROVE  /\ p.result = "none"
         /\ q.result # "none" => q.pc = "over"
         /\ q.result = "done" => p.todo = {} /\ p.pc = "next" /\ q.purchased = p.purchased
         /\ q.pc # "over" => p.pc # "over" /\ p.todo \cup p.purchased \subseteq q.todo \cup q.purchased
         /\ \A i \in q.purchased :
              \/ i \in p.purchased
              \/ i = p.item /\ p.pc = "wait" /\ p.seen = "paid"
              \/ i = q.item /\ q.result = "action"
<1>1. \A r \in {"done", "error"} :
        Ends(p, r).pc = "over" /\ Ends(p, r).result = r /\ Ends(p, r).purchased = p.purchased
  BY EndsType
<1>2. p.pc = "wait" =>
        /\ Bought(p).pc = "next" /\ Bought(p).result = p.result
        /\ Bought(p).purchased = p.purchased \cup {p.item}
        /\ Bought(p).todo = p.todo \ {p.item}
        /\ Acts(p).pc = "over" /\ Acts(p).result = "action" /\ Acts(p).item = p.item
        /\ Acts(p).purchased = p.purchased \cup {p.item}
  BY BoughtType, ActsType
<1> QED
  BY <1>1, <1>2 DEF Moves, AfterError

LEMMA PageCart ==
  ASSUME CartInv, Page
  PROVE  CartInv'
<1>1. LoopInv' /\ OnceInv /\ UNCHANGED orders
  BY PageLoop, PageSteps DEF CartInv, LoopInv
<1>2. CASE Press
  <2>1. presses' \in Presses /\ presses' = presses + 1 /\ presses \in Nat
    BY <1>1, <1>2, PressBegins DEF OnceInv, TypeOK
  <2>2. purchases[presses'].purchased = {} /\ purchases[presses'].result = "none"
    BY <2>1 DEF CartInv, LoopInv, NothingBeforePress, NoPurchase
  <2>3. PICK q \in Purchases :
          /\ purchases' = [purchases EXCEPT ![presses'] = q]
          /\ q.pc = "next" /\ q.todo = cart /\ q.purchased = {} /\ q.result = "none"
    BY <1>1, <1>2, <2>2, PressBegins
  <2>4. /\ purchases'[presses'] = q
        /\ \A b \in Presses : b # presses' => purchases'[b] = purchases[b]
    BY <1>1, <2>1, <2>3, ReplacePurchase DEF OnceInv
  <2>5. BoughtIsPaid'
    <3>1. \A b \in Presses : \A i : PaidFor(b, i)' <=> PaidFor(b, i)
      BY <1>1 DEF PaidFor, RowsOf, KeyOf
    <3> QED
      BY <2>3, <2>4, <3>1 DEF CartInv, BoughtIsPaid
  <2>6. ResultAtEnd'
    BY <2>3, <2>4 DEF CartInv, ResultAtEnd
  <2>7. CartInBusy'
    BY <1>2, <2>1, <2>3, <2>4 DEF CartInBusy, Press
  <2> QED
    BY <1>1, <2>5, <2>6, <2>7 DEF CartInv
<1>3. CASE ~Press
  <2>1. UNCHANGED purchases
    BY <1>1, <1>3, PageSteps
  <2>2. browser' # "busy"
    BY <1>3 DEF Page, AddItem, RemoveItem, Return, LoseAnswer, Reload
  <2> QED
    BY <1>1, <2>1, <2>2 DEF CartInv, BoughtIsPaid, ResultAtEnd, PaidFor, RowsOf, KeyOf, CartInBusy
<1> QED
  BY <1>2, <1>3

LEMMA PurchaseCart ==
  ASSUME CartInv, NEW a \in Presses, Purchase(a) \/ Retry(a)
  PROVE  CartInv'
<1>1. LoopInv' /\ OnceInv /\ TypeOK /\ UNCHANGED <<cart, browser, presses, orders>>
  BY PurchaseLoop, PurchaseSends DEF CartInv, LoopInv, OnceInv
<1>2. PICK q \in Purchases :
        purchases' = [purchases EXCEPT ![a] = q] /\ Moves(purchases[a], q)
  BY <1>1, PurchaseMoves
<1>3. /\ purchases'[a] = q
      /\ \A b \in Presses : b # a => purchases'[b] = purchases[b]
  BY <1>1, <1>2, ReplacePurchase
<1> DEFINE p == purchases[a]
<1>4. p \in Purchases /\ (p.pc = "wait" => p.item \in Items)
  BY <1>1 DEF OnceInv, TypeOK, ItemKnown, Purchases
<1>5. p.result # "none" => p.pc = "over"
  BY DEF CartInv, ResultAtEnd
<1>6. /\ p.result = "none"
      /\ q.result # "none" => q.pc = "over"
      /\ q.result = "done" => p.todo = {} /\ p.pc = "next" /\ q.purchased = p.purchased
      /\ q.pc # "over" => p.pc # "over" /\ p.todo \cup p.purchased \subseteq q.todo \cup q.purchased
      /\ \A i \in q.purchased :
           \/ i \in p.purchased
           \/ i = p.item /\ p.pc = "wait" /\ p.seen = "paid"
           \/ i = q.item /\ q.result = "action"
  BY <1>2, <1>4, <1>5, MovesBuyPaid
<1>7. ResultAtEnd'
  BY <1>3, <1>6 DEF CartInv, ResultAtEnd
<1>8. BoughtIsPaid'
  <2>1. ASSUME NEW i \in q.purchased
        PROVE  PaidFor(a, i) \/ (q.result = "action" /\ i = q.item)
    <3>1. i \in p.purchased => PaidFor(a, i)
      BY <1>6 DEF CartInv, BoughtIsPaid
    <3>2. p.pc = "wait" /\ p.seen = "paid" => PaidFor(a, p.item)
      BY <1>1 DEF OnceInv, OrderedOnce, CartInv, LoopInv, SeenIsPaid, PaidFor
    <3> QED
      BY <1>6, <3>1, <3>2
  <2>2. \A b \in Presses : \A i : PaidFor(b, i)' <=> PaidFor(b, i)
    BY <1>1 DEF PaidFor, RowsOf, KeyOf
  <2> QED
    BY <1>3, <2>1, <2>2 DEF CartInv, BoughtIsPaid
<1>9. CartInBusy'
  BY <1>1, <1>3, <1>6 DEF CartInv, CartInBusy
<1> QED
  BY <1>1, <1>7, <1>8, <1>9 DEF CartInv

LEMMA HandlerCart ==
  ASSUME CartInv, NEW c \in calls, Handler(c)
  PROVE  CartInv'
<1>1. LoopInv' /\ OnceInv /\ UNCHANGED <<cart, browser, presses>>
  BY HandlerLoop, HandlerCalls DEF CartInv, LoopInv, OnceInv
<1>2. \A b \in Presses : \A i : PaidFor(b, i) => PaidFor(b, i)'
  BY <1>1, HandlerChanges DEF PaidFor, RowsOf, KeyOf
<1>3. \A b \in Presses :
        \/ purchases'[b] = purchases[b]
        \/ \E id : Takes(purchases[b], purchases'[b], id)
  BY <1>1, HandlerChanges
<1>4. BoughtIsPaid'
  BY <1>2, <1>3 DEF CartInv, BoughtIsPaid, Takes
<1>5. ResultAtEnd' /\ CartInBusy'
  BY <1>1, <1>3 DEF CartInv, ResultAtEnd, CartInBusy, Takes
<1> QED
  BY <1>1, <1>4, <1>5 DEF CartInv

LEMMA SettleCart ==
  ASSUME CartInv, NEW id \in DOMAIN orders, NEW status \in Statuses, Settle(id, status)
  PROVE  CartInv'
<1>1. LoopInv' /\ OnceInv
  BY SettleLoop DEF CartInv, LoopInv
<1>2. /\ DOMAIN orders' = DOMAIN orders
      /\ \A k \in DOMAIN orders : orders'[k].key = orders[k].key
      /\ \A k \in DOMAIN orders : orders[k].status = "paid" => orders'[k].status = "paid"
      /\ UNCHANGED <<cart, browser, presses, purchases>>
  BY <1>1, SettleKeeps
<1>3. \A b \in Presses : \A i : PaidFor(b, i) => PaidFor(b, i)'
  BY <1>2 DEF PaidFor, RowsOf, KeyOf
<1> QED
  BY <1>1, <1>2, <1>3 DEF CartInv, BoughtIsPaid, ResultAtEnd, CartInBusy

LEMMA NextCart == CartInv /\ [Next]_vars => CartInv'
<1> SUFFICES ASSUME CartInv, [Next]_vars PROVE CartInv'
  OBVIOUS
<1>1. CASE UNCHANGED vars
  <2>1. LoopInv'
    BY <1>1, NextLoop DEF CartInv
  <2> QED
    BY <1>1, <2>1 DEF vars, CartInv, BoughtIsPaid, PaidFor, RowsOf, KeyOf, ResultAtEnd, CartInBusy
<1> QED
  BY <1>1, PageCart, PurchaseCart, HandlerCart, SettleCart DEF Next

LEMMA InitCart == Init => CartInv
<1> SUFFICES ASSUME Init PROVE CartInv
  OBVIOUS
<1>1. browser = "idle" /\ \A a \in Presses : purchases[a] = NoPurchase
  BY DEF Init
<1>2. NoPurchase.purchased = {} /\ NoPurchase.result = "none"
  BY DEF NoPurchase
<1> QED
  BY <1>1, <1>2, InitLoop DEF CartInv, BoughtIsPaid, ResultAtEnd, CartInBusy

(* Only an answer and a new page make the button available again. *)
LEMMA StepKeeps == CartInv /\ [Next]_vars => [Kept]_vars
<1> SUFFICES ASSUME CartInv, Next, browser = "busy", browser' = "idle",
                    cart' # {} \/ purchases[presses].result = "done",
                    NEW i \in cart \ cart'
             PROVE  \/ PaidFor(presses, i)
                    \/ purchases[presses].result = "action" /\ i = purchases[presses].item
  BY DEF Kept, PaidFor
<1>1. OnceInv /\ presses \in Presses
  BY DEF CartInv, LoopInv, CartInBusy
<1>2. Return \/ Reload
  <2>1. Page
    BY <1>1, PurchaseSends, HandlerCalls DEF Next, OnceInv, Settle
  <2> QED
    BY <2>1 DEF Page, AddItem, RemoveItem, Press, LoseAnswer
<1>3. i \in purchases[presses].purchased
  <2>1. CASE Return
    BY <2>1 DEF Return, CartsAfter
  <2>2. CASE Reload
    BY <2>2 DEF Reload, CartInv, CartInBusy
  <2> QED
    BY <1>2, <2>1, <2>2
<1> QED
  BY <1>1, <1>3 DEF CartInv, BoughtIsPaid

(* What leaves the cart when a purchase answers has been paid for, but for *)
(* the item whose payment the shopper is sent to.                          *)
THEOREM CartKept == Spec => CartKeepsUnpaid
<1>1. Spec => [][Kept]_vars
  BY InitCart, NextCart, StepKeeps, PTL DEF Spec
<1> QED
  BY <1>1 DEF CartKeepsUnpaid, Kept
=============================================================================
