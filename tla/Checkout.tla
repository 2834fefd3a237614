------------------------------ MODULE Checkout ------------------------------
(***************************************************************************)
(* Buying the cart: the cart and its button in the browser, the server     *)
(* action that orders one item after another, and CreateOrder of bff and   *)
(* order-api, which are asked again when an answer does not come.          *)
(*                                                                         *)
(* The browser, the server action and every handler of a request run on    *)
(* independently: whoever stops waiting for an answer stops nothing.  How  *)
(* an order is settled is the subject of OrderFlow; here it just happens.  *)
(***************************************************************************)
EXTENDS Naturals, Sequences, FiniteSets

CONSTANTS
  Items,        \* what is for sale
  MaxAttempts,  \* attempts of a request, and of each call bff makes for it
  MaxPolls,     \* how often the order is looked at until it is settled
  MaxPresses,   \* bound: how often the shopper presses the button
  MaxRetries    \* bound: how many attempts are repeated

ASSUME CheckoutAssumption ==
  /\ "none" \notin Items
  /\ {MaxAttempts, MaxPolls, MaxPresses, MaxRetries} \subseteq Nat \ {0}

VARIABLES
  cart,       \* the items in the cart
  browser,    \* whether the button is busy, or will stay so for good
  presses,    \* how often it has been pressed
  purchases,  \* the server action of each press
  calls,      \* the requests order-api is working on
  orders,     \* the rows of orders in id order, with their outbox rows
  retries     \* attempts repeated so far

vars == <<cart, browser, presses, purchases, calls, orders, retries>>

Presses  == 1..MaxPresses
Keys     == Presses \X Items
Tries    == (1..MaxAttempts) \X (1..MaxAttempts)
Statuses == {"pending", "paid", "failed", "payment_action_required"}

Purchases ==
  [pc : {"none", "next", "create", "wait", "over"}, todo : SUBSET Items,
   item : Items \cup {"none"}, try : Tries, id : Nat, seen : Statuses,
   polls : 0..MaxPolls, purchased : SUBSET Items, result : {"none", "done", "error", "action"}]

Calls ==
  [key : Keys, try : Tries, stage : {"sent", "inserted", "duplicate"}]

NoPurchase ==
  [pc |-> "none", todo |-> {}, item |-> "none", try |-> <<1, 1>>, id |-> 0, seen |-> "pending",
   polls |-> 0, purchased |-> {}, result |-> "none"]

Init ==
  /\ cart = Items
  /\ browser = "idle"
  /\ presses = 0
  /\ purchases = [a \in Presses |-> NoPurchase]
  /\ calls = {}
  /\ orders = <<>>
  /\ retries = 0

-----------------------------------------------------------------------------
(* The browser. *)
AddItem ==
  /\ browser = "idle"
  /\ \E i \in Items \ cart : cart' = cart \cup {i}
  /\ UNCHANGED <<browser, presses, purchases, calls, orders, retries>>

RemoveItem ==
  /\ browser = "idle"
  /\ \E i \in cart : cart' = cart \ {i}
  /\ UNCHANGED <<browser, presses, purchases, calls, orders, retries>>

(* confirmPurchase: every press is a purchase of its own. *)
Press ==
  /\ browser = "idle"
  /\ cart # {}
  /\ presses < MaxPresses
  /\ browser' = "busy"
  /\ presses' = presses + 1
  /\ purchases' = [purchases EXCEPT ![presses'] = [@ EXCEPT !.pc = "next", !.todo = cart]]
  /\ UNCHANGED <<cart, calls, orders, retries>>

(* The purchase answers.  Leaving for the payment's page leaves the cart   *)
(* behind too, unless the browser brings the page back as it was.          *)
CartsAfter(p) == {cart \ p.purchased} \cup (IF p.result = "action" THEN {{}} ELSE {})

Return ==
  /\ browser = "busy"
  /\ purchases[presses].pc = "over"
  /\ cart' \in CartsAfter(purchases[presses])
  /\ browser' = "idle"
  /\ UNCHANGED <<presses, purchases, calls, orders, retries>>

(* Its answer is lost: nothing makes the button available again but a new  *)
(* page, and the cart is not kept anywhere else.                           *)
LoseAnswer ==
  /\ browser = "busy"
  /\ browser' = "stuck"
  /\ UNCHANGED <<cart, presses, purchases, calls, orders, retries>>

Reload ==
  /\ browser # "idle"
  /\ browser' = "idle"
  /\ cart' = {}
  /\ UNCHANGED <<presses, purchases, calls, orders, retries>>

-----------------------------------------------------------------------------
(* The server action: purchase(items, paymentMethod, attemptId). *)
Call(key, try) == [key |-> key, try |-> try, stage |-> "sent"]

(* What the loop forgets of an order it is done with. *)
Left(p) == [p EXCEPT !.try = <<1, 1>>, !.id = 0, !.seen = "pending", !.polls = 0]

Ends(p, result) == [Left(p) EXCEPT !.pc = "over", !.todo = {}, !.result = result]

(* createOrder, with a key made of the attempt and the item. *)
KeyOf(a, i) == <<a, i>>

PlaceOrder(a) ==
  /\ purchases[a].pc = "next"
  /\ \E i \in purchases[a].todo :
       /\ purchases' = [purchases EXCEPT ![a] =
                          [@ EXCEPT !.pc = "create", !.item = i, !.try = <<1, 1>>]]
       /\ calls' = calls \cup {Call(KeyOf(a, i), <<1, 1>>)}
  /\ UNCHANGED <<cart, browser, presses, orders, retries>>

AllBought(a) ==
  /\ purchases[a].pc = "next"
  /\ purchases[a].todo = {}
  /\ purchases' = [purchases EXCEPT ![a] = Ends(@, "done")]
  /\ UNCHANGED <<cart, browser, presses, calls, orders, retries>>

(* After a broken connection or UNAVAILABLE gRPC repeats the call, and     *)
(* withRetry the request, when gRPC gives up or bff itself is not reached. *)
NextTries(try) ==
  {t \in Tries : \/ t = <<try[1], try[2] + 1>>
                 \/ t = <<try[1] + 1, 1>>}

(* What became of the attempt before is not known: it may still be         *)
(* carried out, with its answer lost.                                      *)
Retry(a) ==
  /\ purchases[a].pc = "create"
  /\ retries < MaxRetries
  /\ retries' = retries + 1
  /\ \E t \in NextTries(purchases[a].try) :
       /\ purchases' = [purchases EXCEPT ![a].try = t]
       /\ calls' = calls \cup {Call(KeyOf(a, purchases[a].item), t)}
  /\ UNCHANGED <<cart, browser, presses, orders>>

\* Mutant: after an error it goes on with the next item.
AfterErrorGoesOn(p) == [Left(p) EXCEPT !.pc = "next", !.todo = @ \ {p.item}]

AfterError(p) == Ends(p, "error")

(* The attempts are used up, the request is refused, or it takes longer    *)
(* than 10 seconds, which is not repeated.                                 *)
GiveUp(a) ==
  /\ purchases[a].pc = "create"
  /\ purchases' = [purchases EXCEPT ![a] = AfterError(@)]
  /\ UNCHANGED <<cart, browser, presses, calls, orders, retries>>

Settled(status) == status # "pending"

Bought(p) ==
  [Left(p) EXCEPT !.pc = "next", !.purchased = @ \cup {p.item}, !.todo = @ \ {p.item}]

\* Mutants: whatever has been ordered counts as bought; polling never ends.
AfterWaitBought(p) == Bought(p)
AfterWaitUnlessSettled(p) ==
  CASE ~Settled(p.seen) -> [p EXCEPT !.polls = 0]
    [] p.seen = "paid"  -> Bought(p)
    [] p.seen = "payment_action_required" ->
         Ends([p EXCEPT !.purchased = @ \cup {p.item}], "action")
    [] OTHER -> AfterError(p)

(* The order is settled, or waitForOrder has looked often enough; what the *)
(* last look has seen does not count.                                      *)
AfterWait(p) ==
  IF p.polls = MaxPolls THEN AfterError(p) ELSE
  CASE p.seen = "paid" -> Bought(p)
    [] p.seen = "payment_action_required" ->
         Ends([p EXCEPT !.purchased = @ \cup {p.item}], "action")
    [] OTHER -> AfterError(p)

StopWaiting(a) ==
  /\ purchases[a].pc = "wait"
  /\ Settled(purchases[a].seen) \/ purchases[a].polls = MaxPolls
  /\ purchases' = [purchases EXCEPT ![a] = AfterWait(@)]
  /\ UNCHANGED <<cart, browser, presses, calls, orders, retries>>

Poll(a) ==
  /\ purchases[a].pc = "wait"
  /\ ~Settled(purchases[a].seen)
  /\ purchases[a].polls < MaxPolls
  /\ \/ purchases' = [purchases EXCEPT ![a].polls = @ + 1,
                                      ![a].seen = orders[purchases[a].id].status]
     \/ purchases' = [purchases EXCEPT ![a] = AfterError(@)]  \* GetOrder fails
  /\ UNCHANGED <<cart, browser, presses, calls, orders, retries>>

-----------------------------------------------------------------------------
(* order-api: CreateOrGet. *)
RowsOf(key) == {id \in DOMAIN orders : orders[id].key = key}

(* The answer reaches the purchase that still waits for this attempt. *)
Awaited(c) ==
  LET p == purchases[c.key[1]] IN
  p.pc = "create" /\ p.item = c.key[2] /\ p.try = c.try

Advance(c, stage) == calls' = (calls \ {c}) \cup {[c EXCEPT !.stage = stage]}

Answered(c, id) ==
  /\ calls' = calls \ {c}
  /\ purchases' =
       IF Awaited(c)
       THEN [purchases EXCEPT ![c.key[1]] =
               [@ EXCEPT !.pc = "wait", !.id = id, !.seen = orders'[id].status]]
       ELSE purchases

\* Mutant: idempotency_key has no unique index.
KeyFreeAlways(key) == TRUE

(* The insertion waits for another one of the key to commit or roll back. *)
KeyFree(key) ==
  /\ RowsOf(key) = {}
  /\ \A c \in calls : c.key = key => c.stage # "inserted"

Insert(c) ==
  /\ c.stage = "sent"
  /\ KeyFree(c.key)
  /\ Advance(c, "inserted")
  /\ UNCHANGED <<cart, browser, presses, purchases, orders, retries>>

Commit(c) ==
  /\ c.stage = "inserted"
  /\ orders' = Append(orders, [key |-> c.key, status |-> "pending"])
  /\ Answered(c, Len(orders) + 1)
  /\ UNCHANGED <<cart, browser, presses, retries>>

Duplicate(c) ==
  /\ c.stage = "sent"
  /\ RowsOf(c.key) # {}
  /\ Advance(c, "duplicate")
  /\ UNCHANGED <<cart, browser, presses, purchases, orders, retries>>

ReadExisting(c) ==
  /\ c.stage = "duplicate"
  /\ UNCHANGED orders
  /\ \E id \in RowsOf(c.key) : Answered(c, id)
  /\ UNCHANGED <<cart, browser, presses, retries>>

(* A request that never arrives, or a handler that stops, whose            *)
(* transaction is rolled back.                                             *)
Lose(c) ==
  /\ calls' = calls \ {c}
  /\ UNCHANGED <<cart, browser, presses, purchases, orders, retries>>

(* The services settle an order, at any time. *)
Settle(id, status) ==
  /\ \/ orders[id].status = "pending" /\ Settled(status)
     \/ orders[id].status = "payment_action_required" /\ status \in {"paid", "failed"}
  /\ orders' = [orders EXCEPT ![id].status = status]
  /\ UNCHANGED <<cart, browser, presses, purchases, calls, retries>>

Page == AddItem \/ RemoveItem \/ Press \/ Return \/ LoseAnswer \/ Reload

Purchase(a) ==
  PlaceOrder(a) \/ AllBought(a) \/ GiveUp(a) \/ StopWaiting(a) \/ Poll(a)

Handler(c) ==
  Insert(c) \/ Commit(c) \/ Duplicate(c) \/ ReadExisting(c) \/ Lose(c)

Next ==
  \/ Page
  \/ \E a \in Presses : Purchase(a) \/ Retry(a)
  \/ \E c \in calls : Handler(c)
  \/ \E id \in DOMAIN orders, status \in Statuses : Settle(id, status)

Spec == Init /\ [][Next]_vars

(* The server action goes on, as every wait of it is bounded, and its      *)
(* answer arrives unless it is lost.  Nothing is assumed of the services.  *)
Fairness ==
  /\ \A a \in Presses : WF_vars(Purchase(a))
  /\ WF_vars(Return)

FairSpec == Spec /\ Fairness

-----------------------------------------------------------------------------
TypeOK ==
  /\ cart \in SUBSET Items
  /\ browser \in {"idle", "busy", "stuck"}
  /\ presses \in 0..MaxPresses
  /\ purchases \in [Presses -> Purchases]
  /\ calls \in SUBSET Calls
  /\ orders \in Seq([key : Keys, status : Statuses])
  /\ retries \in 0..MaxRetries

(* A press orders an item at most once, however often the request is       *)
(* repeated by whichever layer and whichever attempt is carried out last,  *)
(* and what the purchase waits for is that order (shop.ts, createOrder).   *)
OrderedOnce ==
  /\ \A i, j \in DOMAIN orders : orders[i].key = orders[j].key => i = j
  /\ \A a \in Presses :
       purchases[a].pc = "wait" =>
         purchases[a].id \in RowsOf(KeyOf(a, purchases[a].item))

(* A press never has two orders that are not paid: the next item waits     *)
(* until the one before is paid for, and after an answer that did not come *)
(* nothing else is ordered.                                                *)
OneOpenOrder ==
  \A a \in Presses :
    Cardinality({id \in DOMAIN orders : orders[id].key[1] = a /\ orders[id].status # "paid"}) <= 1

(* What leaves the cart when a purchase answers has been paid for, but for *)
(* the item whose payment the shopper is sent to.  A cart that is lost     *)
(* with its page is another matter.                                        *)
CartKeepsUnpaid ==
  [][browser = "busy" /\ browser' = "idle" /\ (cart' # {} \/ purchases[presses].result = "done")
       => \A i \in cart \ cart' :
            \/ \E id \in RowsOf(KeyOf(presses, i)) : orders[id].status = "paid"
            \/ purchases[presses].result = "action" /\ i = purchases[presses].item]_vars

(* Every purchase ends, though the services may never answer nor settle an *)
(* order, and the button is available again unless the answer is lost:     *)
(* until it is pressed again, everything comes to rest.                    *)
PurchaseEnds ==
  []<>(browser # "busy" /\ \A a \in Presses : purchases[a].pc \in {"none", "over"})
=============================================================================
