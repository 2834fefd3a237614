--------------------------- MODULE AdjustmentBook ---------------------------
(***************************************************************************)
(* What inventory-api and payment-api promise whoever adjusts a stock or a *)
(* point balance: an adjustment takes effect in one step, once for its     *)
(* key, with the amount that was asked for, and never takes the quantity   *)
(* below zero.                                                             *)
(***************************************************************************)
EXTENDS Integers

CONSTANTS
  Opening,  \* the quantity of each account at the start
  Requests  \* the adjustments that may be asked for: account, key, amount

VARIABLES
  quantity,  \* the quantity of each account
  done       \* the adjustments that have taken effect

bookVars == <<quantity, done>>

Init ==
  /\ quantity = Opening
  /\ done = {}

Adjust(r) ==
  /\ \A d \in done : d.key # r.key
  /\ quantity[r.account] + r.amount >= 0
  /\ quantity' = [quantity EXCEPT ![r.account] = @ + r.amount]
  /\ done' = done \cup {r}

Next == \E r \in Requests : Adjust(r)

Spec == Init /\ [][Next]_bookVars
=============================================================================
