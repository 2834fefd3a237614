------------------------------ MODULE MCRefunds ------------------------------
(* Small instances of Refunds: a payment of 3, and calls that refund 1 or 2.*)
EXTENDS Refunds, TLC

CONSTANTS c1, c2, c3, c4

OneOneTwoTwo == c1 :> 1 @@ c2 :> 1 @@ c3 :> 2 @@ c4 :> 2

TwoEach == [c \in Calls |-> 2]
=============================================================================
