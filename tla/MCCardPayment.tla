---------------------------- MODULE MCCardPayment ----------------------------
(* A small instance of CardPayment: who asks for what, in which process. *)
EXTENDS CardPayment, TLC

CONSTANTS c1, c2, w1, w2, w3, r1, r2, x1, p1, p2

Request(op, type, replica) == [op |-> op, type |-> type, replica |-> replica]

(* c1 and c2 carry the same key, w1 and w2 the same event; r1 and r2 are a *)
(* round of each of two reconcilers.                                       *)
AllRequested ==
  c1 :> Request("create", "succeeded", p1) @@ c2 :> Request("create", "succeeded", p2)
    @@ w1 :> Request("webhook", "succeeded", p1) @@ w2 :> Request("webhook", "succeeded", p2)
    @@ w3 :> Request("webhook", "failed", p1)
    @@ r1 :> Request("reconcile", "succeeded", p1) @@ r2 :> Request("reconcile", "succeeded", p2)
    @@ x1 :> Request("cancel", "succeeded", p1)

Requested == [c \in Calls |-> AllRequested[c]]
=============================================================================
