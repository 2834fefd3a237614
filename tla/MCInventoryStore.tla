-------------------------- MODULE MCInventoryStore --------------------------
(* A small instance of InventoryStore: who asks for what. *)
EXTENDS InventoryStore, TLC

CONSTANTS c1, c2, c3, c4, c5, c6, k1, k2, none

Request(op, amount, key) == [op |-> op, amount |-> amount, key |-> key]

(* c1 and c2 are one request, sent twice. *)
AllRequested ==
  c1 :> Request("adjust", -1, k1) @@ c2 :> Request("adjust", -1, k1)
    @@ c3 :> Request("adjust", -2, k2) @@ c4 :> Request("update", 3, none)
    @@ c5 :> Request("delete", 0, none) @@ c6 :> Request("create", 1, none)

Requested == [c \in Calls |-> AllRequested[c]]
=============================================================================
