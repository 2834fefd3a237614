--------------------------- MODULE MCPointLedger ---------------------------
(* Small instances of PointLedger: who calls what.  4 bits make 7 the       *)
(* largest balance, so that a credit of 5 and the bonus of 4 overflow.      *)
EXTENDS PointLedger, TLC

CONSTANTS u1, u2, c1, c2, c3, c4

Request(op, user, amount) == [op |-> op, user |-> user, amount |-> amount]

MixedCalls ==
  c1 :> Request("credit", u1, 5) @@ c2 :> Request("debit", u1, 2)
    @@ c3 :> Request("debit", u1, 4) @@ c4 :> Request("getpoints", u1, 1)

(* Instances for NoFalseAlarm and OneWelcomeBonus (README, section 7). *)
CreditAndAudit ==
  c1 :> Request("credit", u2, 5) @@ c2 :> Request("audit", u1, 1)

TwoVisits ==
  c1 :> Request("getpoints", u1, 1) @@ c2 :> Request("getpoints", u1, 1)
=============================================================================
