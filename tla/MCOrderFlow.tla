----------------------------- MODULE MCOrderFlow -----------------------------
(* Small instances of OrderFlow: who orders what, in which quantity and how *)
(* it is paid.  The .cfg files choose among them.                           *)
EXTENDS OrderFlow, TLC

CONSTANTS o1, o2, o3, u1, p1, r1, r2

OneUser    == [o \in Orders |-> u1]
OneProduct == [o \in Orders |-> p1]
OneEach    == [o \in Orders |-> 1]
Price3     == [o \in Orders |-> 3]
AllPoint   == [o \in Orders |-> "point"]
AllCard    == [o \in Orders |-> "card"]

(* One order for each case: paid for with the last points, beyond the       *)
(* points, and of an amount, 3 * 50 = 150, that is negative in 8 bits.      *)
OneTwoFifty == [o \in Orders |-> CASE o = o1 -> 1 [] o = o2 -> 2 [] o = o3 -> 50]

Stock1  == p1 :> 1
Stock52 == p1 :> 52

Points0 == u1 :> 0
Points3 == u1 :> 3

(* Bounds on the copies of a record. *)
NoCopies      == [o \in Orders |-> 0]
OneCopy       == [o \in Orders |-> 1]
CopiesOfFirst == [o \in Orders |-> IF o = o1 THEN 1 ELSE 0]

(* For RefusalForgotten.cfg. *)
PointAndCard == [o \in Orders |-> IF o = o1 THEN "point" ELSE "card"]
=============================================================================
