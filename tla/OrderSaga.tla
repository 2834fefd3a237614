------------------------------ MODULE OrderSaga ------------------------------
(***************************************************************************)
(* What the order flow promises whatever is lost, repeated or reordered    *)
(* between the services, in the terms of a customer's order: stock is held *)
(* before money is taken, it is given back only after the payment was      *)
(* declined, an order is paid only with the money taken and the stock      *)
(* held, and it fails only after a refusal.                                *)
(*                                                                         *)
(* A payment may become contested before it is decided, when two services  *)
(* set out to decide it.  Then it may be decided more than once, and its   *)
(* order and its stock follow one of the decisions, not always the same;   *)
(* but no order changes any more once it is paid or has failed.            *)
(***************************************************************************)
CONSTANT Orders

VARIABLES
  order,     \* what the customer sees: none, open, paid, failed
  held,      \* the order's stock: none, held, returned
  charge,    \* the order's payment: none, taken, declined
  refused,   \* orders the inventory has refused at least once
  contested  \* orders whose payment more than one decides about

sagaVars == <<order, held, charge, refused, contested>>

Init ==
  /\ order = [o \in Orders |-> "none"]
  /\ held = [o \in Orders |-> "none"]
  /\ charge = [o \in Orders |-> "none"]
  /\ refused = {}
  /\ contested = {}

Place(o) ==
  /\ order[o] = "none"
  /\ order' = [order EXCEPT ![o] = "open"]
  /\ UNCHANGED <<held, charge, refused, contested>>

Hold(o) ==
  /\ order[o] # "none"
  /\ held[o] = "none"
  /\ held' = [held EXCEPT ![o] = "held"]
  /\ UNCHANGED <<order, charge, refused, contested>>

Refuse(o) ==
  /\ order[o] # "none"
  /\ held[o] = "none"
  /\ refused' = refused \cup {o}
  /\ UNCHANGED <<order, held, charge, contested>>

Undecided(o) == held[o] = "held" /\ charge[o] = "none"

Contest(o) ==
  /\ Undecided(o)
  /\ contested' = contested \cup {o}
  /\ UNCHANGED <<order, held, charge, refused>>

(* The decision about o is this one, or has been, if there were several. *)
Decided(o, outcome) ==
  \/ held[o] = "held" /\ charge[o] = outcome
  \/ o \in contested /\ held[o] # "none" /\ charge[o] # "none"

DecideCharge(o, outcome) ==
  /\ Undecided(o) \/ (o \in contested /\ held[o] # "none")
  /\ charge' = [charge EXCEPT ![o] = outcome]
  /\ UNCHANGED <<order, held, refused, contested>>

GiveBack(o) ==
  /\ held[o] = "held"
  /\ Decided(o, "declined")
  /\ held' = [held EXCEPT ![o] = "returned"]
  /\ UNCHANGED <<order, charge, refused, contested>>

Pay(o) ==
  /\ order[o] = "open"
  /\ Decided(o, "taken")
  /\ order' = [order EXCEPT ![o] = "paid"]
  /\ UNCHANGED <<held, charge, refused, contested>>

Fail(o) ==
  /\ order[o] = "open"
  /\ \/ o \in refused
     \/ charge[o] = "declined"
     \/ o \in contested /\ charge[o] # "none"
  /\ order' = [order EXCEPT ![o] = "failed"]
  /\ UNCHANGED <<held, charge, refused, contested>>

Next ==
  \E o \in Orders :
    \/ Place(o) \/ Hold(o) \/ Refuse(o) \/ Contest(o)
    \/ GiveBack(o) \/ Pay(o) \/ Fail(o)
    \/ \E outcome \in {"taken", "declined"} : DecideCharge(o, outcome)

Spec == Init /\ [][Next]_sagaVars
=============================================================================
