------------------------------ MODULE MachineInt ------------------------------
(* Amounts, balances and quantities are signed machine integers (int64). *)
EXTENDS Integers

CONSTANT IntModulus  \* 2^w for w-bit integers

ASSUME IntModulusAssumption ==
  /\ IntModulus \in Nat \ {0}
  /\ IntModulus % 2 = 0

(* Two's complement: the machine integer that x wraps to. *)
Wrap(x) == ((x + IntModulus \div 2) % IntModulus) - IntModulus \div 2
=============================================================================
