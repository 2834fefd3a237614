----------------------------- MODULE PointLedger -----------------------------
(***************************************************************************)
(* payment-api: the point accounts and their ledger, a hash chain per      *)
(* user, under concurrent calls.  A call is one request that adjusts or    *)
(* reads points: a credit or debit by itself (CreditPoints, DebitPoints,   *)
(* AdjustAtomic) or inside a payment's or refund's transaction, the        *)
(* GetPoints of bff, which gives a welcome bonus to a user without         *)
(* history, or a listing over every user.                                  *)
(*                                                                         *)
(* PostgreSQL runs at READ COMMITTED: each statement sees what is          *)
(* committed, SELECT ... FOR UPDATE waits for the holder of the row, and   *)
(* an INSERT waits for another one of the same key.                        *)
(***************************************************************************)
EXTENDS MachineInt, Sequences

CONSTANTS
  Users,
  Calls,
  CallOf,        \* the request each call carries
  WelcomeBonus,  \* welcomeBonusPoints
  MayFail        \* a statement or its connection may fail

Ops      == {"credit", "debit", "getpoints", "audit"}
Requests == [op : Ops, user : Users, amount : Nat \ {0}]

ASSUME PointLedgerAssumption ==
  /\ CallOf \in [Calls -> Requests]
  /\ WelcomeBonus \in Nat \ {0}
  /\ MayFail \in BOOLEAN

VARIABLES
  opened,    \* users with a committed row in point_accounts
  balance,   \* point_accounts.balance, 0 without a row
  ledger,    \* point_transactions per user, in chain_sequence order
  pc,        \* where each call is
  seen,      \* the balance a call read when it locked the account
  snapshot,  \* the ledgers a call read at the start of VerifyChain
  credited   \* calls whose adjustment is committed

vars == <<opened, balance, ledger, pc, seen, snapshot, credited>>

CallStates ==
  {"ready", "reading", "listing", "adjusting", "missing", "locked",
   "done", "refused", "violation", "failed"}

User(c)    == CallOf[c].user
Reads(c)   == CallOf[c].op \in {"getpoints", "audit"}
Scope(c)   == IF CallOf[c].op = "audit" THEN Users ELSE {User(c)}

(* The amount of the adjustment: a debit is a negative one. *)
Delta(c) ==
  CASE CallOf[c].op = "debit"     -> -CallOf[c].amount
    [] CallOf[c].op = "getpoints" -> WelcomeBonus
    [] OTHER                      -> CallOf[c].amount

-----------------------------------------------------------------------------
(* pointchain.  The digest is ideal: it stands for everything hashed into   *)
(* it, the entry's fields and, through the previous digest, those of the   *)
(* entries before.                                                         *)
Contents == [user : Users, sequence : Nat, amount : Int, by : Calls, balanceAfter : Int]
Digests  == Seq(Contents)
Entries  == [sequence : Nat, amount : Int, by : Calls, balanceAfter : Int,
             previousHash : Digests, hash : Digests]

GenesisHash == <<>>

Hash(u, e) ==
  Append(e.previousHash, [user |-> u, sequence |-> e.sequence, amount |-> e.amount,
                          by |-> e.by, balanceAfter |-> e.balanceAfter])

LatestHash(s)    == IF s = <<>> THEN GenesisHash ELSE s[Len(s)].hash
LatestBalance(s) == IF s = <<>> THEN 0 ELSE s[Len(s)].balanceAfter

Entry(u, sequence, amount, c, after, previous) ==
  LET e == [sequence |-> sequence, amount |-> amount, by |-> c,
            balanceAfter |-> after, previousHash |-> previous]
  IN  [sequence |-> sequence, amount |-> amount, by |-> c, balanceAfter |-> after,
       previousHash |-> previous, hash |-> Hash(u, e)]

\* Mutant: the chain is not continued.
NextEntryUnlinked(u, s, amount, c, before) ==
  Entry(u, Len(s) + 1, amount, c, Wrap(before + amount), GenesisHash)

(* The entry that Adjust appends to s; by is its reason or payment id. *)
NextEntry(u, s, amount, c, before) ==
  Entry(u, Len(s) + 1, amount, c, Wrap(before + amount), LatestHash(s))

(* Verify: order, links, balances and digests of one user's entries. *)
ChainVerifies(u, s) ==
  \A i \in 1..Len(s) :
    /\ s[i].sequence = i
    /\ s[i].previousHash = IF i = 1 THEN GenesisHash ELSE s[i - 1].hash
    /\ s[i].balanceAfter
         = Wrap((IF i = 1 THEN 0 ELSE s[i - 1].balanceAfter) + s[i].amount)
    /\ s[i].hash = Hash(u, s[i])

(* VerifyChain: the entries read first, then the accounts, which must      *)
(* exist for every ledger and hold its latest balance.                     *)
AccountMatches(s, exists, amount) ==
  /\ exists => amount = LatestBalance(s)
  /\ s # <<>> => exists

-----------------------------------------------------------------------------
Init ==
  /\ opened = {}
  /\ balance = [u \in Users |-> 0]
  /\ ledger = [u \in Users |-> <<>>]
  /\ pc = [c \in Calls |-> "ready"]
  /\ seen = [c \in Calls |-> 0]
  /\ snapshot = [c \in Calls |-> [u \in Users |-> <<>>]]
  /\ credited = {}

Goto(c, state) == pc' = [pc EXCEPT ![c] = state]

\* Mutant: nobody waits for the row.
RowFreeAlways(u) == TRUE

(* The row of u is locked, or inserted but not committed, by no call. *)
RowFree(u) == \A c \in Calls : ~(pc[c] = "locked" /\ User(c) = u)

(* ListTransactions: VerifyChain reads the ledger ... *)
ReadLedger(c) ==
  /\ pc[c] = "ready"
  /\ Reads(c)
  /\ snapshot' = [snapshot EXCEPT ![c] = [u \in Users |->
                    IF u \in Scope(c) THEN ledger[u] ELSE <<>>]]
  /\ Goto(c, "reading")
  /\ UNCHANGED <<opened, balance, ledger, seen, credited>>

(* ... and then, in a statement of its own, the accounts. *)
ReadAccounts(c) ==
  /\ pc[c] = "reading"
  /\ IF \A u \in Scope(c) : /\ ChainVerifies(u, snapshot[c][u])
                            /\ AccountMatches(snapshot[c][u], u \in opened, balance[u])
     THEN Goto(c, "listing")
     ELSE Goto(c, "violation")
  /\ UNCHANGED <<opened, balance, ledger, seen, snapshot, credited>>

(* The entries are read once more for the answer.  GetPoints gives the     *)
(* bonus when there are none, and lists them again afterwards.             *)
List(c) ==
  /\ pc[c] = "listing"
  /\ IF /\ CallOf[c].op = "getpoints"
        /\ c \notin credited
        /\ ledger[User(c)] = <<>>
     THEN Goto(c, "adjusting")
     ELSE Goto(c, "done")
  /\ UNCHANGED <<opened, balance, ledger, seen, snapshot, credited>>

(* Adjust, SELECT ... FOR UPDATE: the row is locked, or does not exist. *)
LockAccount(c) ==
  /\ \/ pc[c] = "ready" /\ ~Reads(c)
     \/ pc[c] = "adjusting"
  /\ IF User(c) \in opened
     THEN /\ RowFree(User(c))
          /\ seen' = [seen EXCEPT ![c] = balance[User(c)]]
          /\ Goto(c, "locked")
     ELSE Goto(c, "missing") /\ UNCHANGED seen
  /\ UNCHANGED <<opened, balance, ledger, snapshot, credited>>

(* The INSERT of the account waits for another one, and fails if that one  *)
(* was committed in between.                                               *)
CreateAccount(c) ==
  /\ pc[c] = "missing"
  /\ RowFree(User(c))
  /\ IF User(c) \in opened
     THEN Goto(c, "failed") /\ UNCHANGED seen
     ELSE Goto(c, "locked") /\ seen' = [seen EXCEPT ![c] = 0]
  /\ UNCHANGED <<opened, balance, ledger, snapshot, credited>>

(* The rest of the transaction, with the row held: verify, check, update,  *)
(* append, commit; or roll back.                                           *)
Verified(c) ==
  /\ ChainVerifies(User(c), ledger[User(c)])
  /\ AccountMatches(ledger[User(c)], TRUE, seen[c])

Sufficient(c) == Wrap(seen[c] + Delta(c)) >= 0

Commit(c) ==
  LET u == User(c)
      e == NextEntry(u, ledger[u], Delta(c), c, seen[c])
  IN  /\ pc[c] = "locked"
      /\ Verified(c)
      /\ Sufficient(c)
      /\ opened' = opened \cup {u}
      /\ balance' = [balance EXCEPT ![u] = e.balanceAfter]
      /\ ledger' = [ledger EXCEPT ![u] = Append(@, e)]
      /\ credited' = credited \cup {c}
      /\ Goto(c, IF Reads(c) THEN "ready" ELSE "done")
      /\ UNCHANGED <<seen, snapshot>>

Refuse(c) ==
  /\ pc[c] = "locked"
  /\ \/ ~Verified(c) /\ Goto(c, "violation")
     \/ Verified(c) /\ ~Sufficient(c) /\ Goto(c, "refused")
  /\ UNCHANGED <<opened, balance, ledger, seen, snapshot, credited>>

(* A statement fails: the transaction rolls back and the call ends. *)
Abort(c) ==
  /\ MayFail
  /\ pc[c] \in {"reading", "listing", "adjusting", "missing", "locked"}
  /\ Goto(c, "failed")
  /\ UNCHANGED <<opened, balance, ledger, seen, snapshot, credited>>

Step(c) ==
  \/ ReadLedger(c)
  \/ ReadAccounts(c)
  \/ List(c)
  \/ LockAccount(c)
  \/ CreateAccount(c)
  \/ Commit(c)
  \/ Refuse(c)

Next == \E c \in Calls : Step(c) \/ Abort(c)

Spec == Init /\ [][Next]_vars

-----------------------------------------------------------------------------
(* Every variable keeps its type; in particular no balance is negative. *)
TypeOK ==
  /\ opened \subseteq Users
  /\ balance \in [Users -> Nat]
  /\ ledger \in [Users -> Seq(Entries)]
  /\ pc \in [Calls -> CallStates]
  /\ seen \in [Calls -> Nat]
  /\ snapshot \in [Calls -> [Users -> Seq(Entries)]]
  /\ credited \subseteq Calls

(* Whoever adjusts at the same time, the committed ledger of every user    *)
(* verifies and its latest balance is the account's.                       *)
LedgerVerifies ==
  \A u \in Users :
    /\ ChainVerifies(u, ledger[u])
    /\ AccountMatches(ledger[u], u \in opened, balance[u])
    /\ u \notin opened => balance[u] = 0

(* The lock of Adjust does what it is for: one call at a time holds a      *)
(* user's row, and the balance it has read is still the committed one.     *)
LockProtectsBalance ==
  \A c \in Calls : pc[c] = "locked" =>
    /\ seen[c] = balance[User(c)]
    /\ \A d \in Calls : pc[d] = "locked" /\ User(d) = User(c) => d = c

(* An adjustment that was answered with success is in the ledger exactly   *)
(* once, one that was refused or failed is not in it at all.               *)
EntriesBy(c) == {i \in DOMAIN ledger[User(c)] : ledger[User(c)][i].by = c}

EachAnsweredOnce ==
  \A c \in Calls :
    /\ pc[c] = "done" /\ ~Reads(c) => EntriesBy(c) # {}
    /\ pc[c] = "refused" => EntriesBy(c) = {}
    /\ pc[c] = "failed" /\ ~Reads(c) => EntriesBy(c) = {}
    /\ \A i, j \in EntriesBy(c) : i = j

(* No call meets a ledger that does not verify: nobody can tamper with it. *)
(* A listing beside an adjustment does (README, section 7).                *)
NoFalseAlarm == \A c \in Calls : pc[c] # "violation"

(* A user gets the welcome bonus once; two first visits at once both get   *)
(* it (README, section 7).                                                 *)
OneWelcomeBonus ==
  \A c, d \in credited :
    CallOf[c].op = "getpoints" /\ CallOf[d].op = "getpoints" /\ User(c) = User(d) => c = d

-----------------------------------------------------------------------------
(* The concurrent calls implement the book, each of them one adjustment of *)
(* its user's points: an amount that no machine integer can hold is        *)
(* refused, and none is lost.                                              *)
BookRequest(c) == [account |-> User(c), key |-> c, amount |-> Delta(c)]

Book == INSTANCE AdjustmentBook WITH
  Opening <- [u \in Users |-> 0], Requests <- {BookRequest(c) : c \in Calls},
  quantity <- balance, done <- {BookRequest(c) : c \in credited}

ImplementsBook == Book!Spec
=============================================================================
