-------------------------- MODULE PointLedgerProofs --------------------------
(***************************************************************************)
(* Proofs about PointLedger for every set of users and calls, any bonus    *)
(* and any width of machine integer, whether or not statements fail.       *)
(***************************************************************************)
EXTENDS PointLedger, TLAPS

(* A wrapped integer is an integer. *)
LEMMA WrapInt ==
  ASSUME NEW x \in Int
  PROVE  Wrap(x) \in Int
<1>1. IntModulus \div 2 \in Int
  BY IntModulusAssumption
<1> DEFINE h == IntModulus \div 2
           y == x + h
<1>2. y \in Int
  BY <1>1
<1>3. y % IntModulus \in Int
  <2> HIDE DEF y
  <2> QED BY <1>2, IntModulusAssumption
<1>4. (y % IntModulus) - h \in Int
  <2> HIDE DEF y, h
  <2>1. h \in Int
    BY <1>1 DEF h
  <2> QED BY <1>3, <2>1
<1> QED BY <1>4 DEF Wrap

LEMMA DeltaInt ==
  ASSUME NEW c \in Calls
  PROVE  User(c) \in Users /\ Delta(c) \in Int
BY PointLedgerAssumption DEF User, Delta, Requests, Ops

(* Appending to a sequence leaves its elements where they are. *)
LEMMA AppendElements ==
  ASSUME NEW S, NEW s \in Seq(S), NEW e \in S
  PROVE  /\ Append(s, e) \in Seq(S)
         /\ Len(s) \in Nat
         /\ Len(Append(s, e)) = Len(s) + 1
         /\ Append(s, e)[Len(s) + 1] = e
         /\ \A i \in 1..Len(s) : Append(s, e)[i] = s[i]
         /\ DOMAIN Append(s, e) = 1..(Len(s) + 1)
         /\ DOMAIN s = 1..Len(s)
         /\ Append(s, e) # <<>>
OBVIOUS

(* The digest and the next entry are what their columns hold. *)
LEMMA NextEntryType ==
  ASSUME NEW u \in Users, NEW s \in Seq(Entries), NEW amount \in Int,
         NEW c \in Calls, NEW before \in Int
  PROVE  NextEntry(u, s, amount, c, before) \in Entries
<1>1. LatestHash(s) \in Digests
  <2>1. CASE s = <<>>
    BY <2>1 DEF LatestHash, GenesisHash, Digests
  <2>2. CASE s # <<>>
    <3>1. s[Len(s)] \in Entries
      BY <2>2
    <3> QED BY <2>2, <3>1 DEF LatestHash, Entries
  <2> QED BY <2>1, <2>2
<1>2. Wrap(before + amount) \in Int /\ Len(s) + 1 \in Nat
  BY WrapInt
<1> DEFINE content == [user |-> u, sequence |-> Len(s) + 1, amount |-> amount, by |-> c,
                       balanceAfter |-> Wrap(before + amount)]
<1>3. content \in Contents
  BY <1>2 DEF Contents
<1>4. Append(LatestHash(s), content) \in Digests
  BY <1>1, <1>3 DEF Digests
<1>5. NextEntry(u, s, amount, c, before)
        = [sequence |-> Len(s) + 1, amount |-> amount, by |-> c,
           balanceAfter |-> Wrap(before + amount), previousHash |-> LatestHash(s),
           hash |-> Append(LatestHash(s), content)]
  BY DEF NextEntry, Entry, Hash
<1> HIDE DEF content
<1> QED BY <1>1, <1>2, <1>4, <1>5 DEF Entries

(* Appending the next entry to a ledger that verifies yields one that does,*)
(* whose latest balance is the entry's.                                    *)
LEMMA NextEntryVerifies ==
  ASSUME NEW u \in Users, NEW s \in Seq(Entries), NEW amount \in Int, NEW c \in Calls,
         ChainVerifies(u, s)
  PROVE  LET e == NextEntry(u, s, amount, c, LatestBalance(s))
         IN  /\ ChainVerifies(u, Append(s, e))
             /\ LatestBalance(Append(s, e)) = e.balanceAfter
<1>0. LatestBalance(s) \in Int
  <2>1. CASE s = <<>>
    BY <2>1 DEF LatestBalance
  <2>2. CASE s # <<>>
    <3>1. s[Len(s)] \in Entries
      BY <2>2
    <3> QED BY <2>2, <3>1 DEF LatestBalance, Entries
  <2> QED BY <2>1, <2>2
<1> DEFINE e == NextEntry(u, s, amount, c, LatestBalance(s))
           t == Append(s, e)
           n == Len(s) + 1
<1>1. e \in Entries
  BY <1>0, NextEntryType
<1>2. /\ e.sequence = n
      /\ e.previousHash = LatestHash(s)
      /\ e.amount = amount
      /\ e.balanceAfter = Wrap(LatestBalance(s) + amount)
      /\ e.hash = Hash(u, e)
  BY DEF NextEntry, Entry, Hash
<1> HIDE DEF e
<1>3. /\ Len(t) = n
      /\ t[n] = e
      /\ \A i \in 1..Len(s) : t[i] = s[i]
      /\ Len(s) \in Nat
      /\ t # <<>>
  BY <1>1, AppendElements
<1> HIDE DEF t
<1>4. ChainVerifies(u, t)
  <2> SUFFICES ASSUME NEW i \in 1..n
               PROVE  /\ t[i].sequence = i
                      /\ t[i].previousHash = IF i = 1 THEN GenesisHash ELSE t[i - 1].hash
                      /\ t[i].balanceAfter
                           = Wrap((IF i = 1 THEN 0 ELSE t[i - 1].balanceAfter) + t[i].amount)
                      /\ t[i].hash = Hash(u, t[i])
    BY <1>3 DEF ChainVerifies
  <2>1. CASE i # n
    <3>1. i \in 1..Len(s) /\ t[i] = s[i]
      BY <1>3, <2>1 DEF n
    <3>2. i # 1 => t[i - 1] = s[i - 1]
      BY <1>3, <3>1
    <3> QED BY <3>1, <3>2 DEF ChainVerifies
  <2>2. CASE i = n
    <3>1. CASE s = <<>>
      <4>1. i = 1
        BY <2>2, <3>1 DEF n
      <4> QED BY <1>2, <1>3, <2>2, <3>1, <4>1 DEF LatestHash, LatestBalance
    <3>2. CASE s # <<>>
      <4>1. i # 1 /\ i - 1 = Len(s) /\ t[i - 1] = s[Len(s)]
        BY <1>3, <2>2, <3>2 DEF n
      <4> QED BY <1>2, <1>3, <2>2, <3>2, <4>1 DEF LatestHash, LatestBalance
    <3> QED BY <3>1, <3>2
  <2> QED BY <2>1, <2>2
<1>5. LatestBalance(t) = e.balanceAfter
  BY <1>3 DEF LatestBalance
<1> QED BY <1>4, <1>5 DEF t, e

-----------------------------------------------------------------------------
(* What is inductive: the committed ledgers verify, and the balance that a *)
(* call holds is the committed one.                                        *)
LedgerInv == TypeOK /\ LedgerVerifies /\ LockProtectsBalance

(* The entry that a committing call appends. *)
LEMMA CommitEntry ==
  ASSUME LedgerInv, NEW c \in Calls, Commit(c)
  PROVE  LET u == User(c)
             e == NextEntry(u, ledger[u], Delta(c), c, LatestBalance(ledger[u]))
         IN  /\ e \in Entries
             /\ e.by = c
             /\ e.balanceAfter \in Nat
             /\ opened' = opened \cup {u}
             /\ balance' = [balance EXCEPT ![u] = e.balanceAfter]
             /\ ledger' = [ledger EXCEPT ![u] = Append(@, e)]
             /\ ledger[u] \in Seq(Entries)
             /\ pc' = [pc EXCEPT ![c] = IF Reads(c) THEN "ready" ELSE "done"]
<1> DEFINE u == User(c)
           e == NextEntry(u, ledger[u], Delta(c), c, LatestBalance(ledger[u]))
<1>1. u \in Users /\ Delta(c) \in Int
  BY DeltaInt
<1>2. ledger[u] \in Seq(Entries) /\ seen[c] \in Nat
  BY <1>1 DEF LedgerInv, TypeOK
<1>3. seen[c] = LatestBalance(ledger[u])
  BY DEF Commit, Verified, AccountMatches
<1>4. e \in Entries
  BY <1>1, <1>2, <1>3, NextEntryType
<1>5. e.by = c /\ e.balanceAfter = Wrap(seen[c] + Delta(c))
  BY <1>3 DEF NextEntry, Entry
<1>6. e.balanceAfter \in Nat
  <2>1. seen[c] + Delta(c) \in Int
    BY <1>1, <1>2
  <2>2. Wrap(seen[c] + Delta(c)) \in Int
    BY <2>1, WrapInt
  <2>3. Wrap(seen[c] + Delta(c)) >= 0
    BY DEF Commit, Sufficient
  <2> QED BY <1>5, <2>2, <2>3
<1> HIDE DEF e
<1>7. /\ opened' = opened \cup {u}
      /\ balance' = [balance EXCEPT ![u] = e.balanceAfter]
      /\ ledger' = [ledger EXCEPT ![u] = Append(@, e)]
      /\ pc' = [pc EXCEPT ![c] = IF Reads(c) THEN "ready" ELSE "done"]
  BY <1>3 DEF Commit, Goto, e
<1> QED BY <1>2, <1>4, <1>5, <1>6, <1>7 DEF e

LEMMA LedgerInit == Init => LedgerInv
<1> SUFFICES ASSUME Init PROVE LedgerInv
  OBVIOUS
<1>1. TypeOK
  BY DEF Init, TypeOK, CallStates
<1>2. LedgerVerifies
  BY DEF Init, LedgerVerifies, ChainVerifies, AccountMatches, LatestBalance
<1>3. LockProtectsBalance
  BY DEF Init, LockProtectsBalance
<1> QED BY <1>1, <1>2, <1>3 DEF LedgerInv

LEMMA TypeStep ==
  ASSUME LedgerInv, [Next]_vars
  PROVE  TypeOK'
<1>0. TypeOK
  BY DEF LedgerInv
<1> USE <1>0 DEF TypeOK, CallStates, Goto
<1>1. CASE UNCHANGED vars
  BY <1>1 DEF vars
<1>2. ASSUME NEW c \in Calls, ReadLedger(c) PROVE TypeOK'
  <2>1. [u \in Users |-> IF u \in Scope(c) THEN ledger[u] ELSE <<>>]
          \in [Users -> Seq(Entries)]
    OBVIOUS
  <2> QED BY <1>2, <2>1 DEF ReadLedger
<1>3. ASSUME NEW c \in Calls, ReadAccounts(c) PROVE TypeOK'
  BY <1>3 DEF ReadAccounts
<1>4. ASSUME NEW c \in Calls, List(c) PROVE TypeOK'
  BY <1>4 DEF List
<1>5. ASSUME NEW c \in Calls, LockAccount(c) PROVE TypeOK'
  BY <1>5, DeltaInt DEF LockAccount
<1>6. ASSUME NEW c \in Calls, CreateAccount(c) PROVE TypeOK'
  <2>1. CASE User(c) \in opened
    BY <1>6, <2>1 DEF CreateAccount
  <2>2. CASE User(c) \notin opened
    <3>1. seen' = [seen EXCEPT ![c] = 0] /\ 0 \in Nat
      BY <1>6, <2>2 DEF CreateAccount
    <3> QED BY <1>6, <2>2, <3>1 DEF CreateAccount
  <2> QED BY <2>1, <2>2
<1>7. ASSUME NEW c \in Calls, Commit(c) PROVE TypeOK'
  <2> DEFINE u == User(c)
             e == NextEntry(u, ledger[u], Delta(c), c, LatestBalance(ledger[u]))
  <2>1. u \in Users
    BY DeltaInt
  <2>2. e \in Entries /\ e.balanceAfter \in Nat
    BY <1>7, CommitEntry
  <2>3. /\ opened' = opened \cup {u}
        /\ balance' = [balance EXCEPT ![u] = e.balanceAfter]
        /\ ledger' = [ledger EXCEPT ![u] = Append(@, e)]
        /\ pc' = [pc EXCEPT ![c] = IF Reads(c) THEN "ready" ELSE "done"]
    BY <1>7, CommitEntry
  <2> HIDE DEF e, u
  <2>4. opened' \subseteq Users /\ balance' \in [Users -> Nat]
    BY <2>1, <2>2, <2>3
  <2>5. ledger' \in [Users -> Seq(Entries)]
    <3>1. Append(ledger[u], e) \in Seq(Entries)
      BY <2>1, <2>2, AppendElements
    <3> QED BY <2>1, <2>3, <3>1
  <2>6. pc' \in [Calls -> CallStates]
    BY <2>3
  <2>7. seen' = seen /\ snapshot' = snapshot /\ credited' \subseteq Calls
    BY <1>7 DEF Commit
  <2> QED BY <2>4, <2>5, <2>6, <2>7
<1>8. ASSUME NEW c \in Calls, Refuse(c) PROVE TypeOK'
  BY <1>8 DEF Refuse
<1>9. ASSUME NEW c \in Calls, Abort(c) PROVE TypeOK'
  BY <1>9 DEF Abort
<1> HIDE DEF TypeOK, CallStates, Goto
<1> QED
  BY <1>1, <1>2, <1>3, <1>4, <1>5, <1>6, <1>7, <1>8, <1>9 DEF Next, Step

LEMMA LedgerStep ==
  ASSUME LedgerInv, [Next]_vars
  PROVE  LedgerVerifies'
<1>0. TypeOK /\ LedgerVerifies
  BY DEF LedgerInv
<1>1. CASE UNCHANGED <<opened, balance, ledger>>
  BY <1>0, <1>1 DEF LedgerVerifies, ChainVerifies, AccountMatches, LatestBalance
<1>2. ASSUME NEW c \in Calls, Commit(c) PROVE LedgerVerifies'
  <2> DEFINE u == User(c)
             e == NextEntry(u, ledger[u], Delta(c), c, LatestBalance(ledger[u]))
             t == Append(ledger[u], e)
  <2>1. u \in Users /\ Delta(c) \in Int
    BY DeltaInt
  <2>2. /\ opened' = opened \cup {u}
        /\ balance' = [balance EXCEPT ![u] = e.balanceAfter]
        /\ ledger' = [ledger EXCEPT ![u] = Append(@, e)]
        /\ e \in Entries
        /\ ledger[u] \in Seq(Entries)
    BY <1>2, CommitEntry
  <2>3. ChainVerifies(u, ledger[u])
    BY <1>0, <2>1 DEF LedgerVerifies
  <2>4. ChainVerifies(u, t) /\ LatestBalance(t) = e.balanceAfter
    BY <2>1, <2>2, <2>3, NextEntryVerifies
  <2> HIDE DEF e, u
  <2>5. balance'[u] = e.balanceAfter /\ ledger'[u] = t /\ u \in opened'
    BY <1>0, <2>1, <2>2 DEF TypeOK
  <2> HIDE DEF t
  <2>6. ASSUME NEW v \in Users, v # u
        PROVE  balance'[v] = balance[v] /\ ledger'[v] = ledger[v]
               /\ (v \in opened' <=> v \in opened)
    BY <1>0, <2>2, <2>6 DEF TypeOK
  <2> SUFFICES ASSUME NEW v \in Users
               PROVE  /\ ChainVerifies(v, ledger'[v])
                      /\ AccountMatches(ledger'[v], v \in opened', balance'[v])
                      /\ v \notin opened' => balance'[v] = 0
    BY DEF LedgerVerifies, ChainVerifies, AccountMatches, LatestBalance
  <2>7. CASE v = u
    BY <2>4, <2>5, <2>7 DEF AccountMatches
  <2>8. CASE v # u
    BY <1>0, <2>6, <2>8 DEF LedgerVerifies, AccountMatches
  <2> QED BY <2>7, <2>8
<1>3. ASSUME NEW c \in Calls, Step(c) \/ Abort(c), ~Commit(c)
      PROVE  UNCHANGED <<opened, balance, ledger>>
  BY <1>3 DEF Step, Abort, ReadLedger, ReadAccounts, List, LockAccount, CreateAccount, Refuse
<1> QED BY <1>1, <1>2, <1>3 DEF Next, vars

LEMMA LockStep ==
  ASSUME LedgerInv, [Next]_vars
  PROVE  LockProtectsBalance'
<1>0. TypeOK /\ LedgerVerifies /\ LockProtectsBalance
  BY DEF LedgerInv
<1>1. ASSUME UNCHANGED <<balance, seen>>,
             \A d \in Calls : pc'[d] = "locked" => pc[d] = "locked"
      PROVE  LockProtectsBalance'
  BY <1>0, <1>1 DEF LockProtectsBalance
<1>2. ASSUME NEW c \in Calls, RowFree(User(c)), pc' = [pc EXCEPT ![c] = "locked"],
             seen' = [seen EXCEPT ![c] = balance[User(c)]], UNCHANGED balance
      PROVE  LockProtectsBalance'
  BY <1>0, <1>2 DEF LockProtectsBalance, RowFree, TypeOK
<1>3. ASSUME NEW c \in Calls, LockAccount(c) PROVE LockProtectsBalance'
  <2>1. CASE User(c) \in opened
    BY <1>2, <1>3, <2>1 DEF LockAccount, Goto
  <2>2. CASE User(c) \notin opened
    BY <1>0, <1>1, <1>3, <2>2 DEF LockAccount, Goto, TypeOK
  <2> QED BY <2>1, <2>2
<1>4. ASSUME NEW c \in Calls, CreateAccount(c) PROVE LockProtectsBalance'
  <2>1. CASE User(c) \in opened
    BY <1>0, <1>1, <1>4, <2>1 DEF CreateAccount, Goto, TypeOK
  <2>2. CASE User(c) \notin opened
    <3>1. balance[User(c)] = 0
      BY <1>0, <2>2, DeltaInt DEF LedgerVerifies
    <3> QED BY <1>2, <1>4, <2>2, <3>1 DEF CreateAccount, Goto
  <2> QED BY <2>1, <2>2
<1>5. ASSUME NEW c \in Calls, Commit(c) PROVE LockProtectsBalance'
  <2>1. /\ \A d \in Calls : pc'[d] = "locked" => pc[d] = "locked" /\ d # c
        /\ seen' = seen
    BY <1>0, <1>5 DEF Commit, Goto, TypeOK
  <2>2. \A d \in Calls : pc'[d] = "locked" => User(d) # User(c)
    BY <1>0, <1>5, <2>1 DEF LockProtectsBalance, Commit
  <2>3. \A v \in Users : v # User(c) => balance'[v] = balance[v]
    BY <1>0, <1>5 DEF Commit, TypeOK
  <2> QED BY <1>0, <2>1, <2>2, <2>3, DeltaInt DEF LockProtectsBalance
<1>6. ASSUME NEW c \in Calls,
             ReadLedger(c) \/ ReadAccounts(c) \/ List(c) \/ Refuse(c) \/ Abort(c)
      PROVE  LockProtectsBalance'
  BY <1>0, <1>1, <1>6 DEF ReadLedger, ReadAccounts, List, Refuse, Abort, Goto, TypeOK
<1>7. CASE UNCHANGED vars
  BY <1>1, <1>7 DEF vars
<1> QED BY <1>3, <1>4, <1>5, <1>6, <1>7 DEF Next, Step

(* Every account and ledger keeps its type: no balance is ever negative,   *)
(* however calls overlap and amounts overflow.                             *)
THEOREM TypeCorrect == Spec => []TypeOK
<1>1. LedgerInv /\ [Next]_vars => LedgerInv'
  BY TypeStep, LedgerStep, LockStep DEF LedgerInv
<1>2. LedgerInv => TypeOK
  BY DEF LedgerInv
<1> QED BY LedgerInit, <1>1, <1>2, PTL DEF Spec

(* The ledger of every user verifies in every state, and its last entry    *)
(* holds the balance of the account: Adjust never breaks the hash chain.   *)
THEOREM LedgerAlwaysVerifies == Spec => []LedgerVerifies
<1>1. LedgerInv /\ [Next]_vars => LedgerInv'
  BY TypeStep, LedgerStep, LockStep DEF LedgerInv
<1>2. LedgerInv => LedgerVerifies
  BY DEF LedgerInv
<1> QED BY LedgerInit, <1>1, <1>2, PTL DEF Spec

(* SELECT ... FOR UPDATE, and the INSERT where there is no row yet, give   *)
(* one call at a time a balance that stays the committed one.              *)
THEOREM LockHolds == Spec => []LockProtectsBalance
<1>1. LedgerInv /\ [Next]_vars => LedgerInv'
  BY TypeStep, LedgerStep, LockStep DEF LedgerInv
<1>2. LedgerInv => LockProtectsBalance
  BY DEF LedgerInv
<1> QED BY LedgerInit, <1>1, <1>2, PTL DEF Spec

-----------------------------------------------------------------------------
(* A call is credited exactly when its entry is in its user's ledger, and  *)
(* a call that only adjusts is done exactly when it is credited.           *)
OnceInv ==
  \A c \in Calls :
    /\ c \in credited <=> EntriesBy(c) # {}
    /\ \A i, j \in EntriesBy(c) : i = j
    /\ ~Reads(c) => (pc[c] = "done" <=> c \in credited)
    /\ pc[c] \in {"adjusting", "missing", "locked", "refused"} => c \notin credited
    /\ pc[c] \in {"reading", "listing"} => Reads(c)

LEMMA OnceInit == Init => OnceInv
BY DeltaInt DEF Init, OnceInv, EntriesBy

(* A step that leaves ledger and credits alone moves a call to the states  *)
(* its credit allows.                                                      *)
LEMMA OnceQuiet ==
  ASSUME LedgerInv, OnceInv, UNCHANGED <<ledger, credited>>,
         \A d \in Calls :
           /\ ~Reads(d) => (pc'[d] = "done" <=> pc[d] = "done")
           /\ pc'[d] \in {"adjusting", "missing", "locked", "refused"} => d \notin credited
           /\ pc'[d] \in {"reading", "listing"} => Reads(d)
  PROVE  OnceInv'
BY DEF OnceInv, EntriesBy

LEMMA OnceCommit ==
  ASSUME LedgerInv, OnceInv, NEW c \in Calls, Commit(c)
  PROVE  OnceInv'
<1> DEFINE u == User(c)
           s == ledger[u]
           e == NextEntry(u, s, Delta(c), c, LatestBalance(s))
           n == Len(s) + 1
<1>1. /\ e \in Entries
      /\ e.by = c
      /\ ledger' = [ledger EXCEPT ![u] = Append(@, e)]
      /\ s \in Seq(Entries)
      /\ pc' = [pc EXCEPT ![c] = IF Reads(c) THEN "ready" ELSE "done"]
  BY CommitEntry
<1>2. credited' = credited \cup {c} /\ c \notin credited
  BY DEF Commit, OnceInv
<1>3. u \in Users /\ \A d \in Calls : User(d) \in Users
  BY DeltaInt
<1> HIDE DEF e
<1>4. /\ ledger'[u] = Append(s, e)
      /\ \A v \in Users : v # u => ledger'[v] = ledger[v]
  BY <1>1, <1>3 DEF LedgerInv, TypeOK
<1>5. /\ DOMAIN ledger'[u] = 1..n
      /\ DOMAIN s = 1..Len(s)
      /\ Len(s) \in Nat
      /\ ledger'[u][n] = e
      /\ \A i \in 1..Len(s) : ledger'[u][i] = s[i]
  BY <1>1, <1>4, AppendElements
<1>6. EntriesBy(c)' = {n}
  <2>1. EntriesBy(c) = {}
    BY <1>2 DEF OnceInv
  <2>2. \A i \in 1..Len(s) : ledger'[u][i].by # c
    BY <1>5, <2>1 DEF EntriesBy
  <2>3. n \in 1..n /\ \A i \in 1..n : i = n \/ i \in 1..Len(s)
    BY <1>5
  <2> QED BY <1>1, <1>5, <2>2, <2>3 DEF EntriesBy
<1>7. ASSUME NEW d \in Calls, d # c PROVE EntriesBy(d)' = EntriesBy(d)
  <2>1. CASE User(d) = u
    <3>1. \A i \in 1..n : i \in 1..Len(s) \/ i = n
      BY <1>5
    <3>2. \A i \in 1..Len(s) : i \in 1..n
      BY <1>5
    <3> HIDE DEF n
    <3> QED BY <1>1, <1>5, <1>7, <2>1, <3>1, <3>2 DEF EntriesBy
  <2>2. CASE User(d) # u
    BY <1>3, <1>4, <2>2 DEF EntriesBy
  <2> QED BY <2>1, <2>2
<1>8. /\ pc'[c] = IF Reads(c) THEN "ready" ELSE "done"
      /\ \A d \in Calls : d # c => pc'[d] = pc[d]
  BY <1>1 DEF LedgerInv, TypeOK
<1> SUFFICES ASSUME NEW d \in Calls
             PROVE  /\ d \in credited' <=> EntriesBy(d)' # {}
                    /\ \A i, j \in EntriesBy(d)' : i = j
                    /\ ~Reads(d) => (pc'[d] = "done" <=> d \in credited')
                    /\ pc'[d] \in {"adjusting", "missing", "locked", "refused"}
                         => d \notin credited'
                    /\ pc'[d] \in {"reading", "listing"} => Reads(d)
  BY DEF OnceInv, Reads
<1>9. CASE d = c
  BY <1>2, <1>6, <1>8, <1>9
<1>10. CASE d # c
  BY <1>2, <1>7, <1>8, <1>10 DEF OnceInv
<1> QED BY <1>9, <1>10

LEMMA OnceStep ==
  ASSUME LedgerInv, OnceInv, [Next]_vars
  PROVE  OnceInv'
<1>0. pc \in [Calls -> CallStates]
  BY DEF LedgerInv, TypeOK
<1> DEFINE Unsettled == {"adjusting", "missing", "locked", "refused"}
<1>1. CASE UNCHANGED vars
  BY <1>1, OnceQuiet DEF vars, OnceInv
<1>2. ASSUME NEW c \in Calls, NEW state, pc' = [pc EXCEPT ![c] = state],
             UNCHANGED <<ledger, credited>>,
             ~Reads(c) => (state = "done" <=> pc[c] = "done"),
             state \in Unsettled => c \notin credited,
             state \in {"reading", "listing"} => Reads(c)
      PROVE  OnceInv'
  BY <1>0, <1>2, OnceQuiet DEF OnceInv
<1>3. ASSUME NEW c \in Calls, ReadLedger(c) PROVE OnceInv'
  BY <1>2, <1>3 DEF ReadLedger, Goto
<1>4. ASSUME NEW c \in Calls, ReadAccounts(c) PROVE OnceInv'
  <2>1. PICK state \in {"listing", "violation"} : Goto(c, state)
    BY <1>4 DEF ReadAccounts
  <2>2. Reads(c)
    BY <1>4 DEF ReadAccounts, OnceInv
  <2> QED BY <1>2, <1>4, <2>1, <2>2 DEF ReadAccounts, Goto
<1>5. ASSUME NEW c \in Calls, List(c) PROVE OnceInv'
  <2>1. Reads(c)
    BY <1>5 DEF List, OnceInv
  <2>2. CASE Goto(c, "adjusting") /\ c \notin credited
    BY <1>2, <1>5, <2>2 DEF List, Goto
  <2>3. CASE Goto(c, "done")
    BY <1>2, <1>5, <2>1, <2>3 DEF List, Goto
  <2> QED BY <1>5, <2>2, <2>3 DEF List
<1>6. ASSUME NEW c \in Calls, LockAccount(c) PROVE OnceInv'
  <2>1. c \notin credited /\ pc[c] # "done"
    BY <1>6 DEF LockAccount, OnceInv
  <2>2. PICK state \in {"locked", "missing"} : Goto(c, state)
    BY <1>6 DEF LockAccount
  <2> QED BY <1>2, <1>6, <2>1, <2>2 DEF LockAccount, Goto
<1>7. ASSUME NEW c \in Calls, CreateAccount(c) PROVE OnceInv'
  <2>1. c \notin credited /\ pc[c] # "done"
    BY <1>7 DEF CreateAccount, OnceInv
  <2>2. PICK state \in {"locked", "failed"} : Goto(c, state)
    BY <1>7 DEF CreateAccount
  <2> QED BY <1>2, <1>7, <2>1, <2>2 DEF CreateAccount, Goto
<1>8. ASSUME NEW c \in Calls, Refuse(c) PROVE OnceInv'
  <2>1. c \notin credited /\ pc[c] # "done"
    BY <1>8 DEF Refuse, OnceInv
  <2>2. PICK state \in {"violation", "refused"} : Goto(c, state)
    BY <1>8 DEF Refuse
  <2> QED BY <1>2, <1>8, <2>1, <2>2 DEF Refuse, Goto
<1>9. ASSUME NEW c \in Calls, Abort(c) PROVE OnceInv'
  BY <1>2, <1>9 DEF Abort, Goto
<1> QED BY <1>1, <1>3, <1>4, <1>5, <1>6, <1>7, <1>8, <1>9, OnceCommit DEF Next, Step

(* An adjustment that was answered with success is in the ledger once; one *)
(* that was refused or failed is not in it.                                *)
THEOREM AnsweredOnce == Spec => []EachAnsweredOnce
<1>1. LedgerInv /\ OnceInv /\ [Next]_vars => LedgerInv' /\ OnceInv'
  BY TypeStep, LedgerStep, LockStep, OnceStep DEF LedgerInv
<1>2. OnceInv => EachAnsweredOnce
  BY DEF OnceInv, EachAnsweredOnce
<1> QED BY LedgerInit, OnceInit, <1>1, <1>2, PTL DEF Spec

-----------------------------------------------------------------------------
(* The book of adjustments. *)
(* Amounts are machine integers, as they are in the requests. *)
AmountsFit ==
  \A c \in Calls : -Delta(c) < IntModulus \div 2 /\ Delta(c) < IntModulus \div 2

LEMMA HalfModulus ==
  \E h \in Nat \ {0} : IntModulus \div 2 = h /\ IntModulus = 2 * h
<1>1. IntModulus \in Nat \ {0} /\ IntModulus % 2 = 0
  BY IntModulusAssumption
<1>2. \A m \in Nat \ {0} : m % 2 = 0 => m \div 2 \in Nat \ {0} /\ m = 2 * (m \div 2)
  OBVIOUS
<1> QED BY <1>1, <1>2

(* A machine integer is itself, and a sum of two natural ones is exact or  *)
(* negative.                                                               *)
LEMMA ModBelow ==
  ASSUME NEW m \in Nat \ {0}, NEW y \in 0 .. m - 1
  PROVE  y % m = y /\ (y + m) % m = y
OBVIOUS

LEMMA WrapSum ==
  ASSUME NEW x \in Nat, NEW d \in Int, x < IntModulus \div 2, d < IntModulus \div 2,
         -d < IntModulus \div 2, Wrap(x + d) >= 0
  PROVE  Wrap(x + d) = x + d /\ x + d >= 0 /\ x + d < IntModulus \div 2
<1>1. PICK h \in Nat \ {0} : IntModulus \div 2 = h /\ IntModulus = 2 * h
  BY HalfModulus
<1> DEFINE y == x + d + h
<1>2. y \in Int /\ y > 0 /\ y < 3 * h /\ x + d \in Int
  BY <1>1
<1>3. Wrap(x + d) = (y % (2 * h)) - h
  BY <1>1 DEF Wrap
<1> HIDE DEF y
<1>4. CASE y < 2 * h
  <2>1. y % (2 * h) = y
    BY <1>2, <1>4, ModBelow
  <2> QED BY <1>1, <1>2, <1>3, <1>4, <2>1 DEF y
<1>5. CASE y >= 2 * h
  <2> DEFINE z == y - 2 * h
  <2>1. z \in 0 .. 2 * h - 1 /\ z < h /\ y = z + 2 * h
    BY <1>2, <1>5
  <2> HIDE DEF z
  <2>2. y % (2 * h) = z
    BY <2>1, ModBelow
  <2> QED BY <1>1, <1>3, <2>1, <2>2
<1> QED BY <1>2, <1>4, <1>5

BalancesFit == \A u \in Users : balance[u] < IntModulus \div 2

(* A committing call adds its amount to the balance, and nothing to it but *)
(* that.                                                                   *)
LEMMA CommitIsAdjust ==
  ASSUME AmountsFit, LedgerInv, OnceInv, BalancesFit, NEW c \in Calls, Commit(c)
  PROVE  Book!Adjust(BookRequest(c)) /\ BalancesFit'
<1> DEFINE u == User(c)
           x == balance[u]
           r == BookRequest(c)
<1>1. u \in Users /\ Delta(c) \in Int
  BY DeltaInt
<1>2. balance \in [Users -> Nat] /\ x \in Nat /\ x < IntModulus \div 2
  BY <1>1 DEF LedgerInv, TypeOK, BalancesFit
<1>3. seen[c] = x
  BY DEF Commit, LedgerInv, LockProtectsBalance
<1>4. balance' = [balance EXCEPT ![u] = Wrap(x + Delta(c))] /\ Wrap(x + Delta(c)) >= 0
  BY <1>3 DEF Commit, Sufficient, NextEntry, Entry
<1>5. /\ Wrap(x + Delta(c)) = x + Delta(c)
      /\ x + Delta(c) >= 0
      /\ x + Delta(c) < IntModulus \div 2
  <2> HIDE DEF x
  <2> QED BY <1>1, <1>2, <1>4, WrapSum DEF AmountsFit
<1>6. balance' = [balance EXCEPT ![u] = balance[u] + Delta(c)]
  BY <1>4, <1>5
<1>7. c \notin credited /\ credited' = credited \cup {c}
  BY DEF Commit, OnceInv
<1>8. r.account = u /\ r.key = c /\ r.amount = Delta(c)
  BY DEF BookRequest
<1>9. \A d \in {BookRequest(b) : b \in credited} : d.key # c
  BY <1>7 DEF BookRequest
<1>10. {BookRequest(b) : b \in credited}' = {BookRequest(b) : b \in credited} \cup {r}
  <2>1. BookRequest(c)' = BookRequest(c) /\ \A b \in credited : BookRequest(b)' = BookRequest(b)
    BY DEF BookRequest, User, Delta
  <2> QED BY <1>7
<1>11. BalancesFit'
  BY <1>1, <1>2, <1>5, <1>6 DEF BalancesFit
<1> HIDE DEF r, u
<1> QED BY <1>5, <1>6, <1>8, <1>9, <1>10, <1>11 DEF Book!Adjust, r

(* Whoever adjusts at the same time, the points of a user change in one    *)
(* step by the amount that was asked for, as PaymentApi has it.            *)
THEOREM AdjustmentsAtomic ==
  ASSUME AmountsFit
  PROVE  Spec => ImplementsBook
<1>1. Init => Book!Init /\ BalancesFit
  <2>1. \E h \in Nat \ {0} : IntModulus \div 2 = h
    BY HalfModulus
  <2> QED BY <2>1 DEF Init, Book!Init, BalancesFit
<1>2. LedgerInv /\ OnceInv /\ BalancesFit /\ [Next]_vars
        => [Book!Next]_(Book!bookVars) /\ BalancesFit'
  <2> SUFFICES ASSUME LedgerInv, OnceInv, BalancesFit, [Next]_vars
               PROVE  (Book!Next \/ UNCHANGED Book!bookVars) /\ BalancesFit'
    OBVIOUS
  <2>1. CASE UNCHANGED <<balance, credited>>
    BY <2>1 DEF Book!bookVars, BalancesFit
  <2>2. ASSUME NEW c \in Calls, Commit(c) PROVE Book!Next /\ BalancesFit'
    BY <2>2, CommitIsAdjust DEF Book!Next
  <2>3. ASSUME NEW c \in Calls, Step(c) \/ Abort(c), ~Commit(c)
        PROVE  UNCHANGED <<balance, credited>>
    BY <2>3 DEF Step, Abort, ReadLedger, ReadAccounts, List, LockAccount, CreateAccount, Refuse
  <2> QED BY <2>1, <2>2, <2>3 DEF Next, vars
<1>3. LedgerInv /\ OnceInv /\ [Next]_vars => LedgerInv' /\ OnceInv'
  BY TypeStep, LedgerStep, LockStep, OnceStep DEF LedgerInv
<1> QED BY LedgerInit, OnceInit, <1>1, <1>2, <1>3, PTL DEF Spec, ImplementsBook, Book!Spec
=============================================================================
