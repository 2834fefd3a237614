------------------------- MODULE InventoryStoreProofs -------------------------
(***************************************************************************)
(* Proofs about InventoryStore for every set of calls and keys, all        *)
(* amounts and stocks, with or without a row, whether or not statements    *)
(* fail; those about the ledger for adjustments only.                      *)
(***************************************************************************)
EXTENDS InventoryStore, TLAPS

OnlyAdjustments == \A c \in Calls : Op(c) = "adjust"

LEMMA RequestTypes ==
  ASSUME NEW c \in Calls
  PROVE  /\ Amount(c) \in Int
         /\ Key(c) \in Keys
         /\ Op(c) \in {"create", "update"} => Amount(c) \in Nat
BY InventoryStoreAssumption DEF Amount, Key, Op, Requests, Ops

LEMMA NewRowType ==
  ASSUME NEW c \in Calls \cup {First}, NEW quantity \in Nat
  PROVE  NewRow(c, quantity) \in Rows /\ IsRow(NewRow(c, quantity))
BY DEF NewRow, Rows, IsRow

LEMMA AdjustedRowType ==
  ASSUME NEW r \in Rows, NEW amount \in Int, r.quantity + amount >= 0
  PROVE  /\ AdjustedRow(r, amount) \in Rows
         /\ AdjustedRow(r, amount).id = r.id
         /\ AdjustedRow(r, amount).quantity = r.quantity + amount
         /\ AdjustedRow(r, amount).version = r.version + 1
         /\ IsRow(AdjustedRow(r, amount))
BY DEF AdjustedRow, Rows, IsRow

LEMMA AppendElements ==
  ASSUME NEW S, NEW s \in Seq(S), NEW e \in S
  PROVE  /\ Append(s, e) \in Seq(S)
         /\ Len(s) \in Nat
         /\ Len(Append(s, e)) = Len(s) + 1
         /\ Append(s, e)[Len(s) + 1] = e
         /\ \A i \in 1..Len(s) : Append(s, e)[i] = s[i]
         /\ DOMAIN Append(s, e) = 1..(Len(s) + 1)
         /\ DOMAIN s = 1..Len(s)
OBVIOUS

(* Whoever holds the row has read it as it is, or is inserting it. *)
LockInv ==
  \A c \in Calls : pc[c] = "locked" =>
    /\ seen[c] = IF IsRow(row) THEN row ELSE NewRow(c, DefaultStock)
    /\ \A d \in Calls : pc[d] = "locked" => d = c

(* Without administration the row stays once it is there. *)
RowStays == ~IsRow(row) => ledger = <<>> /\ ~RowExists

OnlyUpdatesSave == \A c \in Calls : pc[c] = "saving" => Op(c) = "update"

StoreInv == TypeOK /\ LockInv /\ KeyMovesStockOnce /\ OnlyUpdatesSave

LedgerInv == RowStays /\ LedgerExplainsRow

LEMMA StoreInit == Init => StoreInv
<1> SUFFICES ASSUME Init PROVE StoreInv
  OBVIOUS
<1>1. NoRow \in Rows
  BY DEF NoRow, Rows
<1>2. row \in Rows
  BY <1>1, NewRowType, InventoryStoreAssumption DEF Init
<1>3. ledger = <<>> /\ DOMAIN ledger = {} /\ ledger \in Seq(Entries)
  BY DEF Init
<1> QED BY <1>1, <1>2, <1>3
        DEF Init, StoreInv, TypeOK, LockInv, KeyMovesStockOnce, OnlyUpdatesSave, CallStates

(* A call that moves, and may read the row. *)
LEMMA MoveKeepsInv ==
  ASSUME StoreInv, NEW c \in Calls, NEW state \in CallStates, Goto(c, state),
         UNCHANGED <<row, ledger>>,
         state = "saving" => Op(c) = "update",
         \/ seen' = seen /\ state # "locked"
         \/ IsRow(row) /\ seen' = [seen EXCEPT ![c] = row] /\ pc[c] # "locked"
            /\ (state = "locked" => RowFree)
         \/ ~IsRow(row) /\ seen' = [seen EXCEPT ![c] = NewRow(c, DefaultStock)] /\ RowFree
  PROVE  StoreInv'
<1>1. /\ pc \in [Calls -> CallStates]
      /\ seen \in [Calls -> Rows]
      /\ row \in Rows
  BY DEF StoreInv, TypeOK
<1>2. NewRow(c, DefaultStock) \in Rows
  BY NewRowType, InventoryStoreAssumption
<1>3. \A d \in Calls : pc'[d] = IF d = c THEN state ELSE pc[d]
  BY <1>1 DEF Goto
<1>4. \A d \in Calls \ {c} : seen'[d] = seen[d]
  BY <1>1
<1>5. TypeOK'
  <2>1. seen' \in [Calls -> Rows]
    BY <1>1, <1>2
  <2>2. pc' \in [Calls -> CallStates]
    BY <1>1 DEF Goto
  <2> QED BY <2>1, <2>2 DEF StoreInv, TypeOK
<1>6. LockInv'
  <2>1. CASE state # "locked"
    BY <1>3, <1>4, <2>1 DEF StoreInv, LockInv
  <2>2. CASE state = "locked"
    <3>1. \A d \in Calls : pc'[d] = "locked" => d = c
      BY <1>3, <2>2 DEF RowFree
    <3>2. seen'[c] = IF IsRow(row) THEN row ELSE NewRow(c, DefaultStock)
      BY <1>1, <2>2
    <3> QED BY <3>1, <3>2 DEF LockInv
  <2> QED BY <2>1, <2>2
<1>7. KeyMovesStockOnce'
  BY DEF StoreInv, KeyMovesStockOnce
<1>8. OnlyUpdatesSave'
  BY <1>3 DEF StoreInv, OnlyUpdatesSave
<1> QED BY <1>5, <1>6, <1>7, <1>8 DEF StoreInv

(* A call that ends and changes the row while nobody holds it. *)
LEMMA WriteKeepsInv ==
  ASSUME StoreInv, NEW c \in Calls, NEW state \in Ended, Goto(c, state),
         UNCHANGED <<ledger, seen>>, row' \in Rows,
         RowFree \/ (~IsRow(row) /\ ~IsRow(row'))
  PROVE  StoreInv'
<1>1. pc \in [Calls -> CallStates] /\ state \in CallStates /\ state # "locked"
  BY DEF StoreInv, TypeOK, Ended, CallStates
<1>2. \A d \in Calls : pc'[d] = IF d = c THEN state ELSE pc[d]
  BY <1>1 DEF Goto
<1>3. TypeOK'
  BY <1>1 DEF StoreInv, TypeOK, Goto
<1>4. LockInv'
  BY <1>1, <1>2 DEF StoreInv, LockInv, RowFree
<1>5. KeyMovesStockOnce'
  BY DEF StoreInv, KeyMovesStockOnce
<1>6. OnlyUpdatesSave'
  BY <1>2 DEF StoreInv, OnlyUpdatesSave, Ended
<1> QED BY <1>3, <1>4, <1>5, <1>6 DEF StoreInv

(* What a commit does, as far as the invariants need it. *)
LEMMA CommitEffect ==
  ASSUME StoreInv, NEW c \in Calls, Commit(c)
  PROVE  /\ row' \in Rows /\ IsRow(row')
         /\ row'.id = seen[c].id
         /\ row'.quantity = seen[c].quantity + Amount(c)
         /\ row'.version = seen[c].version + 1
         /\ seen[c] = IF IsRow(row) THEN row ELSE NewRow(c, DefaultStock)
         /\ \A d \in Calls : pc'[d] # "locked"
<1>1. pc \in [Calls -> CallStates] /\ seen \in [Calls -> Rows]
  BY DEF StoreInv, TypeOK
<1>2. seen[c] \in Rows /\ Amount(c) \in Int
  BY <1>1, RequestTypes
<1>3. row' = AdjustedRow(seen[c], Amount(c)) /\ seen[c].quantity + Amount(c) >= 0
  BY DEF Commit, Enough
<1>4. \A d \in Calls : pc'[d] # "locked"
  BY <1>1 DEF Commit, Goto, StoreInv, LockInv
<1> QED BY <1>2, <1>3, <1>4, AdjustedRowType DEF Commit, StoreInv, LockInv

LEMMA CommitKeepsInv ==
  ASSUME StoreInv, NEW c \in Calls, Commit(c)
  PROVE  StoreInv'
<1>1. pc \in [Calls -> CallStates] /\ ledger \in Seq(Entries)
  BY DEF StoreInv, TypeOK
<1> DEFINE e == [key |-> Key(c), amount |-> Amount(c), quantityAfter |-> row'.quantity]
<1>2. ledger' = Append(ledger, e)
  BY DEF Commit
<1>3. e \in Entries
  BY CommitEffect, RequestTypes DEF Entries, Rows
<1> HIDE DEF e
<1>4. TypeOK'
  <2>1. pc' \in [Calls -> CallStates]
    BY <1>1 DEF Commit, Goto, CallStates
  <2> QED BY <1>1, <1>2, <1>3, <2>1, CommitEffect, AppendElements DEF StoreInv, TypeOK, Commit
<1>5. LockInv'
  BY CommitEffect DEF LockInv
<1>6. KeyMovesStockOnce'
  <2>1. \A i \in 1..Len(ledger) : ledger[i].key # e.key
    BY <1>1, <1>3, AppendElements DEF Commit, Unique, KeyRecorded, e
  <2> QED BY <1>1, <1>2, <1>3, <2>1, AppendElements DEF StoreInv, KeyMovesStockOnce
<1>7. OnlyUpdatesSave'
  BY <1>1 DEF Commit, Goto, StoreInv, OnlyUpdatesSave
<1> QED BY <1>4, <1>5, <1>6, <1>7 DEF StoreInv

LEMMA StoreStep ==
  ASSUME StoreInv, [Next]_vars
  PROVE  StoreInv'
<1>1. CASE UNCHANGED vars
  BY <1>1 DEF vars, StoreInv, TypeOK, LockInv, KeyMovesStockOnce,
           OnlyUpdatesSave
<1>2. ASSUME NEW c \in Calls, FindKey(c) PROVE StoreInv'
  <2>1. PICK state \in {"locking", "replayed", "missing"} : Goto(c, state)
    BY <1>2 DEF FindKey
  <2> QED BY <1>2, <2>1, MoveKeepsInv DEF FindKey, CallStates
<1>3. ASSUME NEW c \in Calls, LockRow(c) PROVE StoreInv'
  BY <1>3, MoveKeepsInv DEF LockRow, CallStates
<1>4. ASSUME NEW c \in Calls, InsertRow(c) PROVE StoreInv'
  BY <1>4, MoveKeepsInv DEF InsertRow, CallStates
<1>5. ASSUME NEW c \in Calls, RelockRow(c) PROVE StoreInv'
  BY <1>5, MoveKeepsInv DEF RelockRow, CallStates
<1>6. ASSUME NEW c \in Calls, Commit(c) PROVE StoreInv'
  BY <1>6, CommitKeepsInv
<1>7. ASSUME NEW c \in Calls, Refuse(c) PROVE StoreInv'
  BY <1>7, MoveKeepsInv DEF Refuse, CallStates
<1>8. ASSUME NEW c \in Calls, CreateRow(c) PROVE StoreInv'
  <2>1. PICK state \in {"done", "failed"} : Goto(c, state)
    BY <1>8 DEF CreateRow
  <2>2. row' \in Rows
    BY <1>8, NewRowType, RequestTypes DEF CreateRow, StoreInv, TypeOK
  <2> QED BY <1>8, <2>1, <2>2, WriteKeepsInv DEF CreateRow, Ended
<1>9. ASSUME NEW c \in Calls, DeleteRow(c) PROVE StoreInv'
  <2>1. row' \in Rows /\ ~IsRow(row')
    BY <1>9 DEF DeleteRow, NoRow, Rows, IsRow
  <2> QED BY <1>9, <2>1, WriteKeepsInv DEF DeleteRow, Ended
<1>10. ASSUME NEW c \in Calls, ReadRow(c) PROVE StoreInv'
  BY <1>10, MoveKeepsInv DEF ReadRow, CallStates
<1>11. ASSUME NEW c \in Calls, SaveRow(c) PROVE StoreInv'
  <2>1. PICK state \in {"done", "failed"} : Goto(c, state)
    BY <1>11 DEF SaveRow
  <2>2. seen[c] \in Rows /\ Amount(c) \in Nat
    BY <1>11, RequestTypes DEF SaveRow, StoreInv, TypeOK, OnlyUpdatesSave
  <2>3. SavedRow(seen[c], Amount(c)) \in Rows
    BY <2>2 DEF SavedRow, Rows
  <2>4. row' \in Rows
    BY <1>11, <2>3 DEF SaveRow, StoreInv, TypeOK
  <2> QED BY <1>11, <2>1, <2>4, WriteKeepsInv DEF SaveRow, Ended
<1>12. ASSUME NEW c \in Calls, Abort(c) PROVE StoreInv'
  BY <1>12, MoveKeepsInv DEF Abort, CallStates
<1> QED BY <1>1, <1>2, <1>3, <1>4, <1>5, <1>6, <1>7, <1>8, <1>9, <1>10, <1>11, <1>12
        DEF Next, Step

(* Every variable keeps its type: no stock is ever negative. *)
THEOREM TypeCorrect == Spec => []TypeOK
<1>1. StoreInv => TypeOK
  BY DEF StoreInv
<1> QED BY StoreInit, StoreStep, <1>1, PTL DEF Spec

(* Whoever calls with a key and how often, it moves the stock once. *)
THEOREM KeysMoveOnce == Spec => []KeyMovesStockOnce
<1>1. StoreInv => KeyMovesStockOnce
  BY DEF StoreInv
<1> QED BY StoreInit, StoreStep, <1>1, PTL DEF Spec

(* Whatever else is going on, an adjustment adds to the row there is. *)
THEOREM AdjustmentsContinue == Spec => AdjustsCurrentRow
<1> DEFINE Continues ==
             ledger' # ledger =>
               LET e == ledger'[Len(ledger')]
               IN  /\ row'.quantity = StockBefore + e.amount
                   /\ e.quantityAfter = row'.quantity
<1>1. ASSUME StoreInv, NEW c \in Calls, Commit(c)
      PROVE  Continues
  <2> DEFINE e == [key |-> Key(c), amount |-> Amount(c), quantityAfter |-> row'.quantity]
  <2>1. ledger \in Seq(Entries) /\ ledger' = Append(ledger, e)
    BY <1>1 DEF Commit, StoreInv, TypeOK
  <2>2. e \in Entries
    BY <1>1, CommitEffect, RequestTypes DEF Entries, Rows
  <2>3. ledger'[Len(ledger')] = e
    BY <2>1, <2>2, AppendElements
  <2>4. seen[c].quantity = StockBefore
    <3>1. seen[c] = IF IsRow(row) THEN row ELSE NewRow(c, DefaultStock)
      BY <1>1, CommitEffect
    <3>2. NewRow(c, DefaultStock).quantity = DefaultStock
      BY DEF NewRow
    <3> QED BY <3>1, <3>2 DEF StockBefore
  <2>5. row'.quantity = seen[c].quantity + Amount(c)
    BY <1>1, CommitEffect
  <2> QED BY <2>3, <2>4, <2>5
<1>2. ASSUME NEW c \in Calls, Step(c) \/ Abort(c), ~Commit(c)
      PROVE  ledger' = ledger
  BY <1>2 DEF Step, FindKey, LockRow, InsertRow, RelockRow, Refuse, CreateRow,
              DeleteRow, ReadRow, SaveRow, Abort
<1>3. StoreInv /\ [Next]_vars => Continues
  BY <1>1, <1>2 DEF Next, vars
<1>4. StoreInv /\ [Next]_vars => [Continues]_vars
  BY <1>3
<1> QED BY StoreInit, StoreStep, <1>4, PTL DEF Spec, AdjustsCurrentRow

-----------------------------------------------------------------------------
(* Without administration only a commit changes the row or the ledger. *)
LEMMA OnlyCommitWrites ==
  ASSUME OnlyAdjustments, StoreInv, [Next]_vars
  PROVE  \/ UNCHANGED <<row, ledger>>
         \/ \E c \in Calls : Commit(c)
<1>1. ASSUME NEW c \in Calls, Step(c) \/ Abort(c), ~Commit(c)
      PROVE  UNCHANGED <<row, ledger>>
  <2>1. Op(c) = "adjust" /\ pc[c] # "saving"
    BY DEF OnlyAdjustments, StoreInv, OnlyUpdatesSave
  <2> QED BY <1>1, <2>1 DEF Step, FindKey, LockRow, InsertRow, RelockRow, Refuse, CreateRow,
                            DeleteRow, ReadRow, SaveRow, Abort
<1> QED BY <1>1 DEF Next, vars

LEMMA LedgerInit == Init => LedgerInv
<1> SUFFICES ASSUME Init PROVE LedgerInv
  OBVIOUS
<1>1. ledger = <<>> /\ DOMAIN ledger = {} /\ Len(ledger) = 0
  BY DEF Init
<1>2. RowStays
  BY <1>1, NewRowType, InventoryStoreAssumption DEF RowStays, Init
<1>3. IsRow(row) => row.quantity = InitialStock /\ RowExists
  BY DEF Init, NewRow, NoRow, IsRow
<1> QED BY <1>1, <1>2, <1>3 DEF LedgerInv, LedgerExplainsRow, QuantityAt, BaseStock

LEMMA LedgerStep ==
  ASSUME OnlyAdjustments, StoreInv, LedgerInv, [Next]_vars
  PROVE  LedgerInv'
<1>1. CASE UNCHANGED <<row, ledger>>
  BY <1>1 DEF LedgerInv, RowStays, LedgerExplainsRow, QuantityAt
<1>2. ASSUME NEW c \in Calls, Commit(c) PROVE LedgerInv'
  <2> DEFINE e == [key |-> Key(c), amount |-> Amount(c), quantityAfter |-> row'.quantity]
  <2>0. PICK n \in Nat : n = Len(ledger)
    BY AppendElements DEF StoreInv, TypeOK
  <2>1. ledger \in Seq(Entries) /\ ledger' = Append(ledger, e)
    BY <1>2 DEF Commit, StoreInv, TypeOK
  <2>2. IsRow(row') /\ row' \in Rows
    BY <1>2, CommitEffect
  <2>3. seen[c].quantity = QuantityAt(n)
    <3>1. CASE IsRow(row)
      BY <1>2, <2>0, <3>1, CommitEffect DEF LedgerInv, LedgerExplainsRow
    <3>2. CASE ~IsRow(row)
      <4>1. ledger = <<>> /\ n = 0
        BY <2>0, <3>2 DEF LedgerInv, RowStays
      <4>2. seen[c] = NewRow(c, DefaultStock)
        BY <1>2, <3>2, CommitEffect
      <4>3. ~RowExists
        BY <3>2 DEF LedgerInv, RowStays
      <4> QED BY <4>1, <4>2, <4>3 DEF QuantityAt, BaseStock, NewRow
    <3> QED BY <3>1, <3>2
  <2>4. e \in Entries /\ e.quantityAfter = QuantityAt(n) + e.amount
    BY <1>2, <2>2, <2>3, CommitEffect, RequestTypes DEF Entries, Rows
  <2>5. row'.quantity = e.quantityAfter
    OBVIOUS
  <2> HIDE DEF e
  <2>6. /\ n \in Nat
        /\ Len(ledger') = n + 1
        /\ DOMAIN ledger' = 1..(n + 1)
        /\ DOMAIN ledger = 1..n
        /\ ledger'[n + 1] = e
        /\ \A i \in 1..n : ledger'[i] = ledger[i]
    BY <2>0, <2>1, <2>4, AppendElements
  <2>7. \A i \in 0..n : QuantityAt(i)' = QuantityAt(i)
    BY <2>6 DEF QuantityAt, BaseStock
  <2>8. QuantityAt(n + 1)' = e.quantityAfter
    BY <2>6 DEF QuantityAt
  <2>9. ASSUME NEW i \in 1..(n + 1)
        PROVE  ledger'[i].quantityAfter = QuantityAt(i - 1)' + ledger'[i].amount
    <3>1. i - 1 \in 0..n /\ (i = n + 1 \/ i \in 1..n)
      BY <2>6
    <3>2. CASE i = n + 1
      <4>1. ledger'[i] = e /\ QuantityAt(i - 1)' = QuantityAt(n)
        BY <2>6, <2>7, <3>2
      <4> QED BY <2>4, <4>1
    <3>3. CASE i \in 1..n
      <4>1. ledger'[i] = ledger[i] /\ QuantityAt(i - 1)' = QuantityAt(i - 1)
        BY <2>6, <2>7, <3>1, <3>3
      <4>2. ledger[i].quantityAfter = QuantityAt(i - 1) + ledger[i].amount
        BY <2>6, <3>3 DEF LedgerInv, LedgerExplainsRow
      <4> QED BY <4>1, <4>2
    <3> QED BY <3>1, <3>2, <3>3
  <2>10. LedgerExplainsRow'
    <3>1. row'.quantity = QuantityAt(Len(ledger))'
      BY <2>5, <2>6, <2>8
    <3>2. \A i \in DOMAIN ledger' :
            ledger'[i].quantityAfter = QuantityAt(i - 1)' + ledger'[i].amount
      BY <2>6, <2>9
    <3> QED BY <3>1, <3>2 DEF LedgerExplainsRow
  <2> QED BY <2>2, <2>10 DEF LedgerInv, RowStays
<1> QED BY <1>1, <1>2, OnlyCommitWrites

(* Without administration, concurrent adjustments lose nothing. *)
THEOREM LedgerExplains ==
  ASSUME OnlyAdjustments
  PROVE  Spec => []LedgerExplainsRow
<1>1. LedgerInv => LedgerExplainsRow
  BY DEF LedgerInv
<1> QED BY StoreInit, StoreStep, LedgerInit, LedgerStep, <1>1, PTL DEF Spec

(* Without administration, the version grows with every change of the row. *)
THEOREM VersionsGrow ==
  ASSUME OnlyAdjustments
  PROVE  Spec => VersionGrows
<1>1. ASSUME StoreInv, [Next]_vars
      PROVE  IsRow(row) /\ IsRow(row') /\ row'.id = row.id /\ row' # row
               => row'.version > row.version
  <2>1. ASSUME NEW c \in Calls, Commit(c), IsRow(row)
        PROVE  row'.version > row.version
    BY <1>1, <2>1, CommitEffect DEF StoreInv, TypeOK, Rows
  <2> QED BY <1>1, <2>1, OnlyCommitWrites
<1> QED BY StoreInit, StoreStep, <1>1, PTL DEF Spec, VersionGrows

-----------------------------------------------------------------------------
(* The book of adjustments. *)
(* What a committing call adds to the book. *)
LEMMA CommitIsAdjust ==
  ASSUME StoreInv, NEW c \in Calls, Commit(c)
  PROVE  Book!Adjust(BookRequest(Key(c), Amount(c)))
<1> DEFINE e == [key |-> Key(c), amount |-> Amount(c), quantityAfter |-> row'.quantity]
           r == BookRequest(Key(c), Amount(c))
<1>1. PICK n \in Nat : n = Len(ledger)
  BY AppendElements DEF StoreInv, TypeOK
<1>2. ledger \in Seq(Entries) /\ ledger' = Append(ledger, e) /\ ~KeyRecorded(Key(c))
  BY DEF Commit, Unique, StoreInv, TypeOK
<1>3. e \in Entries
  BY CommitEffect, RequestTypes DEF Entries, Rows
<1>4. e.key = Key(c) /\ e.amount = Amount(c)
  OBVIOUS
<1> HIDE DEF e
<1>5. /\ DOMAIN ledger' = DOMAIN ledger \cup {n + 1}
      /\ ledger'[n + 1] = e
      /\ \A i \in DOMAIN ledger : ledger'[i] = ledger[i]
  <2>1. DOMAIN ledger = 1..n /\ DOMAIN ledger' = 1..(n + 1)
    BY <1>1, <1>2, <1>3, AppendElements
  <2> QED BY <1>1, <1>2, <1>3, <2>1, AppendElements
<1>6. bookDone' = bookDone \cup {r}
  <2>1. bookDone' = {BookRequest(ledger'[i].key, ledger'[i].amount) : i \in DOMAIN ledger'}
    BY DEF bookDone
  <2> QED BY <1>4, <1>5, <2>1 DEF bookDone
<1>7. \A d \in bookDone : d.key # Key(c)
  BY <1>2 DEF bookDone, BookRequest, KeyRecorded
<1>8. StockBefore + Amount(c) >= 0 /\ StockBefore' = StockBefore + Amount(c)
  <2>1. StockBefore = seen[c].quantity
    <3>1. CASE IsRow(row)
      <4>1. seen[c] = row
        BY <3>1, CommitEffect
      <4> QED BY <3>1, <4>1 DEF StockBefore
    <3>2. CASE ~IsRow(row)
      <4>1. seen[c] = NewRow(c, DefaultStock)
        BY <3>2, CommitEffect
      <4> QED BY <3>2, <4>1 DEF StockBefore, NewRow
    <3> QED BY <3>1, <3>2
  <2>2. StockBefore' = row'.quantity
    BY CommitEffect DEF StockBefore
  <2> QED BY <2>1, <2>2, CommitEffect DEF Commit, Enough
<1>9. r.account = StockAccount /\ r.key = Key(c) /\ r.amount = Amount(c)
  BY DEF BookRequest
<1> HIDE DEF r
<1>10. [a \in {StockAccount} |-> StockBefore]'
         = [[a \in {StockAccount} |-> StockBefore] EXCEPT ![r.account] = @ + r.amount]
  BY <1>8, <1>9
<1> QED BY <1>6, <1>7, <1>8, <1>9, <1>10 DEF Book!Adjust, r

(* Whoever adjusts at the same time, each adjustment takes effect in one   *)
(* step, as InventoryApi has it.                                           *)
THEOREM AdjustmentsAtomic ==
  ASSUME OnlyAdjustments
  PROVE  Spec => ImplementsBook
<1>1. Init => Book!Init
  BY DEF Init, Book!Init, StockBefore, BaseStock, IsRow, NoRow, NewRow, bookDone
<1>2. StoreInv /\ [Next]_vars => [Book!Next]_(Book!bookVars)
  <2> SUFFICES ASSUME StoreInv, [Next]_vars
               PROVE  Book!Next \/ UNCHANGED Book!bookVars
    OBVIOUS
  <2>1. CASE UNCHANGED <<row, ledger>>
    BY <2>1 DEF Book!bookVars, StockBefore, bookDone
  <2>2. ASSUME NEW c \in Calls, Commit(c) PROVE Book!Next
    BY <2>2, CommitIsAdjust DEF Book!Next, bookRequests
  <2> QED BY <2>1, <2>2, OnlyCommitWrites
<1> QED BY StoreInit, StoreStep, <1>1, <1>2, PTL DEF Spec, ImplementsBook, Book!Spec
=============================================================================
