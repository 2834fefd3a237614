---------------------------- MODULE InventoryStore ----------------------------
(***************************************************************************)
(* inventory-api: the inventory row of one product and its ledger, under   *)
(* concurrent calls: adjustments, by RPC or by the consumer, which is what *)
(* a reservation or a release of InventoryApi is in one step, and the      *)
(* administrative Create, Update and Delete.                               *)
(*                                                                         *)
(* PostgreSQL runs at READ COMMITTED: each statement sees what is          *)
(* committed, SELECT ... FOR UPDATE and UPDATE wait for the holder of the  *)
(* row, and an INSERT waits for another one of the same unique key.        *)
(***************************************************************************)
EXTENDS Integers, Sequences

CONSTANTS
  Calls,
  RequestOf,     \* the request each call carries
  Keys,          \* idempotency keys
  InitialStock,  \* the quantity of the row at the start
  RowExists,     \* there is a row at the start
  DefaultStock,  \* model.DefaultDigitalStock
  MayFail        \* a statement or its connection may fail

Ops      == {"adjust", "create", "update", "delete"}
Requests == [op : Ops, amount : Int, key : Keys]

ASSUME InventoryStoreAssumption ==
  /\ RequestOf \in [Calls -> Requests]
  /\ \A c \in Calls : RequestOf[c].op \in {"create", "update"} => RequestOf[c].amount >= 0
  /\ InitialStock \in Nat
  /\ DefaultStock \in Nat
  /\ RowExists \in BOOLEAN
  /\ MayFail \in BOOLEAN

VARIABLES
  row,     \* the committed row of product_inventory
  ledger,  \* product_inventory_transactions in id order
  pc,      \* where each call is, and at the end its answer
  seen     \* the row a call has read

vars == <<row, ledger, pc, seen>>

(* A row is told by who inserted it: its id is new at every INSERT. *)
First   == "first"
Rows    == [id : Calls \cup {First}, quantity : Nat, version : Nat]
NoRow   == [id |-> First, quantity |-> 0, version |-> 0]
IsRow(r) == r.version # 0
Entries == [key : Keys, amount : Int, quantityAfter : Nat]

CallStates ==
  {"ready", "locking", "creating", "relocking", "locked", "saving",
   "adjusted", "replayed", "insufficient", "missing", "done", "failed"}
Ended == {"adjusted", "replayed", "insufficient", "missing", "done", "failed"}

Op(c)     == RequestOf[c].op
Amount(c) == RequestOf[c].amount
Key(c)    == RequestOf[c].key

NewRow(c, quantity) == [id |-> c, quantity |-> quantity, version |-> 1]

KeyRecorded(key) == \E i \in DOMAIN ledger : ledger[i].key = key

Init ==
  /\ row = IF RowExists THEN NewRow(First, InitialStock) ELSE NoRow
  /\ ledger = <<>>
  /\ pc = [c \in Calls |-> "ready"]
  /\ seen = [c \in Calls |-> NoRow]

Goto(c, state) == pc' = [pc EXCEPT ![c] = state]

\* Mutant: nobody waits for the row.
RowFreeAlways == TRUE

(* No transaction holds the row, or has inserted it without committing. *)
RowFree == \A c \in Calls : pc[c] # "locked"

-----------------------------------------------------------------------------
(* AdjustContext. *)

(* A recorded key answers with the row there is now. *)
FindKey(c) ==
  /\ pc[c] = "ready"
  /\ Op(c) = "adjust"
  /\ Goto(c, IF ~KeyRecorded(Key(c)) THEN "locking"
             ELSE IF IsRow(row) THEN "replayed" ELSE "missing")
  /\ UNCHANGED <<row, ledger, seen>>

LockRow(c) ==
  /\ pc[c] = "locking"
  /\ IF IsRow(row)
     THEN RowFree /\ Goto(c, "locked") /\ seen' = [seen EXCEPT ![c] = row]
     ELSE Goto(c, "creating") /\ UNCHANGED seen
  /\ UNCHANGED <<row, ledger>>

(* INSERT ... ON CONFLICT DO NOTHING of a row with the default stock. *)
InsertRow(c) ==
  /\ pc[c] = "creating"
  /\ RowFree
  /\ IF IsRow(row)
     THEN Goto(c, "relocking") /\ UNCHANGED seen
     ELSE Goto(c, "locked") /\ seen' = [seen EXCEPT ![c] = NewRow(c, DefaultStock)]
  /\ UNCHANGED <<row, ledger>>

(* The row that was there first is locked, if it still is there. *)
RelockRow(c) ==
  /\ pc[c] = "relocking"
  /\ IF IsRow(row)
     THEN RowFree /\ Goto(c, "locked") /\ seen' = [seen EXCEPT ![c] = row]
     ELSE Goto(c, "missing") /\ UNCHANGED seen
  /\ UNCHANGED <<row, ledger>>

Enough(c) == seen[c].quantity + Amount(c) >= 0

\* Mutant: there is no unique index on the keys.
UniqueAlways(c) == TRUE

Unique(c) == ~KeyRecorded(Key(c))

AdjustedRow(r, amount) ==
  [id |-> r.id, quantity |-> r.quantity + amount, version |-> r.version + 1]

(* The row is updated, the entry inserted under its key, and committed. *)
Commit(c) ==
  LET r == AdjustedRow(seen[c], Amount(c))
  IN  /\ pc[c] = "locked"
      /\ Enough(c)
      /\ Unique(c)
      /\ row' = r
      /\ ledger' = Append(ledger, [key |-> Key(c), amount |-> Amount(c),
                                   quantityAfter |-> r.quantity])
      /\ Goto(c, "adjusted")
      /\ UNCHANGED seen

(* Too little stock, or a key that was recorded in the meantime. *)
Refuse(c) ==
  /\ pc[c] = "locked"
  /\ \/ ~Enough(c) /\ Goto(c, "insufficient")
     \/ Enough(c) /\ ~Unique(c) /\ Goto(c, "failed")
  /\ UNCHANGED <<row, ledger, seen>>

-----------------------------------------------------------------------------
(* CreateProductInventory, DeleteProductInventory. *)
CreateRow(c) ==
  /\ pc[c] = "ready"
  /\ Op(c) = "create"
  /\ RowFree
  /\ IF IsRow(row)
     THEN Goto(c, "failed") /\ UNCHANGED row
     ELSE Goto(c, "done") /\ row' = NewRow(c, Amount(c))
  /\ UNCHANGED <<ledger, seen>>

DeleteRow(c) ==
  /\ pc[c] = "ready"
  /\ Op(c) = "delete"
  /\ IsRow(row) => RowFree
  /\ row' = NoRow
  /\ Goto(c, "done")
  /\ UNCHANGED <<ledger, seen>>

(* UpdateProductInventory: FindByID ... *)
ReadRow(c) ==
  /\ pc[c] = "ready"
  /\ Op(c) = "update"
  /\ IF IsRow(row)
     THEN Goto(c, "saving") /\ seen' = [seen EXCEPT ![c] = row]
     ELSE Goto(c, "missing") /\ UNCHANGED seen
  /\ UNCHANGED <<row, ledger>>

(* ... and Save, of all columns as read: an UPDATE by id or, when that     *)
(* finds no row, an INSERT under the old id.                               *)
SavedRow(r, quantity) == [id |-> r.id, quantity |-> quantity, version |-> r.version]

SaveRow(c) ==
  /\ pc[c] = "saving"
  /\ RowFree
  /\ IF IsRow(row) /\ row.id # seen[c].id
     THEN Goto(c, "failed") /\ UNCHANGED row
     ELSE Goto(c, "done") /\ row' = SavedRow(seen[c], Amount(c))
  /\ UNCHANGED <<ledger, seen>>

(* A statement fails: the transaction rolls back and the call ends. *)
Abort(c) ==
  /\ MayFail
  /\ pc[c] \notin Ended
  /\ Goto(c, "failed")
  /\ UNCHANGED <<row, ledger, seen>>

Step(c) ==
  \/ FindKey(c)
  \/ LockRow(c)
  \/ InsertRow(c)
  \/ RelockRow(c)
  \/ Commit(c)
  \/ Refuse(c)
  \/ CreateRow(c)
  \/ DeleteRow(c)
  \/ ReadRow(c)
  \/ SaveRow(c)

Next == \E c \in Calls : Step(c) \/ Abort(c)

Spec == Init /\ [][Next]_vars

-----------------------------------------------------------------------------
(* Every variable keeps its type; in particular no stock is negative. *)
TypeOK ==
  /\ row \in Rows
  /\ ledger \in Seq(Entries)
  /\ pc \in [Calls -> CallStates]
  /\ seen \in [Calls -> Rows]

(* A key moves the stock once, also when two requests carry it at the same *)
(* time, one of them retried.                                              *)
KeyMovesStockOnce ==
  \A i, j \in DOMAIN ledger : ledger[i].key = ledger[j].key => i = j

(* An adjustment starts from the row there is when it is committed, not    *)
(* from one that somebody has changed since it was read, and the entry     *)
(* says what became of it.                                                 *)
StockBefore == IF IsRow(row) THEN row.quantity ELSE DefaultStock

AdjustsCurrentRow ==
  [][ledger' # ledger =>
       LET e == ledger'[Len(ledger')]
       IN  /\ row'.quantity = StockBefore + e.amount
           /\ e.quantityAfter = row'.quantity]_vars

(* Without administration: each entry continues the one before, and the    *)
(* row has the quantity of the last one.                                   *)
BaseStock == IF RowExists THEN InitialStock ELSE DefaultStock

QuantityAt(i) == IF i = 0 THEN BaseStock ELSE ledger[i].quantityAfter

LedgerExplainsRow ==
  /\ \A i \in DOMAIN ledger :
       ledger[i].quantityAfter = QuantityAt(i - 1) + ledger[i].amount
  /\ IsRow(row) => row.quantity = QuantityAt(Len(ledger))

(* The version of a row grows with every change of the row.                *)
VersionGrows ==
  [][IsRow(row) /\ IsRow(row') /\ row'.id = row.id /\ row' # row
       => row'.version > row.version]_vars

-----------------------------------------------------------------------------
(* Without administration, the concurrent calls implement the book: each   *)
(* adjustment takes effect when it commits.  A product without a row has   *)
(* the default stock.                                                      *)
StockAccount == "product_inventory"

BookRequest(key, amount) == [account |-> StockAccount, key |-> key, amount |-> amount]

bookRequests == {BookRequest(Key(c), Amount(c)) : c \in Calls}
bookDone     == {BookRequest(ledger[i].key, ledger[i].amount) : i \in DOMAIN ledger}

Book == INSTANCE AdjustmentBook WITH
  Opening <- [a \in {StockAccount} |-> BaseStock], Requests <- bookRequests,
  quantity <- [a \in {StockAccount} |-> StockBefore], done <- bookDone

ImplementsBook == Book!Spec
=============================================================================
