# TLA+ specifications of PinguCoin

PinguCoin is a shop whose purchases are paid with points or by card. Three Go
services carry an order: `order-api` keeps it, `inventory-api` reserves its stock,
`payment-api` takes the money. They share no database and make no calls to each
other; everything they tell each other goes through six Kafka topics
(`src/docs/ARCHITECTURE.md`). This directory specifies that flow in TLA+. Parts whose
difficulty is inside one service have modules of their own: the point ledger, refunds, the
rows of a card payment, the inventory row and schema migrations. Two more follow a
request of the web client through the services behind it: buying a cart, and listing a
product. TLC model-checks them under the faults the code handles, and TLAPS proves the
main safety properties of the services.

Contents: [the system](#1-the-system) ·
[the modules](#2-the-modules) ·
[modelling decisions](#3-modelling-decisions) ·
[properties and runs](#4-properties-and-runs) ·
[fairness](#5-fairness) ·
[proofs](#6-proofs) ·
[where code and documentation disagree](#7-where-code-and-documentation-disagree) ·
[what is not modelled](#8-what-is-not-modelled) ·
[plan](#9-plan)

## 1. The system

| Component | State | Operations | Interacts with |
|---|---|---|---|
| **order-api** (`services/order-api`) | `orders` (status), `order_outbox` | `CreateOrder` (order and outbox row in one transaction, idempotent by key), outbox publisher, consumer of five topics; read-only `GetOrder`, `ListOrders`, `HasPaidOrder` | produces `orders.created.v1`; consumes `inventory.{reserved,rejected}.v1`, `payments.{succeeded,failed,action-required}.v1` |
| **inventory-api** (`services/inventory-api`) | `product_inventory` (quantity), `product_inventory_transactions` (ledger, unique key) | consumer that reserves and releases; RPCs `Create`, `Update`, `Delete`, `Adjust` | consumes `orders.created.v1`, `payments.failed.v1`; produces its verdict **without an outbox** |
| **payment-api, payments of orders** | `payments`, `payment_sources`, `outbox_events`, `provider_events` | `PaymentUseCase.Create`, `HandleProviderEvent` (webhook), `ReconcileProcessing` (every minute), outbox publisher | consumes `inventory.reserved.v1`; produces the three payment topics; calls the provider |
| **payment-api, points** | `point_accounts`, `point_transactions` (a hash chain per user) | debit by a payment, `CreditPoints`, `DebitPoints`, `VerifyChain`, top-ups | called by payments, by bff |
| **payment-api, gRPC server** | (the tables above), `refunds` | `CreatePayment`, `CancelPayment`, `RefundPayment` | called by bff; calls the provider |
| **payment provider** (`cmd/mock-stripe`) | intents in memory, by id and by idempotency key | create, capture, cancel, refund, 3DS confirmation, one webhook per confirmation | called by payment-api, calls its webhook |
| **Kafka, `pkg/orderflow`, `pkg/consumerretry`** | topics of one partition, an offset per group | append; deliver; commit after success; six attempts, then the process ends | all three services |
| **bff** (`services/bff`) | none | HTTP gateway; repeats calls on UNAVAILABLE; a welcome bonus; catalogue handlers that read a product and write it back | every service |
| **media-api** (`services/media-api`) | `products`, `product_assets`, blobs in storage | create, update, delete a product; confirm, delete, download an asset, without transactions | called by bff; the browser uploads blobs itself |
| **client-web** (`apps/client-web`) | the form, the cart (browser memory); server actions | lists a product in many requests; orders a cart item by item, repeats requests and polls each order until it is settled | bff, blob storage |
| **`pkg/dbmigrate`, `pkg/migrate`** | `schema_migrations`, an advisory lock | load, lock, run and record migration files when a service starts | every service |
| **`pkg/retry`, `health`, `interceptor`, `metrics`, `logging`** | process-local | back-off, probes, authentication, telemetry | every service |
| **deployment** (`platform`) | replica counts | restarts, two replicas of each of the three services in production, payment-api up to five | |

What makes each part correct, and what is hard about it:

- **order-api** — an order is created once per key and ends in exactly one of
  `paid` and `failed`, for good. Hard: results of the five topics arrive in any
  order and again; the publisher repeats rows after a crash between produce and
  mark, or because another replica read the same row.
- **inventory-api** — stock never goes below zero, the ledger explains it, and a
  failed payment returns exactly what was reserved. Hard: the verdict is produced
  *after* the transaction that decided it; a refusal leaves no row under its key,
  so it is forgotten; the release checks nothing about the order it is for.
- **payment-api** — an order is charged at most once, only for reserved stock, and
  its result is announced exactly as it was recorded. Hard: between the first
  transaction, the provider call and the last transaction the process can stop at
  any point; the redelivered record is then only a replay, and the reconciler or
  the webhook must finish; both read the payment outside the transaction that
  settles it, and nothing keeps two of them, in one replica or in two, from reading it
  at once.
- **a card payment** — its two rows agree, a top-up is credited once, and no event is
  lost. Hard: four operations read the rows, ask the provider and then save whole rows
  without looking again or locking what they read.
- **points** — the balance is the sum of the ledger, the chain verifies, nothing is
  debited twice. Hard: the first two adjustments of a user, which find no row to lock.
- **Kafka and retry** — a record is committed only after its effects. Hard: a stop
  between effects and commit, and a record that can never be handled.
- **listing a product** — nothing is public before it is complete, and what is sold can be
  downloaded. Hard: six kinds of request, none in a transaction, each of which may fail,
  lose its answer or be carried out after the page has given up on it.
- **buying a cart** — a press orders each item once, one order is open at a time, and only
  what is paid leaves the cart. Hard: two layers repeat requests while earlier ones are
  still under way, and status is polled.
- **the flow** — an order shown as paid is charged and its stock is held; a failed
  order has its stock back and is not charged; every order ends.

`PROJECT.json` lists the hazards with their source lines.

## 2. The modules

| Module | Models | Code |
|---|---|---|
| `OrderEvents` | the shared vocabulary: topics, the immutable fields of an order, the wrapped `total_amount` | `pkg/orderflow/events.go`, the three `consumer.New` |
| `Kafka` | the log per topic and key, commits per consumer group, and the kinds of fault a run may have | `consumer.Run` of the three services, `pkg/consumerretry` |
| `OrderApi` | orders, their outbox row, the publisher and the consumer | `services/order-api/internal` |
| `InventoryApi` | stock, the ledger, reservation, verdict and release | `services/inventory-api/internal` |
| `PaymentApi` | payments, sources, the outbox, point balances, the consumer, the reconciler, the webhook, and the provider's intents (external) | `services/payment-api/internal` |
| `OrderFlow` | the three services composed over Kafka; fairness; every property | the whole |
| `OrderSaga` | what the flow promises, abstractly | – |
| `AdjustmentBook` | what an adjustment of stock or points promises, abstractly: one step, once for its key, never below zero | – |
| `PointLedger` | the point accounts and their hash chain under concurrent calls, statement by statement; `GetPoints` of bff | `payment-api/internal/repository/point_repository.go`, `pointchain`, `grpcserver/point_server.go`, `bff/internal/httpapi/point_handler.go` |
| `Refunds` | `RefundPayment` of one payment, with a provider whose answers may be lost | `payment-api/internal/grpcserver/payment_server.go`, `cmd/mock-stripe` |
| `InventoryStore` | one row of `product_inventory` and its ledger under concurrent `Adjust`, `Create`, `Update`, `Delete` | `inventory-api/internal/{repository,grpcserver}` |
| `DbMigrate` | pods that migrate one schema at the same time | `pkg/dbmigrate`, `pkg/migrate` |
| `CardPayment` | the rows of one card payment under concurrent creation, reconciliation, webhooks and cancellation, and the provider's intent | `payment-api/internal/application/payment_usecase.go`, `grpcserver/payment_server.go`, `webhook/handler.go`, `cmd/mock-stripe` |
| `Listing` | the sell form, the catalogue handlers of bff, and the product row, assets and blobs behind them | `client-web/src/components/sell/listing-form.tsx`, `bff/internal/httpapi/catalog_handler.go`, `media-api/internal/grpcserver` |
| `Checkout` | the cart, the server action that orders its items, and `CreateOrder` with repeated requests | `client-web/src/{components/shop,components/cart,app/purchases,lib}`, `bff/internal/grpcclient/resilience.go`, `order-api/internal/repository/order.go` |
| `MachineInt` | two's-complement wrapping | – |
| `OrderFlowProofs`, `CardPaymentProofs`, `PointLedgerProofs`, `RefundsProofs`, `InventoryStoreProofs`, `DbMigrateProofs`, `CheckoutProofs`, `ListingProofs` | the theorems | – |
| `MCOrderFlow`, `MCCardPayment`, `MCPointLedger`, `MCRefunds`, `MCInventoryStore`, `MCDbMigrate` | the constants of the runs (`Listing` and `Checkout` get theirs from their `.cfg`) | – |

```
OrderEvents <- Kafka <- OrderApi     \
                     <- InventoryApi  >- OrderFlow <- MCOrderFlow (8 .cfg)
                     <- PaymentApi   /      |      <- OrderFlowProofs
                                            +-- INSTANCE OrderSaga, AdjustmentBook

MachineInt <- OrderEvents, PointLedger

CardPayment    <- MCCardPayment, CardPaymentProofs
PointLedger    <- MCPointLedger, PointLedgerProofs
Refunds        <- MCRefunds, RefundsProofs
InventoryStore <- MCInventoryStore, InventoryStoreProofs
DbMigrate      <- MCDbMigrate, DbMigrateProofs
Checkout       <- CheckoutProofs
Listing        <- ListingProofs

INSTANCE AdjustmentBook: InventoryStore, PointLedger, OrderFlow (stock, points)
```

Inside `OrderFlow` an adjustment of stock or points is one step. `InventoryStore` and
`PointLedger` look into that step: they show that the transaction behind it, made of
statements that interleave with those of other calls, applies each key once, loses no
adjustment and never takes a balance below zero: both sides implement one `AdjustmentBook` (section 6). In the same way `CardPayment` looks into the
transactions of `PaymentApi`'s card payments and lets them overlap, and `Checkout` into
`CreateOrder`, while how an order is then settled is left open there.

State and code of the order flow:

| Variable | Code |
|---|---|
| `orders[o]` | `orders.status` of the row with idempotency key `o`, `"none"` without a row |
| `orderOutbox[o]` | the `orders.created.v1` row: absent, `published_at` null, or set |
| `stock[p]` | `product_inventory.quantity` (a product without a row has the default quantity of digital goods) |
| `ledger` | `product_inventory_transactions` in id order, key `"<order key>:inventory"` or `"…:inventory-release"` |
| `verdict[o]` | the local result of `handle(orders.created.v1)` between the end of its transaction and `ProduceSync` |
| `payments[o]`, `sources[o]` | `payments.status`; `payment_sources.status` and whether `provider_reference` is set |
| `paymentOutbox[o][t]` | the `outbox_events` row of topic `t` |
| `balance[u]` | `point_accounts.balance` |
| `creating[o]` | how far the handler that runs `createStripe` is: before the charge, or with which answer |
| `inFlight[o]` | webhook handlers and reconcilers that have read the payment and not run their transaction; a reconciler before (`"listed"`) or after its charge |
| `overlapped` | no code: the orders whose payment a handler has read while another one was in flight |
| `intents[o]`, `events[o]` | the provider's intent for the key, and the event types it has sent and not lost |
| `receipts[o]` | `provider_events` rows (one event id per intent and type) |
| `produced[t][o]`, `committed[<<group, t>>][o]` | records of topic `t` with key `o`; how many of them the group has committed |

In the other modules:

| Variable | Code |
|---|---|
| `PointLedger`: `opened`, `balance`, `ledger[u]` | rows of `point_accounts`; `point_transactions` of a user by `chain_sequence` |
| … `pc[c]`, `seen[c]`, `snapshot[c]` | where a call is; the balance it locked; the entries `VerifyChain` read in its first statement |
| `Refunds`: `status`, `refunded`, `points` | `payments.status`; the sum of succeeded `refunds`; points given back |
| … `provider`, `keys`; `pc[c]`, `already[c]` | what the provider has refunded, and the keys it has seen; where a call is, and the sum it has read |
| … `stale` | no code: a refund was recorded on a sum that was no longer true |
| `InventoryStore`: `row`, `ledger` | the committed row (its `id`, `quantity`, `version`); `product_inventory_transactions` |
| … `pc[c]`, `seen[c]` | where a call is, with its answer at the end; the row it has read |
| `CardPayment`: `payment`, `source`, `purpose` | the row of `payments` (status), of `payment_sources` (status, reference), and what it is for |
| … `credits`, `results`, `receipts` | `point_transactions` of the payment; its `outbox_events` in order; `provider_events` |
| … `intent`, `events` | the provider's intent, and the event types it has sent |
| … `pc[c]`, `seen[c]`, `outcome[c]`, `held[c]` | where a call is; the rows it has read; the status it will write; the rows its transaction has written and so holds |
| … `raced` | no code: two reconcilers have been at work on the payment at the same time |
| `Listing`: `form`, `page` | the React state of the form; the listing it was opened with |
| … `row`, `assets`, `blobs` | the row of `products`; `product_assets`; Azure Blob storage |
| … `requests`, `named` | what the handlers are working on; how many blob names each file has had (a new UUID each time) |
| … `unwanted`, `faults`, `late` | what the properties excuse: files the seller took back, failures so far, a request carried out after its timeout |
| `Checkout`: `cart`, `browser`, `presses` | the cart context, whether the button is busy, and how often it was pressed |
| … `purchases[a]` | the server action `purchase` of a press: its loop, the attempt it awaits, the order it polls |
| … `calls`, `orders`, `retries` | handlers in order-api; rows of `orders` with status; attempts repeated so far |
| `DbMigrate`: `existing`, `executed`, `recorded` | whether the sentinel table was there; SQL that is committed; rows of `schema_migrations` |
| … `pc[p]`, `known[p]` | where a pod is (it holds the advisory lock in `Holding`); the rows it has read or written |

In `OrderFlow`, one action is one transaction, or one call that leaves the process. A handler
with several of them is several actions: `ReserveStock` then `ProduceVerdict`;
`InsertProcessing`, `Charge`, then `AwaitAction`, `Capture` or `Decline`;
`ReconcileRead`, `ReconcileCharge`, then `ReconcileSettle`; `ReadEvent` then `ApplyEvent`. Each has a
step for stopping in the middle (`LoseVerdict`, `AbandonCreate`,
`ReconcileUnanswered`, `ReconcileRollback`); a webhook that stops before its
transaction has changed nothing and is one that has not started. The last action
of a consumer's handler takes `acked`: `FALSE` means that the process stopped between
the effects and the offset commit, and the record is delivered again. In the other modules one
action is one SQL statement or one call of the provider, and the last statement of a
transaction stands for its commit: nothing of it is visible before. Row locks are
the states in which a call holds the row (`RowFree`), and a statement that would wait for one is
disabled.

## 3. Modelling decisions

- **An order is its idempotency key.** The key is unique in `orders`, `payments` and
  (with its suffix) the ledger, and is the record key. The event fields are copied
  from topic to topic unchanged, so they are constants of the order.
- **A log is a pair of counters.** Records of one topic and key are equal, so their
  number and the number committed say everything. Records of one topic and key are
  delivered in order, records of different topics in any order. Records of different
  orders are independent: this is weaker than one partition per topic, so safety covers
  any partitioning; for liveness see section 5.
- **`CreateOrder` is enabled once per order.** A repeated request finds the row and
  changes nothing, whether it is answered as a replay or refused as a conflict.
- **`total_amount` is machine arithmetic.** `Wrap` is two's complement; runs use 8 bits.
  An amount that wraps to at most zero passes `order-api`, is reserved, and is then
  refused by `validate`; nor can it be recorded as failed, because the rejected payment
  has the same amount (`RefuseAmount`).
- **The provider** creates an intent per key, in a status of `NewIntents` (it may confirm at
  once or require the customer), or returns the one it has, may refuse a new key, moves an
  intent to `succeeded` when the customer authenticates (in whatever status it is), and may end one (`failed`, `canceled`). Events
  of one intent arrive in any order, as the webhook has no ordering. The mock in the repository sends an event
  once, within the customer's request, and returns the error if it is not answered with success
  (`cmd/mock-stripe/main.go:132,172-195`): nobody sends it again, unless the customer confirms again
  (`ConfirmThreeDS` is enabled for an intent in any status). That it does not arrive, or arrives at a handler
  that stops, is the fault `event_lost`. The mock only sends `succeeded`; the other two types are in `HandleProviderEvent`.
- **The reconciler** looks at sources older than a minute, and an attempt of the
  handler ends after ten seconds: no handler is between its transactions then
  (`creating[o] = "none"`).
- **Overlap.** `HandleProviderEvent` and `ReconcileProcessing` read a payment and settle
  it later without looking again (`payment_usecase.go:306-318`, `384-399`). Nothing serializes them, so it is no
  fault and cannot be switched off: any number of events, and the reconcilers of all replicas (`Reconcilers`),
  may hold one payment at once. The history variable `overlapped` remembers the payments to which that has
  happened, and the properties say what holds of those and what of the others (`Spared`). Requests
  that carry one event at the same time count as one handler: the receipt's key lets one of them through. In the
  same way `raced` of `CardPayment` remembers that two reconcilers met, and `stale` of `Refunds` that a refund was recorded on
  a sum that another one had changed. What overlapping handlers do to the rows, statement by statement, is the
  subject of `CardPayment`.
- **`payment_action_required` does not fit** `orders.status`, a `varchar(20)`: while the
  update would write it the action is disabled, as each attempt fails and changes
  nothing. When the row is already settled no row matches and the record is committed. A
  database that rejects the literal while planning would never commit it; only
  `ActionShows`, which the code violates either way, could tell the difference.
- **Bank transfers and credit cards** take the same path as `card`.
- **READ COMMITTED.** Every service uses PostgreSQL's default level. `SELECT … FOR UPDATE` and
  `UPDATE` wait for the holder of the row, then see what it has committed; an `INSERT` waits for
  another of the same unique key, then fails or, with `ON CONFLICT DO NOTHING`, does nothing.
- **The hash of `PointLedger` is ideal**: it stands for everything that was hashed, so
  equal hashes mean equal histories. `ledger` says besides who made an entry (`by`), which
  the code does not record, to state that each call is in it once.
- **A row of `product_inventory` is told by its `id`**, that of the call that inserted it:
  `Save` updates by id, so it matters whether the row was deleted and made again.
- **`CardPayment` writes a row, then commits.** `Writes` are the rows a transaction writes and
  `WrittenBefore` their order; a written row is held until the transaction ends, and two
  transactions that want the same one wait. What is saved comes from `seen`, the rows as the call read
  them before the transaction, as GORM's `Save` writes every column. `CreatePayment` by RPC and
  from the consumer are the same use case. Answers to callers are left out.
- **`Listing`** has one form, whose requests go one after the other, and the removal of listed files
  beside it. A handler's statements are steps of their own; a failure may come at any of them, or after
  the last one when only the answer is lost. After the 10 seconds of `sellerFetch` the page goes on
  while the handler does too (`TimeOut`, one request per behaviour). Uploads go straight to
  storage and have no timeout; their repetition under the same name is a delay. `prepareUploads` changes
  nothing, so its failure is that of the first upload. A draft whose `create` lost its answer is not seen
  again: the form makes another one. The order of files is not modelled.
- **`Checkout`** has one cart and one request for each attempt at an item. `Retry` is either layer, gRPC's own
  under bff or `withRetry` of the server action, and what has become of the attempt before is open.
  The look-up of the product in bff before the call is part of a request that never arrives. An attempt and an
  item determine the quantity, so the conflict check of `CreateOrGet` passes.
  `payment_action_required` is a status the client expects, and is included although order-api cannot store it
  (section 7). `waitForOrder` looks at an order 40 times, `MaxPolls` here, and does not evaluate what it
  saw last. The purchase goes on in the server when its page is gone; `confirmPurchase` has
  no `catch`, so an answer that is lost leaves the button busy until the page is loaded again.
- **A migration file** is a version and a body. Its checksum is the file itself.
- **Not distinguished:** times, texts, URLs, hashes, telemetry, and currency (a copy
  of the payment method's).

### Faults

`Faults` chooses what a deployment may suffer; without a fault the corresponding step
is disabled.

| Fault | Meaning |
|---|---|
| `republish` | an outbox row is produced again: the acknowledgement was lost, the mark failed, or another replica had read the row |
| `redelivery` | a consumer stops between the effects of a handler and the offset commit, or after producing the verdict and before the commit, or before producing it |
| `charge_lost` | the provider was called and the answer, the process or the last transaction is lost |
| `reject_lost` | the second transaction of `createPoint` fails |
| `event_lost` | the request with a provider's event does not arrive or is answered with an error, and is not repeated |

`MaxCopies` is the one bound of the model, for each order: a fault may append a duplicate of a record
only while the topic holds fewer than `MaxCopies[o]` for the order `o`. The faults themselves
may happen any number of times. Everything else is finite by nature: statuses, a ledger
with at most two entries per order, event types.

## 4. Properties and runs

Order flow, safety on `Spec`:

| Property | Says | Can be broken by |
|---|---|---|
| `CausalChain` | every effect is backed by its cause, from the order's status back to reserved stock | a missing guard anywhere in the chain |
| `PaidOrderIsSettled` | a paid order has a settled payment for reserved stock; unless handlers overlapped, the money is taken and the stock still held | an event announced for the wrong result |
| `ReleaseIsJustified` | stock is returned only for an order it was taken for and whose payment was settled, without the money unless handlers overlapped | a late or wrong `payments.failed.v1` |
| `OnePaymentResult` | no order has both payment records, unless handlers overlapped | a webhook or reconciler that moves a settled payment |
| `OutcomesAreFinal` | no step leaves `paid`, `failed`, or the final payment statuses, nor changes one for another unless handlers overlapped | the same, and late records |
| `LedgerExplainsStock` | each key moved the stock at most once and the entries add up to it | redelivery |
| `PointsMatchPayments` | points lost are the amounts of the succeeded point payments, and none are gained | redelivery, an amount that overflowed |
| `ChargedFailureWasRefused` | a failed order is charged only if inventory refused it at some time, or handlers overlapped | a result announced, or applied, that is not the payment's |
| `OnlyRejectionsGetLost` | payment-api commits a reservation record without a payment only if the amount overflowed or the user's points do not suffice | an error that is dropped after it has cost more than a rejection |
| `ImplementsSaga` | every step is a step of `OrderSaga` or a stutter | all of the above |
| `FailedOrderNotCharged` | no failed order has a succeeded payment | a second decision about an order: violated (section 7, item 3) |
| `HandledOrderHasPayment` | a committed reservation record has a payment unless the amount overflowed | an error that is dropped: violated (section 7, item 8) |
| `CardSucceedsWithProvider` | a card payment succeeds only with a captured intent | a handler that assumes success: violated (`ReconciledUnconfirmed`) |

`OrderSaga` promises of a payment that only one handler decides what one expects: stock is held before
money is taken, given back only after a declined payment, and the order follows the decision. A payment may be
contested before it is decided (`Contest`), which is what overlapping handlers do; then it may be
decided again, and its order and stock follow one of the decisions. That an order does not change any more once it is paid
or has failed holds of every order.

Liveness, on `FairSpec`:

| Property | Says |
|---|---|
| `OrdersSettle` | every order ends in `paid` or `failed` for good, unless its amount overflowed or time and again its payment waits for an event that nobody has sent or that was lost |
| `StockComesBack` | the stock of a payment that ended without the money comes back |
| `PaymentShows` | a succeeded payment shows as a paid order, unless handlers overlapped |
| `TakenMoneyShows` | money captured by the provider shows as a paid order, unless the event that says so was lost or handlers overlapped (or its customer confirms after the provider has said that the payment is over) |
| `TakenMoneyRecorded` | the same without excuse for a lost event: violated (section 7, item 14) |
| `ActionShows` | an order that waits for its customer says so: violated (`ActionNeverShows`) |

The other modules:

| Module | Property | Says |
|---|---|---|
| `PointLedger` | `LedgerVerifies` | every committed chain verifies and ends with the account's balance |
| | `LockProtectsBalance` | one call at a time holds a user's row, also while the row does not exist yet, and the balance it read is the committed one |
| | `EachAnsweredOnce` | an adjustment answered with success is in the ledger once, one refused or failed is not (proved) |
| `Refunds` | `StatusTellsRefunds` | the status says how much was refunded, and never more than was paid, until a refund is recorded on a stale sum |
| | `ProviderPaidRefunds` | the provider never pays back too much, however calls overlap; what is recorded of a card payment it has refunded, whatever answers were lost, until a refund is recorded on a stale sum |
| | `NeverOverRefunded` | never more returned than paid: violated (section 7, item 4) |
| `InventoryStore` | `KeyMovesStockOnce` | a key moves the stock once, also when two requests with it run at once |
| | `AdjustsCurrentRow` | an adjustment adds to the row there is at its commit, not to one somebody has changed since it was read |
| | `VersionGrows` | every change raises the version: violated (section 7, item 11) |
| `DbMigrate` | `SchemaInOrder`, `OneFilePerVersion` | the schema is made by the recorded files in order, none twice, none left out, one file per version |
| | `ReadyHasSchema` | a pod that is ready has all of its files in the schema |
| | `BaselineNotExecuted` | the baseline is never executed on a database that has it |
| | `NoNeedlessRefusal` | a pod gives up only for a reason in its files or the recorded ones (proved) |
| | `PodsEnd` | a pod that waits for the lock gets it and ends, unless it stops |
| `CardPayment` | `PairAgrees` | the payment and its source say the same, whichever calls overlap and whatever they had read |
| | `CreditedOnce` | a top-up is credited once at most unless two reconcilers raced, and has been when it is shown as succeeded |
| | `NeverCreditedTwice` | nor by two reconcilers: violated (section 7, item 5) |
| | `ReceiptSettles` | an event is on record only if it found the payment settled or settled it |
| | `LastResultTellsPayment` | an order is told last what its payment has come to |
| | `NoStandstill` | of the calls under way one can go on: no two transactions wait for each other |
| `Listing` | `FilesHaveBlobs` | a listed file can be downloaded, whatever fails or is carried out late, until the seller removes it |
| | `ImageShown` | with nothing carried out late, the product never names a deleted image, and a public new listing has one |
| | `PublishedWhole` | a new listing becomes public only when every file picked, and not taken back, is listed and uploaded |
| | `SellerGetsThrough` | a seller who tries again gets through |
| `Checkout` | `OrderedOnce` | a press orders an item at most once, and waits for that order |
| | `OneOpenOrder` | a press never has two orders that are not paid |
| | `CartKeepsUnpaid` | what a purchase takes from the cart is paid for, or is the item whose payment it leads to |
| | `PurchaseEnds` | every purchase ends, though the services may never answer |

Each module that a run checks has a type invariant `TypeOK`. They are proved, as
the theorems `TypeCorrect`.

The runs:

| Run | Instance | Faults | Shows | Distinct states |
|---|---|---|---|---|
| `CardFaults` | one card order, one reconciler beside the events | `republish`, `redelivery`, `charge_lost`, `MaxCopies` 1 | `CausalChain`, `ReleaseIsJustified`, `OnePaymentResult`, `OutcomesAreFinal` | 1,074,865 |
| `CardSettles` | one card order, two reconcilers beside the events | `redelivery`, `charge_lost`, `event_lost` | `OrdersSettle`, `StockComesBack`, `PaymentShows`, `TakenMoneyShows`, `ImplementsSaga` | 19,791 |
| `PointOrders` | three point orders of one user and product: quantities 1, 2 and 50 at a price of 3 with 3 points and 52 pieces; 150 is negative in 8 bits | `redelivery`, `reject_lost`, `MaxCopies` 1 for the first order | `PaidOrderIsSettled`, `LedgerExplainsStock`, `PointsMatchPayments`, `ChargedFailureWasRefused`, `OnlyRejectionsGetLost` | 449,852 |
| `PaymentRace` | one payment of either purpose: two requests with its key, an event handled twice and another one, a round of either of two reconcilers, a cancellation | any statement, call or process may fail | `PairAgrees`, `CreditedOnce`, `ReceiptSettles`, `LastResultTellsPayment`, `NoStandstill` | 980,555 |
| `LedgerConcurrent` | a credit, two debits and a first visit of one user without account, 4-bit integers | any statement may fail | `LedgerVerifies`, `LockProtectsBalance` | 3,710 |
| `RefundsRace` | four refunds of 1, 1, 2, 2 of a payment of 3, by points or card, at the same time or not | any statement or answer may be lost | `StatusTellsRefunds`, `ProviderPaidRefunds` | 7,552 |
| `StoreRace` | three adjustments, two of them one request sent twice, an update, a delete, a create; no row at first, default stock 2 | any statement may fail | `KeyMovesStockOnce`, `AdjustsCurrentRow` | 53,099 |
| `Migrate` | four pods: an old release, one with a gap, one whose last file fails, one with another file 2; new and existing database | pods stop and restart anywhere | `SchemaInOrder`, `OneFilePerVersion`, `ReadyHasSchema`, `BaselineNotExecuted`, `PodsEnd` | 7,320 |
| `Listing` | a new listing or one to edit, an image, two files | two requests fail, lose their answer, or one of them is carried out late | all properties of `Listing` | 1,748,007 |
| `Checkout` | a cart of two items, one press, two attempts in each layer, two polls | three attempts repeated, lost or carried out late; orders settle at any time or never | all properties of `Checkout` | 169,894 |

Runs whose property the code violates, each of a claim the repository makes (section 7). Their instances have only the
faults the trace needs:

| Run | Instance | Faults | Violated |
|---|---|---|---|
| `ReconciledUnconfirmed` | one card order | `charge_lost` | `CardSucceedsWithProvider` |
| `ActionNeverShows` | one card order | none | `ActionShows` |

Six more configurations are no runs of the project; each has the smallest instance in which one
further disagreement of section 7 shows:

| Configuration | Instance | Faults | Violated |
|---|---|---|---|
| `RefusalForgotten` | a point order beyond the points of its user and a card order, one piece | `republish` | `FailedOrderNotCharged` |
| `RejectionLost` | one point order beyond the points of its user | `reject_lost` | `HandledOrderHasPayment` |
| `WebhookLost` | one card order | `event_lost` | `TakenMoneyRecorded` |
| `RefundsOverlap` | two refunds of 2 of a payment of 3 | none | `NeverOverRefunded` |
| `CreditedTwice` | one top-up, its creation and two reconcilers | any may fail | `NeverCreditedTwice` |
| `UpdateKeepsVersion` | an adjustment and an update | none | `VersionGrows` |

Why these instances suffice. Orders compete for the only things they share, the
stock of a product and the points of a user. `PointOrders` has one order for each way a point payment can go: `o1` takes
all the points, `o2` is beyond them, and the amount of `o3`
overflows. With 52 pieces any two of them are reserved together but not all three, so each may be
refused; and `o1`, refused behind the others, is reserved when its record is handled once more after the failed payment of `o2` has
brought its pieces back. A handler may be repeated for every order before it has produced anything, and for `o1`
also after that (`MaxCopies`); whether a record is published or delivered twice makes no difference to its
consumer, and the theorems cover both.
`CardFaults` and `CardSettles`
need one order, because a card payment shares nothing with others and the
properties of these runs are about one order each; the rows of other orders never change
its guards. The first has one reconciler and every repetition, so that handlers of different kinds overlap; the second
has two, so that handlers of one kind do. `MaxCopies` 1 with the acknowledged produce gives two records of one topic,
and a handler that survives a second delivery is in the same state as before it; the
proofs then remove the bound altogether. `CardSettles`, the
liveness run, has `MaxCopies` 0: a duplicate record adds no way of never
ending, it is one more record to consume.

In `PaymentRace` every kind of call meets every other at every statement, and itself where the code lets it
(two requests with one key, one event at two replicas, two reconcilers, an event and one of another
type); the theorems then cover any number of calls. `Listing`'s two files make a first upload that
succeeds and a second that fails, and two faults a failure while going on from the first; a third would start from a
state one of the first two can leave. `Checkout`'s two items are what "the next item" needs, two attempts in each layer
let an earlier request arrive after, between and before later ones, and the bounds on presses and
retries only cut repetition: presses share no key, an instance with two presses
and one retry (1,179,072 states) showed nothing else, and the theorems cover any number of both.

In `LedgerConcurrent` the first two adjustments race to insert the account, a third finds it, and with 4
bits a credit of 5 followed by the bonus of 4 overflows; the debits fit or not,
depending on the order. `RefundsRace` has amounts that fill the payment exactly,
partly and too far, and four calls make a stale sum, a key the provider knows, and further refunds after either. `StoreRace` has one call of each kind besides the pair with one key, so
every call can meet every other at any statement; 2 pieces are enough for two of the
three adjustments only. In `Migrate` two pods have the same next file, two have different files of one
version, one fails at its last file, and one never gets as far as the lock; what is proved for any number of
pods needs no more of them here.

`CHECK_DEADLOCK FALSE` everywhere: when every row is published and every record
consumed, every call answered or every pod ready, there is nothing to do until the next request.

What a history variable excuses is stated in the property, not left out of the instance. The case it excuses is
reached in the run that checks the property (handlers overlap in `CardFaults` and `CardSettles`, reconcilers
in `PaymentRace`, refunds in `RefundsRace`; in `PointOrders` refused orders are charged and rejections lost), so what these
properties say beside the excuse is checked with it. Where the repository promises more than that, section 7
says so.

## 5. Fairness

| Steps | Assumed | Why |
|---|---|---|
| publishers (`PublishOrderCreated`, `PublishPayment`) | weak | a ticker every second or half second tries the oldest rows again until they are marked |
| consumers (all `Consume…`, `ReserveStock`, `ReleaseStock`, `HandleReserved`, `InsertProcessing`, `Charge`), committing | weak | `consumerretry.Do` attempts a record six times; then the process ends, is restarted, and the uncommitted record is delivered again |
| `ProduceVerdict` | strong | it is disabled whenever the handler stops after the transaction, and enabled anew by each delivery; producing is attempted again and again |
| reconciler: `ReconcileRead` | weak | the ticker of one minute, in every replica |
| reconciler: `ReconcileCharge` or `ReconcileRefused`; `ReconcileSettle` | strong | each charge without an answer, and each failed transaction, leaves the source pending for the next tick |
| webhook: `ReadEvent`, `ApplyEvent` | weak | a request with an event arrives and is handled, or it is lost: with the fault `event_lost`, `LoseEvent` may always take it first. No repetition is assumed |
| every step of a pod (`DbMigrate`: `Step`) | weak | a pod that was not stopped goes on |
| `Acquire` of a pod | strong | advisory locks are granted in turn, however often other pods restart and take it |
| `Listing`: the steps of the form, and the handlers together | weak | the form goes on when it is answered or told of a failure, and the seller presses the button again; handlers run on. Failures end, as `MaxFaults` bounds them |
| `Listing`: `PickImage` | weak | the form asks for an image, and the seller picks one |
| `Checkout`: the server action (`Purchase`), `Return` | weak | each of its waits is bounded: a request by a timeout of ten seconds, the attempts, and the looks at an order by their number. Nothing is assumed of order-api or of whoever settles orders |
| a customer's order or authentication, a provider's refusal or cancellation, any fault | none | nothing makes them happen |

Strong fairness says that a step tried infinitely often in the end succeeds: a database or broker that
fails *every* attempt is excluded, as no code could survive it. `OrdersSettle` therefore excuses an order
whose customer never authenticates, or whose provider's event is lost. Records of different orders make progress
independently here, while a consumer that cannot handle one record ends the process for
all; after the restart its partitions are fetched again in no particular order, and the
liveness runs contain no record that fails for ever except the action-required record of
`ActionNeverShows`, where there is only one order. In `CardSettles` that record
waits as long as the order is open; the records of the result topics, partitions of
their own, are assumed to be fetched.

## 6. Proofs

Every safety and action property that a passing run checks is a theorem, `ImplementsSaga` among them. The theorems
about the order flow are proved for every set of orders, users and products, all quantities and
prices, any stock and balance, any width of machine integer, any `NewIntents`, any
`MaxCopies`, any number of reconcilers, every set of faults, and handlers that overlap in any way. Those of
`CardPayment` and `Refunds` hold for any number of calls of every kind, which overlap and fail as the code lets them,
and any number of replicas.

Every theorem rests on the named assumptions on constants
(`OrderFieldsAssumption`, `IntModulusAssumption`, `FaultsAssumption`, `MaxCopiesAssumption`,
`InitialStockAssumption`, `PaymentConstantsAssumption`, `CardPaymentAssumption`, `PointLedgerAssumption`,
`RefundsAssumption`, `InventoryStoreAssumption`, `DbMigrateAssumption`, `CheckoutAssumption`, `ListingAssumption`),
which TLC evaluates in every run. Three kinds of theorem, about properties the code keeps only so far, have a hypothesis
of their own: `OnlyAdjustments` and `AmountsFit`, under which adjustments take one step, and a baseline of
one file, as every service has.

The order flow, in `OrderFlowProofs`:

| Theorem | States |
|---|---|
| `TypeCorrect` | `Spec => []TypeOK`; no stock or balance below zero |
| `CausalChainInvariant` | `Spec => []CausalChain` |
| `PaidSettled` | `Spec => []PaidOrderIsSettled` |
| `FailedNotCharged` | `Spec => []ChargedFailureWasRefused` |
| `ReleaseJustified` | `Spec => []ReleaseIsJustified` |
| `OneResult` | `Spec => []OnePaymentResult` |
| `OutcomesFinal` | `Spec => OutcomesAreFinal` |
| `FlowImplementsSaga` | `Spec => ImplementsSaga` |
| `HandledHasPayment` | `Spec => []OnlyRejectionsGetLost` |
| `LedgerExplains` | `Spec => []LedgerExplainsStock` |
| `PointsMatch` | `Spec => []PointsMatchPayments` |
| `StockImplementsBook`, `PointsImplementBook` | `Spec => ImplementsStockBook`, `Spec => ImplementsPointBook` |

The other modules:

| Theorem | Module | States |
|---|---|---|
| `TypeCorrect`, `PairsAgree`, `ReceiptsSettle`, `OrderToldLastOutcome`, `NoDeadlock` | `CardPaymentProofs` | `TypeOK`, `PairAgrees`, `ReceiptSettles`, `LastResultTellsPayment`, `NoStandstill` |
| `PointsCreditedOnce` | `CardPaymentProofs` | `CreditedOnce`: once unless two reconcilers raced |
| `TypeCorrect`, `LedgerAlwaysVerifies`, `LockHolds`, `AnsweredOnce` | `PointLedgerProofs` | `TypeOK`, `LedgerVerifies`, `LockProtectsBalance`, `EachAnsweredOnce` |
| `AdjustmentsAtomic` | `PointLedgerProofs` | `ImplementsBook`, for amounts that are machine integers (`AmountsFit`) |
| `TypeCorrect`, `StatusCorrect`, `ProviderPaid` | `RefundsProofs` | `TypeOK`, `StatusTellsRefunds`, `ProviderPaidRefunds`, for any refunds at the same time |
| `TypeCorrect`, `KeysMoveOnce`, `AdjustmentsContinue` | `InventoryStoreProofs` | `TypeOK`, `KeyMovesStockOnce`, `AdjustsCurrentRow` |
| `LedgerExplains`, `VersionsGrow`, `AdjustmentsAtomic` | `InventoryStoreProofs` | where only adjustments run: the ledger explains the row, its version grows, `ImplementsBook` |
| `TypeCorrect`, `SchemaOrdered`, `OneFile`, `ReadySchema`, `RefusalsJustified` | `DbMigrateProofs` | `TypeOK`, `SchemaInOrder`, `OneFilePerVersion`, `ReadyHasSchema`, `NoNeedlessRefusal`, for any number of pods |
| `BaselineKept` | `DbMigrateProofs` | `BaselineNotExecuted`, for a baseline of one file |
| `TypeCorrect`, `EachOrderedOnce`, `OneOrderOpen`, `CartKept` | `CheckoutProofs` | `TypeOK`, `OrderedOnce`, `OneOpenOrder`, `CartKeepsUnpaid`, for any cart and any number of presses, attempts and looks at an order |
| `TypeCorrect`, `ListedHasBlob`, `PublicWhenWhole`, `ImageAlwaysShown` | `ListingProofs` | `TypeOK`, `FilesHaveBlobs`, `PublishedWhole`, `ImageShown`, for any set of files and any number of faults |

`PaidOrderIsSettled` is not inductive: nothing in it says where the record that
makes an order paid came from. The strengthening is `CausalChain` (with `TypeOK`), which
follows a fact back to its cause, one service at a time:

    orders[o] = "paid"            =>  a payments.succeeded.v1 record       EffectComesFromRecord
    orders[o] = "failed"          =>  a refusal or a payments.failed.v1    EffectComesFromRecord
    a result record               =>  its outbox_events row                RecordComesFromOutbox
    the row for success / failure =>  payments[o] succeeded / ended        OutboxTellsPayment
    a payment, a reserved record  =>  stock reserved in the ledger         StockBeforePayment
    a verdict, an outbox row      =>  an order                             OrderBeforeReservation

and needs three facts about handlers under way: a refusal under way means that no stock is
reserved (`RefusalMeansNoStock`), a payment being created is `processing` without a
provider reference (`CreatingIsProcessing`), and a payment in flight is `processing`, with
one handler only, unless handlers of it overlapped (`InFlightIsProcessing`). Where they did, the
second one settles a payment that is already final, and its result may be the other one; the
chain holds all the same, because each result has an outbox row and each row a payment that was settled. What
`OutcomesAreFinal` and `OnePaymentResult` say of such a payment is what remains true of it.

The proofs go service by service: the step of one service leaves the variables of the
others alone, so each conjunct has to be shown only for the actions that can disturb it.
The steps of payment-api are first mapped to what they do to the rows of one payment
(`PaymentEffect`: nothing, create it, move a handler, settle it in one of three ways, announce it), and the proofs go on
from these effects; a step that settles finds a payment it may settle (`MaySettle`).
`FlowImplementsSaga` maps `orders` to the customer's view, ledger entries to held and
returned stock, the payment to the charge, `overlapped` to contested payments, and `inventory.rejected.v1` records to refusals;
each step of the flow is then shown to be a step of `OrderSaga` or to leave the mapped
variables unchanged, with `CausalChain` supplying the guards of the saga's steps.

The other invariants of the flow:

- **Stock.** `LedgerExplainsStock` is inductive with `TypeOK`: an entry appended at the end leaves what is before
  each earlier entry as it was, and it becomes the last one of its product. Nothing in it depends on who adjusts.
- **Points.** `PointsMatchPayments` is a sum over a set of orders, which may be infinite, so the invariant also says that
  the orders a user has paid with points are finitely many (`PointsPaidFinite`). That a sum grows by the element
  added is proved by well-founded induction over the subsets of a finite set, applied to the recursive
  function the sum is folded with. `PointOrdersAside` says that an order paid with points has no
  handler but the one that creates its payment, so no overlap reaches it.
- **Handled orders.** A handler that creates a payment has recorded it, so whatever commits the record of reserved stock
  finds a payment, or could record none (`LostUnjustly`). That it stays so needs that nobody gains points
  (`BalanceFalls`): points that do not suffice for an order never will, and the error that is dropped loses nothing but
  a rejection.
- **Failed orders.** By `CausalChain` a failed order that was never refused has a `payments.failed.v1` record, hence a payment that
  was declined, and has not succeeded since unless handlers overlapped.

**The book of adjustments.** The order flow takes one step where the services run a transaction of several statements. That
it may is the statement of four refinements of the same module: `AdjustmentBook` has a quantity per account and the set
of adjustments that have taken effect, each in one step, once for its key, with the amount asked for. `InventoryStore`
and `PointLedger` implement it (the locked row is what the call has read, and the key is
looked up again, or the call recorded, as it commits), and so do the stock and the points of `OrderFlow`. In `InventoryStore`
this holds for adjustments only: an administrator's update sets the quantity. In `PointLedger` it is the sum that
overflows which needs care: of two amounts below half the modulus the wrapped sum is exact or negative, and a
negative one is refused (`WrapSum`). No run checks the four refinements.

The inductive invariants of the other modules:

- **`CardPayment`**: `PairInv` says that while a call creates the payment, only cancellations are
  under way, and they have found no provider reference (`CreatorAlone`): events are looked up by the
  reference, and the reconciler waits for a minute. So whatever the creation saves, nobody has captured or
  failed the payment meanwhile. `ReceiptInv` adds that an event recorded without an effect has seen the payment
  settled, and that nothing makes a settled payment processing again. `CreditInv` holds until two reconcilers race
  (`raced`, which stays: `RacedStays`); it carries
  `CreatorAlone` over to the one reconciler (`ChargerAlone`, which needs that a pending source has been
  touched by nobody: `PendingUntouched`); after that, points can be credited by an event only, whose
  receipt is held by one transaction at a time (`ReceiptHeldOnce`, `NoSecondCredit`). That a top-up shown as succeeded has been
  credited holds in any case (`ShownIsCredited`). `NoStandstill`
  follows from the order of the writes: a call that waits for a row waits for one that has got further in the
  order (`HeldInOrder`), so the one that has got furthest waits for nobody.
  `LastResultTellsPayment` is inductive with the types: every transaction that settles a payment appends
  the result it settles it with, so the last result in the outbox says whether the payment has succeeded.
- **`PointLedger`**: `LedgerInv` is `TypeOK`, `LedgerVerifies` and `LockProtectsBalance`. The
  chain can only be continued because the entry is computed from the balance and the
  entries of the moment the row was locked, so the first two need the third; that in turn needs the
  insertion of an account to exclude another one just as a locked row does. `OnceInv` adds who is in the
  ledger already.
- **`Refunds`**: `RefundsInv` says that what a call under way has read was the sum once, and refunds only
  become more, so its key names no sum beyond the payment (`ReadsFit`), which bounds what the provider pays; that a refund about
  to be recorded has been paid (`RecordedIsPaid`); and that, until one is recorded on a stale sum, the provider has refunded at
  least what is recorded and has seen no key beyond it (`ProviderCovers`).
- **`InventoryStore`**: `StoreInv` says that whoever holds the row has read it as it is, or is
  inserting it with the default stock, and is the only one (`LockInv`).
- **`DbMigrate`**: `MigrateInv` says that one pod holds the lock and knows exactly what is recorded, and that
  the records have no gap and account for everything that was executed. `BaselineInv`, for a baseline of one
  file, says that it is recorded before anything is compared or applied: the one row is written, or it
  is not, so no stop can come in between.
- **`Checkout`**: three layers. `OnceInv` says that a key being inserted has no row and is inserted by one request
  (`InsertedAlone`), so a row appended is the first of its key. `LoopInv` says that a request that can still
  create an order, and every order that is not paid, is of the item its purchase is at or ended at
  (`CallsAreCurrent`, `OpenIsCurrent`); the loop goes on only when the order it has seen
  is paid, and paid is final (`SeenIsPaid`). A request that was given up long ago can therefore add no second
  open order. `CartInv` says that what counts as bought is paid for (`BoughtIsPaid`), and that while the button is
  busy the cart holds nothing but what the purchase was given (`CartInBusy`).
- **`Listing`**: `ProtocolOK` says which requests can be under way in each state of the form, that the form waits
  for one at a time (`Awaited`, `OneAtATime`), and what nobody waits for any more can still be: any request of an
  earlier attempt. On it rest three invariants that do not need each other. `UploadsStored` follows a file from its upload
  to its asset: whoever still may list it, also a handler that runs on after its timeout, has a blob to name.
  `PublicWhole` says that once a row is public, or a request under way could make or keep it so,
  every file is listed and uploaded; that needs `NothingForgotten`: a file is in the
  form's queue, listed, or taken back. `InTime` says, while nothing has been carried out late, that a request has read the row
  as it is, since the form alone changes it – which is exactly what a late handler breaks.

Two of these proofs changed the model: `Accepted` of `Listing` and `AfterWait` of `Checkout` had overlapping `CASE` arms,
where TLA+ leaves the choice open and TLC takes the first. They are `IF` … `ELSE` now, in the order of the code.

Only model-checked are the liveness properties (`OrdersSettle`, `StockComesBack`, `PaymentShows`, `TakenMoneyShows`,
`PodsEnd`, `SellerGetsThrough`, `PurchaseEnds`): TLAPS proves neither liveness under fairness nor ENABLED.

## 7. Where code and documentation disagree

With a run that shows it:

1. `ReconciledUnconfirmed`: the reconciler records as `succeeded` every charge that returns
   without an error, also one answered `requires_action`
   (`payment_usecase.go:347`). After a crash between `InsertProcessing` and `Charge` the order
   becomes `paid` although nobody has authenticated the payment, against "Card payments remain
   `processing` until a signed … webhook arrives" (`docs/ARCHITECTURE.md:45-46`).
2. `ActionNeverShows`: `payment_action_required` has 23 characters and `orders.status` is
   `varchar(20)` (`migrations/000001_baseline.sql:4`): the update always fails, and the order never
   shows the URL its customer needs (`services/payment-api/README.md:11-12`).

Shown in the same models by no run; the property that is violated, and the configuration or the instance
where TLC finds it, are in brackets:

3. A refused reservation rolls back and leaves no row under its key
   (`inventory.go:70`). If `orders.created.v1` is delivered again after stock has come back, it
   is reserved and paid while order-api keeps the order as `failed`, against "Kafka redelivery does
   not duplicate stock or payment" (`docs/ARCHITECTURE.md:42-43`). [`FailedOrderNotCharged` in
   `RefusalForgotten`, and in `PointOrders`. `ChargedFailureWasRefused` says that a failed order is charged in no other way.]
4. `refundPayment` sums the earlier refunds outside the transaction that records the new
   one and locks nothing (`payment_server.go:285`), so two refunds of a point payment at the same time exceed
   it together, which the comment at `payment_server.go:260` excludes. [`NeverOverRefunded` in `RefundsOverlap`]
5. Two reconcilers, as with the two replicas of payment-api in `platform/kubernetes/minikube/servers.yaml:159`,
   list the same pending source, charge with the same key, and each credit the top-up: the transaction at
   `payment_usecase.go:347` looks at nothing again. The comment at `payment_usecase.go:208-209` calls the reconciler
   idempotent. [`NeverCreditedTwice` in `CreditedTwice`]
6. `CancelPayment` saves the payment it has read: one that has ended in between is taken back, with
   its points credited or its money captured, since the provider cancels no intent that has succeeded
   (`payment_usecase.go:447`). And if it reads the source before the creation has saved the reference, the intent is not
   canceled at all, and the customer can still pay for it. [`CanceledBeforeEnd` in `PaymentRace`] The
   comment at `payment_server.go:232` and `services/payment-api/README.md:38` allow only `pending` payments
   to be canceled; the code also accepts `processing`, the status every card payment has until it ends.
7. An attempt to publish a new listing that fails after its image was uploaded cannot be resumed by
   pressing the button again, as its message says (`listing-form.tsx:152`): the image counts as uploaded, but not as the
   listing's (`listing-form.tsx:86`), and the form asks for one. [`ResumeAccepted` in `Listing`]
8. `createPoint` drops the error of `recordRejected` (`payment_usecase.go:161`): the record is
   committed, no event is sent, and the order stays `payment_pending` with its stock reserved, which
   the comment at `payment_usecase.go:69-70` says must not happen. [`HandledOrderHasPayment` in `RejectionLost`, and in
   `PointOrders`. `OnlyRejectionsGetLost` says that nothing else is lost.]
9. `VerifyChain` reads transactions and accounts in two statements, outside a transaction in
   `ListTransactions` (`point_repository.go:126` and `:141`): a credit that commits between them makes the listing
   fail with an integrity violation of an intact ledger. [`NoFalseAlarm` in `LedgerConcurrent`, or with
   `CallOf <- CreditAndAudit`]
10. `GetPoints` lists the transactions and credits the welcome bonus in two calls without a key
   (`point_handler.go:128`): two first requests at once credit it twice, against "once" in the comment at
   `point_handler.go:114`. [`OneWelcomeBonus` with
   `CallOf <- TwoVisits` and `IntModulus = 32`, where two bonuses fit the balance]
11. `UpdateProductInventory` saves every column as it was read except the quantity, version included
   (`inventory-api/internal/grpcserver/server.go:61`): a change leaves the version or sets it back, and an
   adjustment in between is lost, against "version grows by one with every update"
   (`product_inventory.proto:16`). [`VersionGrows` in `UpdateKeepsVersion`]
12. `AdjustContext` looks the key up before it waits for the row and not again: a request sent again while
   the first takes the last stock is answered with insufficient stock, not with the first result as
   `product_inventory.proto:28-29` says. [in `StoreRace`, a call that gets to `"insufficient"` with its key recorded]
13. The rows of a baseline are written one by one outside a transaction, and only when none is recorded
   (`dbmigrate.go:180`): with a `BaselineVersion` above 1, which no service has, a stop in between leaves the
   rest to be executed on a database that has it. [`BaselineNotExecuted` in `Migrate` with `BaselineVersion = 2`]
14. The provider sends a webhook once (`cmd/mock-stripe/main.go:132`), and the reconciler lists pending sources only
   (`payment_source_repository.go:43`), not those that wait for the customer. After a webhook that did not arrive the money is captured and
   the payment stays `processing`, while `services/payment-api/README.md:15-16` has the reconciler make the states of
   provider and service converge. [`TakenMoneyRecorded` in `WebhookLost`]

Met beside the models, where nothing was checked:

- A provider that gives up on a payment and has it confirmed by its customer afterwards (the mock lets it)
  keeps the money of a failed order: the second event is recorded without effect. `TakenMoneyShows` excuses it.
- `ReconcileProcessing` returns at the first error, so one source that fails keeps the later ones of its tick waiting.
- Pressing the button again after a purchase timed out is a new purchase with a new key, by intention
  (`checkout-button.tsx:27`), so an order that was only slow is placed twice; the top-up form works the same way.
  Leaving for the action URL of one item forgets the rest of the cart.
- In the sell form, a file taken back while the upload is running is uploaded and listed all the same; a lost answer of
  the confirmation leaves two asset rows, one per attempt; editing a draft makes it public before its
  files are uploaded; the last file of a public listing can be removed; and the manage page publishes a draft without an
  image. `PublishedWhole` is about new listings in the form.
- A `Save` by media-api after the product was deleted brings the row back, and `deleteListing` drops the errors of
  the assets it deletes.

## 8. What is not modelled

- Most of the repository's Go lines are generated (`*.pb.go`): they define messages and stubs and decide nothing.
- `Repository.Complete` of order-api, which has no caller; the copy of the inventory service in
  media-api, which `cmd/api/main.go` does not register; and bff's older `OrderHandler` with its compensations, which no
  program reaches (`main` calls `NewRouterWithOrderAPI` with an order API).
- A consumer that keeps working after its partition was taken from it.
- Back-off times and attempts of `pkg/consumerretry` and `pkg/retry`: a consumer is retried until it succeeds or stops;
  a record that can never be handled keeps its partition waiting, which the order flow has only for
  `payment_action_required`.
- Of bff, media-api and client-web: everything that only reads or shows; users, categories and asset purposes; sub images and
  `is_primary`; the old `file_url` of a product; deleting a product; files added to the form, or another
  image picked, while it is uploading; the top-up form, whose request is a creation of `CardPayment`.
- The content of idempotency keys: the suffix of a ledger key makes one of more than 237 characters too long
  for its column.
- Arithmetic of stock does not wrap: an adjustment is checked against the stock, and stock is set by administrators.
- Health, authentication, logging, metrics, and the deployment beyond what
  it means for the services (several replicas: `republish`, `Reconcilers`, handlers that overlap; restarts: `redelivery`).

## 9. Plan

The flow of orders came first, since it crosses every service and is where order,
duplication and crashes meet; then the parts whose difficulty is inside one service, where statements
of concurrent calls interleave; then the requests of the client that cross services without Kafka.
What is left, in order of importance:

1. That `CardPayment` without overlapping calls implements the payments of `PaymentApi`, the way both sides implement
   `AdjustmentBook` for stock and points.
2. A `ConsumerRetry` module below `Kafka`: attempts, shutdown, and records that can never be handled beside others of
   their partition.
3. A sub-image gallery in `Listing`, with `is_primary`.
