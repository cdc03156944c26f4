# Huele Huele ERP: a verification project

TLA+ models of the ERP's transactional core: stock, orders, checkout, transfers, the choice of
a dispatch origin, customers, loyalty points, commissions and notifications. They are checked
with TLC on small instances and proved, where it matters most, with TLAPS for every value of
the constants. Paths below are
relative to the repository. `PROJECT.json` maps each definition to the lines it models and
lists the runs, the hazards and the theorems.

## 1. The system

A NestJS API (`apps/api`), a BullMQ worker (`apps/worker`) that boots the same modules in a
second process, two Next.js clients (`apps/web`, `apps/admin`), PostgreSQL through Prisma and
Redis. Most services keep their state in `Map`s of one Node process and save it as a *module
snapshot*: the whole map, serialised into one row of `module_snapshots`
(`ModuleStateService.save`, an upsert whose errors are logged and dropped). Some tables are
written directly: stock balances, transfers, products, customers.

Node runs one handler at a time and switches only at an `await`. So the unit of atomicity is
the code between two awaits, and every hard behaviour of this system is of one of these
kinds: state read before an await and used after it; two handlers interleaved in each other's
awaits; a handler that throws half way; a snapshot copied in one step and landing in another;
a restart that reloads older snapshots; two processes with different memories.

### Components

| component | state it keeps | operations | what makes it correct |
|---|---|---|---|
| Inventory (`inventory.service.ts`) | a balance per (warehouse, variant) in memory and in PostgreSQL; one reservation record per order | `syncOrder` (reserve, confirm, release, reverse, reallocate), `adjustWarehouseStock`, `rebuildFromOrders`, the transfer operations | no unit promised twice; the counters are the units the orders hold; a release ends |
| Orders (`orders.service.ts`, `order-lifecycle.ts`) | orders, idempotency index, CRM data | checkout and backoffice creation, manual review, payment, transition, assignment, deletion, restart | sold implies paid; decisions are final; cancelled orders hold and earn nothing |
| Loyalty (`loyalty.service.ts`) | accounts, movements, redemptions | record, settle, reverse, redeem | points follow the payment; balances are the sum of movements |
| Payments (`payments.service.ts`) | none | approve, reject, register; by queue if enabled | one decision per request |
| Checkout (`commerce.service.ts`), coupons | none; coupons | quote, submit | one order per request |
| Transfers (`transfers.service.ts`) | transfers, lines, incidents in PostgreSQL | create, dispatch, receive, cancel, reconcile | units leave once, arrive once, and are never lost |
| Commissions (`commissions.service.ts`) | commissions, rules, payouts | sync from orders, create and settle a payout | each commission paid once, by a payout that contains it |
| Notifications, worker, queues | notifications, logs; jobs in Redis | queue, dispatch, mark; enqueue, process, retry | nothing lost between two processes |
| Persistence (`module-state.service.ts`) | one row per module | load, save | what is saved is a state that was |
| Customers (`customers.service.ts`, links in Orders) | customers, merges and identity conflicts in PostgreSQL; a link per order | resolve an order's customer, decide a conflict, merge, create, edit, delete, reconcile at start | an order leads to one active customer or to a conflict somebody can decide; decisions stay |
| Warehouses and coverage (`warehouses.service.ts`, the engine in Orders) | warehouses, their service areas | edit, suggest and assign an origin | the documented origin or none; the units are where the order says |
| Vendors, products, wholesale, marketing, CMS, media | their records | CRUD | local validation |
| Auth, audit, observability, health, dashboards | sessions, logs | | independent of the order flow |
| Web, admin, UI and shared packages | none on the server; the checkout page keeps its request id | | a retry sends the same id, an edit a new one |

### How they interact

A checkout or backoffice request creates an order: Orders asks Inventory for a sync (which
reserves or confirms units), puts the order in its map, records points in Loyalty and saves.
A payment (manual review through Payments, manual registration, online confirmation) sets the
order `confirmed` and `paid`, then plans a warehouse, syncs the inventory, settles the points
and saves; a rejection, cancellation, expiry or refund sets its status, syncs (release or
reverse), reverses the points and saves. Payments then has Commissions recompute everything
from the orders. Every handler calls Notifications without awaiting it. Transfers, adjustments
and orders change the same balances. Customers resolves the customer of every order that is
created, and again of all orders at start. At start Orders loads its snapshot, may assign
warehouses, and has Inventory rebuild all reservations from the orders' statuses. The worker
runs payout and notification jobs over its own memory and writes the same snapshots. None of
these calls takes a lock.

## 2. The modules

| module | models | how |
|---|---|---|
| `InventoryBalances` | the data of `InventoryService` | rows, merged lines, and the check (`Ready`) and the change (`Effect`) of the four operations on one balance |
| `InventorySync` | `syncOrder`, `reserveLines`, `confirmLines`, `releaseLines`, `reverseLines`, `reallocateLines`, `persistWarehouseBalances`, `adjustWarehouseStock` | one action per stretch between awaits |
| `StockHolds` | what the inventory promises | an abstract specification: orders hold units, without awaits, counters or rows |
| `OrderLifecycle` | the handlers of `OrdersService`, the points of an order, snapshots and restart | a handler is a guard and a synchronous prefix, then one action per await |
| `WarehouseTransfers` | `TransfersService` and the transfer operations of `InventoryService`, over `InventoryBalances` | one action per query |
| `FulfillmentOrigin` | the suggestion engine and the assignment of an origin in `OrdersService`, with `patchWarehouse` | one action per await; the ranking as operators |
| `LoyaltyAccounts` | `LoyaltyService` | each handler is synchronous: one action |
| `CheckoutRequests` | the checkout page, `CommerceService`, `createCheckoutOrder`, `deleteOrder`, over `LoyaltyAccounts` | one action per await of a request, and the page's own steps |
| `CommissionPayouts` | `CommissionsService` in the API and in the worker, and the payout jobs | each handler is synchronous: one action |
| `NotificationDelivery` | `NotificationsService` in two processes, `BullMqService`, the worker's dispatch | one action per await |
| `CustomerIdentities` | `CustomersService` and the customer links of `OrdersService` | one action per transaction |
| `Tallies` | sums | as sizes of sets of tokens, used wherever units or points are added up |
| `InventorySyncProofs`, `OrderLifecycleProofs`, `WarehouseTransfersProofs`, `FulfillmentOriginProofs`, `CommissionPayoutsProofs`, `CheckoutRequestsProofs`, `NotificationDeliveryProofs`, `CustomerIdentitiesProofs` | theorems about the module each is named after (and `StockHolds` in the first) | section 4 |
| `MC...` | instances for TLC: the values of the constants, symmetry, and the constraints of section 3 | |

The mutated forms of definitions (see section 3) stand beside the definitions they replace and
are used by nothing else.

### InventorySync

`balance` is `warehouseBalances`, `db` the rows of `warehouse_inventory_balances`,
`reservation` the `reservations` map, `call` the `syncOrder` calls in flight, `adjustment` the
stock adjustment in flight. A call starts with `SyncOrder`: it has read the order's record
and knows, from it and the state asked for (`Plan`), which operations it will run. Each
operation awaits the variants' rows (phase *resolving*), then checks and changes the balances
without yielding (`Mutate`, or `Throw` when a check fails), then awaits one upsert per balance
(phase *writing*: `UpsertNext`, `UpsertLast`; the row written is the one read when the upsert
was issued) and sets the record. `Throw` keeps what the code keeps: `reserveLines` checks every
line before it changes one, the other three change the lines before the one that fails. An
adjustment is two steps: the transaction (`Adjust`) and the replacement of the balance in
memory by the row it returned (`ApplyAdjustment`).

Any state may be asked of any order at any time, with or without reallocation: a superset of
what Orders asks. The constant `Overlap` says whether two calls for the same order may be in
flight (nothing in the code prevents it); an order not yet in the orders' map cannot be named
by a second call (`Visible`).

### StockHolds and the refinement

An order holds nothing, or reserved units, or confirmed units, or is moving between
warehouses, or has given them back for good; the units held of a balance fit its stock.
`KeepsPromise` in `InventorySync` says that the service implements it. The mapping
(`AbstractHold`): while a call is writing, the order holds what its record is about to say,
since the balances were already changed; a record that says released is *moving* when the
same call still has to reserve. The refinement holds when calls for one order do not overlap
and nobody adjusts stock: both conditions are needed, as section 3 says.

### OrderLifecycle

`order` is the orders map (status, payment status, method, manual request, warehouse),
`hold` and `points` what Inventory and Loyalty keep for the order, `handler` the running
handlers, `saved` the snapshots. The code sets status and payment *before* its first await
and does everything else after, so each handler is one action (`approveManualRequest`,
`rejectManualRequest`, `registerAdminManualPayment`, `confirmOnlinePayment`,
`transitionOrderStatus`, `assignOrderFulfillment`, the three creations) followed by `Assign` or
`Plan`, `Sync`, `Settle` or `Reverse`, `Save` and `Land`. `Sync` uses the order as it was when
`synchronizeOrderInventory` was called (`SyncOf`), and may throw, which ends the handler with
the status already changed. `Save` copies the whole map; `Land` writes that copy, whatever
landed in between. `Restart` is `onModuleInit` after the process stopped anywhere.
`Synced` is `syncOrder` as one step, as `StockHolds` promises it. `stopped` is history for the
properties: the orders whose settlement or reversal a conflict of the inventory prevented.

### WarehouseTransfers

`balance` and `db` as in `InventorySync`; `transfer` is the rows of `warehouse_transfers` with
their lines and incident; `orderHold` what the orders hold of the same balances; `call` the
calls in flight. A call reads the row and checks its status (`createTransfer`,
`dispatchTransfer`, `cancelTransfer`, `receiveTransfer`, `reconcileTransfer`), awaits the
variants (*resolving*), checks and changes all balances at once (`Mutate` or `Conflict`),
writes them one by one (*writing*: `Upsert`), and then writes what it did: `Insert` or the
`Record...` actions (*recording*), each line (*lines*: `UpdateLine`, from what the call had read
of the line), reads the transfer again (*rereading*), writes the incident (*incident*) and the
status (*status*). The number of a creation is the last one read plus one, so two creations may
take the same and the second `Insert` fails with its units reserved. `Restart` loses the calls
and rebuilds the reservations from the orders alone. `Overlap` says whether two calls for one
transfer may be in flight.

### FulfillmentOrigin

One order from its quote on with its status, the warehouses' configurations (`warehouse`), the free units
(`free`), what the order holds (`hold`) and the calls. A call of the engine awaits the list of
warehouses (*load*), then the stock of each that covers the destination, one after another
(*assess*), ranks those that can serve (`Conclude`: `matchWarehouseCoverage`,
`resolveSuggestionBucket`, `compareFulfillmentCandidates` as `Key`), and awaits the warehouse
once more (*build*) before it rewrites the order's items (`Apply`), unless somebody assigned an
origin meanwhile (`Dropped`) or the warehouse was suspended (`NotActive`). A manual assignment
goes *validate*, *check*, *reassign*. Both end in the inventory: *sync* (`Take`, `SameLines`,
`GiveBack`, `Release`, `Conflict`) and, for a move, *take*. A payment
(`applyCommercialConfirmation`) and an operator's transition (`transitionOrderStatus`: on
within the dispatch queue, deliver, cancel or expire, refund) set the status and, unless the order goes to the dispatch
queue without an origin, go to the inventory with the lines as they are: a confirmation
consolidates the units, a cancellation or refund gives them back (`Release`) while the origin
stays, and a payment that comes after the cancellation revives the order, whose record can
reserve no more. `crossed`, `refused` and `revived` are history. `patchWarehouse` and `StockMoves` change what
a running call has read.

### LoyaltyAccounts and CheckoutRequests

`account`, `movements` and `redemptions` are the maps of `LoyaltyService`; every handler that
moves points is one action, with its clamps at zero (`Less`). `CheckoutRequests` extends it
with the page (`shopper`: the request id it reuses, the call it waits for, the result it shows),
the requests being served (`call`: *quote*, *plan*, *reserve*, *enter*, *save*), the number
sequence, the orders with their idempotency index, the units (`held`) and the orders' snapshot
(`saved`). `Quoted` takes a number and looks the id up: a known id with the same quote gets its
order, with another quote a 409. `Enter` puts order, index entry and points in memory in one
step; `Save` lands the copy. `Lose`, `Edit`, `deleteOrder` and `Restart` are the faults.

### CommissionPayouts

Per process a `view` (orders, active vendors, rate) and a `book` (commissions and payouts), the
write it has started (`inFlight`), and the shared snapshot (`saved`). `SyncFromOrders` recomputes
every commission from its order (`ResolveStatus`) and every payout from its commissions
(`ReconcilePayout`); `listCommissions`, `syncFromOrders`, `createPayout` and `settlePayout` are
that plus their own change. Payouts are prepared by a job of the worker or, when the queue
refuses or is off, by the API (`queueCreatePayout`, `queueSettlePayout`, `processPayoutCreate`,
`processPayoutSettle`); the queue drops a job whose id it holds. `persistState` lands a write,
`Restart` reloads `saved`. `paidOut` is history: how often each process paid the commission of
an order, counting from what `saved` shows as paid when the process starts.

### NotificationDelivery

Per process a `memory` of all notifications, one `row` of `module_snapshots`, the jobs (`job`)
and the handlers (`task`). Each handler is a *section*: read the row over the memory (`load`,
`loadFails` then `rewrite`), change one record (`Create`, in any status the request names, `Event`, `Find`, `Mark`), write the
whole memory back (`CreateLanded`, `EventLanded`, `MarkLanded`). `Queue` adds the job after the
record is written; `Take`, `Find`, `Send`, `Mark` are the worker's dispatch, three attempts at
most. `RestartApi` queues what is pending (`requeue`); `RestartApiBlind` is a start whose read
fails and which writes its empty memory over the row; `RestartWorker` gives the jobs back.

### CustomerIdentities

`customer` is the customers' rows (status, the one it was merged into, clues: document, email,
phone), `conflict` the identity conflicts by order, `link` what each order of the API names,
`call` what a call has read and does next, `todo` the orders a start has still to reconcile. A
creation reads the candidates (`resolveCustomerFromOrderSnapshot`), opens a conflict, enriches
the candidate or creates a customer (`OpenConflict`, `UseCandidate`,
`materializeCustomerFromOrder`), and enters the order (`EnterOrder`). A merge is checked, then
committed (`MergeCommit`), then its orders are reassigned (`reassignMergedCustomer`); a decision
marks the conflict (`MarkConflict`, or a merge) and then reaches the order
(`applyCustomerResolution`). `Restart` and `Reconcile` resolve all orders again.

## 3. What is checked

Every property of a passing run has a mutant in `PROJECT.json`: an edit of a mapped definition
as a plausible bug would make it, under which TLC finds the property violated.

| run | instance | shows |
|---|---|---|
| `serial` | two orders, warehouses, variants and calls; calls of one order do not overlap; 120 307 states | `BooksBalanced`: the counters are exactly the units the orders hold. `OwnUnitsThere`: a confirmation, release or reversal never fails for want of its own units, although the counter is shared. `KeepsPromise`: implements `StockHolds`. `ReleaseEnds`: an accepted release ends with the units given back |
| `overlap` | one variant; calls of one order overlap, stock grows; 63 143 states | `TypeOK`: counters never go negative. `NoOversell`: reserved plus committed units never exceed the stock |
| `move_confirm` (violation) | as `serial` | `ConfirmationConsolidates` fails: a confirmation that moves the order leaves it reserved |
| `orders` | one order, two warehouses of one unit, two handlers, one restart; 1.6 M states | `SoldIsPaid` in memory and in all a restart may load; `PaymentIsFinal`, `PointsFollowPayment`; `ReversedHoldsNothing`: units come back before points, and for good. `CancelledGivesBack`, `ApprovedSaleSettles`: an order that was stopped or approved ends with its units and points where they belong |
| `cancel_move` (violation) | as `orders`, no restart | `CancelledHoldsNothing` fails: a cancellation and an assignment that cross leave a cancelled order with a unit |
| `transfers` | two transfers, two variants, one order, two calls, one restart; 440 thousand states | `ReservedAccounted`, `StockAccounted`: every reserved unit and every unit of stock has its owner at every await. `NoDoubleUse`, `OwnReservationThere`. |
| `origin` | four warehouses, two lines, two calls, one change by others; 970 thousand states | `BestOrigin`: an undisturbed plan assigns the origin the documentation describes, or none. `AssignmentKept`: only an operator replaces an origin. `HeldAtOrigin`: at rest the units of an order that stands are at its origin, and a cancelled or refunded one holds none |
| `checkout` | two shoppers, two warehouses of one unit, two calls, three numbers, two faults; 207 thousand states | `OneOrderPerRequest`, `UnitsOfOrders`, `AnswerIsOwn` under lost answers, retries, edits, deletions and restarts; `PointsBooks` and `NeverShort`: accounts add up, and never below what was earned |
| `payouts` | two orders of one month, one vendor, two rates, API and worker, two disturbances, restarts among them; 218 thousand states | `PaidOnceUnmoved`: no process pays again what it paid or loaded as paid. `PaidIsNotDue`: nor finds it due. `SyncIsStable`: reading twice gives one answer |
| `paid_once` (violation) | two vendors, no queue | `PaidOnce` fails: an order moved to another vendor is paid twice |
| `notifications` | two messages, one of them an email, one handler, two worker slots, born in any status, one restart, one fault; fair; 724 thousand states | `NoneLost`, `SentWasAccepted`, `SentOnce`, `AllSettled` while sections stay apart and PostgreSQL answers |
| `identities` | one person known twice, two orders, two calls, one edit, one restart; 1.2 M states | `MergedEndActive`, `LinksResolve`, `ConflictsListed`, `DecisionKept` |

**The three disagreements.** `move_confirm`: `syncOrder` sees changed lines and goes to
`reallocateLines`, which restores the state the record had before (reserved) at the new
warehouse; `docs/03-casos-de-uso.md:109` says a confirmed sale consolidates its stock.
`cancel_move`: `transitionOrderStatus` sets an order cancelled and asks for the release of its
lines as they are; before that sync runs, `assignOrderFulfillment` rewrites the lines and moves
the unit to another warehouse; the release finds other lines, may not reallocate and throws, so
the cancelled order keeps a reserved unit, and its points; lines 110 and 124 of the same
document say that a cancellation releases or reverts.
`paid_once`: an order's commission is in vendor a's payout of a month; `assignOrderVendor` gives
the order to b; the settlement pays it and `reconcilePayouts` renames the payout to b;
`createPayout` for a finds none and builds another under the same id, which pays the commission
again; `docs/flows/vendors-and-commissions.md:87` says duplicated payouts are prevented.

**Other places where documents and code part.** The models follow the code here, no run is
spent on them, and no property that passes claims what the document says:

- *Terminal statuses.* `docs/data/order-states.md:20-22` calls cancelled, refunded and expired
  terminal, and `:50` lets an expired order come back only by a controlled intervention. A late
  payment confirms a cancelled or an expired order: no payment handler looks at the status. The
  theorem `TerminalStatusesHold` says that this is the only way out.
- *Retries of a checkout.* `docs/flows/checkout-openpay.md:121` promises the same order to a
  retry. One that crosses the first call makes a second order, and one after a lost answer may
  get a 409, since it quotes against its own reservation.
- *Differences of a transfer.* `docs/flows/warehouse-transfers-sunat-guides-and-package-labels.md:307`
  asks for an incident when there are differences. `Discrepant`, as the code, compares totals
  over all lines: one unit short on a line and one over on another close without one.
- *Commissions.* `docs/data/commission-states.md` calls reversed and cancelled terminal
  (`:18-19`), lets paid become only reversed (`:17`) and says a cancelled commission never
  generates a payment; `docs/flows/vendors-and-commissions.md:109` asks that amounts are not
  recomputed. `settlePayout` marks every commission of the payout paid, the next synchronisation
  may make it blocked or reversed, and a payout's amounts are recomputed from its orders, also
  when it is paid.
- *Payouts in two processes.* `docs/flows/vendors-and-commissions.md:87` and `:110` exclude
  duplicated payouts. What the API settled since the worker started (or the worker since the API
  started), and what an overwritten snapshot lost, the other does not know, and it may settle the
  same commission; `PaidOnceUnmoved` is about what a process knows.
- *Origins.* `docs/flows/warehouse-fulfillment-triangulation.md:190` says that a reassignment
  leaves nothing held at the old warehouse; two that cross may, and `HeldAtOrigin` excuses them.

**What the excuses in the properties say.** Where a property names an exception, the exception
happens, and the model shows it:

- *Overlapping syncs of one order, or a stock adjustment beside a sync,* make counters and
  records drift apart; `BooksBalanced` is for calls that do not overlap, `NoOversell` for all.
- *A conflict of the inventory* (`stopped`: the order was moved meanwhile, its units were taken,
  or its record is released) ends a handler after it has set the status: the points of an approved
  sale stay pending, those of a cancelled order are not reversed, and its units may stay
  (`cancel_move`).
- *Two moves of one order that cross, or a move and the release of a cancelled order* (`crossed`),
  or units taken between a release and its reserve (`refused`), leave the order naming one origin
  and holding elsewhere, or holding nothing with a record that can never reserve again; so does a
  payment after a cancellation (`revived`): the order is confirmed and holds nothing. `assessWarehouseFulfillment` counts the
  units of a released record as the order's own, and `assignOrderFulfillment` checks no status.
- *Two requests with one id checked before either entered* (`crossed` in `CheckoutRequests`)
  make two orders. A retry may also get a conflict, since it quotes against its own reservation.
- *Two calls for one transfer* (`Overlap`) send units twice, or send and give them back; a
  restart frees the units of transfers still to be dispatched.
- *Sections of the notifications that overlap* (`mixed`), or a failed read, lose what the other
  process wrote.
- *A merge whose customers changed before its transaction* (`tangled`) can make a cycle of
  merged customers; a deletion that crosses a resolution (`orphaned`) leaves an order with a
  customer that is gone; a conflict decided before its order entered (`early`) never reaches the
  order, or is opened again by the order's own resolution, after which restarts may take a later
  decision away; and *a restart* that finds an order's clues in two hands reopens a decided
  conflict and takes its customer away (`reopened`; `customers.service.ts:742`, `:806`).
- *A redemption decided twice* (`uneven`) moves its points twice.

**Bounds.** Two orders that meet at a balance with units for one of them is the smallest case
in which one can take what the other needs; in `serial` o1 asks for two variants (so that an
operation has several lines and an upsert between them), o2 for two units of one. Two handlers
or calls are enough for one to run inside any await of the other; a third adds longer chains of
the same pairs. In `orders` one order is enough for what handlers of one order do
to each other; two would only meet at the stock, which `serial` and `overlap` have, and two
warehouses of one unit let an assignment move it and an inventory conflict happen. One restart
reaches the states a crash can leave, since what follows is again a state with nothing running;
`payouts` has two, one for each process. `MaxStock` bounds adjustments, `MaxReceived` what is received of a
line, `MaxNumber`, `MaxIds` and `MaxId` the identifiers given out, and `MaxFaults`, `MaxEvents`,
`MaxEdits`, `MaxUpdates`, `MaxMoves`, `MaxChanges`, `MaxManual`, `MaxRedemptions` and
`MaxDecisions` what the environment does. Four warehouses let the engine meet a base warehouse,
a nearer one, a tie and a fallback at once. Two vendors are needed for `paid_once`; in `payouts`
one vendor with two orders gives the book several commissions of one payout.

**Views, constraints, symmetry.** `Memory` (`MCOrderLifecycle`) drops the fields of a
handler that nobody reads again;
`Unshown` drops the suggestion shown to people, which no handler reads. Constraints stop the
exploration where a property already excuses what follows (`crossed`,
`OneStepAfterRestart`) or keep rare things from multiplying: `TwoDisturbances` allows two in
all; in `origin` others change something only while the order may be planned for the first
time, and areas only when there is a destination; in `checkout` the loyalty panel is used while no request runs and nothing was lost, and the
third number is given out only before the first fault; in `notifications` all handlers run while sections stay apart, two once they have overlapped, one after a fault; in
`identities` edits are made around the order of two clues. Calls, handlers, and orders or
shoppers that are alike are permuted; no run with a liveness property uses symmetry.
`InventorySync` with two warehouses, adjustments and overlapping calls is too large for TLC; the
theorem `NeverOversold` covers it.

**Deadlock** is checked except in `checkout`, `notifications` and `identities`, where numbers,
ids or requests run out.

**Fairness** is weak fairness of the continuation of each call or handler (`FairSpec` of
`InventorySync` and `NotificationDelivery`): Node runs a continuation whose
promise has settled, and every await is of a query that answers or throws. In
`NotificationDelivery` it also covers the worker's taking of a job, which BullMQ does whenever a
slot is free, and the loop that requeues at start. Nobody has to send a request, and nothing has
to fail or restart.

## 4. What is proved

Every safety property that a passing run checks is the statement of a theorem; the liveness
properties are not. Every theorem holds for any sets of orders, warehouses, variants, calls,
handlers, vendors, shoppers, customers and messages, any stock, demand, amounts and rates, and
any bounds, under the assumptions named in the modules (`DemandAssumption`,
`WarehouseAssumption`, `StockAssumption`, ...), each of which TLC evaluates. "Needs" is what a theorem assumes besides.

| module | theorem | property | needs |
|---|---|---|---|
| `InventorySyncProofs` | `TypeCorrect` | `TypeOK` | |
| | `NeverOversold` | `NoOversell` | `SetLevels = {}` |
| | `BooksAlwaysBalanced`, `OwnUnitsAlwaysThere` | `BooksBalanced`, `OwnUnitsThere` | `Serial` |
| | `ServiceKeepsPromise` | `KeepsPromise`, the refinement of `StockHolds` | `Serial` |
| | `HeldUnitsExist` | `HoldsWithinStock` of `StockHolds` | |
| | `ServiceHoldsWithinStock` | the same of the service, under the refinement mapping | `Serial` |
| `OrderLifecycleProofs` | `LifecycleTypeCorrect`, `NeverSoldUnpaid` | `TypeOK`, `SoldIsPaid` | |
| | `PaymentNeverLost`, `TerminalStatusesHold` | `PaymentIsFinal`, `TerminalLeavesByPayment` | |
| | `PointsFollow`, `ReversedOrdersHoldNothing` | `PointsFollowPayment`, `ReversedHoldsNothing` | |
| | `CancellationGivesBack`, `ApprovalSettles` | `CancelledGivesBack`, `ApprovedSaleSettles` | |
| `WarehouseTransfersProofs` | `TypeCorrect`, `NeverUsedTwice` | `TypeOK`, `NoDoubleUse` | finitely many orders |
| | `ReservedAlwaysAccounted`, `StockAlwaysAccounted`, `OwnReservationAlwaysThere` | `ReservedAccounted`, `StockAccounted`, `OwnReservationThere` | the same, and `Overlap = FALSE` |
| `FulfillmentOriginProofs` | `TypeCorrect` | `TypeOK` | |
| | `PlansAreDocumented` | `BestOrigin` | |
| | `UnitsFollowOrigin`, `OriginKept` | `HeldAtOrigin`, `AssignmentKept` | |
| `CommissionPayoutsProofs` | `TypeCorrect`, `ReadingIsStable` | `TypeOK`, `SyncIsStable` | finitely many orders |
| | `NothingPaidTwice`, `PaidStaysPaid` | `PaidOnceUnmoved`, `PaidIsNotDue` | the same |
| `CheckoutRequestsProofs` | `TypeCorrect` | `TypeOK` | |
| | `OneOrder`, `UnitsKept`, `OwnAnswer` | `OneOrderPerRequest`, `UnitsOfOrders`, `AnswerIsOwn` | |
| | `PointsAddUp`, `PointsNeverLost` | `PointsBooks`, `NeverShort` | |
| `NotificationDeliveryProofs` | `TypeCorrect` | `TypeOK` | |
| | `NothingLost`, `SentOnlyAccepted`, `SentAtMostOnce` | `NoneLost`, `SentWasAccepted`, `SentOnce` | |
| `CustomerIdentitiesProofs` | `TypeCorrect` | `TypeOK` | finitely many ids |
| | `OrdersInConflictAreListed` | `ConflictsListed` | the same |
| | `MergesEndActive`, `OrdersLeadToActive`, `DecisionsStay` | `MergedEndActive`, `LinksResolve`, `DecisionKept` | the same |

The hypotheses are conditions of the code, not of the proofs. `SetLevels = {}`: an operator may
set the stock below what is promised. `Serial` is `Overlap = FALSE` and no adjustment, and
`Overlap = FALSE` keeps calls for one transfer apart: section 3 says what happens otherwise, and
`BooksBalanced`, `OwnReservationThere` and the others fail then. Where a
property itself names what excuses it (`stopped`, `crossed`, `refused`, `revived`, `mixed`, `moves`,
`uneven`, `tangled`, `orphaned`, `early`, `reopened`, a reading that is not `undisturbed`, a restart,
which rebuilds holds without asking for room and may load points newer than their orders), the
theorem needs no hypothesis and covers executions in which the excuse happens too.
`TerminalLeavesByPayment`, the statement of `TerminalStatusesHold`, is not among the properties
of the runs: it says what the code does where the documents say otherwise. The sets of
orders that must be finite are the keys of a `Map`, and the ids of customers those of a table.

### Sums

Most of these properties are about sums: units over orders, goods over transfers, points over
movements. A recursive sum could only be checked, so the models sum with `Tally` (`Tallies`): one
token for each unit, and the size of the set of tokens. What one record counts for then comes and
goes as a set of tokens, and the theorems about finite sets do the rest. The sums of
`WarehouseTransfers`, `LoyaltyAccounts` and `CommissionPayouts`, and the weight of a warehouse in
`FulfillmentOrigin`, are such tallies, and the units the orders hold in `InventorySync` and
`StockHolds` are counted likewise. The first member
of a set (a number, an id, a smallest set) is had from well-founded induction by its theorem on
minimal elements.

### The arguments

*Stock rows.* `NoOversell` is not inductive: an adjustment puts a row of PostgreSQL in memory,
and an upsert puts in PostgreSQL a row read earlier. The invariant is `RowsSound`: *every* row
anywhere, in memory, in PostgreSQL, in an upsert or an adjustment in flight, has its promised
units within its stock. Each operation keeps that of one row (lemmas on `Ready` and `Effect`:
only a reserve raises the sum, and its check leaves room), and copying a sound row keeps it.
`NoDoubleUse` of the transfers is proved the same way.

*Stock books.* `Course` says of each call where it stands: the record of its order is what the
plan foresaw when it began, since no other call has moved it. `Books` says that each counter is
the size of a set of tokens, those of the records and of the calls between their change and
their record. An operation moves one order's tokens; an order's own tokens are among those
counted, so its confirmation, release or reversal finds them (`OwnUnits`). For the refinement
each step of the service is a step of `StockHolds` or a stutter (`PromiseStep`): `Mutate` is the
step that takes, confirms, lifts or gives back; resolving and writing are stutters. What
`StockHolds` requires of a taking, that the units are free, follows from `Ready` because `Books`
makes the counters and the abstract holds the same number.

*Transfers.* `Typed` and `Course` as above, with `SoundTransfer`: what was sent, received and
opened as an incident fit the status of every transfer. `Books` has two equations per balance
until a restart, one for the reserved units and one for the stock; each step changes both sides by
the tokens of one call and one transfer (`ReservedEven`, `StockEven`).

*Orders.* `SoldIsPaid` needs the guard of the two statements that sell (`Confirm` sets status
and payment together; `MayTransition` asks for the payment) and that nothing takes the payment
of a confirmed order (`Reviewable` asks for an open request of an order under review).
`CopiesSound` says it of every snapshot, in memory, saved and landing, which makes it inductive
across restarts. The action properties then read off what a step may do (`Moved`, one line per
kind of step). Between restarts `Undisturbed` adds that a handler about to settle points works
for a paid order, that the record of an order that exists stays, and that the units are back before
a handler reverses points (`ReversalsRelease`: no later sync takes any, since a released record
reserves no more). `ReversalDue`: as long as a cancelled order has units or
points, a handler is on its way to take them or a conflict has stopped one; `SettlementDue` says
the same of an approved sale whose points are pending. So nothing is left at rest.

*Origins.* `Creation`: an order is created by one call, and nobody else works on it until that
call has taken its units. `Held`: from then on the order has a record of its units. `Follow`: while no
two moves cross, nor a move and a release, the one move running carries the lines of the order,
a release those the units are held by, and without either the units are held by the lines of
the order. `Kept`: the units of an order that stands are given back only by a move, between its
release and its reserve. `BestOrigin` compares what the engine ranked, from
readings of several awaits, with what the documentation describes of one state, so it has two
halves. The first is about one state (`PlanIsDocumented`). `NearestArea`, `AreasCover` and
`PlaceCovers` say that the match the code picks has the distance and the priority the
documentation counts; `KeyOf` and `KeysOfCovering` that, among warehouses that cover, comparing
the code's five numbers is comparing base warehouse, reach, distance and the two priorities
in turn; `Elimination` that dropping candidates criterion by criterion leaves those that nobody
comes before; and `FallbackIsLast` that a fallback never wins against a warehouse that covers,
nor is applied alone. The second half is an invariant (`Sight`): a call whose inputs nobody
changed (`undisturbed`) has read the configurations as they still are and knows, of the covering
warehouses it is not still asking, exactly those that can serve (`Fresh`). Only the call itself ends its reading (`EndsItself`), and then the two
halves meet.

*Commissions.* `BooksMove`: a book is only ever what a handler left, a write under way what was a
book, the snapshot what was written. So it is enough that each handler ends in a
reconciliation, which makes a book *listed* whatever it was before (`Base`), and, while no order
changes vendor, leaves it *sound*: each commission is its order's and each payout its vendor's
(`Steady`). In a sound book a second synchronisation finds nothing to do. `Settled`: a commission
the process paid, or started from as paid, is in a paid payout of its book. Every handler keeps it
there (`SyncKeepsPaid`, `CreateKeepsPaid`), it is not payable for another payout, and a settlement
pays none that was paid (`SettlePays`).

*Checkout.* `Checkout` joins what a purchase needs: a number is given once between restarts
and not used by a call and an order at a time (`Numbering`); a call has what its step requires
(`Unentered`); orders, index and snapshot agree, in memory and as saved (`Snapshots`); a request
that did not cross has one call on its way, and no order yet (`Single`); a page waits for a call
of its own (`Answers`); each unit is held for an order or for a call about to enter one
(`Units`). `Loyal` says of each account that its two balances are the tallies of its movements
and redemptions, with the inequality that survives a clamp at zero (`Covered`) apart from the
equality that does not (`Balanced`).

*Notifications.* `Clean`: while sections stay apart and no read or write failed, a section that
will write has read the row as it still is, so the row only grows (`Kin`), and what a handler
once saw under an id stays true. `Spent`: what was sent, plus the ways in which the message can
still be sent, is at most one more than the restarts. The ways are three: a handler is about to
queue it, its job waits or a slot is looking for it, a start will queue it again; a step turns
one way into another or into a sending, and only a restart adds one.

*Customers.* `ActiveOf` is a recursive function over the customers already visited, and its
values cannot be had by induction. They are had from two facts of first order. With finitely many
ids the equation of the recursion has a solution (`Answers`, built up from the sets with few ids
left), and merges that make a `Forest` (every set of merged customers has one that leads out of
it) send every customer to the end of its `Path`, the least set that holds it and is closed under
merging: a customer for which that failed would belong to a set that nobody leaves. `Base` has
the types, one owner per clue and what a call holds at each step. `Books` relates orders, links,
conflicts and decisions, one order at a time (`Filed`, `Answered`), and follows no merge. `Sane`
adds, while no merge met customers changed under it, the forest with active ends (`Merges`),
that what a call holds or an order names is alive or known to be gone (`Holds`, `LinkAlive`), and
that the customer an operator chose leads through the one the order names (`Stays`). Creations,
merges, edits and deletions change the table in a few ways (`Moves`), each of which keeps the
forest and only lengthens paths.

`Clean`, `Spent` and `Sight` were given to TLC, `Clean` and `Spent` also on a larger instance
than that of section 3, before they were proved.

### Only model-checked

`ReleaseEnds` and `AllSettled`: liveness under fairness is out of the
prover's reach. The three disagreements of section 3 (`ConfirmationConsolidates`, `PaidOnce`,
`CancelledHoldsNothing`) are counterexamples, which TLC finds. That the conditions of the theorems hold of the instances
checked is seen in the configurations: `serial`, for instance, sets `Overlap = FALSE` and allows
no adjustment.

## 5. Simplifications

Inventory: every (warehouse, variant) of the instance has its row, in PostgreSQL and in memory,
and there are at least two warehouses, so that `reconcileDefaultBalanceWithVariantStock` and
`ensureWarehouseBalanceState` do nothing; an adjustment's transaction is atomic; an upsert takes
effect in the step in which its caller goes on. The snapshot of Inventory is not modelled: the
restart rebuilds it from the orders. Bundles are exploded before the model starts.

Orders: each order asks one unit of one variant, so a sync is one step and an order is in one
warehouse; all warehouses cover the address, and which one the engine suggests is any that can
serve the order (`FulfillmentOrigin` has the choice itself); a creation is one step up to its
snapshot (`CheckoutRequests` has its awaits); the loyalty snapshot lands at once; a restart loads
what landed. `draft` and `paid` are in the code's tables, and no handler reaches them. Legacy
promotion at start (`promoteLegacyPaidWebOrders`, `hydrateLegacyOrders`) concerns data of
earlier versions and is left out.

Transfers: a sync of an order is one step; the documents of a transfer are left out, since no
decision reads them.

Origin: one order, whose lines stay the same; a sync reserves and consolidates in one step;
merging lines, snapshots, names and texts are left out; statuses
that stock and queue do not tell apart are one (expired and cancelled, completed and delivered,
those of the dispatch queue); of the dispatch queue only the orders
without origin matter; the backfill at start is not modelled. Other orders, transfers and
adjustments are `StockMoves`.

Checkout: one unit per order; of the request's hash only the quoted warehouse can change under
one id, since an edit of the page makes a new id; selling, cancelling and deleting are one step,
saved at once; the page offers manual payment only; the loyalty snapshot is saved at once.

Commissions: one rule applies to every order; the writes of one process land in order; the
snapshots of orders and vendors are saved at once; which commission names a payout's vendor is a
choice, since the model keeps no times, and which of two payouts of one vendor is found first is
fixed; the retries of a failed job are collapsed, since they meet the same memory; vendors'
totals are left out.

Notifications: logs travel with the notifications and are left out; an enqueue is one step;
validation and the cleaning of demonstration data are left out.

Customers: clues of one kind are uniform; the link map and its snapshot change in one step; the
two reads of one resolution are collapsed; in a decision the enrichment and the update of the
conflict are one step, and so are the closing of a conflict and the entry of its order; a start
reconciles in any order and is not itself interrupted; accounts made up for orders without
contact, addresses and the loyalty rows of an account are left out.

### Not modelled

- The payment review by a job: off unless `HUELEGOOD_ENABLE_ASYNC_MANUAL_REVIEW` is set.
- Bulk import of orders, CRM stage, labels and evidence: single assignments beside the order,
  or loops over handlers that are modelled.
- Coupons: a map and a usage counter that no limit reads.
- Vendors' applications, products, wholesale, marketing, CMS: CRUD with local validation.
- Media: image processing and uploads. Authentication and sessions: independent of the orders.
- Audit, observability, health, dashboards: records, probes and reads that no decision uses.
- The web and admin pages, apart from the checkout's request id: views over the API. They are
  more than half of the repository's lines.

## 6. Plan

Built: all modules of section 2, and a theorem for every safety property they check. Still to
model, if it becomes worth it: the review queue over the orders' two copies, and bulk import.
