--------------------------- MODULE OrderLifecycle ---------------------------
(***************************************************************************)
(* The handlers of OrdersService that move an order, at the granularity of *)
(* their awaits, in one process of the API.                                *)
(*                                                                         *)
(* A handler checks its guards and changes the order's status, payment and *)
(* manual request in memory before its first await; only then it chooses a *)
(* warehouse, has the inventory synchronised, settles or reverses loyalty  *)
(* points, and saves the map of orders.  Any other handler may run in each *)
(* await, a conflict of the inventory stops a handler half way, and the    *)
(* process may restart at any time.                                        *)
(*                                                                         *)
(* Every order asks one unit of one variant.  A sync is one step: its own  *)
(* awaits are those of InventorySync.                                      *)
(***************************************************************************)
EXTENDS Integers, FiniteSets

CONSTANTS
    Orders,             \* order numbers
    Warehouses,         \* active warehouses that cover the orders' address
    DefaultWarehouse,   \* productVariant.defaultWarehouseId
    NoWarehouse,        \* an order without fulfillmentAssignment
    Capacity,           \* stockOnHand of each warehouse
    Handlers,           \* handlers that can be running at once
    MaxRestarts         \* bound on the restarts of the process

ASSUME WarehousesAssumption ==
    /\ DefaultWarehouse \in Warehouses
    /\ NoWarehouse \notin Warehouses
ASSUME CapacityAssumption == Capacity \in [Warehouses -> Nat]
ASSUME RestartsAssumption == MaxRestarts \in Nat

VARIABLES
    order,          \* OrdersService.orders
    hold,           \* InventoryService.reservations, and what they hold
    points,         \* LoyaltyService: the earn movement of each order
    handler,        \* the running handlers
    saved,          \* module snapshots: orders and points
    restarts,       \* restarts so far
    stopped         \* for the properties: the settlements and reversals a conflict stopped

vars == <<order, hold, points, handler, saved, restarts, stopped>>

----------------------------------------------------------------------------
\* Statuses

Confirmed == {"paid", "confirmed", "preparing", "shipped", "delivered", "completed"}
Reservable == {"pending_payment", "payment_under_review"}
Cancelled == {"cancelled", "refunded", "expired"}
Statuses == {"absent", "draft"} \cup Confirmed \cup Reservable \cup Cancelled

\* resolveOrderInventoryLifecycleState.
LifecycleState(status) ==
    CASE status \in Confirmed  -> "confirmed"
      [] status \in Reservable -> "reserved"
      [] status \in Cancelled  -> "released"
      [] OTHER                 -> "none"

operationalTransitions(status) ==
    CASE status = "draft"                -> {"pending_payment", "cancelled"}
      [] status = "pending_payment"      -> {"payment_under_review", "cancelled", "expired"}
      [] status = "payment_under_review" -> {"cancelled"}
      [] status = "paid"                 -> {"confirmed", "refunded"}
      [] status = "confirmed" -> {"preparing", "shipped", "delivered", "completed", "refunded"}
      [] status = "preparing" -> {"shipped", "delivered", "completed", "refunded"}
      [] status = "shipped"   -> {"delivered", "completed", "refunded"}
      [] status = "delivered" -> {"completed", "refunded"}
      [] OTHER -> {}

dispatchQueueStatuses == {"confirmed", "preparing", "shipped"}

----------------------------------------------------------------------------
\* State

NoOrder == [status |-> "absent", payment |-> "pending", method |-> "manual",
            request |-> "none", at |-> NoWarehouse]
Order == [status : Statuses, payment : {"pending", "initiated", "paid", "failed"},
          method : {"openpay", "manual"}, request : {"none", "open", "approved", "rejected"},
          at : Warehouses \cup {NoWarehouse}]

Hold == [state : {"none", "reserved", "confirmed", "released"}, at : Warehouses]
Free == [state |-> "none", at |-> DefaultWarehouse]

Points == {"none", "pending", "available", "reversed"}
Lifecycles == {"none", "reserved", "confirmed", "released"}

Idle == [step |-> "idle"]
Running == [step : {"assign", "plan", "sync", "points", "save", "landing"}, of : Orders,
            to : Warehouses \cup {NoWarehouse},     \* the warehouse assign was given
            target : Lifecycles, at : Warehouses,   \* what the sync was called with
            allow : BOOLEAN,                        \* allowWarehouseReallocation
            then : {"settle", "reverse", "nothing"},
            copy : [Orders -> Order]]               \* the snapshot being written

NoOrders == [o \in Orders |-> NoOrder]

Init ==
    /\ order = NoOrders
    /\ hold = [o \in Orders |-> Free]
    /\ points = [o \in Orders |-> "none"]
    /\ handler = [h \in Handlers |-> Idle]
    /\ saved = [order |-> order, points |-> points]
    /\ restarts = 0
    /\ stopped = {}

\* Where an order's units come from.
Source(x) == IF x.at = NoWarehouse THEN DefaultWarehouse ELSE x.at
Holders(w) == {o \in Orders : hold[o].state \in {"reserved", "confirmed"} /\ hold[o].at = w}

\* The availability check of reserveLines.
InStock(w) == Cardinality(Holders(w)) < Capacity[w]

\* assessWarehouseFulfillment: the units free at w, and what the order's record
\* says it has there, whatever the record's state.
CanServe(o, w) ==
    Cardinality(Holders(w)) < Capacity[w] + (IF hold[o].state # "none" /\ hold[o].at = w THEN 1 ELSE 0)

Task(step, o, then) ==
    [step |-> step, of |-> o, to |-> NoWarehouse, target |-> "none",
     at |-> DefaultWarehouse, allow |-> FALSE, then |-> then, copy |-> NoOrders]

\* synchronizeOrderInventory reads the order as it is when it is called.  Mutated,
\* the status is passed on as if it were the inventory's state.
SyncOfStatus(task, x, allow) ==
    [task EXCEPT !.step = "sync", !.target = x.status, !.at = Source(x), !.allow = allow]

SyncOf(task, x, allow) ==
    [task EXCEPT !.step = "sync", !.target = LifecycleState(x.status),
                 !.at = Source(x), !.allow = allow]

Start(h, task) == handler[h] = Idle /\ handler' = [handler EXCEPT ![h] = task]
End(h) == handler' = [handler EXCEPT ![h] = Idle]
At(h, step) == handler[h].step = step
GoTo(h, step) == handler' = [handler EXCEPT ![h].step = step]

\* persistState copies the whole map, with what other handlers have done so far,
\* before it awaits the write.
Landing(task, orders) == [task EXCEPT !.step = "landing", !.copy = orders]

----------------------------------------------------------------------------
\* syncOrder, as the promise of StockHolds: what becomes of the order's hold, and
\* whether the call throws.
Synced(o, target, w, allow) ==
    LET held == hold[o].state
        here == hold[o].at = w
        stay == [hold |-> hold[o], throws |-> FALSE]
        fail == [hold |-> hold[o], throws |-> TRUE]
        become(state) == [hold |-> [state |-> state, at |-> w], throws |-> FALSE]
    IN  CASE target = "none" \/ (held = "none" /\ target = "released") -> stay
          [] held = "none" /\ target \in {"reserved", "confirmed"} ->
               IF InStock(w) THEN become(target) ELSE fail
          [] held # "none" /\ here ->
               IF held = target THEN stay
               ELSE IF <<held, target>> \in {<<"reserved", "confirmed">>, <<"reserved", "released">>,
                                             <<"confirmed", "released">>}
               THEN become(target) ELSE fail
          [] OTHER ->
               IF ~allow \/ held = "released" THEN fail
               ELSE IF InStock(w) THEN become(held)
               ELSE [hold |-> [hold[o] EXCEPT !.state = "released"], throws |-> TRUE]

----------------------------------------------------------------------------
\* Creation.  The order enters the map when its first sync has succeeded, in the
\* same step as its points; the snapshot is still to be written.
Create(h, o, new, earned) ==
    /\ order[o] = NoOrder
    /\ hold[o].state = "none"
    /\ \E w \in {x \in Warehouses : InStock(x)} \cup {NoWarehouse} :
         LET x == [new EXCEPT !.at = w]
             result == Synced(o, LifecycleState(x.status), Source(x), FALSE)
         IN  /\ ~result.throws
             /\ order' = [order EXCEPT ![o] = x]
             /\ hold' = [hold EXCEPT ![o] = result.hold]
    /\ points' = [points EXCEPT ![o] = earned]
    /\ saved' = [saved EXCEPT !.points = points']
    /\ Start(h, Landing(Task("landing", o, "nothing"), order'))
    /\ UNCHANGED <<restarts, stopped>>

createOpenpayCheckout(h, o) ==
    Create(h, o, [NoOrder EXCEPT !.status = "pending_payment", !.payment = "initiated",
                              !.method = "openpay"], "pending")
createManualCheckout(h, o) ==
    Create(h, o, [NoOrder EXCEPT !.status = "payment_under_review", !.request = "open"], "pending")
createBackofficeOrder(h, o) ==
    \/ Create(h, o, [NoOrder EXCEPT !.status = "pending_payment"], "none")
    \/ Create(h, o, [NoOrder EXCEPT !.status = "confirmed", !.payment = "paid"], "available")

----------------------------------------------------------------------------
\* The synchronous prefixes: guards, and every change up to the first await.

\* applyCommercialConfirmation; mutated, it leaves the payment to a later step.
ConfirmUnpaid(h, o, request) ==
    /\ order' = [order EXCEPT ![o].status = "confirmed", ![o].request = request]
    /\ Start(h, Task("plan", o, "settle"))
    /\ UNCHANGED <<hold, points, saved, restarts, stopped>>

Confirm(h, o, request) ==
    /\ order' = [order EXCEPT ![o].status = "confirmed", ![o].payment = "paid",
                              ![o].request = request]
    /\ Start(h, Task("plan", o, "settle"))
    /\ UNCHANGED <<hold, points, saved, restarts, stopped>>

\* ensureManualRequestReviewable; mutated, a request can be reviewed twice.
ReviewableTwice(x) == x.request # "none" /\ x.method = "manual"

Reviewable(x) ==
    /\ x.request = "open"
    /\ x.method = "manual"
    /\ x.status = "payment_under_review"
    /\ x.payment = "pending"

approveManualRequest(h, o) == Reviewable(order[o]) /\ Confirm(h, o, "approved")

registerAdminManualPayment(h, o) ==
    /\ order[o].status # "absent"
    /\ order[o].payment # "paid"
    /\ order[o].method = "manual"
    /\ order[o].request = "none"
    /\ Confirm(h, o, "none")

confirmOnlinePayment(h, o) ==
    /\ order[o].method = "openpay"
    /\ order[o].payment # "paid"
    /\ Confirm(h, o, order[o].request)

\* Mutated: a rejection goes on as an approval does.
RejectThenSettle(h, o) ==
    /\ Reviewable(order[o])
    /\ order' = [order EXCEPT ![o].status = "cancelled", ![o].payment = "failed",
                              ![o].request = "rejected"]
    /\ Start(h, SyncOf(Task("sync", o, "settle"), order'[o], FALSE))
    /\ UNCHANGED <<hold, points, saved, restarts, stopped>>

rejectManualRequest(h, o) ==
    /\ Reviewable(order[o])
    /\ order' = [order EXCEPT ![o].status = "cancelled", ![o].payment = "failed",
                              ![o].request = "rejected"]
    /\ Start(h, SyncOf(Task("sync", o, "reverse"), order'[o], FALSE))
    /\ UNCHANGED <<hold, points, saved, restarts, stopped>>

MayTransition(x, next) ==
    /\ next \in operationalTransitions(x.status)
    /\ next \in Confirmed \cup {"refunded"} => x.payment = "paid"

transitionOrderStatus(h, o, next) ==
    /\ MayTransition(order[o], next)
    /\ order' = [order EXCEPT ![o].status = next]
    /\ LET task == Task("plan", o, IF next \in Cancelled THEN "reverse" ELSE "nothing")
       IN  Start(h, IF next \in dispatchQueueStatuses THEN task
                    ELSE SyncOf(task, order'[o], FALSE))
    /\ UNCHANGED <<hold, points, saved, restarts, stopped>>

\* validateWarehouseAssignment passes, before the await.
assignOrderFulfillment(h, o, w) ==
    /\ order[o].status # "absent"
    /\ CanServe(o, w)
    /\ Start(h, [Task("assign", o, "nothing") EXCEPT !.to = w])
    /\ UNCHANGED <<order, hold, points, saved, restarts, stopped>>

----------------------------------------------------------------------------
\* What follows each await.

\* assignOrderFulfillment after its validation: no status is checked.
Assign(h) ==
    LET o == handler[h].of
    IN  /\ At(h, "assign")
        /\ order' = [order EXCEPT ![o].at = handler[h].to]
        /\ handler' = [handler EXCEPT ![h] = SyncOf(@, order'[o], TRUE)]
        /\ UNCHANGED <<hold, points, saved, restarts, stopped>>

\* applyAlgorithmicFulfillmentPlan: an order without a warehouse gets the one
\* suggested, if the engine suggests one.
Plan(h) ==
    LET o == handler[h].of
    IN  /\ At(h, "plan")
        /\ \E w \in {x \in Warehouses : CanServe(o, x)} \cup {NoWarehouse} :
             /\ order' = [order EXCEPT ![o].at = IF @ = NoWarehouse THEN w ELSE @]
             /\ handler' = [handler EXCEPT ![h] =
                              SyncOf(@, order'[o], order'[o].at # order[o].at)]
        /\ UNCHANGED <<hold, points, saved, restarts, stopped>>

\* A conflict ends the handler: the status it set stays, in memory, and the points
\* it was to settle or to reverse are left as they are.  Mutated, a conflict is
\* logged and the handler goes on.
SyncGoesOn(h) ==
    LET t == handler[h]
    IN  /\ At(h, "sync")
        /\ hold' = [hold EXCEPT ![t.of] = Synced(t.of, t.target, t.at, t.allow).hold]
        /\ GoTo(h, "points")
        /\ UNCHANGED <<order, points, saved, restarts, stopped>>

Sync(h) ==
    LET t == handler[h]
        result == Synced(t.of, t.target, t.at, t.allow)
    IN  /\ At(h, "sync")
        /\ hold' = [hold EXCEPT ![t.of] = result.hold]
        /\ IF result.throws
             THEN /\ End(h)
                  /\ stopped' = IF t.then = "nothing" THEN stopped ELSE stopped \cup {<<t.of, t.then>>}
             ELSE GoTo(h, "points") /\ UNCHANGED stopped
        /\ UNCHANGED <<order, points, saved, restarts>>

\* settleOrderPoints and reverseOrderPoints, which save at once; settling points
\* that were reversed throws.  Mutated, settling only looks for settled points, or
\* drops the points it should have settled.
SettleReversed(h) ==
    LET o == handler[h].of
    IN  /\ At(h, "points")
        /\ handler[h].then = "settle"
        /\ GoTo(h, "save")
        /\ points' = [points EXCEPT ![o] = IF @ = "none" THEN "none" ELSE "available"]
        /\ saved' = [saved EXCEPT !.points = points']
        /\ UNCHANGED <<order, hold, restarts, stopped>>

SettleNothing(h) ==
    /\ At(h, "points")
    /\ handler[h].then = "settle"
    /\ GoTo(h, "save")
    /\ UNCHANGED <<order, hold, points, saved, restarts, stopped>>

Settle(h) ==
    LET o == handler[h].of
    IN  /\ At(h, "points")
        /\ handler[h].then = "settle"
        /\ IF points[o] = "reversed" THEN End(h) ELSE GoTo(h, "save")
        /\ points' = [points EXCEPT ![o] = IF @ = "pending" THEN "available" ELSE @]
        /\ saved' = [saved EXCEPT !.points = points']
        /\ UNCHANGED <<order, hold, restarts, stopped>>

Reverse(h) ==
    LET o == handler[h].of
    IN  /\ At(h, "points")
        /\ handler[h].then = "reverse"
        /\ GoTo(h, "save")
        /\ points' = [points EXCEPT ![o] = IF @ = "none" THEN "none" ELSE "reversed"]
        /\ saved' = [saved EXCEPT !.points = points']
        /\ UNCHANGED <<order, hold, restarts, stopped>>

Save(h) ==
    /\ At(h, "save") \/ (At(h, "points") /\ handler[h].then = "nothing")
    /\ handler' = [handler EXCEPT ![h] = Landing(@, order)]
    /\ UNCHANGED <<order, hold, points, saved, restarts, stopped>>

\* The upsert of the module's one row: the last to land wins.
Land(h) ==
    /\ At(h, "landing")
    /\ saved' = [saved EXCEPT !.order = handler[h].copy]
    /\ End(h)
    /\ UNCHANGED <<order, hold, points, restarts, stopped>>

Continue(h) == Assign(h) \/ Plan(h) \/ Sync(h) \/ Settle(h) \/ Reverse(h) \/ Save(h) \/ Land(h)

----------------------------------------------------------------------------
\* onModuleInit: the snapshots are loaded, orders without a warehouse may get one
\* (backfillFulfillmentSuggestions), and the inventory is rebuilt from the
\* statuses without checking availability.
Rebuilt(x) ==
    IF LifecycleState(x.status) \in {"reserved", "confirmed"}
    THEN [state |-> LifecycleState(x.status), at |-> Source(x)] ELSE Free

Restart ==
    /\ restarts < MaxRestarts
    /\ restarts' = restarts + 1
    /\ \E at \in [Orders -> Warehouses \cup {NoWarehouse}] :
         order' = [o \in Orders |->
                     IF saved.order[o].status # "absent" /\ saved.order[o].at = NoWarehouse
                     THEN [saved.order[o] EXCEPT !.at = at[o]] ELSE saved.order[o]]
    /\ hold' = [o \in Orders |-> Rebuilt(order'[o])]
    /\ points' = saved.points
    /\ handler' = [h \in Handlers |-> Idle]
    /\ saved' = [saved EXCEPT !.order = order']
    /\ stopped' = {}

----------------------------------------------------------------------------
Request(h) ==
    \E o \in Orders :
        \/ createOpenpayCheckout(h, o)
        \/ createManualCheckout(h, o)
        \/ createBackofficeOrder(h, o)
        \/ approveManualRequest(h, o)
        \/ registerAdminManualPayment(h, o)
        \/ confirmOnlinePayment(h, o)
        \/ rejectManualRequest(h, o)
        \/ \E next \in Statuses : transitionOrderStatus(h, o, next)
        \/ \E w \in Warehouses : assignOrderFulfillment(h, o, w)

Next ==
    \/ \E h \in Handlers : Request(h) \/ Continue(h)
    \/ Restart

Spec == Init /\ [][Next]_vars

----------------------------------------------------------------------------
TypeOK ==
    /\ order \in [Orders -> Order]
    /\ hold \in [Orders -> Hold]
    /\ points \in [Orders -> Points]
    /\ handler \in [Handlers -> {Idle} \cup Running]
    /\ saved \in [order : [Orders -> Order], points : [Orders -> Points]]
    /\ restarts \in 0 .. MaxRestarts
    /\ stopped \in SUBSET (Orders \X {"settle", "reverse"})

Copies(o) == {handler[h].copy[o] : h \in {x \in Handlers : handler[x] # Idle}}
AtRest(o) == \A h \in Handlers : handler[h] # Idle => handler[h].of # o

\* No order is sold, prepared or shipped without a payment, in memory or in any
\* snapshot a restart may load, whatever order they land in.
SoldIsPaid ==
    \A o \in Orders : \A x \in {order[o], saved.order[o]} \cup Copies(o) :
        x.status \in Confirmed => x.payment = "paid"

\* A payment that was confirmed stays confirmed, whatever decisions race; only a
\* restart may forget it.
PaymentIsFinal ==
    [][restarts' = restarts =>
         \A o \in Orders : order[o].payment = "paid" => order'[o].payment = "paid"]_vars

\* Points become spendable only for an order that is paid, and never after they
\* were reversed.  A restart may load points newer than the orders, and the number
\* of an order that was lost is given again: the property is about one process.
PointsFollowPayment ==
    [][restarts' = 0 =>
         \A o \in Orders :
            /\ points'[o] = "available" /\ points[o] # "available" => order'[o].payment = "paid"
            /\ points[o] = "reversed" => points'[o] = "reversed"]_vars

\* The units come back before the points (synchronizeOrderInventory precedes
\* reverseOrderPoints in every handler), and for good: an order whose points were
\* taken back holds no unit, and no confirmation, assignment or late payment that
\* was in an await gives it one again.
ReversedHoldsNothing ==
    restarts = 0 =>
      \A o \in Orders : points[o] = "reversed" => hold[o].state = "released"

\* Once its handlers have ended, an order that was cancelled, refunded or has expired
\* has given back its units and its points, in whatever order its sale and its
\* cancellation reached them; unless a conflict of the inventory stopped the handler
\* that was to give them back (CancelledHoldsNothing), or the process restarted.
CancelledGivesBack ==
    restarts = 0 =>
      \A o \in Orders : AtRest(o) /\ order[o].status \in Cancelled /\ <<o, "reverse">> \notin stopped
        => hold[o].state = "released" /\ points[o] \in {"none", "reversed"}

\* Once its handlers have ended, an approved manual payment has its points spendable,
\* or a refund has taken them back; unless a conflict of the inventory stopped the
\* approval after it had set the status, or the process restarted.
ApprovedSaleSettles ==
    restarts = 0 =>
      \A o \in Orders : AtRest(o) /\ order[o].request = "approved" /\ <<o, "settle">> \notin stopped
        => points[o] \in {"available", "reversed"}

\* docs/03-casos-de-uso.md (CU-06 step 5, CU-07 step 3): a cancelled, expired or
\* refunded order releases or reverts its stock.  So at rest it holds no units.
CancelledHoldsNothing ==
    \A o \in Orders : AtRest(o) /\ order[o].status \in Cancelled
        => hold[o].state \in {"none", "released"}

\* What the code keeps of the terminal statuses of docs/data/order-states.md:20-22: a
\* refunded order and a rejected one never come back; a cancelled or expired one
\* comes back only by the payment it still lacked, straight to confirmed.
TerminalLeavesByPayment ==
    [][restarts' = restarts =>
         \A o \in Orders :
            order[o].status \in Cancelled /\ order'[o].status # order[o].status
            => /\ order[o].payment # "paid"
               /\ order[o].request # "rejected"
               /\ order'[o].payment = "paid"
               /\ order'[o].status = "confirmed"]_vars
=============================================================================
