--------------------------- MODULE CheckoutRequests ---------------------------
(***************************************************************************)
(* A purchase from the browser's submit to the stored order: the checkout  *)
(* page and its clientRequestId, CommerceService, createCheckoutOrder at   *)
(* the granularity of its awaits, the units the order reserves, and the    *)
(* points it records in LoyaltyAccounts.                                   *)
(*                                                                         *)
(* An answer may be lost, the shopper may press again, edit the purchase   *)
(* or reload the page, an operator may delete an order, and the process    *)
(* may restart.  Any edit clears the clientRequestId, so a request id      *)
(* stands for the content that was sent with it.  An order asks one unit.  *)
(***************************************************************************)
EXTENDS LoyaltyAccounts

CONSTANTS
    Warehouses,         \* warehouses that sell
    DefaultWarehouse,   \* productVariant.defaultWarehouseId
    NoWarehouse,        \* no unit held
    Stock,              \* units of each warehouse
    Calls,              \* requests the process can be serving at once
    NoCall,             \* a page that waits for no answer
    MaxNumber,          \* bound on the order numbers given out
    MaxIds,             \* bound on the request ids of a shopper
    MaxFaults           \* bound on losses, edits, reloads, deletions and restarts

Numbers == 1 .. MaxNumber
ASSUME NumbersAssumption == MaxNumber \in Nat /\ OrderNumbers = Numbers /\ NoNumber = 0
ASSUME BoundsAssumption == MaxIds \in Nat /\ MaxFaults \in Nat
ASSUME WarehousesAssumption ==
    /\ DefaultWarehouse \in Warehouses /\ NoWarehouse \notin Warehouses
    /\ Stock \in [Warehouses -> Nat]
    /\ NoCall \notin Calls

Shoppers == Customers

VARIABLES
    shopper,        \* each shopper's checkout page
    call,           \* requests being served
    sequence,       \* OrdersService.orderSequence
    orders,         \* OrdersService.orders
    index,          \* OrdersService.idempotencyIndex
    held,           \* InventoryService: the warehouse each number holds a unit of
    saved,          \* the module snapshot "orders": orders and index
    crossed,        \* history: request ids two calls of which were checked together
    deleted,        \* history: numbers deleted
    faults          \* losses, edits, reloads, deletions and restarts so far

checkoutVars == <<shopper, call, sequence, orders, index, held, saved, crossed, deleted, faults>>
vars == <<checkoutVars, loyaltyVars>>

Ids == 1 .. MaxIds
Requests == Shoppers \X Ids
Places == Warehouses \cup {NoWarehouse}

NoOrder == [request |-> <<>>, status |-> "absent", at |-> NoWarehouse]
Order == [request : Requests, status : {"open", "sold", "cancelled"}, at : Warehouses]
NoEntry == [number |-> 0, hash |-> NoWarehouse]
Entry == [number : Numbers, hash : Warehouses]
OrdersMap == [Numbers -> Order \cup {NoOrder}]
IndexMap == [Requests -> Entry \cup {NoEntry}]
Snapshot == [orders : OrdersMap, index : IndexMap]

Idle == [step |-> "idle"]
Serving == [step : {"quote", "plan", "reserve", "enter", "save"}, request : Requests,
            number : 0 .. MaxNumber,
            hash : Places,          \* what of the request's hash can change: the warehouse quoted
            at : Places,            \* where the order reserves
            copy : Snapshot]        \* the snapshot being written
Page == [id : 0 .. MaxIds,          \* checkoutRequestIdRef, 0 when null
         used : 0 .. MaxIds,        \* ids generated so far
         waiting : Calls \cup {NoCall}, result : 0 .. MaxNumber]

Nothing == [orders |-> [n \in Numbers |-> NoOrder], index |-> [r \in Requests |-> NoEntry]]

Init ==
    /\ shopper = [b \in Shoppers |-> [id |-> 0, used |-> 0, waiting |-> NoCall, result |-> 0]]
    /\ call = [c \in Calls |-> Idle]
    /\ sequence = 0
    /\ orders = Nothing.orders
    /\ index = Nothing.index
    /\ held = [n \in Numbers |-> NoWarehouse]
    /\ saved = Nothing
    /\ crossed = {} /\ deleted = {} /\ faults = 0
    /\ LoyaltyInit

Live(x) == x.status \in {"open", "sold"}
Free(w) == Stock[w] - Cardinality({n \in Numbers : held[n] = w})
At(c, step) == call[c].step = step
Serves(c) == call[c].step # "idle"
Fault == faults < MaxFaults /\ faults' = faults + 1

----------------------------------------------------------------------------
\* The page.  handleSubmit reuses the id of the last attempt; it is cleared by a
\* success and by any change of what is bought, of the customer or of the address.
handleSubmit(b, c) ==
    /\ shopper[b].waiting = NoCall /\ shopper[b].result = 0
    /\ ~Serves(c)
    /\ sequence + Cardinality({d \in Calls : At(d, "quote")}) < MaxNumber
    /\ shopper[b].id # 0 \/ shopper[b].used < MaxIds
    /\ LET id == IF shopper[b].id # 0 THEN shopper[b].id ELSE shopper[b].used + 1
       IN  /\ shopper' = [shopper EXCEPT ![b].id = id, ![b].used = IF id > @ THEN id ELSE @,
                                         ![b].waiting = c]
           /\ call' = [call EXCEPT ![c] = [step |-> "quote", request |-> <<b, id>>, number |-> 0,
                          hash |-> NoWarehouse, at |-> NoWarehouse, copy |-> Nothing]]
    /\ UNCHANGED <<sequence, orders, index, held, saved, crossed, deleted, faults, loyaltyVars>>

\* The connection breaks: the page shows an error, the server goes on.
Lose(b) ==
    /\ Fault
    /\ shopper[b].waiting # NoCall
    /\ shopper' = [shopper EXCEPT ![b].waiting = NoCall]
    /\ UNCHANGED <<call, sequence, orders, index, held, saved, crossed, deleted, loyaltyVars>>

\* An edit clears the id, whether or not an answer is awaited; a reload also
\* forgets the answer awaited.
Edit(b) ==
    /\ Fault
    /\ shopper[b].id # 0
    /\ \/ shopper' = [shopper EXCEPT ![b].id = 0]
       \/ shopper' = [shopper EXCEPT ![b].id = 0, ![b].waiting = NoCall]
    /\ UNCHANGED <<call, sequence, orders, index, held, saved, crossed, deleted, loyaltyVars>>

\* The answer reaches the page only if it still waits for it.
Told(c, n) ==
    [b \in Shoppers |->
        IF shopper[b].waiting # c THEN shopper[b]
        ELSE IF n = 0 THEN [shopper[b] EXCEPT !.waiting = NoCall]
        ELSE [shopper[b] EXCEPT !.waiting = NoCall, !.id = 0, !.result = n]]

Ends(c, n) ==
    /\ call' = [call EXCEPT ![c] = Idle]
    /\ shopper' = Told(c, n)

----------------------------------------------------------------------------
\* resolveFulfillmentWarehouseId and assertCheckoutInventoryAvailable: the default
\* warehouse while it has units, otherwise one of those with most.
Quotable ==
    IF Free(DefaultWarehouse) >= 1 THEN {DefaultWarehouse}
    ELSE {w \in Warehouses : Free(w) >= 1 /\ \A x \in Warehouses : Free(x) <= Free(w)}

\* The quote cannot be built: the units are gone, or the database does not answer.
QuoteFails(c) ==
    /\ At(c, "quote")
    /\ Ends(c, 0)
    /\ UNCHANGED <<sequence, orders, index, held, saved, crossed, deleted, faults, loyaltyVars>>

\* createManualCheckout, the page's only method, from the quote on: a number is
\* taken whatever becomes of it, and the request's id is looked up.  Mutated, a
\* request that is known is served again.
QuotedBlindly(c, w) ==
    /\ At(c, "quote")
    /\ sequence' = sequence + 1
    /\ call' = [call EXCEPT ![c].step = "plan", ![c].number = sequence', ![c].hash = w,
                            ![c].at = w]
    /\ UNCHANGED <<index, crossed, shopper>>
    /\ UNCHANGED <<orders, held, saved, deleted, faults, loyaltyVars>>

Quoted(c, w) ==
    LET r == call[c].request
        entry == index[r]
        others == {d \in Calls \ {c} : call[d].step \in {"plan", "reserve", "enter"}
                                       /\ call[d].request = r}
    IN  /\ At(c, "quote")
        /\ sequence' = sequence + 1
        /\ \/ /\ entry # NoEntry /\ entry.hash # w              \* 409
              /\ Ends(c, 0)
              /\ UNCHANGED <<index, crossed>>
           \/ /\ entry # NoEntry /\ entry.hash = w
              /\ orders[entry.number] # NoOrder                 \* the same order
              /\ Ends(c, entry.number)
              /\ UNCHANGED <<index, crossed>>
           \/ /\ entry # NoEntry => entry.hash = w /\ orders[entry.number] = NoOrder
              /\ index' = [index EXCEPT ![r] = NoEntry]
              /\ call' = [call EXCEPT ![c].step = "plan", ![c].number = sequence',
                                      ![c].hash = w, ![c].at = w]
              /\ crossed' = crossed \cup (IF others = {} THEN {} ELSE {r})
              /\ UNCHANGED shopper
        /\ UNCHANGED <<orders, held, saved, deleted, faults, loyaltyVars>>

\* resolveFulfillmentPlan and the customer's link: the engine may assign another
\* warehouse that can serve the order now.
Plan(c) ==
    /\ At(c, "plan")
    /\ \E w \in {x \in Warehouses : Free(x) >= 1} \cup {call[c].at} :
         call' = [call EXCEPT ![c].step = "reserve", ![c].at = w]
    /\ UNCHANGED <<shopper, sequence, orders, index, held, saved, crossed, deleted, faults, loyaltyVars>>

\* syncOrder for a new order: it reserves its unit or throws.  Mutated, the plan's
\* answer is taken as still true.
ReservePlanned(c) ==
    /\ At(c, "reserve")
    /\ held' = [held EXCEPT ![call[c].number] = call[c].at]
    /\ call' = [call EXCEPT ![c].step = "enter"]
    /\ UNCHANGED <<shopper, sequence, orders, index, saved, crossed, deleted, faults, loyaltyVars>>

Reserve(c) ==
    /\ At(c, "reserve")
    /\ IF Free(call[c].at) >= 1
       THEN /\ held' = [held EXCEPT ![call[c].number] = call[c].at]
            /\ call' = [call EXCEPT ![c].step = "enter"]
            /\ UNCHANGED shopper
       ELSE Ends(c, 0) /\ UNCHANGED held
    /\ UNCHANGED <<sequence, orders, index, saved, crossed, deleted, faults, loyaltyVars>>

\* The order, its index entry and its points enter together; persistState copies
\* the map and the index before it awaits the write.  Mutated, the index is a
\* snapshot of its own, written first.
EnterIndexFirst(c) ==
    LET t == call[c]
    IN  /\ At(c, "enter")
        /\ orders' = [orders EXCEPT ![t.number] =
                        [request |-> t.request, status |-> "open", at |-> t.at]]
        /\ index' = [index EXCEPT ![t.request] = [number |-> t.number, hash |-> t.hash]]
        /\ saved' = [saved EXCEPT !.index = index']
        /\ recordOrderPoints(t.request[1], t.number, 1, "pending")
        /\ call' = [call EXCEPT ![c].step = "save",
                                ![c].copy = [orders |-> orders', index |-> index']]
        /\ UNCHANGED <<shopper, sequence, held, crossed, deleted, faults>>

Enter(c) ==
    LET t == call[c]
    IN  /\ At(c, "enter")
        /\ orders' = [orders EXCEPT ![t.number] =
                        [request |-> t.request, status |-> "open", at |-> t.at]]
        /\ index' = [index EXCEPT ![t.request] = [number |-> t.number, hash |-> t.hash]]
        /\ recordOrderPoints(t.request[1], t.number, 1, "pending")
        /\ call' = [call EXCEPT ![c].step = "save",
                                ![c].copy = [orders |-> orders', index |-> index']]
        /\ UNCHANGED <<shopper, sequence, held, saved, crossed, deleted, faults>>

\* The upsert lands and the order is answered.
Save(c) ==
    /\ At(c, "save")
    /\ saved' = call[c].copy
    /\ Ends(c, call[c].number)
    /\ UNCHANGED <<sequence, orders, index, held, crossed, deleted, faults, loyaltyVars>>

Serve(c) ==
    \/ QuoteFails(c)
    \/ \E w \in Quotable : Quoted(c, w)
    \/ Plan(c) \/ Reserve(c) \/ Enter(c) \/ Save(c)

----------------------------------------------------------------------------
\* What the operators do to an order that stands, each as one step (their awaits
\* are OrderLifecycle's): its payment is confirmed, it is cancelled or refunded,
\* it is deleted without touching its unit, its points or its index entry.
Sell(n) ==
    /\ orders[n].status = "open"
    /\ orders' = [orders EXCEPT ![n].status = "sold"]
    /\ settleOrderPoints(n)
    /\ saved' = [orders |-> orders', index |-> index]
    /\ UNCHANGED <<shopper, call, sequence, index, held, crossed, deleted, faults>>

Cancel(n) ==
    /\ Live(orders[n])
    /\ orders' = [orders EXCEPT ![n].status = "cancelled"]
    /\ held' = [held EXCEPT ![n] = NoWarehouse]
    /\ reverseOrderPoints(n)
    /\ saved' = [orders |-> orders', index |-> index]
    /\ UNCHANGED <<shopper, call, sequence, index, crossed, deleted, faults>>

deleteOrder(n) ==
    /\ Fault
    /\ orders[n] # NoOrder
    /\ orders' = [orders EXCEPT ![n] = NoOrder]
    /\ saved' = [orders |-> orders', index |-> index]
    /\ deleted' = deleted \cup {n}
    /\ UNCHANGED <<shopper, call, sequence, index, held, crossed, loyaltyVars>>

\* restoreSnapshot, then rebuildFromOrders, which reserves without checking; the
\* number to give next follows the greatest one restored.
Restored(os) == {n \in Numbers : os[n] # NoOrder}

Restart ==
    /\ Fault
    /\ orders' = saved.orders
    /\ index' = saved.index
    /\ sequence' = IF Restored(orders') = {} THEN 0 ELSE Max(Restored(orders'))
    /\ held' = [n \in Numbers |-> IF Live(orders'[n]) THEN orders'[n].at ELSE NoWarehouse]
    /\ call' = [c \in Calls |-> Idle]
    /\ shopper' = [b \in Shoppers |-> [shopper[b] EXCEPT !.waiting = NoCall]]
    /\ UNCHANGED <<saved, crossed, deleted, loyaltyVars>>

Operate ==
    \/ \E n \in Numbers : Sell(n) \/ Cancel(n)
    \/ OperateLoyalty /\ UNCHANGED checkoutVars

Next ==
    \/ \E b \in Shoppers : Lose(b) \/ Edit(b) \/ \E c \in Calls : handleSubmit(b, c)
    \/ \E c \in Calls : Serve(c)
    \/ Operate
    \/ \E n \in Numbers : deleteOrder(n)
    \/ Restart

Spec == Init /\ [][Next]_vars

----------------------------------------------------------------------------
TypeOK ==
    /\ shopper \in [Shoppers -> Page]
    /\ \A c \in Calls : Serves(c) => call[c] \in Serving
    /\ sequence \in 0 .. MaxNumber
    /\ orders \in OrdersMap
    /\ index \in IndexMap
    /\ held \in [Numbers -> Places]
    /\ saved \in Snapshot
    /\ crossed \subseteq Requests /\ deleted \subseteq Numbers /\ faults \in 0 .. MaxFaults
    /\ LoyaltyTypeOK

\* However often a request is sent again, whatever is lost and restarted, it has
\* one order (docs/flows/checkout-openpay.md:121), unless two of its calls were
\* checked before either had entered its order.
OneOrderPerRequest ==
    \A m, n \in Numbers :
        m # n /\ orders[m] # NoOrder /\ orders[m].request = orders[n].request
            => orders[m].request \in crossed

\* A call that was refused, or that a restart cut off, blocks no unit: a unit is
\* held for an order that stands, for a call about to enter one, or for an order
\* that was deleted; an order that stands has its unit; and no warehouse promises
\* more than it has, although rebuildFromOrders does not check.
UnitsOfOrders ==
    /\ \A n \in Numbers :
          /\ Live(orders[n]) => held[n] = orders[n].at
          /\ held[n] # NoWarehouse =>
                \/ Live(orders[n]) \/ n \in deleted
                \/ \E c \in Calls : At(c, "enter") /\ call[c].number = n
    /\ \A w \in Warehouses : Free(w) >= 0

\* The order a page shows as its own was made for its shopper, although ids are
\* looked up in an index that outlives the orders it names and numbers are given
\* again after a restart; only an operator's deletion can mix them up.
AnswerIsOwn ==
    [][\A b \in Shoppers :
         LET n == shopper'[b].result
         IN  n # shopper[b].result => n \in deleted \/ orders[n].request[1] = b]_vars
=============================================================================
