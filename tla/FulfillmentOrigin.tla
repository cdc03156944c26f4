------------------------- MODULE FulfillmentOrigin -------------------------
(***************************************************************************)
(* Where an order is dispatched from: the suggestion engine, the automatic *)
(* and manual assignment of an origin, and the stock that follows it       *)
(* (src/apps/api/src/modules/orders/orders.service.ts).                    *)
(*                                                                         *)
(* The engine reads the active warehouses, asks the inventory, one after   *)
(* another, whether each that covers the destination can serve every line, *)
(* and ranks those that can.  An assignment rewrites the order's items to  *)
(* the origin and has the inventory moved there.  All of it awaits: the    *)
(* stock, the warehouses and the order itself change under a running call. *)
(* A step below goes from one await of a call to the next.                 *)
(*                                                                         *)
(* One order, from the quote on; what other orders, adjustments and        *)
(* transfers do to the stock is StockMoves.                                *)
(***************************************************************************)
EXTENDS Tallies, FiniteSetsExt

CONSTANTS
    Warehouses,     \* rows of the table warehouses
    Code,           \* the place of a warehouse's code in the order of codes
    Offered,        \* the configurations an operator may give each warehouse
    Variants,       \* the variants of the order's lines
    Quantity,       \* how many units of each it asks
    DefaultOf,      \* productVariant.defaultWarehouseId
    Addresses,      \* the destinations the order may have
    NoUbigeo,       \* a destination without district, province and department
    Stocks,         \* the stock free at each warehouse at the start
    Calls,          \* calls the API may be serving at once
    NoWarehouse,    \* an order without fulfillmentAssignment
    MaxChanges      \* bound on changes of warehouses and stock by others

Scopes == {"district", "province", "department"}

ASSUME OriginAssumption ==
    /\ Code \in [Warehouses -> Nat]
    /\ \A w, u \in Warehouses : Code[w] = Code[u] => w = u
    /\ Variants # {} /\ IsFiniteSet(Variants)
    /\ Quantity \in [Variants -> Nat \ {0}]
    /\ DefaultOf \in [Variants -> Warehouses]
    /\ \A w \in Warehouses : \A cfg \in Offered[w] :
         /\ cfg.active \in BOOLEAN /\ cfg.priority \in Nat
         /\ DOMAIN cfg.location = Scopes
         /\ \A a \in cfg.areas : a.scope \in Scopes /\ a.priority \in Nat
    /\ \A to \in Addresses \ {NoUbigeo} : DOMAIN to = Scopes
    /\ Stocks \subseteq [Warehouses -> [Variants -> Nat]]
    /\ NoWarehouse \notin Warehouses
    /\ MaxChanges \in Nat

VARIABLES
    warehouse,      \* the configuration of every warehouse
    free,           \* units neither reserved nor committed, by warehouse and variant
    address,        \* the order's destination
    order,          \* the order, as OrdersService keeps it
    hold,           \* InventoryService.reservations for the order
    call,           \* what every running call has read and does next
    changes,        \* changes of warehouses and stock by others so far
    \* what happened, for the properties
    undisturbed,    \* calls of the engine whose inputs nobody changed since
    refused,        \* units given back for a move were gone when it took them
    crossed,        \* a move of the order's units met another, or their release
    revived         \* a cancelled order was paid

places == <<warehouse, free, address, changes>>
history == <<undisturbed, refused, crossed, revived>>
vars == <<places, order, hold, call, history>>

NoOrder == [exists |-> FALSE, status |-> "pending", items |-> DefaultOf,
            origin |-> NoWarehouse, by |-> "nobody", suggestion |-> NoWarehouse]
NoHold == [state |-> "none", at |-> DefaultOf]
Idle == [step |-> "idle", kind |-> "none", items |-> DefaultOf, seen |-> <<>>,
         pending |-> {}, fits |-> {}, to |-> NoWarehouse, stage |-> "none", allow |-> FALSE]

Steps == {"idle", "load", "assess", "build", "validate", "check", "reassign", "sync", "take"}
Kinds == {"none", "create", "advance", "dispatch", "suggest", "assign"}

\* The statuses the stock and the queue tell apart: pending is also draft and
\* payment_under_review, confirmed any of the dispatch queue, delivered also
\* completed, cancelled also expired.
operationalTransitions ==
    [pending |-> {"pending", "cancelled"},
     confirmed |-> {"confirmed", "delivered", "refunded"},
     delivered |-> {"delivered", "refunded"},
     cancelled |-> {}, refunded |-> {}]
Statuses == DOMAIN operationalTransitions
Stopped(status) == status \in {"cancelled", "refunded"}

\* resolveOrderInventoryLifecycleState
LifecycleState(status) ==
    IF Stopped(status) THEN "released" ELSE IF status = "pending" THEN "reserved" ELSE "confirmed"

Items == [Variants -> Warehouses]
TypeOK ==
    /\ warehouse \in {f \in [Warehouses -> UNION {Offered[w] : w \in Warehouses}] :
                        \A w \in Warehouses : f[w] \in Offered[w]}
    /\ free \in [Warehouses -> [Variants -> Nat]]
    /\ address \in Addresses
    /\ order.status \in Statuses /\ order.items \in Items
    /\ order.origin \in Warehouses \cup {NoWarehouse}
    /\ hold.state \in {"none", "reserved", "confirmed", "released"} /\ hold.at \in Items
    /\ \A c \in Calls : call[c].step \in Steps /\ call[c].kind \in Kinds
    /\ undisturbed \subseteq Calls

----------------------------------------------------------------------------
(* Coverage and ranking *)

NoCoverage == [source |-> "none", rank |-> 100, priority |-> 0]
Fallback(cfg) == [source |-> "default_fallback", rank |-> 90, priority |-> cfg.priority]
Rank == [district |-> 0, province |-> 1, department |-> 2]

\* Tuples of numbers in the order of their first difference.
Before(s, t) == \E i \in DOMAIN s : s[i] < t[i] /\ \A j \in 1..(i - 1) : s[j] = t[j]

ActiveAreas(cfg) == {a \in cfg.areas : a.isActive}

\* matchWarehouseCoverage: declared areas decide when there are any active;
\* without them the warehouse covers what surrounds it, and a common default
\* warehouse is kept as a fallback.
matchWarehouseCoverage(cfg, fallback) ==
    IF address = NoUbigeo
      THEN IF fallback THEN Fallback(cfg) ELSE NoCoverage
    ELSE IF ActiveAreas(cfg) # {}
      THEN LET matching == {a \in ActiveAreas(cfg) : address[a.scope] = a.code}
               best == CHOOSE a \in matching : \A b \in matching :
                         ~Before(<<Rank[b.scope], b.priority>>, <<Rank[a.scope], a.priority>>)
           IN IF matching = {} THEN NoCoverage
              ELSE [source |-> "service_area", rank |-> Rank[best.scope], priority |-> best.priority]
    ELSE LET near == {s \in Scopes : cfg.location[s] = address[s]}
             least == CHOOSE s \in near : \A t \in near : Rank[s] <= Rank[t]
         IN IF near # {}
              THEN [source |-> "warehouse_location", rank |-> 10 + Rank[least],
                    priority |-> cfg.priority]
            ELSE IF fallback THEN Fallback(cfg) ELSE NoCoverage

\* collectDefaultWarehouseWeights
Weight(items, w) == Tally([v \in {u \in Variants : items[u] = w} |-> Quantity[v]])
CommonDefault(items, w) == \A v \in Variants : items[v] = w

CoverageOf(seen, items, w) == matchWarehouseCoverage(seen[w], CommonDefault(items, w))

resolveSuggestionBucket(seen, items, w) ==
    LET isFallback == CoverageOf(seen, items, w).source = "default_fallback"
    IN IF CommonDefault(items, w)
         THEN IF address = NoUbigeo \/ ~isFallback THEN 0 ELSE 3
       ELSE IF Weight(items, w) > 0
         THEN IF isFallback THEN 4 ELSE 1
       ELSE IF isFallback THEN 5 ELSE 2

\* compareFulfillmentCandidates; mutated, the buckets are forgotten and the
\* coverage comes before the base warehouses of the lines.
KeyByCoverage(seen, items, w) ==
    LET coverage == CoverageOf(seen, items, w)
    IN <<coverage.rank, coverage.priority, -Weight(items, w), seen[w].priority>>

Key(seen, items, w) ==
    LET coverage == CoverageOf(seen, items, w)
    IN <<resolveSuggestionBucket(seen, items, w), -Weight(items, w),
         coverage.rank, coverage.priority, seen[w].priority>>

\* The candidate ranked first, unless another ties with it
\* (areEquivalentFulfillmentCandidates): then the suggestion is blocked.
Selected(seen, items, candidates) ==
    LET first == {w \in candidates : \A u \in candidates :
                    ~Before(Key(seen, items, u), Key(seen, items, w))}
    IN IF Cardinality(first) = 1 THEN CHOOSE w \in first : TRUE ELSE NoWarehouse

canAutoAssign(seen, items, w) ==
    /\ w # NoWarehouse
    /\ \/ CoverageOf(seen, items, w).source # "default_fallback"
       \/ CommonDefault(items, w) /\ address = NoUbigeo

----------------------------------------------------------------------------
(* Stock *)

\* currentOrderQuantityForWarehouse: what the record says, whatever its state.
Own(w, v) == IF hold.state # "none" /\ hold.at[v] = w THEN Quantity[v] ELSE 0

\* assessWarehouseFulfillment
CanServe(w) == \A v \in Variants : free[w][v] + Own(w, v) >= Quantity[v]

\* resolveFulfillmentWarehouseId: the quote takes a line from its default
\* warehouse or, for want of units there, from where most are free.
QuotedFrom(v, w) ==
    LET default == DefaultOf[v]
        most == \A u \in Warehouses : free[u][v] <= free[w][v]
    IN IF free[default][v] >= Quantity[v] THEN w = default
       ELSE IF \E u \in Warehouses : free[u][v] > 0 THEN most
       ELSE w = default

\* Units of the lines, taken from or given back to the stock.
Enough(items) == \A v \in Variants : free[items[v]][v] >= Quantity[v]
Moved(items, sign) ==
    [w \in Warehouses |-> [v \in Variants |->
        free[w][v] + (IF items[v] = w THEN sign * Quantity[v] ELSE 0)]]

----------------------------------------------------------------------------
(* Calls *)

At(c, step) == call[c].step = step
Become(c, x) == call' = [call EXCEPT ![c] = x]
End(c) == Become(c, Idle)

\* synchronizeOrderInventory hands over the order as it is when it is called.
Syncing(kind, items, status, allow) ==
    [Idle EXCEPT !.step = "sync", !.kind = kind, !.items = items, !.allow = allow,
                 !.stage = LifecycleState(status)]

Moving(c) == call[c].step \in {"sync", "take"} /\ call[c].allow
Stopping(c) == At(c, "sync") /\ ~call[c].allow /\ call[c].stage = "released"
Crossing(c) == crossed' = (crossed \/ \E d \in Calls \ {c} : Moving(d) \/ Stopping(d))

\* The call leaves with an exception; an order being created is forgotten.
Throw(c) ==
    /\ End(c)
    /\ order' = IF call[c].kind = "create" THEN NoOrder ELSE order

\* buildFulfillmentSuggestion is called.
Engine(c, kind, items) ==
    /\ Become(c, [Idle EXCEPT !.step = "load", !.kind = kind, !.items = items])
    /\ undisturbed' = undisturbed \cup {c}

\* createCheckoutOrder, createBackofficeOrderRecord: quote the lines and plan.
createOrder(c) ==
    /\ At(c, "idle") /\ ~order.exists
    /\ \A d \in Calls : call[d].kind # "create"
    /\ \E items \in Items :
         /\ \A v \in Variants : QuotedFrom(v, items[v])
         /\ Engine(c, "create", items)
    /\ \E status \in {"pending", "confirmed"} : order' = [NoOrder EXCEPT !.status = status]
    /\ UNCHANGED <<places, hold, refused, crossed, revived>>

\* The status changes first; then an order for the dispatch queue that has no
\* origin is planned, and any other goes straight to the inventory, which may
\* take no other lines than it holds.
Advance(c, next) ==
    /\ order' = [order EXCEPT !.status = next]
    /\ IF next = "confirmed" /\ order.origin = NoWarehouse
         THEN Engine(c, "advance", order.items)
         ELSE Become(c, Syncing("advance", order.items, next, FALSE)) /\ UNCHANGED undisturbed
    /\ UNCHANGED <<places, hold, refused>>

\* A payment is accepted, whatever the order is that waits for it: a cancelled
\* one too.
applyCommercialConfirmation(c) ==
    /\ At(c, "idle") /\ order.exists /\ order.status \in {"pending", "cancelled"}
    /\ Advance(c, "confirmed")
    /\ revived' = (revived \/ order.status = "cancelled")
    /\ UNCHANGED crossed

\* An operator moves the order on, cancels, refunds or expires it; a rejected
\* payment (applyManualDecision) cancels it in the same way.  The origin stays.
transitionOrderStatus(c, next) ==
    /\ At(c, "idle") /\ order.exists /\ next \in operationalTransitions[order.status]
    /\ Advance(c, next)
    /\ IF Stopped(next) THEN Crossing(c) ELSE UNCHANGED crossed
    /\ UNCHANGED revived

\* listDispatchOrders plans the orders of the queue that have no origin.
listDispatchOrders(c) ==
    /\ At(c, "idle") /\ order.exists /\ order.status = "confirmed" /\ order.origin = NoWarehouse
    /\ Engine(c, "dispatch", order.items)
    /\ UNCHANGED <<places, order, hold, refused, crossed, revived>>

suggestOrderFulfillment(c) ==
    /\ At(c, "idle") /\ order.exists
    /\ Engine(c, "suggest", order.items)
    /\ UNCHANGED <<places, order, hold, refused, crossed, revived>>

\* The engine has ranked the candidates that can serve the order.
Conclude(c, seen, candidates) ==
    LET x == call[c]
        w == Selected(seen, x.items, candidates)
    IN /\ IF x.kind # "suggest" /\ canAutoAssign(seen, x.items, w)
            THEN Become(c, [Idle EXCEPT !.step = "build", !.kind = x.kind,
                                        !.items = x.items, !.to = w])
          ELSE IF x.kind \in {"create", "advance"}
            THEN Become(c, Syncing(x.kind, IF x.kind = "create" THEN x.items ELSE order.items,
                                   order.status, FALSE))
          ELSE End(c)
       /\ order' = [order EXCEPT
                      !.suggestion = IF At(c, "build")' THEN @ ELSE w,
                      !.items = IF x.kind = "create" THEN x.items ELSE @]
       /\ undisturbed' = undisturbed \ {c}

\* loadActiveWarehousesForSuggestion has answered.
Load(c) ==
    LET seen == [w \in {u \in Warehouses : warehouse[u].active} |-> warehouse[w]]
        covering == {w \in DOMAIN seen : CoverageOf(seen, call[c].items, w) # NoCoverage}
    IN /\ At(c, "load")
       /\ IF covering = {}
            THEN Conclude(c, seen, {})
            ELSE /\ Become(c, [call[c] EXCEPT !.step = "assess", !.seen = seen, !.pending = covering])
                 /\ UNCHANGED <<order, undisturbed>>
       /\ UNCHANGED <<places, hold, refused, crossed, revived>>

\* assessWarehouseFulfillment has answered for the next warehouse, in the
\* order of priorities and codes; after the last the engine concludes.
Assess(c) ==
    LET x == call[c]
        Place(w) == <<x.seen[w].priority, Code[w]>>
        next == CHOOSE w \in x.pending : \A u \in x.pending : ~Before(Place(u), Place(w))
        fits == x.fits \cup {w \in {next} : CanServe(w)}
    IN /\ At(c, "assess")
       /\ IF x.pending = {next}
            THEN Conclude(c, x.seen, fits)
            ELSE /\ Become(c, [x EXCEPT !.pending = @ \ {next}, !.fits = fits])
                 /\ UNCHANGED <<order, undisturbed>>
       /\ UNCHANGED <<places, hold, refused, crossed, revived>>

----------------------------------------------------------------------------
(* Assignment *)

Assigned(items, w, who) ==
    [order EXCEPT !.items = items, !.origin = w, !.by = who, !.suggestion = IF who = "engine" THEN w ELSE @]

rewriteItemsToWarehouse(w) == [v \in Variants |-> w]

\* Mutant of Apply: an origin given meanwhile is replaced.
ApplyBlindly(c) ==
    LET x == call[c]
        lines == rewriteItemsToWarehouse(x.to)
    IN /\ At(c, "build") /\ warehouse[x.to].active
       /\ order' = Assigned(lines, x.to, "engine")
       /\ Become(c, Syncing(x.kind, lines, order.status, x.kind # "create"))
       /\ Crossing(c) /\ undisturbed' = {}
       /\ UNCHANGED <<places, hold, refused, revived>>

\* Mutant of Apply: the units are not asked to follow.
ApplyInPlace(c) ==
    LET x == call[c]
        lines == rewriteItemsToWarehouse(x.to)
    IN /\ At(c, "build") /\ warehouse[x.to].active /\ order.origin = NoWarehouse
       /\ order' = Assigned(lines, x.to, "engine")
       /\ Become(c, Syncing(x.kind, lines, order.status, FALSE))
       /\ undisturbed' = {}
       /\ UNCHANGED <<places, hold, refused, crossed, revived>>

\* applyAlgorithmicFulfillmentPlan, after buildFulfillmentAssignment: the
\* order has still no origin and takes the engine's.
Apply(c) ==
    LET x == call[c]
        lines == rewriteItemsToWarehouse(x.to)
    IN /\ At(c, "build") /\ warehouse[x.to].active /\ order.origin = NoWarehouse
       /\ order' = Assigned(lines, x.to, "engine")
       /\ Become(c, Syncing(x.kind, lines, order.status, x.kind # "create"))
       /\ Crossing(c) /\ undisturbed' = {}
       /\ UNCHANGED <<places, hold, refused, revived>>

\* Somebody gave it one meanwhile, and the plan is dropped.
Dropped(c) ==
    /\ At(c, "build") /\ warehouse[call[c].to].active /\ order.origin # NoWarehouse
    /\ IF call[c].kind = "advance"
         THEN Become(c, Syncing("advance", order.items, order.status, FALSE))
         ELSE End(c)
    /\ order' = [order EXCEPT !.suggestion = call[c].to]
    /\ UNCHANGED <<places, hold, history>>

\* buildFulfillmentAssignment finds the warehouse suspended.
NotActive(c) ==
    /\ \/ At(c, "build") /\ ~warehouse[call[c].to].active
       \/ At(c, "reassign") /\ ~warehouse[call[c].to].active
    /\ Throw(c)
    /\ UNCHANGED <<places, hold, history>>

assignOrderFulfillment(c, w) ==
    /\ At(c, "idle") /\ order.exists
    /\ Become(c, [Idle EXCEPT !.step = "validate", !.kind = "assign", !.to = w])
    /\ UNCHANGED <<places, order, hold, history>>

\* validateWarehouseAssignment: active and, for a known destination, covering;
\* then the inventory is asked.
Validate(c) ==
    LET cfg == warehouse[call[c].to]
        valid == cfg.active /\ (address # NoUbigeo => matchWarehouseCoverage(cfg, FALSE) # NoCoverage)
    IN /\ At(c, "validate")
       /\ IF valid THEN Become(c, [call[c] EXCEPT !.step = "check"]) ELSE End(c)
       /\ UNCHANGED <<places, order, hold, history>>

Check(c) ==
    /\ At(c, "check")
    /\ IF CanServe(call[c].to) THEN Become(c, [call[c] EXCEPT !.step = "reassign"]) ELSE End(c)
    /\ UNCHANGED <<places, order, hold, history>>

\* The rest of assignOrderFulfillment, up to the inventory.
Reassign(c) ==
    LET w == call[c].to
        lines == rewriteItemsToWarehouse(w)
    IN /\ At(c, "reassign") /\ warehouse[w].active
       /\ order' = Assigned(lines, w, "operator")
       /\ Become(c, Syncing("assign", lines, order.status, TRUE))
       /\ Crossing(c) /\ undisturbed' = {}
       /\ UNCHANGED <<places, hold, refused, revived>>

----------------------------------------------------------------------------
(* syncOrder: the record is read after the first await *)

Lines(c) == call[c].items
Done(c) ==
    /\ End(c)
    /\ order' = IF call[c].kind = "create" THEN [order EXCEPT !.exists = TRUE] ELSE order

\* reserveLines: the first units of the order, or those of a move whose old
\* ones were given back; a record once given back stays so when it throws.
Take(c) ==
    /\ \/ At(c, "sync") /\ hold.state = "none"
       \/ At(c, "take")
    /\ IF Enough(Lines(c))
         THEN /\ hold' = [state |-> call[c].stage, at |-> Lines(c)]
              /\ free' = Moved(Lines(c), -1)
              /\ undisturbed' = {}
              /\ Done(c) /\ UNCHANGED refused
         ELSE /\ Throw(c) /\ refused' = (refused \/ At(c, "take"))
              /\ UNCHANGED <<hold, free, undisturbed>>
    /\ UNCHANGED <<warehouse, address, changes, crossed, revived>>

\* The lines are those of the record: reserved units may be consolidated, and
\* nothing else changes, with or without an exception.
SameLines(c) ==
    /\ At(c, "sync") /\ hold.state # "none" /\ hold.at = Lines(c)
    /\ hold.state = "released" \/ call[c].stage # "released"
    /\ hold' = [hold EXCEPT !.state = IF @ = "reserved" THEN call[c].stage ELSE @]
    /\ End(c)
    /\ UNCHANGED <<places, order, history>>

\* releaseLines and reverseLines: the units of an order that was stopped.
Release(c) ==
    /\ At(c, "sync") /\ hold.state \in {"reserved", "confirmed"} /\ hold.at = Lines(c)
    /\ call[c].stage = "released"
    /\ hold' = [hold EXCEPT !.state = "released"]
    /\ free' = Moved(hold.at, 1)
    /\ undisturbed' = {}
    /\ End(c)
    /\ UNCHANGED <<warehouse, address, changes, order, refused, crossed, revived>>

\* reallocateLines gives the old units back and takes the new ones later,
\* in the state the record had.
GiveBack(c) ==
    /\ At(c, "sync") /\ hold.state \in {"reserved", "confirmed"} /\ hold.at # Lines(c)
    /\ call[c].allow
    /\ Become(c, [call[c] EXCEPT !.step = "take", !.stage = hold.state])
    /\ hold' = [hold EXCEPT !.state = "released"]
    /\ free' = Moved(hold.at, 1)
    /\ undisturbed' = {}
    /\ UNCHANGED <<warehouse, address, changes, order, refused, crossed, revived>>

\* The lines changed without leave, or the units were given back.
Conflict(c) ==
    /\ At(c, "sync") /\ hold.state # "none" /\ hold.at # Lines(c)
    /\ hold.state = "released" \/ ~call[c].allow
    /\ Throw(c)
    /\ UNCHANGED <<places, hold, history>>

----------------------------------------------------------------------------
(* Others *)

\* patchWarehouse: the default warehouse of an active variant stays active.
patchWarehouse(w) ==
    /\ changes < MaxChanges /\ changes' = changes + 1
    /\ \E cfg \in Offered[w] \ {warehouse[w]} :
         /\ cfg.active \/ \A v \in Variants : DefaultOf[v] # w
         /\ warehouse' = [warehouse EXCEPT ![w] = cfg]
    /\ undisturbed' = {}
    /\ UNCHANGED <<free, address, order, hold, call, refused, crossed, revived>>

\* The last free units of a variant go, or a lot of it arrives.
StockMoves(w, v) ==
    /\ changes < MaxChanges /\ changes' = changes + 1
    /\ \E n \in {0, Quantity[v]} \ {free[w][v]} : free' = [free EXCEPT ![w][v] = n]
    /\ undisturbed' = {}
    /\ UNCHANGED <<warehouse, address, order, hold, call, refused, crossed, revived>>

Init ==
    /\ warehouse \in {f \in [Warehouses -> UNION {Offered[w] : w \in Warehouses}] :
                        /\ \A w \in Warehouses : f[w] \in Offered[w]
                        /\ \A v \in Variants : f[DefaultOf[v]].active}
    /\ free \in Stocks
    /\ address \in Addresses
    /\ order = NoOrder /\ hold = NoHold
    /\ call = [c \in Calls |-> Idle]
    /\ changes = 0
    /\ undisturbed = {} /\ refused = FALSE /\ crossed = FALSE /\ revived = FALSE

Next ==
    \/ \E c \in Calls :
         \/ createOrder(c) \/ applyCommercialConfirmation(c)
         \/ \E next \in Statuses : transitionOrderStatus(c, next)
         \/ listDispatchOrders(c) \/ suggestOrderFulfillment(c)
         \/ Load(c) \/ Assess(c) \/ Apply(c) \/ Dropped(c) \/ NotActive(c)
         \/ Validate(c) \/ Check(c) \/ Reassign(c)
         \/ Take(c) \/ SameLines(c) \/ Release(c) \/ GiveBack(c) \/ Conflict(c)
         \/ \E w \in Warehouses : assignOrderFulfillment(c, w)
    \/ \E w \in Warehouses : patchWarehouse(w) \/ \E v \in Variants : StockMoves(w, v)

Spec == Init /\ [][Next]_vars

----------------------------------------------------------------------------
(* What must hold *)

\* The origin the documentation describes, by elimination
\* (docs/flows/warehouse-fulfillment-triangulation.md, "Orden recomendado de
\* resolucion"): of the active warehouses that cover a known destination and
\* have, free or held by the order, the units of every line, those most of the
\* lines have as base; of these the nearest coverage, a declared area before
\* the warehouse's own surroundings; of these the first priorities.  One has
\* to remain.
Least(S, F(_)) == {w \in S : \A u \in S : F(w) <= F(u)}

Serving(w) ==
    /\ warehouse[w].active
    /\ \A v \in Variants :
         \/ free[w][v] >= Quantity[v]
         \/ hold.state \in {"reserved", "confirmed"} /\ hold.at[v] = w

\* What a warehouse declares or, if it declares nothing, its surroundings.
Covered(w) ==
    LET cfg == warehouse[w]
        declared == {a \in cfg.areas : a.isActive}
        around == {[scope |-> s, code |-> cfg.location[s], priority |-> cfg.priority] : s \in Scopes}
    IN {a \in (IF declared = {} THEN around ELSE declared) : a.code = address[a.scope]}
Nearest(w) ==
    LET distances == {Rank[a.scope] : a \in Covered(w)}
    IN Min(distances) + (IF \E a \in warehouse[w].areas : a.isActive THEN 0 ELSE Cardinality(Scopes))
FirstPriority(w) ==
    Min({a.priority : a \in {b \in Covered(w) : \A d \in Covered(w) : Rank[b.scope] <= Rank[d.scope]}})

DocumentedOrigin(items) ==
    LET serving == {w \in Warehouses : Serving(w)}
        covering == {w \in serving : Covered(w) # {}}
        byBase == Least(covering, LAMBDA w : -Weight(items, w))
        byReach == Least(byBase, Nearest)
        byCoverage == Least(byReach, FirstPriority)
        byPriority == Least(byCoverage, LAMBDA w : warehouse[w].priority)
        left == IF address = NoUbigeo THEN {w \in serving : CommonDefault(items, w)} ELSE byPriority
    IN IF Cardinality(left) = 1 THEN CHOOSE w \in left : TRUE ELSE NoWarehouse

\* The engine, when nobody changes what it reads while it reads it, assigns
\* the documented origin, and none when the rules leave none or several
\* (buildFulfillmentSuggestion, compareFulfillmentCandidates; "si no hay
\* candidato claro, el resultado correcto es excepcion operativa").  An order
\* whose units were given back is left out: the engine counts them as its own.
BestOrigin ==
    [][\A c \in undisturbed :
         /\ call[c].step \in {"load", "assess"} /\ call'[c].step \notin {"load", "assess"}
         /\ call[c].kind # "suggest" /\ hold.state # "released"
         => (IF At(c, "build")' THEN call'[c].to ELSE NoWarehouse) = DocumentedOrigin(call[c].items)]_vars

\* An origin once given is replaced by an operator alone, whatever plans were
\* running when it was given (applyAlgorithmicFulfillmentPlan).
AssignmentKept ==
    [][order.exists /\ order.origin # NoWarehouse =>
         \/ <<order.origin, order.by>>' = <<order.origin, order.by>>
         \/ order'.by = "operator"]_vars

\* At rest an order holds units at its origin and nowhere else ("para no dejar
\* saldo retenido en el anterior"), and none once it was cancelled or refunded
\* (transitionOrderStatus, syncOrder), unless a move of its units met another
\* or their release.  An order that stands holds them, unless the units of a
\* new origin were taken between the release and the reserve, or it was paid
\* after it was cancelled.
Holds == hold.state \in {"reserved", "confirmed"}
HeldAtOrigin ==
    (\A c \in Calls : At(c, "idle")) /\ order.exists /\ ~crossed =>
        /\ Holds /\ order.origin # NoWarehouse => hold.at = rewriteItemsToWarehouse(order.origin)
        /\ Stopped(order.status) => ~Holds
        /\ Stopped(order.status) \/ refused \/ revived \/ Holds
============================================================================
