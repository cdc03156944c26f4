-------------------------- MODULE CommissionPayouts --------------------------
(***************************************************************************)
(* The commissions of the orders and the payouts that pay them             *)
(* (CommissionsService), in the two processes that run the service: the    *)
(* API and the worker. Each keeps commissions and payouts in its memory    *)
(* (a book), over the orders, vendors and rule its process has loaded (a   *)
(* view), and writes its whole book over one shared snapshot. Payouts are  *)
(* prepared and settled by the worker when the queue takes the job, by the *)
(* API otherwise. Every handler runs to its end without an await: it is    *)
(* one action.                                                             *)
(*                                                                         *)
(* One rule applies to every order; money is counted in units of rate.     *)
(* The payout states draft and cancelled are assigned nowhere in src/.     *)
(***************************************************************************)
EXTENDS Integers, FiniteSets, Tallies

CONSTANTS
    Orders,
    Vendors,
    NoVendor,       \* an order without a vendor code
    NoPayout, NoCommission, NoWrite, NoJob, FailedJob,      \* absent records, a failed job
    Periods,
    PeriodOf,       \* the month an order was created in
    Totals,         \* the total of an order
    Rates,          \* the rates the rule may have
    FirstRate,      \* the one it starts with
    Adjustments,    \* bonus minus deduction of a payout
    UseQueue,       \* whether Redis is configured
    MaxUpdates,     \* order, vendor and rule updates
    MaxMoves,       \* orders given another vendor
    MaxRestarts     \* restarts of a process

ASSUME OrdersAssumption == PeriodOf \in [Orders -> Periods] /\ Totals \in [Orders -> Nat]
ASSUME ValuesAssumption == Rates \subseteq Nat /\ FirstRate \in Rates /\ Adjustments \subseteq Int /\ NoVendor \notin Vendors
ASSUME BoundsAssumption == MaxUpdates \in Nat /\ MaxMoves \in Nat /\ MaxRestarts \in Nat
ASSUME QueueAssumption == UseQueue \in BOOLEAN

VARIABLES
    view,       \* per process: the orders, active vendors and rate it has in memory
    book,       \* per process: its commissions and payouts
    inFlight,   \* per process: the snapshot it is writing
    saved,      \* the snapshot in the database
    jobs,       \* the queue's jobs, by their id
    paidOut,    \* per process: the payments of an order's commission it made or started from
    spent       \* updates, moves and restarts so far

vars == <<view, book, inFlight, saved, jobs, paidOut, spent>>

-----------------------------------------------------------------------------
\* The data.

Processes == {"api", "worker"}
PayoutIds == Vendors \X Periods

OrderStates == {"pending", "under_review", "settled", "void"}
AbsentOrder == [state |-> "absent", vendor |-> NoVendor, ripe |-> FALSE]
OrderRecords == {AbsentOrder} \cup
    [state : OrderStates, vendor : Vendors \cup {NoVendor}, ripe : BOOLEAN]

CommissionStatuses == {"pending_attribution", "attributed", "approved", "blocked", "payable",
                       "scheduled_for_payout", "paid", "reversed", "cancelled"}
Commissions == [vendor : Vendors, amount : Nat, status : CommissionStatuses,
                payoutId : PayoutIds \cup {NoPayout}]
Payouts == [vendor : Vendors, status : {"approved", "paid"}, commissionIds : SUBSET Orders,
            gross : Nat, adjustment : Int, net : Int]

Views == [orders : [Orders -> OrderRecords], active : SUBSET Vendors, rate : Rates]
Books == [commissions : [Orders -> Commissions \cup {NoCommission}],
          payouts : [PayoutIds -> Payouts \cup {NoPayout}]]
EmptyBook == [commissions |-> [o \in Orders |-> NoCommission],
              payouts |-> [id \in PayoutIds |-> NoPayout]]

JobIds == [kind : {"create"}, payout : PayoutIds] \cup [kind : {"settle"}, payout : PayoutIds]
WaitingJobs == [adjustment : Adjustments \cup {0}]

\* What is absent is told from what is there.
ASSUME AbsentAssumption ==
    /\ NoPayout \notin PayoutIds /\ NoPayout \notin Payouts /\ NoPayout \notin {"approved", "paid"}
    /\ NoCommission \notin Commissions /\ NoCommission \notin CommissionStatuses
    /\ NoWrite \notin Books

Attached(b, id) ==
    {o \in Orders : b.commissions[o] # NoCommission /\ b.commissions[o].payoutId = id}

\* A payout was paid; the commission of an order is in one that was.
PaidIn(b, id) == id # NoPayout /\ b.payouts[id] # NoPayout /\ b.payouts[id].status = "paid"
Paid(b, o) == \E id \in PayoutIds : o \in Attached(b, id) /\ PaidIn(b, id)

-----------------------------------------------------------------------------
\* The commission of an order, recomputed from the order (syncOrderCommission).

\* The payout of a vendor in a period. After an order moved to another vendor two payouts
\* may carry one vendor; the code takes the first, the model a fixed one.
FindPayout(b, v, period) ==
    LET matches == {id \in PayoutIds : /\ id[2] = period
                                       /\ b.payouts[id] # NoPayout
                                       /\ b.payouts[id].vendor = v}
    IN IF matches = {} THEN NoPayout ELSE CHOOSE id \in matches : TRUE

PayoutFor(b, o, v) ==
    LET existing == b.commissions[o]
    IN IF existing # NoCommission /\ existing.payoutId # NoPayout
             /\ b.payouts[existing.payoutId] # NoPayout
       THEN existing.payoutId
       ELSE FindPayout(b, v, PeriodOf[o])

PayoutStatus(b, id) == IF id = NoPayout THEN NoPayout ELSE b.payouts[id].status

\* Mutants: a settled order looked at before its payout; a reversal that remembers only the
\* state the commission had.
StatusSettledFirst(order, active, payoutStatus, previous) ==
    CASE ~active -> "blocked"
      [] active /\ order.state = "settled" /\ order.ripe /\ payoutStatus # "approved" -> "payable"
      [] active /\ order.state = "void" -> "reversed"
      [] OTHER -> IF payoutStatus = "paid" THEN "paid" ELSE "approved"
StatusReversedOnce(order, active, payoutStatus, previous) ==
    CASE ~active -> "blocked"
      [] active /\ order.state = "void" ->
             IF previous = "paid" THEN "reversed" ELSE "cancelled"
      [] active /\ order.state # "void" /\ payoutStatus = "paid" -> "paid"
      [] active /\ order.state # "void" /\ payoutStatus = "approved" -> "scheduled_for_payout"
      [] OTHER -> IF order.state = "settled" /\ order.ripe THEN "payable" ELSE "approved"

ResolveStatus(order, active, payoutStatus, previous) ==
    CASE ~active -> "blocked"
      [] active /\ order.state = "void" ->
             IF previous = "paid" \/ payoutStatus = "paid" THEN "reversed" ELSE "cancelled"
      [] active /\ order.state # "void" /\ payoutStatus = "paid" -> "paid"
      [] active /\ order.state # "void" /\ payoutStatus = "approved" -> "scheduled_for_payout"
      [] active /\ order.state = "settled" /\ payoutStatus = NoPayout ->
             IF order.ripe THEN "payable" ELSE "approved"
      [] active /\ order.state = "under_review" /\ payoutStatus = NoPayout -> "attributed"
      [] active /\ order.state = "pending" /\ payoutStatus = NoPayout -> "pending_attribution"

PreviousStatus(existing) == IF existing = NoCommission THEN NoCommission ELSE existing.status

\* Mutant: an order without a vendor is given a commission too.
SyncWithoutVendor(w, b, o) ==
    LET order == w.orders[o]
        id == PayoutFor(b, o, order.vendor)
    IN [vendor |-> order.vendor,
        amount |-> Totals[o] * w.rate,
        status |-> ResolveStatus(order, order.vendor \in w.active, PayoutStatus(b, id),
                                 PreviousStatus(b.commissions[o])),
        payoutId |-> id]

SyncOrderCommission(w, b, o) ==
    LET order == w.orders[o]
        id == PayoutFor(b, o, order.vendor)
    IN IF order.vendor = NoVendor
       THEN b.commissions[o]
       ELSE [vendor |-> order.vendor,
             amount |-> Totals[o] * w.rate,
             status |-> ResolveStatus(order, order.vendor \in w.active, PayoutStatus(b, id),
                                      PreviousStatus(b.commissions[o])),
             payoutId |-> id]

-----------------------------------------------------------------------------
\* The payouts, recomputed from the commissions attached to them (reconcilePayouts). The
\* vendor is that of the commission updated last: the model keeps no times and lets any
\* attached commission be the one.

Gross(commissions, ids) == Tally([o \in ids |-> commissions[o].amount])

ReconcilePayout(b, id, lead) ==
    LET ids == Attached(b, id)
        gross == Gross(b.commissions, ids)
    IN IF b.payouts[id] = NoPayout \/ ids = {}
       THEN NoPayout
       ELSE [b.payouts[id] EXCEPT !.vendor = lead, !.commissionIds = ids, !.gross = gross,
                                  !.net = gross + b.payouts[id].adjustment]

Leads(b) ==
    {lead \in [PayoutIds -> Vendors] :
        \A id \in PayoutIds :
            LET vendors == {b.commissions[o].vendor : o \in Attached(b, id)}
            IN lead[id] \in (IF vendors = {} THEN {id[1]} ELSE vendors)}

Reconcile(b) ==
    {[b EXCEPT !.payouts = [id \in PayoutIds |-> ReconcilePayout(b, id, lead[id])]] :
        lead \in Leads(b)}

SyncFromOrders(w, b) ==
    Reconcile([b EXCEPT !.commissions = [o \in Orders |-> SyncOrderCommission(w, b, o)]])

-----------------------------------------------------------------------------
\* Preparing and settling a payout, on a book already synchronised.

Eligible(b, id) ==
    {o \in Orders : /\ b.commissions[o] # NoCommission
                    /\ b.commissions[o].vendor = id[1]
                    /\ PeriodOf[o] = id[2]
                    /\ b.commissions[o].status = "payable"}

HasActivePayout(b, id) == FindPayout(b, id[1], id[2]) # NoPayout

CanCreate(b, id, adjustment) ==
    /\ ~HasActivePayout(b, id)
    /\ Eligible(b, id) # {}
    /\ Gross(b.commissions, Eligible(b, id)) + adjustment >= 0

CreatePayout(b, id, adjustment) ==
    LET ids == Eligible(b, id)
        gross == Gross(b.commissions, ids)
        payout == [vendor |-> id[1], status |-> "approved", commissionIds |-> ids,
                   gross |-> gross, adjustment |-> adjustment, net |-> gross + adjustment]
    IN Reconcile(
        [commissions |-> [o \in Orders |->
             IF o \in ids
             THEN [b.commissions[o] EXCEPT !.payoutId = id, !.status = "scheduled_for_payout"]
             ELSE b.commissions[o]],
         payouts |-> [b.payouts EXCEPT ![id] = payout]])

\* Mutant: a paid payout is settled again.
CanSettleAgain(b, id) == b.payouts[id] # NoPayout

CanSettle(b, id) == b.payouts[id] # NoPayout /\ b.payouts[id].status # "paid"

SettlePayout(b, id) ==
    Reconcile(
        [commissions |-> [o \in Orders |->
             IF o \in Attached(b, id) THEN [b.commissions[o] EXCEPT !.status = "paid"]
             ELSE b.commissions[o]],
         payouts |-> [b.payouts EXCEPT ![id].status = "paid"]])

-----------------------------------------------------------------------------
\* What the other modules do to the API's view: orders created, paid, cancelled or given
\* another vendor, vendors and the rule edited, and days going by.

Init ==
    /\ view = [p \in Processes |-> [orders |-> [o \in Orders |-> AbsentOrder],
                                    active |-> Vendors, rate |-> FirstRate]]
    /\ book = [p \in Processes |-> EmptyBook]
    /\ inFlight = [p \in Processes |-> NoWrite]
    /\ saved = EmptyBook
    /\ jobs = [j \in JobIds |-> NoJob]
    /\ paidOut = [p \in Processes |-> [o \in Orders |-> 0]]
    /\ spent = [updates |-> 0, moves |-> 0, restarts |-> 0]

SetOrder(o, order) == view' = [view EXCEPT !["api"].orders[o] = order]

Spend(what, bound) ==
    /\ spent[what] < bound
    /\ spent' = [spent EXCEPT ![what] = @ + 1]

createCheckoutOrder(o) ==
    /\ view["api"].orders[o] = AbsentOrder
    /\ \E v \in view["api"].active \cup {NoVendor}, state \in {"pending", "under_review"} :
           SetOrder(o, [state |-> state, vendor |-> v, ripe |-> FALSE])
    /\ UNCHANGED <<book, inFlight, saved, jobs, paidOut, spent>>

\* An update moves updatedAt, and the waiting period starts again.
OrderSteps == {<<"pending", "settled">>, <<"pending", "void">>, <<"under_review", "settled">>,
               <<"under_review", "void">>, <<"settled", "settled">>, <<"settled", "void">>,
               <<"void", "settled">>}

updateOrder(o) ==
    /\ Spend("updates", MaxUpdates)
    /\ \E step \in OrderSteps :
           /\ view["api"].orders[o].state = step[1]
           /\ SetOrder(o, [view["api"].orders[o] EXCEPT !.state = step[2], !.ripe = FALSE])
    /\ UNCHANGED <<book, inFlight, saved, jobs, paidOut>>

assignOrderVendor(o) ==
    /\ Spend("moves", MaxMoves)
    /\ view["api"].orders[o] # AbsentOrder
    /\ \E v \in view["api"].active \cup {NoVendor} :
           /\ v # view["api"].orders[o].vendor
           /\ SetOrder(o, [view["api"].orders[o] EXCEPT !.vendor = v, !.ripe = FALSE])
    /\ UNCHANGED <<book, inFlight, saved, jobs, paidOut>>

\* The days of the rule's payoutDelayDays since the last update of the order go by.
DelayEnds(o) ==
    /\ \E p \in Processes : view[p].orders[o].state = "settled" /\ ~view[p].orders[o].ripe
    /\ view' = [p \in Processes |->
                   IF view[p].orders[o].state = "settled"
                   THEN [view[p] EXCEPT !.orders[o].ripe = TRUE] ELSE view[p]]
    /\ UNCHANGED <<book, inFlight, saved, jobs, paidOut, spent>>

updateVendor(v) ==
    /\ Spend("updates", MaxUpdates)
    /\ view' = [view EXCEPT !["api"].active =
                    IF v \in @ THEN @ \ {v} ELSE @ \cup {v}]
    /\ UNCHANGED <<book, inFlight, saved, jobs, paidOut>>

updateRule(rate) ==
    /\ Spend("updates", MaxUpdates)
    /\ rate # view["api"].rate
    /\ view' = [view EXCEPT !["api"].rate = rate]
    /\ inFlight' = [inFlight EXCEPT !["api"] = book["api"]]
    /\ UNCHANGED <<book, saved, jobs, paidOut>>

-----------------------------------------------------------------------------
\* The handlers of the service.

\* A handler ends with its book b, which it starts to write. The write before it is taken
\* to have landed or to be overtaken.
Commit(p, b) ==
    /\ book' = [book EXCEPT ![p] = b]
    /\ inFlight' = [inFlight EXCEPT ![p] = b]

\* Every list of commissions or payouts synchronises the API's memory and saves nothing.
listCommissions ==
    /\ \E b \in SyncFromOrders(view["api"], book["api"]) : book' = [book EXCEPT !["api"] = b]
    /\ UNCHANGED <<view, inFlight, saved, jobs, paidOut, spent>>

\* The payment and checkout handlers synchronise and save.
syncFromOrders ==
    /\ \E b \in SyncFromOrders(view["api"], book["api"]) : Commit("api", b)
    /\ UNCHANGED <<view, saved, jobs, paidOut, spent>>

\* createPayout in process p: a refusal still leaves the synchronised book.
createPayout(p, id, adjustment) ==
    \E b \in SyncFromOrders(view[p], book[p]) :
        \/ /\ CanCreate(b, id, adjustment)
           /\ \E c \in CreatePayout(b, id, adjustment) : Commit(p, c)
        \/ /\ ~CanCreate(b, id, adjustment)
           /\ Commit(p, b)

settlePayout(p, id) ==
    \E b \in SyncFromOrders(view[p], book[p]) :
        \/ /\ CanSettle(b, id)
           /\ \E c \in SettlePayout(b, id) : Commit(p, c)
           /\ paidOut' = [paidOut EXCEPT ![p] =
                  [o \in Orders |-> @[o] + (IF o \in Attached(b, id) THEN 1 ELSE 0)]]
        \/ /\ ~CanSettle(b, id)
           /\ Commit(p, b)
           /\ UNCHANGED paidOut

\* The queue takes a job unless it holds one with its id, waiting or failed: the answer is
\* "queued" all the same.
Enqueue(job, adjustment) ==
    /\ UseQueue
    /\ jobs' = [jobs EXCEPT ![job] = IF @ = NoJob THEN [adjustment |-> adjustment] ELSE @]

queueCreatePayout(id) ==
    \E adjustment \in Adjustments :
        \/ /\ Enqueue([kind |-> "create", payout |-> id], adjustment)
           /\ UNCHANGED <<view, book, inFlight, saved, paidOut, spent>>
        \/ /\ createPayout("api", id, adjustment)
           /\ UNCHANGED <<view, saved, jobs, paidOut, spent>>

queueSettlePayout(id) ==
    /\ book["api"].payouts[id] # NoPayout
    /\ \/ /\ Enqueue([kind |-> "settle", payout |-> id], 0)
          /\ UNCHANGED <<view, book, inFlight, saved, paidOut, spent>>
       \/ /\ settlePayout("api", id)
          /\ UNCHANGED <<view, saved, jobs, spent>>

\* The worker's job: a payout that is there already is the job's result; any other refusal
\* fails the job, and the attempts that follow meet the same memory.
processPayoutCreate(id) ==
    LET job == [kind |-> "create", payout |-> id]
        adjustment == jobs[job].adjustment
    IN /\ jobs[job] \notin {NoJob, FailedJob}
       /\ \E b \in SyncFromOrders(view["worker"], book["worker"]) :
              \/ /\ CanCreate(b, id, adjustment)
                 /\ \E c \in CreatePayout(b, id, adjustment) : Commit("worker", c)
                 /\ jobs' = [jobs EXCEPT ![job] = NoJob]
              \/ /\ ~CanCreate(b, id, adjustment)
                 /\ Commit("worker", b)
                 /\ jobs' = [jobs EXCEPT ![job] =
                                IF HasActivePayout(b, id) THEN NoJob ELSE FailedJob]
       /\ UNCHANGED <<view, saved, paidOut, spent>>

processPayoutSettle(id) ==
    LET job == [kind |-> "settle", payout |-> id]
    IN /\ jobs[job] \notin {NoJob, FailedJob}
       /\ settlePayout("worker", id)
       /\ \E b \in SyncFromOrders(view["worker"], book["worker"]) :
              jobs' = [jobs EXCEPT ![job] = IF b.payouts[id] = NoPayout THEN FailedJob ELSE NoJob]
       /\ UNCHANGED <<view, saved, spent>>

-----------------------------------------------------------------------------
\* The snapshot: a write lands, and a process starts again from what the database holds.

persistState(p) ==
    /\ inFlight[p] # NoWrite
    /\ saved' = inFlight[p]
    /\ inFlight' = [inFlight EXCEPT ![p] = NoWrite]
    /\ UNCHANGED <<view, book, jobs, paidOut, spent>>

Restart(p) ==
    /\ Spend("restarts", MaxRestarts)
    /\ view' = [view EXCEPT ![p] = view["api"]]
    /\ book' = [book EXCEPT ![p] = saved]
    /\ paidOut' = [paidOut EXCEPT ![p] = [o \in Orders |-> IF Paid(saved, o) THEN 1 ELSE 0]]
    /\ inFlight' = [inFlight EXCEPT ![p] = NoWrite]
    /\ UNCHANGED <<saved, jobs>>

Next ==
    \/ \E o \in Orders : createCheckoutOrder(o) \/ updateOrder(o) \/ assignOrderVendor(o) \/ DelayEnds(o)
    \/ \E v \in Vendors : updateVendor(v)
    \/ \E rate \in Rates : updateRule(rate)
    \/ listCommissions \/ syncFromOrders
    \/ \E id \in PayoutIds : \/ queueCreatePayout(id) \/ queueSettlePayout(id)
                             \/ processPayoutCreate(id) \/ processPayoutSettle(id)
    \/ \E p \in Processes : persistState(p) \/ Restart(p)

Spec == Init /\ [][Next]_vars

-----------------------------------------------------------------------------
\* Properties.

\* Every view, book, snapshot and job has its type, and paidOut counts settlements.
TypeOK ==
    /\ view \in [Processes -> Views]
    /\ book \in [Processes -> Books]
    /\ inFlight \in [Processes -> Books \cup {NoWrite}]
    /\ saved \in Books
    /\ jobs \in [JobIds -> WaitingJobs \cup {NoJob, FailedJob}]
    /\ paidOut \in [Processes -> [Orders -> Nat]]

\* While no order changes vendor, reading a list twice gives the same answer: the statuses
\* and payouts a synchronisation computes are those the next one computes.
SyncIsStable ==
    spent.moves = 0 =>
        \A b \in SyncFromOrders(view["api"], book["api"]) \ {book["api"]} :
            SyncFromOrders(view["api"], b) = {b}

\* docs/flows/vendors-and-commissions.md, "Errores posibles": "payout duplicado | se
\* previene por estado y llave de negocio". No process pays the commission of an order
\* twice, nor one that was paid, by whichever process, in the snapshot it started from.
PaidOnce == \A p \in Processes, o \in Orders : paidOut[p][o] <= 1

\* It holds while no order changes vendor, whatever restarts: the active payout of a vendor
\* and period keeps the commissions a process has paid or loaded as paid out of a second
\* one. A payment the process cannot know, made by the other since it started or lost with
\* an overwritten snapshot, is no payment here.
PaidOnceUnmoved == spent.moves = 0 => PaidOnce

\* While no order changes vendor, what a process paid or loaded as paid is not due again in
\* its memory: still in a paid payout, and neither payable nor scheduled, whatever happens
\* to the order, its vendor, the rule and the other process.
PaidIsNotDue ==
    spent.moves = 0 =>
        \A p \in Processes, o \in Orders : paidOut[p][o] > 0 =>
            /\ Paid(book[p], o)
            /\ book[p].commissions[o].status \notin {"payable", "scheduled_for_payout"}
=============================================================================
