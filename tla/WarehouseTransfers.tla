------------------------- MODULE WarehouseTransfers -------------------------
(***************************************************************************)
(* TransfersService: goods that move from one warehouse to another, at the *)
(* granularity of its awaits, in one process of the API.                   *)
(*                                                                         *)
(* A call reads the transfer's row and checks its status, has              *)
(* InventoryService check and change the balances in memory and upsert     *)
(* them one by one, and only then writes the transfer's row, its lines and *)
(* its incident, one query each.  Nothing ties these writes together: the  *)
(* process may stop between any two.                                       *)
(*                                                                         *)
(* Orders hold units of the same balances.  A sync of an order is one step *)
(* here; its own awaits are those of InventorySync.                        *)
(***************************************************************************)
EXTENDS InventoryBalances, FiniteSetsExt, Tallies

CONSTANTS
    Numbers,            \* transfer numbers 1 .. Numbers, TR-000001 onwards
    Asks,               \* the quantities per variant a transfer may ask for
    Receipts,           \* the quantities per variant a receipt may state
    InitialStock,       \* stockOnHand of each balance at start
    Orders, OrderKey,   \* orders of one unit, and the balance each draws on
    Calls,              \* calls of TransfersService that can be in flight at once
    Overlap,            \* may two calls for the same transfer be in flight?
    MaxReceived,        \* bound on what may be received of a line
    MaxRestarts         \* bound on the restarts of the process

ASSUME NumbersAssumption == Numbers \in Nat \ {0}
ASSUME AsksAssumption ==
    /\ Asks \subseteq [Variants -> Nat]
    /\ Receipts \subseteq [Variants -> Nat]
    /\ \A q \in Asks \cup Receipts : \E v \in Variants : q[v] > 0
ASSUME InitialStockAssumption == InitialStock \in [Keys -> Nat]
ASSUME OrderKeyAssumption == OrderKey \in [Orders -> Keys]
ASSUME TransferBoundsAssumption == Overlap \in BOOLEAN /\ MaxReceived \in Nat /\ MaxRestarts \in Nat

VARIABLES
    balance,        \* warehouseBalances, in memory
    db,             \* warehouse_inventory_balances, in PostgreSQL
    transfer,       \* warehouse_transfers, their lines and incidents
    orderHold,      \* what each order holds
    call,           \* the calls in flight
    refused,        \* history: the lines reserved by creations that failed
    restarts        \* restarts so far

vars == <<balance, db, transfer, orderHold, call, refused, restarts>>

TransferIds == 1 .. Numbers
Quantities == [Variants -> Nat]
NoUnits == [v \in Variants |-> 0]

Absent == [status |-> "absent"]
Transfer ==
    [status : {"reserved", "in_transit", "partial_received", "received", "cancelled"},
     origin : Warehouses, destination : Warehouses,
     quantity : Quantities, dispatched : Quantities, received : Quantities,
     incident : {"none", "open", "resolved"}]

Idle == [phase |-> "idle"]
NoRow == [stock |-> 0, reserved |-> 0, committed |-> 0]

Init ==
    /\ balance = [b \in Keys |-> [NoRow EXCEPT !.stock = InitialStock[b]]]
    /\ db = balance
    /\ transfer = [t \in TransferIds |-> Absent]
    /\ orderHold = [o \in Orders |-> "none"]
    /\ call = [c \in Calls |-> Idle]
    /\ refused = [b \in Keys |-> 0]
    /\ restarts = 0

----------------------------------------------------------------------------
\* InventoryService: what each call checks of a balance, and does to it.

\* Mutated: a transfer may take units that are already promised, or leaves its
\* reservation behind when its goods go.
ReserveFromStock(kind, row, q) ==
    CASE kind = "create"   -> row.stock >= q
      [] kind = "cancel"   -> row.reserved >= q
      [] kind = "dispatch" -> row.reserved >= q /\ row.stock >= q
      [] kind = "receive"  -> TRUE

Fits(kind, row, q) ==
    CASE kind = "create"   -> Available(row) >= q
      [] kind = "cancel"   -> row.reserved >= q
      [] kind = "dispatch" -> row.reserved >= q /\ row.stock >= q
      [] kind = "receive"  -> TRUE

DispatchKeepsReserved(kind, row, q) ==
    CASE kind = "create"   -> [row EXCEPT !.reserved = @ + q]
      [] kind = "cancel"   -> [row EXCEPT !.reserved = @ - q]
      [] kind = "dispatch" -> [row EXCEPT !.stock = @ - q]
      [] kind = "receive"  -> [row EXCEPT !.stock = @ + q]

Moved(kind, row, q) ==
    CASE kind = "create"   -> [row EXCEPT !.reserved = @ + q]
      [] kind = "cancel"   -> [row EXCEPT !.reserved = @ - q]
      [] kind = "dispatch" -> [row EXCEPT !.reserved = @ - q, !.stock = @ - q]
      [] kind = "receive"  -> [row EXCEPT !.stock = @ + q]

----------------------------------------------------------------------------
\* The calls.  "of" is the transfer the call has read (for a creation, the one it
\* will insert), "units" what it moves of each variant, "at" where.

Task(kind, t, of, at, units) ==
    [phase |-> "resolving", kind |-> kind, t |-> t, of |-> of, at |-> at, units |-> units,
     key |-> <<at, CHOOSE v \in Variants : TRUE>>, left |-> {}, row |-> NoRow]

CallKeys(c) == {b \in Keys : b[1] = call[c].at /\ call[c].units[b[2]] > 0}
Units(c, b) == call[c].units[b[2]]
Active(c) == call[c].phase # "idle"
InFlight(t) == {c \in Calls : Active(c) /\ call[c].kind # "create" /\ call[c].t = t}

Start(c, task) == ~Active(c) /\ call' = [call EXCEPT ![c] = task]
Free(t) == InFlight(t) = {} \/ Overlap
Goto(c, phase) == call' = [call EXCEPT ![c].phase = phase]
End(c) == call' = [call EXCEPT ![c] = Idle]

\* buildTransferNumber: the last number in the table, plus one.
Known == {t \in TransferIds : transfer[t].status # "absent"}
NextNumber == IF Known = {} THEN 1 ELSE Max(Known) + 1

createTransfer(c, w1, w2, ask) ==
    /\ w1 # w2
    /\ NextNumber \in TransferIds
    /\ Start(c, Task("create", NextNumber,
                     [status |-> "reserved", origin |-> w1, destination |-> w2,
                      quantity |-> ask, dispatched |-> NoUnits, received |-> NoUnits,
                      incident |-> "none"], w1, ask))
    /\ UNCHANGED <<balance, db, transfer, orderHold, refused, restarts>>

dispatchTransfer(c, t) ==
    /\ transfer[t].status = "reserved"
    /\ Free(t)
    /\ Start(c, Task("dispatch", t, transfer[t], transfer[t].origin, transfer[t].quantity))
    /\ UNCHANGED <<balance, db, transfer, orderHold, refused, restarts>>

\* Mutated: goods on the road can be cancelled.
cancelOnTheRoad(c, t) ==
    /\ transfer[t].status \in {"reserved", "in_transit"}
    /\ Free(t)
    /\ Start(c, Task("cancel", t, transfer[t], transfer[t].origin, transfer[t].quantity))
    /\ UNCHANGED <<balance, db, transfer, orderHold, refused, restarts>>

cancelTransfer(c, t) ==
    /\ transfer[t].status = "reserved"
    /\ Free(t)
    /\ Start(c, Task("cancel", t, transfer[t], transfer[t].origin, transfer[t].quantity))
    /\ UNCHANGED <<balance, db, transfer, orderHold, refused, restarts>>

\* normalizeReceiveLines: what is still to come of each line; what is stated may
\* exceed it only under an incident of overage.
Expected(x, v) == IF x.dispatched[v] = 0 THEN x.quantity[v] ELSE x.dispatched[v]
Remaining(x) ==
    [v \in Variants |-> IF x.received[v] >= Expected(x, v) THEN 0 ELSE Expected(x, v) - x.received[v]]

receiveTransfer(c, t, overage) ==
    LET x == transfer[t]
    IN  /\ x.status \in {"in_transit", "partial_received"}
        /\ Free(t)
        /\ \E units \in {Remaining(x)} \cup Receipts :
             /\ \A v \in Variants : units[v] > 0 => x.quantity[v] > 0
             /\ \A v \in Variants : units[v] <= Remaining(x)[v] \/ overage
             /\ \A v \in Variants : x.received[v] + units[v] <= MaxReceived
             /\ Start(c, Task("receive", t, x, x.destination, units))
        /\ UNCHANGED <<balance, db, transfer, orderHold, refused, restarts>>

reconcileTransfer(c, t) ==
    /\ transfer[t].status # "absent"
    /\ transfer[t].incident = "open"
    /\ Free(t)
    /\ Start(c, [Task("reconcile", t, transfer[t], transfer[t].destination, NoUnits)
                   EXCEPT !.phase = "incident"])
    /\ UNCHANGED <<balance, db, transfer, orderHold, refused, restarts>>

----------------------------------------------------------------------------
\* InventoryService, after it has resolved the lines: every line is checked, then
\* every balance changed, without an await.

Mutate(c) ==
    /\ call[c].phase = "resolving"
    /\ \A b \in CallKeys(c) : Fits(call[c].kind, balance[b], Units(c, b))
    /\ balance' = [b \in Keys |-> IF b \in CallKeys(c)
                                  THEN Moved(call[c].kind, balance[b], Units(c, b))
                                  ELSE balance[b]]
    /\ IF CallKeys(c) = {} THEN Goto(c, "recording")
       ELSE \E b \in CallKeys(c) :
              call' = [call EXCEPT ![c].phase = "writing", ![c].key = b, ![c].row = balance'[b],
                                   ![c].left = CallKeys(c) \ {b}]
    /\ UNCHANGED <<db, transfer, orderHold, refused, restarts>>

Conflict(c) ==
    /\ call[c].phase = "resolving"
    /\ \E b \in CallKeys(c) : ~Fits(call[c].kind, balance[b], Units(c, b))
    /\ End(c)
    /\ UNCHANGED <<balance, db, transfer, orderHold, refused, restarts>>

\* persistWarehouseBalances: the row is read from memory when its upsert is issued.
Upsert(c) ==
    /\ call[c].phase = "writing"
    /\ db' = [db EXCEPT ![call[c].key] = call[c].row]
    /\ IF call[c].left = {} THEN call' = [call EXCEPT ![c].phase = "recording", ![c].row = NoRow]
       ELSE \E b \in call[c].left :
              call' = [call EXCEPT ![c].key = b, ![c].row = balance[b], ![c].left = @ \ {b}]
    /\ UNCHANGED <<balance, transfer, orderHold, refused, restarts>>

----------------------------------------------------------------------------
\* What each call writes of the transfer once the balances are written.

\* transferNumber is unique: the second of two creations that read the same last
\* number fails here, with its units already reserved.
Insert(c) ==
    /\ call[c].phase = "recording"
    /\ call[c].kind = "create"
    /\ IF call[c].t \in Known
       THEN /\ refused' = [b \in Keys |-> IF b \in CallKeys(c) THEN refused[b] + Units(c, b)
                                                               ELSE refused[b]]
            /\ UNCHANGED transfer
       ELSE /\ transfer' = [transfer EXCEPT ![call[c].t] = call[c].of]
            /\ UNCHANGED refused
    /\ End(c)
    /\ UNCHANGED <<balance, db, orderHold, restarts>>

RecordCancelled(c) ==
    /\ call[c].phase = "recording"
    /\ call[c].kind = "cancel"
    /\ transfer' = [transfer EXCEPT ![call[c].t].status = "cancelled"]
    /\ End(c)
    /\ UNCHANGED <<balance, db, orderHold, refused, restarts>>

RecordDispatched(c) ==
    /\ call[c].phase = "recording"
    /\ call[c].kind = "dispatch"
    /\ transfer' = [transfer EXCEPT ![call[c].t].status = "in_transit"]
    /\ call' = [call EXCEPT ![c].phase = "lines", ![c].left = CallKeys(c)]
    /\ UNCHANGED <<balance, db, orderHold, refused, restarts>>

RecordReceived(c) ==
    /\ call[c].phase = "recording"
    /\ call[c].kind = "receive"
    /\ call' = [call EXCEPT ![c].phase = IF CallKeys(c) = {} THEN "rereading" ELSE "lines",
                            ![c].left = CallKeys(c)]
    /\ UNCHANGED <<balance, db, transfer, orderHold, refused, restarts>>

\* One line.  A dispatch resets what was received of it; a receipt adds to what the
\* call had read of it.  Mutated: a receipt replaces what was received before.
LineReplaced(c, b) ==
    /\ call[c].phase = "lines"
    /\ b \in call[c].left
    /\ transfer' = [transfer EXCEPT
         ![call[c].t].dispatched[b[2]] = IF call[c].kind = "dispatch" THEN Units(c, b) ELSE @,
         ![call[c].t].received[b[2]] = IF call[c].kind = "dispatch" THEN 0 ELSE Units(c, b)]
    /\ call' = [call EXCEPT ![c].left = @ \ {b}]
    /\ UNCHANGED <<balance, db, orderHold, refused, restarts>>

UpdateLine(c, b) ==
    /\ call[c].phase = "lines"
    /\ b \in call[c].left
    /\ transfer' = [transfer EXCEPT
         ![call[c].t].dispatched[b[2]] = IF call[c].kind = "dispatch" THEN Units(c, b) ELSE @,
         ![call[c].t].received[b[2]] =
            IF call[c].kind = "dispatch" THEN 0 ELSE call[c].of.received[b[2]] + Units(c, b)]
    /\ call' = [call EXCEPT ![c].left = @ \ {b}]
    /\ UNCHANGED <<balance, db, orderHold, refused, restarts>>

LinesDone(c) ==
    /\ call[c].phase = "lines"
    /\ call[c].left = {}
    /\ IF call[c].kind = "dispatch" THEN End(c) ELSE Goto(c, "rereading")
    /\ UNCHANGED <<balance, db, transfer, orderHold, refused, restarts>>

\* buildIncidentSnapshot: the total that is missing or in excess over the lines.
Total(units) == MapThenSumSet(LAMBDA v : units[v], Variants)
Discrepant(x) == Total(x.received) # Total([v \in Variants |-> Expected(x, v)])

ReRead(c) ==
    /\ call[c].phase = "rereading"
    /\ call' = [call EXCEPT ![c].of = transfer[call[c].t],
                            ![c].phase = IF Discrepant(transfer[call[c].t])
                                            \/ transfer[call[c].t].incident = "open"
                                         THEN "incident" ELSE "status"]
    /\ UNCHANGED <<balance, db, transfer, orderHold, refused, restarts>>

\* A discrepancy opens the incident; a receipt without one, or a reconciliation,
\* resolves it.
Opens(c) == call[c].kind = "receive" /\ Discrepant(call[c].of)

WriteIncident(c) ==
    /\ call[c].phase = "incident"
    /\ transfer' = [transfer EXCEPT ![call[c].t].incident = IF Opens(c) THEN "open" ELSE "resolved"]
    /\ Goto(c, "status")
    /\ UNCHANGED <<balance, db, orderHold, refused, restarts>>

WriteStatus(c) ==
    /\ call[c].phase = "status"
    /\ transfer' = [transfer EXCEPT ![call[c].t].status =
                      IF Opens(c) THEN "partial_received" ELSE "received"]
    /\ End(c)
    /\ UNCHANGED <<balance, db, orderHold, refused, restarts>>

----------------------------------------------------------------------------
\* The other holders of the balances, and the restart.

SyncOrder(o, op) ==
    LET b == OrderKey[o]
    IN  /\ <<orderHold[o], op>> \in {<<"none", "reserve">>, <<"reserved", "confirm">>,
                                     <<"reserved", "release">>, <<"confirmed", "reverse">>}
        /\ Ready(op, balance[b], 1)
        /\ balance' = [balance EXCEPT ![b] = Effect(op, @, 1)]
        /\ db' = [db EXCEPT ![b] = balance'[b]]
        /\ orderHold' = [orderHold EXCEPT ![o] = IF op \in {"release", "reverse"} THEN "none"
                                                 ELSE StateAfter(op)]
        /\ UNCHANGED <<transfer, call, refused, restarts>>

HoldersOf(b, state) == Cardinality({o \in Orders : OrderKey[o] = b /\ orderHold[o] = state})

\* seedRebuildBaselineFromPersistedInventory and rebuildFromOrders: the stock of
\* the rows, the holds of the orders.
Restart ==
    /\ restarts < MaxRestarts
    /\ restarts' = restarts + 1
    /\ balance' = [b \in Keys |-> [stock |-> db[b].stock, reserved |-> HoldersOf(b, "reserved"),
                                   committed |-> HoldersOf(b, "confirmed")]]
    /\ db' = balance'
    /\ call' = [c \in Calls |-> Idle]
    /\ UNCHANGED <<transfer, orderHold, refused>>

----------------------------------------------------------------------------
Request(c) ==
    \/ \E w1, w2 \in Warehouses, ask \in Asks : createTransfer(c, w1, w2, ask)
    \/ \E t \in TransferIds :
         \/ dispatchTransfer(c, t)
         \/ cancelTransfer(c, t)
         \/ \E overage \in BOOLEAN : receiveTransfer(c, t, overage)
         \/ reconcileTransfer(c, t)

Record(c) ==
    \/ Insert(c)
    \/ RecordCancelled(c)
    \/ RecordDispatched(c)
    \/ RecordReceived(c)
    \/ \E b \in Keys : UpdateLine(c, b)
    \/ LinesDone(c)
    \/ ReRead(c)
    \/ WriteIncident(c)
    \/ WriteStatus(c)

Continue(c) == Mutate(c) \/ Conflict(c) \/ Upsert(c) \/ Record(c)

Next ==
    \/ \E c \in Calls : Request(c) \/ Continue(c)
    \/ \E o \in Orders, op \in OrderOps : SyncOrder(o, op)
    \/ Restart

Spec == Init /\ [][Next]_vars

----------------------------------------------------------------------------
\* Every row and call has its shape: no counter of a balance goes below zero.
TypeOK ==
    /\ balance \in [Keys -> Row]
    /\ db \in [Keys -> Row]
    /\ transfer \in [TransferIds -> {Absent} \cup Transfer]
    /\ orderHold \in [Orders -> {"none", "reserved", "confirmed"}]
    /\ \A c \in Calls : Active(c) =>
         /\ call[c].phase \in {"resolving", "writing", "recording", "lines", "rereading",
                               "incident", "status"}
         /\ call[c].kind \in {"create", "dispatch", "cancel", "receive", "reconcile"}
         /\ call[c].t \in TransferIds
         /\ call[c].of \in Transfer
         /\ call[c].at \in Warehouses
         /\ call[c].units \in Quantities
         /\ call[c].key \in Keys
         /\ call[c].left \subseteq Keys
         /\ call[c].row \in Row
    /\ refused \in [Keys -> Nat]
    /\ restarts \in 0 .. MaxRestarts

\* Units that call c has moved in the balances and the transfer does not show yet.
Unrecorded(c, b) ==
    IF \/ call[c].phase \in {"writing", "recording"}
       \/ call[c].phase = "lines" /\ call[c].kind = "receive" /\ b \in call[c].left
    THEN Units(c, b) ELSE 0

InCalls(b, kinds) ==
    Tally([c \in Calls |->
              IF Active(c) /\ call[c].kind \in kinds /\ call[c].at = b[1]
              THEN Unrecorded(c, b) ELSE 0])

Separated(b) ==
    Tally([t \in TransferIds |->
              IF transfer[t].status = "reserved" /\ transfer[t].origin = b[1]
              THEN transfer[t].quantity[b[2]] ELSE 0])
Gone(b) ==
    Tally([t \in TransferIds |->
              IF /\ transfer[t].status \in {"in_transit", "partial_received", "received"}
                 /\ transfer[t].origin = b[1]
              THEN transfer[t].quantity[b[2]] ELSE 0])
Arrived(b) ==
    Tally([t \in TransferIds |->
              IF t \in Known /\ transfer[t].destination = b[1]
              THEN transfer[t].received[b[2]] ELSE 0])

\* The reserved units of a balance are those of the orders and of the transfers
\* still to be dispatched, plus what a creation that lost its number to another
\* left behind: no transfer spends a reservation that is not its own
\* (docs/flows/warehouse-transfers-sunat-guides-and-package-labels.md:301).
ReservedAccounted ==
    restarts = 0 =>
        \A b \in Keys :
            balance[b].reserved + InCalls(b, {"dispatch", "cancel"})
                = HoldersOf(b, "reserved") + Separated(b) + InCalls(b, {"create"}) + refused[b]

\* The stock of a balance is what there was, less what was dispatched from it, plus
\* what was received in it: no unit is in two warehouses, on the road and on a
\* shelf, or nowhere, between any two steps of the calls.
StockAccounted ==
    restarts = 0 =>
        \A b \in Keys :
            balance[b].stock + Gone(b) + InCalls(b, {"dispatch"})
                = InitialStock[b] + Arrived(b) + InCalls(b, {"receive"})

\* Transfers and orders share the counters and never promise a unit twice.
NoDoubleUse ==
    restarts = 0 => \A b \in Keys : balance[b].reserved + balance[b].committed <= balance[b].stock

\* A dispatch or a cancellation that found its transfer reserved finds its units
\* reserved too: the conflicts "No hay reserva suficiente" and "No hay stock fisico"
\* of InventoryService are out of reach, whatever the others do meanwhile.
OwnReservationThere ==
    restarts = 0 =>
        \A c \in Calls : call[c].phase = "resolving" /\ call[c].kind \in {"dispatch", "cancel"}
            => \A b \in CallKeys(c) : Fits(call[c].kind, balance[b], Units(c, b))
=============================================================================
