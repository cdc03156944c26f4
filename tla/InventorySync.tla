--------------------------- MODULE InventorySync ---------------------------
(***************************************************************************)
(* InventoryService.syncOrder and adjustWarehouseStock, one process of the *)
(* API, at the granularity of its awaits.                                  *)
(*                                                                         *)
(* The service keeps the balances and one reservation record per order in  *)
(* memory and copies balances to PostgreSQL.  A call to syncOrder reads    *)
(* the order's record, decides which operations take the record to the     *)
(* state the order asks for, and then, for each operation, awaits the      *)
(* variants' rows (ensureResolvedLines), checks and changes the balances   *)
(* without yielding, awaits one upsert per balance, and sets the record.   *)
(* Other calls run in every await.                                         *)
(*                                                                         *)
(* Orders ask through syncOrder for any lifecycle state, at any warehouse, *)
(* with or without allowWarehouseReallocation: a superset of what          *)
(* OrdersService asks.                                                     *)
(***************************************************************************)
EXTENDS InventoryBalances, Sequences

CONSTANTS
    Orders,             \* order numbers
    Demand,             \* merged quantity of each variant an order asks for
    DefaultWarehouse,   \* productVariant.defaultWarehouseId
    NoWarehouse,        \* an order without fulfillment assignment
    Assignments,        \* the fulfillment assignments an order may have
    InitialStock,       \* stockOnHand of each balance at start
    Calls,              \* syncOrder calls that can be in flight at once
    Overlap,            \* may two calls for the same order be in flight?
    Increases,          \* quantityDelta values of adjustWarehouseStock
    SetLevels,          \* stockOnHand values of adjustWarehouseStock
    MaxStock            \* bound on the stock an adjustment may reach

ASSUME DemandAssumption ==
    /\ Demand \in [Orders -> [Variants -> Nat]]
    /\ \A o \in Orders : \E v \in Variants : Demand[o][v] > 0
ASSUME WarehouseAssumption ==
    /\ DefaultWarehouse \in [Variants -> Warehouses]
    /\ NoWarehouse \notin Warehouses
    /\ Assignments \subseteq Warehouses \cup {NoWarehouse}
    /\ Cardinality(Warehouses) > 1
ASSUME StockAssumption == InitialStock \in [Keys -> Nat]
ASSUME AdjustAssumption ==
    /\ Increases \subseteq Nat \ {0}
    /\ SetLevels \subseteq Nat
    /\ MaxStock \in Nat
ASSUME OverlapAssumption == Overlap \in BOOLEAN

VARIABLES
    balance,        \* warehouseBalances, in memory
    db,             \* warehouse_inventory_balances, in PostgreSQL
    reservation,    \* reservations, in memory
    call,           \* the syncOrder calls in flight
    adjustment      \* the adjustWarehouseStock call in flight

vars == <<balance, db, reservation, call, adjustment>>

----------------------------------------------------------------------------

Targets == {"reserved", "confirmed", "released"}

\* The operations a call has still to run; never none while it is in flight.
Work == {ops \in Seq(OrderOps) : ops # <<>>}

Record == [state : {"none"} \cup Targets, lines : Lines]
Idle == [phase |-> "idle"]
Resolving == [phase : {"resolving"}, order : Orders, target : Targets,
              ops : Work, old : Lines, new : Lines]
Writing == [phase : {"writing"}, order : Orders, target : Targets,
            ops : Work, old : Lines, new : Lines,
            key : Keys, left : SUBSET Keys, row : Row]
NoAdjustment == [phase |-> "idle"]
Applying == [phase : {"applying"}, key : Keys, row : Row]

Init ==
    /\ balance = [b \in Keys |-> [stock |-> InitialStock[b], reserved |-> 0, committed |-> 0]]
    /\ db = balance
    /\ reservation = [o \in Orders |-> [state |-> "none", lines |-> NoLines]]
    /\ call = [c \in Calls |-> Idle]
    /\ adjustment = NoAdjustment

\* flattenAllocations: every line goes to the assigned warehouse, or to the
\* default warehouse of its variant.
LinesAt(o, w) ==
    [b \in Keys |->
        IF b[1] = (IF w = NoWarehouse THEN DefaultWarehouse[b[2]] ELSE w)
        THEN Demand[o][b[2]] ELSE 0]

InFlight(o) == {c \in Calls : call[c].phase # "idle" /\ call[c].order = o}

----------------------------------------------------------------------------
\* syncOrder

FirstPlan(to) ==
    CASE to = "reserved"  -> <<"reserve">>
      [] to = "confirmed" -> <<"reserve", "confirm">>
      [] OTHER            -> <<>>

\* reallocateLines
MovePlan(from) ==
    CASE from = "reserved"  -> <<"release", "reserve">>
      [] from = "confirmed" -> <<"reverse", "reserve", "confirm">>
      [] OTHER              -> <<>>

\* Mutated: a confirmed order is released as a reserved one.
StepPlanReleases(from, to) ==
    CASE from = "reserved" /\ to = "confirmed" -> <<"confirm">>
      [] from # "released" /\ to = "released"  -> <<"release">>
      [] OTHER -> <<>>

StepPlan(from, to) ==
    CASE from = "reserved"  /\ to = "confirmed" -> <<"confirm">>
      [] from = "reserved"  /\ to = "released"  -> <<"release">>
      [] from = "confirmed" /\ to = "released"  -> <<"reverse">>
      [] OTHER -> <<>>

\* The operations a call will run; <<>> when it returns or throws before
\* changing anything.
Plan(existing, target, lines, allow) ==
    CASE existing.state = "none" -> FirstPlan(target)
      [] existing.state # "none" /\ existing.lines = lines -> StepPlan(existing.state, target)
      [] OTHER -> IF allow /\ SameVariantQuantities(existing.lines, lines)
                  THEN MovePlan(existing.state) ELSE <<>>

\* createCheckoutOrder and createBackofficeOrder put the order in the map after
\* its first sync: until then no other handler can name it.
Visible(o) ==
    /\ reservation[o].state # "none"
    /\ \A c \in InFlight(o) : call[c].old # NoLines

SyncOrder(c, o, target, w, allow) ==
    LET existing == reservation[o]
        plan == Plan(existing, target, LinesAt(o, w), allow)
    IN  /\ call[c].phase = "idle"
        /\ InFlight(o) = {} \/ (Overlap /\ Visible(o))
        /\ plan # <<>>
        /\ call' = [call EXCEPT ![c] =
             [phase |-> "resolving", order |-> o, target |-> target, ops |-> plan,
              old |-> existing.lines, new |-> LinesAt(o, w)]]
        /\ UNCHANGED <<balance, db, reservation, adjustment>>

\* The early returns and the conflicts of syncOrder.
SyncWithoutEffect(o) ==
    /\ {ask \in Targets \X Assignments \X BOOLEAN :
          Plan(reservation[o], ask[1], LinesAt(o, ask[2]), ask[3]) = <<>>} # {}
    /\ UNCHANGED vars

----------------------------------------------------------------------------
\* reserveLines, confirmLines, releaseLines, reverseLines

Op(c) == Head(call[c].ops)
OpLines(c) == IF Op(c) \in {"release", "reverse"} THEN call[c].old ELSE call[c].new
OpKeys(c) == LineKeys(OpLines(c))
CanApply(c, b) == Ready(Op(c), balance[b], OpLines(c)[b])

ApplyTo(c, keys) ==
    [b \in Keys |-> IF b \in keys THEN Effect(Op(c), balance[b], OpLines(c)[b])
                                  ELSE balance[b]]

\* The check and the change, without an await between them; the values of the
\* first upsert are read before the call yields.
Mutate(c) ==
    /\ call[c].phase = "resolving"
    /\ \A b \in OpKeys(c) : CanApply(c, b)
    /\ balance' = ApplyTo(c, OpKeys(c))
    /\ \E b \in OpKeys(c) :
         call' = [call EXCEPT ![c] =
           [phase |-> "writing", order |-> @.order, target |-> @.target, ops |-> @.ops,
            old |-> @.old, new |-> @.new,
            key |-> b, left |-> OpKeys(c) \ {b}, row |-> balance'[b]]]
    /\ UNCHANGED <<db, reservation, adjustment>>

\* A check that fails throws.  reserveLines checks every line before it changes
\* one; the others check each line as they change it, and leave the lines they
\* have passed changed, in memory only.
Throw(c) ==
    /\ call[c].phase = "resolving"
    /\ \E b \in OpKeys(c) : ~CanApply(c, b)
    /\ \E done \in SUBSET {b \in OpKeys(c) : CanApply(c, b)} :
         /\ Op(c) = "reserve" => done = {}
         /\ balance' = ApplyTo(c, done)
    /\ call' = [call EXCEPT ![c] = Idle]
    /\ UNCHANGED <<db, reservation, adjustment>>

\* persistWarehouseBalances, one upsert: PostgreSQL takes the row read when the
\* upsert was issued, and the loop reads the next balance from memory.
UpsertNext(c) ==
    /\ call[c].phase = "writing"
    /\ db' = [db EXCEPT ![call[c].key] = call[c].row]
    /\ \E b \in call[c].left :
         call' = [call EXCEPT ![c].key = b, ![c].row = balance[b], ![c].left = @ \ {b}]
    /\ UNCHANGED <<balance, reservation, adjustment>>

\* The last upsert of an operation, the record it sets, and the return to
\* syncOrder, which goes on to the next operation or ends.
UpsertLast(c) ==
    /\ call[c].phase = "writing"
    /\ call[c].left = {}
    /\ db' = [db EXCEPT ![call[c].key] = call[c].row]
    /\ reservation' = [reservation EXCEPT ![call[c].order] =
                         [state |-> StateAfter(Op(c)), lines |-> OpLines(c)]]
    /\ call' = [call EXCEPT ![c] =
                  IF Tail(@.ops) = <<>> THEN Idle
                  ELSE [phase |-> "resolving", order |-> @.order, target |-> @.target,
                        ops |-> Tail(@.ops), old |-> @.old, new |-> @.new]]
    /\ UNCHANGED <<balance, adjustment>>

----------------------------------------------------------------------------
\* adjustWarehouseStock

\* The transaction changes the stock of the row, and only the stock.
Adjust(b) ==
    /\ adjustment.phase = "idle"
    /\ \E stock \in {db[b].stock + n : n \in Increases} \cup SetLevels :
         /\ stock <= MaxStock
         /\ db' = [db EXCEPT ![b].stock = stock]
    /\ adjustment' = [phase |-> "applying", key |-> b, row |-> db'[b]]
    /\ UNCHANGED <<balance, reservation, call>>

\* After the transaction the row it returned, reservations included, replaces
\* the balance in memory.
ApplyAdjustment ==
    /\ adjustment.phase = "applying"
    /\ balance' = [balance EXCEPT ![adjustment.key] = adjustment.row]
    /\ adjustment' = NoAdjustment
    /\ UNCHANGED <<db, reservation, call>>

----------------------------------------------------------------------------

Request ==
    \E o \in Orders :
        \/ \E c \in Calls, target \in Targets, w \in Assignments, allow \in BOOLEAN :
             SyncOrder(c, o, target, w, allow)
        \/ SyncWithoutEffect(o)

Continue(c) == Mutate(c) \/ Throw(c) \/ UpsertNext(c) \/ UpsertLast(c)

Next ==
    \/ Request
    \/ \E c \in Calls : Continue(c)
    \/ \E b \in Keys : Adjust(b)
    \/ ApplyAdjustment

Spec == Init /\ [][Next]_vars

\* Node's event loop runs a call whose query has answered, and PostgreSQL
\* answers: an in-flight call goes on.  Nobody has to make a request.
FairSpec == Spec /\ \A c \in Calls : WF_vars(Continue(c))

----------------------------------------------------------------------------
\* Every balance, row and record has its shape: the counters never go below
\* zero, however the calls interleave.
TypeOK ==
    /\ balance \in [Keys -> Row]
    /\ db \in [Keys -> Row]
    /\ reservation \in [Orders -> Record]
    /\ call \in [Calls -> {Idle} \cup Resolving \cup Writing]
    /\ adjustment \in {NoAdjustment} \cup Applying

\* No balance promises more units than it has: reserved and committed units
\* together never exceed the stock, whatever calls run in each other's awaits.
\* (assertion of reserveLines' check, kept by the other operations)
NoOversell == \A b \in Keys : balance[b].reserved + balance[b].committed <= balance[b].stock

\* What makes NoOversell inductive: every row that can reach the memory, the
\* rows of PostgreSQL and those read for an upsert or an adjustment, is sound.
Sound(row) == row.reserved + row.committed <= row.stock
RowsSound ==
    /\ \A b \in Keys : Sound(balance[b]) /\ Sound(db[b])
    /\ \A c \in Calls : call[c].phase = "writing" => Sound(call[c].row)
    /\ adjustment.phase = "applying" => Sound(adjustment.row)

----------------------------------------------------------------------------
\* What an order holds: its record, or, while a call has changed the balances
\* and not yet set the record, what the record is about to be.
Writers(o) == {c \in Calls : call[c].phase = "writing" /\ call[c].order = o}
Hold(o) ==
    IF Writers(o) = {} THEN reservation[o]
    ELSE LET c == CHOOSE c \in Writers(o) : TRUE
         IN  [state |-> StateAfter(Op(c)), lines |-> OpLines(c)]

UnitsHeld(b, state) ==
    UNION {{o} \X (1 .. Hold(o).lines[b]) : o \in {x \in Orders : Hold(x).state = state}}

\* The counters of every balance are exactly the units the orders hold there:
\* reserved counts the orders not yet confirmed, committed the confirmed ones
\* (docs/data/inventory-control-by-warehouse.md, "Que significa cada cantidad").
BooksBalanced ==
    \A b \in Keys :
        /\ balance[b].reserved = Cardinality(UnitsHeld(b, "reserved"))
        /\ balance[b].committed = Cardinality(UnitsHeld(b, "confirmed"))

\* A confirmation, a release or a reversal never fails for want of units: the
\* conflicts "No hay reserva suficiente" of confirmLines and releaseLines and
\* that of reverseLines are unreachable, although other orders share the counter.
OwnUnitsThere ==
    \A c \in Calls :
        call[c].phase = "resolving" /\ Op(c) # "reserve"
            => \A b \in OpKeys(c) : CanApply(c, b)

\* An order whose release was accepted gives its units back: the call reaches
\* its end, and no conflict raised by another order's units stops it half way.
Releasing(c) == call[c].phase # "idle" /\ call[c].ops \in {<<"release">>, <<"reverse">>}
ReleaseEnds ==
    \A o \in Orders :
        (\E c \in InFlight(o) : Releasing(c)) ~> (reservation[o].state = "released")

\* A call that confirms a sale leaves the record confirmed (docs/03-casos-de-uso.md,
\* CU-06 step 4: "Si es venta confirmada, consolida stock").
ConfirmationConsolidates ==
    [][\A c \in Calls :
         call[c].phase = "writing" /\ call'[c].phase = "idle" /\ call[c].target = "confirmed"
            => reservation'[call[c].order].state = "confirmed"]_vars

----------------------------------------------------------------------------
\* The promise of StockHolds.  Between the two halves of a reallocation the
\* record says released, and the hold is moving.
StillToReserve(o) ==
    \E c \in InFlight(o) : \E i \in 1 .. Len(call[c].ops) : call[c].ops[i] = "reserve"

AbstractHold ==
    [o \in Orders |->
        IF Hold(o).state = "released" /\ StillToReserve(o)
        THEN [Hold(o) EXCEPT !.state = "moving"] ELSE Hold(o)]

RequestsOf == [o \in Orders |-> {LinesAt(o, w) : w \in Assignments}]

Promise == INSTANCE StockHolds
             WITH Stock <- InitialStock, Requests <- RequestsOf, hold <- AbstractHold

\* Every step of the service is a step of the promise or leaves the holds alone:
\* no await lets an order see another's units, lose its own, or hold again what
\* it has given back.
KeepsPromise == Promise!HoldSpec
=============================================================================
