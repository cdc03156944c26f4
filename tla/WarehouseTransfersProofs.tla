---------------------- MODULE WarehouseTransfersProofs ----------------------
(***************************************************************************)
(* Theorems about WarehouseTransfers for any warehouses, variants,         *)
(* transfers, orders, calls and stock.                                     *)
(***************************************************************************)
EXTENDS WarehouseTransfers, FiniteSetTheorems, TLAPS

Movements == {"create", "cancel", "dispatch", "receive"}
Promised(row) == row.reserved + row.committed <= row.stock

\* A movement whose check passed leaves natural numbers, and promises no more
\* than there is.
LEMMA MovedRow ==
    ASSUME NEW kind \in Movements, NEW row \in Row, NEW q \in Nat, Fits(kind, row, q)
    PROVE  Moved(kind, row, q) \in Row /\ (Promised(row) => Promised(Moved(kind, row, q)))
<1>1. row.stock \in Nat /\ row.reserved \in Nat /\ row.committed \in Nat
  BY DEF Row
<1>2. CASE kind = "create"
  BY <1>1, <1>2 DEF Moved, Fits, Available, Promised, Row
<1>3. CASE kind = "cancel"
  BY <1>1, <1>3 DEF Moved, Fits, Promised, Row
<1>4. CASE kind = "dispatch"
  <2>1. Moved(kind, row, q) = [stock |-> row.stock - q, reserved |-> row.reserved - q,
                               committed |-> row.committed]
    BY <1>1, <1>4 DEF Moved, Row
  <2>2. row.stock - q \in Nat /\ row.reserved - q \in Nat
    BY <1>1, <1>4 DEF Fits
  <2>3. Moved(kind, row, q) \in Row
    BY <1>1, <2>1, <2>2 DEF Row
  <2>4. Promised(row) => (row.reserved - q) + row.committed <= row.stock - q
    BY <1>1 DEF Promised
  <2>. QED BY <2>1, <2>3, <2>4 DEF Promised
<1>5. CASE kind = "receive"
  BY <1>1, <1>5 DEF Moved, Promised, Row
<1>. QED BY <1>2, <1>3, <1>4, <1>5 DEF Movements

\* The same of an order's operation on one unit.
LEMMA OrderRow ==
    ASSUME NEW op \in OrderOps, NEW row \in Row, Ready(op, row, 1)
    PROVE  Effect(op, row, 1) \in Row /\ (Promised(row) => Promised(Effect(op, row, 1)))
<1>1. row.stock \in Nat /\ row.reserved \in Nat /\ row.committed \in Nat
  BY DEF Row
<1>2. CASE op = "reserve"
  BY <1>1, <1>2 DEF Effect, Ready, Available, Promised, Row
<1>3. CASE op = "confirm"
  <2>1. Effect(op, row, 1) = [stock |-> row.stock, reserved |-> row.reserved - 1,
                              committed |-> row.committed + 1]
    BY <1>1, <1>3 DEF Effect, Row
  <2>2. row.reserved - 1 \in Nat
    BY <1>1, <1>3 DEF Ready
  <2>3. Effect(op, row, 1) \in Row
    BY <1>1, <2>1, <2>2 DEF Row
  <2>4. Promised(row) => (row.reserved - 1) + (row.committed + 1) <= row.stock
    BY <1>1 DEF Promised
  <2>. QED BY <2>1, <2>3, <2>4 DEF Promised
<1>4. CASE op = "release"
  BY <1>1, <1>4 DEF Effect, Ready, Promised, Row
<1>5. CASE op = "reverse"
  BY <1>1, <1>5 DEF Effect, Ready, Promised, Row
<1>. QED BY <1>2, <1>3, <1>4, <1>5 DEF OrderOps

----------------------------------------------------------------------------
\* Types.  A call that is not a creation works on a row that exists: rows are
\* never deleted.  A call of each kind goes through its own phases.  Nothing is
\* asked of a shop without variants.
PhasesOf(kind) ==
    CASE kind \in {"create", "cancel"} -> {"resolving", "writing", "recording"}
      [] kind = "dispatch"  -> {"resolving", "writing", "recording", "lines"}
      [] kind = "receive"   -> {"resolving", "writing", "recording", "lines", "rereading",
                                "incident", "status"}
      [] kind = "reconcile" -> {"incident", "status"}
Tasks ==
    {task \in [phase : {"resolving", "writing", "recording", "lines", "rereading",
                        "incident", "status"},
               kind : {"create", "dispatch", "cancel", "receive", "reconcile"},
               t : TransferIds, of : Transfer, at : Warehouses, units : Quantities,
               key : Keys, left : SUBSET Keys, row : Row] :
        task.phase \in PhasesOf(task.kind)}

Existing == \A c \in Calls : Active(c) /\ call[c].kind # "create" => call[c].t \in Known
Stocked == (Known # {} \/ \E c \in Calls : Active(c)) => Variants # {}

Typed ==
    /\ TypeOK
    /\ call \in [Calls -> {Idle} \cup Tasks]
    /\ Existing
    /\ Stocked

LEMMA TaskParts ==
    ASSUME Typed, NEW c \in Calls, Active(c)
    PROVE  /\ call[c] \in Tasks
           /\ call[c].t \in TransferIds /\ call[c].of \in Transfer
           /\ call[c].units \in Quantities
           /\ CallKeys(c) \subseteq Keys
           /\ \A b \in Keys : Units(c, b) \in Nat
           /\ Variants # {}
<1>1. call[c] \in Tasks
  BY DEF Typed, Active, Idle
<1>2. call[c].t \in TransferIds /\ call[c].of \in Transfer /\ call[c].units \in Quantities
  BY <1>1 DEF Tasks, PhasesOf
<1>3. \A b \in Keys : Units(c, b) \in Nat
  BY <1>2 DEF Units, Quantities, Keys
<1>. QED BY <1>1, <1>2, <1>3 DEF CallKeys, Typed, Stocked

LEMMA KnownTransfer ==
    ASSUME Typed, NEW t \in TransferIds
    PROVE  (t \in Known) <=> (transfer[t] \in Transfer)
BY DEF Typed, TypeOK, Known, Absent, Transfer

LEMMA TypedInit == Init => Typed
<1> SUFFICES ASSUME Init PROVE Typed
  OBVIOUS
<1>1. balance \in [Keys -> Row] /\ db \in [Keys -> Row]
  BY InitialStockAssumption DEF Init, NoRow, Row
<1>2. \A c \in Calls : ~Active(c)
  BY DEF Init, Active, Idle
<1>3. Known = {}
  BY DEF Init, Known, Absent
<1>. QED BY <1>1, <1>2, <1>3, TransferBoundsAssumption DEF Init, Typed, TypeOK, Existing, Stocked

\* The type of a state whose calls are well formed.
LEMMA CallsTyped ==
    ASSUME call' \in [Calls -> {Idle} \cup Tasks]
    PROVE  \A c \in Calls : Active(c)' =>
             /\ call'[c].phase \in {"resolving", "writing", "recording", "lines", "rereading",
                                    "incident", "status"}
             /\ call'[c].kind \in {"create", "dispatch", "cancel", "receive", "reconcile"}
             /\ call'[c].t \in TransferIds
             /\ call'[c].of \in Transfer
             /\ call'[c].at \in Warehouses
             /\ call'[c].units \in Quantities
             /\ call'[c].key \in Keys
             /\ call'[c].left \subseteq Keys
             /\ call'[c].row \in Row
<1>1. SUFFICES ASSUME NEW c \in Calls, Active(c)'
               PROVE  call'[c] \in Tasks
  BY DEF Tasks, PhasesOf
<1>. QED BY <1>1 DEF Active, Idle

\* A new call.
LEMMA StartTyped ==
    ASSUME Typed, NEW c \in Calls, NEW task \in Tasks, Start(c, task),
           task.kind # "create" => task.t \in Known, Variants # {},
           UNCHANGED <<balance, db, transfer, orderHold, refused, restarts>>
    PROVE  Typed'
<1>1. call' \in [Calls -> {Idle} \cup Tasks] /\ call' = [call EXCEPT ![c] = task]
  BY DEF Start, Typed
<1>2. Known' = Known
  BY DEF Known
<1>3. Existing'
  BY <1>1, <1>2 DEF Existing, Typed, Active
<1>4. TypeOK'
  BY <1>1, CallsTyped DEF Typed, TypeOK
<1>. QED BY <1>1, <1>3, <1>4 DEF Typed, Stocked

LEMMA TaskType ==
    ASSUME NEW kind \in {"create", "dispatch", "cancel", "receive", "reconcile"},
           NEW t \in TransferIds, NEW of \in Transfer, NEW at \in Warehouses,
           NEW units \in Quantities, Variants # {}
    PROVE  /\ kind # "reconcile" => Task(kind, t, of, at, units) \in Tasks
           /\ kind = "reconcile"
                => [Task(kind, t, of, at, units) EXCEPT !.phase = "incident"] \in Tasks
<1>1. (CHOOSE v \in Variants : TRUE) \in Variants
  OBVIOUS
<1>2. <<at, CHOOSE v \in Variants : TRUE>> \in Keys
  BY <1>1 DEF Keys
<1>3. NoRow \in Row
  BY DEF NoRow, Row
<1>. QED BY <1>2, <1>3 DEF Task, Tasks, PhasesOf

LEMMA RemainingType ==
    ASSUME NEW x \in Transfer
    PROVE  Remaining(x) \in Quantities
<1>1. x.received \in Quantities /\ x.dispatched \in Quantities /\ x.quantity \in Quantities
  BY DEF Transfer
<1>2. ASSUME NEW v \in Variants
      PROVE  (IF x.received[v] >= Expected(x, v) THEN 0 ELSE Expected(x, v) - x.received[v]) \in Nat
  <2>1. x.received[v] \in Nat /\ Expected(x, v) \in Nat
    BY <1>1 DEF Quantities, Expected
  <2>. QED BY <2>1
<1>. QED BY <1>2 DEF Remaining, Quantities

LEMMA TypedRequest ==
    ASSUME Typed, NEW c \in Calls, Request(c)
    PROVE  Typed'
<1>1. ASSUME NEW w1 \in Warehouses, NEW w2 \in Warehouses, NEW ask \in Asks,
             createTransfer(c, w1, w2, ask)
      PROVE  Typed'
  <2>. DEFINE of == [status |-> "reserved", origin |-> w1, destination |-> w2,
                     quantity |-> ask, dispatched |-> NoUnits, received |-> NoUnits,
                     incident |-> "none"]
  <2>1. ask \in Quantities /\ NoUnits \in Quantities /\ Variants # {}
    BY AsksAssumption DEF Quantities, NoUnits
  <2>2. of \in Transfer
    BY <2>1 DEF Transfer
  <2>. HIDE DEF of
  <2>3. Task("create", NextNumber, of, w1, ask) \in Tasks
    BY <1>1, <2>1, <2>2, TaskType DEF createTransfer
  <2>4. Start(c, Task("create", NextNumber, of, w1, ask))
        /\ Task("create", NextNumber, of, w1, ask).kind = "create"
    BY <1>1 DEF createTransfer, of, Task
  <2>. QED BY <1>1, <2>1, <2>3, <2>4, StartTyped DEF createTransfer
<1>2. ASSUME NEW t \in TransferIds, dispatchTransfer(c, t) \/ cancelTransfer(c, t)
      PROVE  Typed'
  <2>1. t \in Known /\ transfer[t] \in Transfer /\ Variants # {}
    BY <1>2, KnownTransfer DEF dispatchTransfer, cancelTransfer, Known, Typed, Stocked
  <2>2. transfer[t].origin \in Warehouses /\ transfer[t].quantity \in Quantities
    BY <2>1 DEF Transfer
  <2>3. ASSUME NEW kind \in {"dispatch", "cancel"},
               Start(c, Task(kind, t, transfer[t], transfer[t].origin, transfer[t].quantity))
        PROVE  Typed'
    <3>1. Task(kind, t, transfer[t], transfer[t].origin, transfer[t].quantity) \in Tasks
      BY <2>1, <2>2, TaskType
    <3>2. Task(kind, t, transfer[t], transfer[t].origin, transfer[t].quantity).t = t
      BY DEF Task
    <3>. QED BY <1>2, <2>1, <2>3, <3>1, <3>2, StartTyped DEF dispatchTransfer, cancelTransfer
  <2>. QED BY <1>2, <2>3 DEF dispatchTransfer, cancelTransfer
<1>3. ASSUME NEW t \in TransferIds, NEW overage \in BOOLEAN, receiveTransfer(c, t, overage)
      PROVE  Typed'
  <2>1. t \in Known /\ transfer[t] \in Transfer /\ Variants # {}
    BY <1>3, KnownTransfer DEF receiveTransfer, Known, Typed, Stocked
  <2>2. transfer[t].destination \in Warehouses
    BY <2>1 DEF Transfer
  <2>3. PICK units \in {Remaining(transfer[t])} \cup Receipts :
          Start(c, Task("receive", t, transfer[t], transfer[t].destination, units))
    BY <1>3 DEF receiveTransfer
  <2>4. units \in Quantities
    BY <2>1, RemainingType, AsksAssumption DEF Quantities
  <2>5. Task("receive", t, transfer[t], transfer[t].destination, units) \in Tasks
    BY <2>1, <2>2, <2>4, TaskType
  <2>6. Task("receive", t, transfer[t], transfer[t].destination, units).t = t
    BY DEF Task
  <2>. QED BY <1>3, <2>1, <2>3, <2>5, <2>6, StartTyped DEF receiveTransfer
<1>4. ASSUME NEW t \in TransferIds, reconcileTransfer(c, t)
      PROVE  Typed'
  <2>1. t \in Known /\ transfer[t] \in Transfer /\ Variants # {}
    BY <1>4, KnownTransfer DEF reconcileTransfer, Known, Typed, Stocked
  <2>2. transfer[t].destination \in Warehouses /\ NoUnits \in Quantities
    BY <2>1 DEF Transfer, NoUnits, Quantities
  <2>. DEFINE base == Task("reconcile", t, transfer[t], transfer[t].destination, NoUnits)
              task == [base EXCEPT !.phase = "incident"]
  <2>3. task \in Tasks /\ task.t = t
    BY <2>1, <2>2, TaskType DEF Task
  <2>4. Start(c, task)
    BY <1>4 DEF reconcileTransfer
  <2>. HIDE DEF task
  <2>. QED BY <1>4, <2>1, <2>3, <2>4, StartTyped DEF reconcileTransfer
<1>. QED BY <1>1, <1>2, <1>3, <1>4 DEF Request

\* A step of a call that goes on or ends: it keeps its transfer, and no row goes.
LEMMA GoesOn ==
    ASSUME Typed, NEW c \in Calls, Active(c), NEW task \in {Idle} \cup Tasks,
           call' = [call EXCEPT ![c] = task],
           task # Idle => task.t = call[c].t /\ task.kind = call[c].kind,
           transfer' \in [TransferIds -> {Absent} \cup Transfer], Known \subseteq Known',
           balance' \in [Keys -> Row], db' \in [Keys -> Row], refused' \in [Keys -> Nat],
           UNCHANGED <<orderHold, restarts>>
    PROVE  Typed'
<1>1. call' \in [Calls -> {Idle} \cup Tasks]
  BY DEF Typed
<1>2. Existing'
  <2>1. ASSUME NEW d \in Calls, Active(d)', call'[d].kind # "create"
        PROVE  call'[d].t \in Known'
    <3>1. CASE d = c
      <4>1. call'[c] = task /\ task # Idle
        BY <2>1, <3>1 DEF Typed, Active, Idle
      <4>. QED BY <2>1, <3>1, <4>1 DEF Typed, Existing
    <3>2. CASE d # c
      BY <2>1, <3>2 DEF Typed, Existing, Active
    <3>. QED BY <3>1, <3>2
  <2>. QED BY <2>1 DEF Existing
<1>3. TypeOK'
  BY <1>1, CallsTyped DEF Typed, TypeOK
<1>4. Variants # {}
  BY TaskParts
<1>. QED BY <1>1, <1>2, <1>3, <1>4 DEF Typed, Stocked

\* What a call makes of the balances, when its check has passed.
LEMMA MutatedRows ==
    ASSUME Typed, NEW c \in Calls, Mutate(c)
    PROVE  /\ balance' \in [Keys -> Row]
           /\ (\A b \in Keys : Promised(balance[b])) => \A b \in Keys : Promised(balance'[b])
<1>1. Active(c) /\ call[c] \in Tasks /\ \A b \in Keys : Units(c, b) \in Nat
  BY TaskParts DEF Mutate, Active
<1>2. call[c].kind \in Movements
  BY <1>1 DEF Tasks, PhasesOf, Movements, Mutate
<1>3. \A b \in Keys : balance[b] \in Row
  BY DEF Typed, TypeOK
<1>4. ASSUME NEW b \in Keys
      PROVE  balance'[b] \in Row /\ (Promised(balance[b]) => Promised(balance'[b]))
  <2>1. CASE b \in CallKeys(c)
    <3>1. balance'[b] = Moved(call[c].kind, balance[b], Units(c, b))
      BY <2>1 DEF Mutate
    <3>2. Fits(call[c].kind, balance[b], Units(c, b))
      BY <2>1 DEF Mutate
    <3>. QED BY <1>1, <1>2, <1>3, <3>1, <3>2, MovedRow
  <2>2. CASE b \notin CallKeys(c)
    BY <1>3, <2>2 DEF Mutate
  <2>. QED BY <2>1, <2>2
<1>5. balance' = [b \in Keys |-> balance'[b]]
  BY DEF Mutate
<1>. QED BY <1>4, <1>5

LEMMA TypedMutate ==
    ASSUME Typed, NEW c \in Calls, Mutate(c)
    PROVE  Typed'
<1>1. Active(c) /\ call[c] \in Tasks /\ CallKeys(c) \subseteq Keys
  BY TaskParts DEF Mutate, Active
<1>2. balance' \in [Keys -> Row]
  BY MutatedRows
<1>3. Known' = Known
  BY DEF Mutate, Known
<1>4. PICK task \in Tasks : /\ call' = [call EXCEPT ![c] = task]
                             /\ task.t = call[c].t /\ task.kind = call[c].kind
  <2>1. CASE CallKeys(c) = {}
    <3>. DEFINE task == [call[c] EXCEPT !.phase = "recording"]
    <3>1. task \in Tasks /\ task.t = call[c].t /\ task.kind = call[c].kind
      BY <1>1 DEF Tasks, PhasesOf, Mutate
    <3>2. call' = [call EXCEPT ![c] = task]
      BY <2>1 DEF Mutate, Goto
    <3>. HIDE DEF task
    <3>. QED BY <3>1, <3>2
  <2>2. CASE CallKeys(c) # {}
    <3>1. PICK b \in CallKeys(c) :
            call' = [call EXCEPT ![c].phase = "writing", ![c].key = b, ![c].row = balance'[b],
                                 ![c].left = CallKeys(c) \ {b}]
      BY <2>2 DEF Mutate
    <3>. DEFINE task == [call[c] EXCEPT !.phase = "writing", !.key = b, !.row = balance'[b],
                                        !.left = CallKeys(c) \ {b}]
    <3>2. b \in Keys /\ balance'[b] \in Row /\ CallKeys(c) \ {b} \in SUBSET Keys
      BY <1>1, <1>2
    <3>3. task \in Tasks /\ task.t = call[c].t /\ task.kind = call[c].kind
      BY <1>1, <3>2 DEF Tasks, PhasesOf, Mutate
    <3>4. call' = [call EXCEPT ![c] = task]
      BY <3>1 DEF Typed
    <3>. HIDE DEF task
    <3>. QED BY <3>3, <3>4
  <2>. QED BY <2>1, <2>2
<1>. QED BY <1>1, <1>2, <1>3, <1>4, GoesOn DEF Mutate, Typed, TypeOK

LEMMA TypedConflict ==
    ASSUME Typed, NEW c \in Calls, Conflict(c)
    PROVE  Typed'
<1>1. Active(c) /\ call' = [call EXCEPT ![c] = Idle] /\ Known' = Known
  BY DEF Conflict, Active, End, Known
<1>. QED BY <1>1, GoesOn DEF Conflict, Typed, TypeOK

LEMMA TypedUpsert ==
    ASSUME Typed, NEW c \in Calls, Upsert(c)
    PROVE  Typed'
<1>1. Active(c) /\ call[c] \in Tasks /\ call[c].kind # "reconcile" /\ Known' = Known
  <2>1. Active(c) /\ call[c] \in Tasks
    BY TaskParts DEF Upsert, Active
  <2>. QED BY <2>1 DEF Upsert, Tasks, PhasesOf, Known
<1>2. db' \in [Keys -> Row]
  BY <1>1 DEF Upsert, Typed, TypeOK, Tasks, PhasesOf
<1>3. PICK task \in Tasks : /\ call' = [call EXCEPT ![c] = task]
                             /\ task.t = call[c].t /\ task.kind = call[c].kind
  <2>1. CASE call[c].left = {}
    <3>. DEFINE task == [call[c] EXCEPT !.phase = "recording", !.row = NoRow]
    <3>1. task \in Tasks /\ task.t = call[c].t /\ task.kind = call[c].kind
      BY <1>1 DEF Tasks, PhasesOf, NoRow, Row
    <3>2. call' = [call EXCEPT ![c] = task]
      BY <2>1 DEF Upsert
    <3>. HIDE DEF task
    <3>. QED BY <3>1, <3>2
  <2>2. CASE call[c].left # {}
    <3>1. PICK b \in call[c].left :
            call' = [call EXCEPT ![c].key = b, ![c].row = balance[b], ![c].left = @ \ {b}]
      BY <2>2 DEF Upsert
    <3>. DEFINE task == [call[c] EXCEPT !.key = b, !.row = balance[b], !.left = @ \ {b}]
    <3>2. b \in Keys /\ balance[b] \in Row /\ call[c].left \ {b} \in SUBSET Keys
      BY <1>1 DEF Tasks, PhasesOf, Typed, TypeOK
    <3>3. task \in Tasks /\ task.t = call[c].t /\ task.kind = call[c].kind
      BY <1>1, <3>2 DEF Tasks, PhasesOf
    <3>4. call' = [call EXCEPT ![c] = task]
      BY <3>1 DEF Typed
    <3>. HIDE DEF task
    <3>. QED BY <3>3, <3>4
  <2>. QED BY <2>1, <2>2
<1>. QED BY <1>1, <1>2, <1>3, GoesOn DEF Upsert, Typed, TypeOK

\* A step that rewrites the row of a transfer keeps every row.
LEMMA Rewritten ==
    ASSUME Typed, NEW t \in TransferIds, NEW x \in Transfer, transfer' = [transfer EXCEPT ![t] = x]
    PROVE  transfer' \in [TransferIds -> {Absent} \cup Transfer] /\ Known \subseteq Known'
<1>1. transfer' \in [TransferIds -> {Absent} \cup Transfer]
  BY DEF Typed, TypeOK
<1>2. x.status # "absent"
  BY DEF Transfer
<1>. QED BY <1>1, <1>2 DEF Known, Typed, TypeOK

LEMMA TypedInsert ==
    ASSUME Typed, NEW c \in Calls, Insert(c)
    PROVE  Typed'
<1>1. /\ Active(c) /\ call[c] \in Tasks /\ call[c].t \in TransferIds /\ call[c].of \in Transfer
      /\ \A b \in Keys : Units(c, b) \in Nat
      /\ call' = [call EXCEPT ![c] = Idle]
  BY TaskParts DEF Insert, Active, End
<1>2. CASE call[c].t \in Known
  <2>1. refused' \in [Keys -> Nat]
    BY <1>1, <1>2 DEF Insert, Typed, TypeOK
  <2>2. transfer' = transfer /\ Known' = Known
    BY <1>2 DEF Insert, Known
  <2>. QED BY <1>1, <2>1, <2>2, GoesOn DEF Insert, Typed, TypeOK
<1>3. CASE call[c].t \notin Known
  <2>1. transfer' \in [TransferIds -> {Absent} \cup Transfer] /\ Known \subseteq Known'
    BY <1>1, <1>3, Rewritten DEF Insert
  <2>. QED BY <1>1, <1>3, <2>1, GoesOn DEF Insert, Typed, TypeOK
<1>. QED BY <1>2, <1>3

\* The row a call works on exists.
LEMMA RowOf ==
    ASSUME Typed, NEW c \in Calls, Active(c), call[c].kind # "create"
    PROVE  /\ call[c].t \in TransferIds /\ call[c].t \in Known
           /\ transfer[call[c].t] \in Transfer
<1>1. call[c].t \in TransferIds /\ call[c].t \in Known
  BY TaskParts DEF Typed, Existing
<1>. QED BY <1>1, KnownTransfer

LEMMA TypedRecords ==
    ASSUME Typed, NEW c \in Calls,
           RecordCancelled(c) \/ RecordDispatched(c) \/ RecordReceived(c) \/ LinesDone(c)
             \/ ReRead(c) \/ WriteIncident(c) \/ WriteStatus(c)
    PROVE  Typed'
<1>1. Active(c) /\ call[c] \in Tasks /\ CallKeys(c) \subseteq Keys
  BY TaskParts DEF RecordCancelled, RecordDispatched, RecordReceived, LinesDone, ReRead,
     WriteIncident, WriteStatus, Active
<1>2. CASE RecordCancelled(c)
  <2>1. call[c].t \in TransferIds /\ transfer[call[c].t] \in Transfer
    BY <1>1, <1>2, RowOf DEF RecordCancelled
  <2>2. [transfer[call[c].t] EXCEPT !.status = "cancelled"] \in Transfer
    BY <2>1 DEF Transfer
  <2>3. transfer' \in [TransferIds -> {Absent} \cup Transfer] /\ Known \subseteq Known'
    BY <1>2, <2>1, <2>2, Rewritten DEF RecordCancelled
  <2>. QED BY <1>1, <1>2, <2>3, GoesOn DEF RecordCancelled, End, Typed, TypeOK
<1>3. CASE RecordDispatched(c)
  <2>1. call[c].t \in TransferIds /\ transfer[call[c].t] \in Transfer
    BY <1>1, <1>3, RowOf DEF RecordDispatched
  <2>2. [transfer[call[c].t] EXCEPT !.status = "in_transit"] \in Transfer
    BY <2>1 DEF Transfer
  <2>3. transfer' \in [TransferIds -> {Absent} \cup Transfer] /\ Known \subseteq Known'
    BY <1>3, <2>1, <2>2, Rewritten DEF RecordDispatched
  <2>. DEFINE task == [call[c] EXCEPT !.phase = "lines", !.left = CallKeys(c)]
  <2>4. task \in Tasks /\ task.t = call[c].t /\ task.kind = call[c].kind
    BY <1>1, <1>3 DEF Tasks, PhasesOf, RecordDispatched
  <2>5. call' = [call EXCEPT ![c] = task]
    BY <1>3 DEF RecordDispatched, Typed
  <2>. HIDE DEF task
  <2>6. /\ balance' \in [Keys -> Row] /\ db' \in [Keys -> Row] /\ refused' \in [Keys -> Nat]
        /\ UNCHANGED <<orderHold, restarts>>
    BY <1>3 DEF RecordDispatched, Typed, TypeOK
  <2>. QED BY <1>1, <2>3, <2>4, <2>5, <2>6, GoesOn
<1>4. CASE RecordReceived(c)
  <2>. DEFINE task == [call[c] EXCEPT !.phase = IF CallKeys(c) = {} THEN "rereading" ELSE "lines",
                                      !.left = CallKeys(c)]
  <2>1. task \in Tasks /\ task.t = call[c].t /\ task.kind = call[c].kind
    BY <1>1, <1>4 DEF Tasks, PhasesOf, RecordReceived
  <2>2. call' = [call EXCEPT ![c] = task] /\ Known' = Known
    BY <1>4 DEF RecordReceived, Typed, Known
  <2>. HIDE DEF task
  <2>3. /\ balance' \in [Keys -> Row] /\ db' \in [Keys -> Row] /\ refused' \in [Keys -> Nat]
        /\ transfer' \in [TransferIds -> {Absent} \cup Transfer]
        /\ UNCHANGED <<orderHold, restarts>>
    BY <1>4 DEF RecordReceived, Typed, TypeOK
  <2>. QED BY <1>1, <2>1, <2>2, <2>3, GoesOn
<1>5. CASE LinesDone(c)
  <2>1. Known' = Known
    BY <1>5 DEF LinesDone, Known
  <2>2. CASE call[c].kind = "dispatch"
    BY <1>1, <1>5, <2>1, <2>2, GoesOn DEF LinesDone, End, Typed, TypeOK
  <2>3. CASE call[c].kind # "dispatch"
    <3>. DEFINE task == [call[c] EXCEPT !.phase = "rereading"]
    <3>1. task \in Tasks /\ task.t = call[c].t /\ task.kind = call[c].kind
      BY <1>1, <1>5, <2>3 DEF Tasks, PhasesOf, LinesDone
    <3>2. call' = [call EXCEPT ![c] = task]
      BY <1>5, <2>3 DEF LinesDone, Goto
    <3>. HIDE DEF task
    <3>. QED BY <1>1, <1>5, <2>1, <3>1, <3>2, GoesOn DEF LinesDone, Typed, TypeOK
  <2>. QED BY <2>2, <2>3
<1>6. CASE ReRead(c)
  <2>. DEFINE task == [call[c] EXCEPT !.of = transfer[call[c].t],
                                      !.phase = IF Discrepant(transfer[call[c].t])
                                                   \/ transfer[call[c].t].incident = "open"
                                                THEN "incident" ELSE "status"]
  <2>1. call[c].kind = "receive"
    BY <1>1, <1>6 DEF ReRead, Tasks, PhasesOf
  <2>2. task \in Tasks /\ task.t = call[c].t /\ task.kind = call[c].kind
    <3>1. transfer[call[c].t] \in Transfer
      BY <1>1, <2>1, RowOf
    <3>. QED BY <1>1, <2>1, <3>1 DEF Tasks, PhasesOf
  <2>3. call' = [call EXCEPT ![c] = task] /\ Known' = Known
    BY <1>6 DEF ReRead, Typed, Known
  <2>. HIDE DEF task
  <2>4. /\ balance' \in [Keys -> Row] /\ db' \in [Keys -> Row] /\ refused' \in [Keys -> Nat]
        /\ transfer' \in [TransferIds -> {Absent} \cup Transfer]
        /\ UNCHANGED <<orderHold, restarts>>
    BY <1>6 DEF ReRead, Typed, TypeOK
  <2>. QED BY <1>1, <2>2, <2>3, <2>4, GoesOn
<1>7. CASE WriteIncident(c) \/ WriteStatus(c)
  <2>1. call[c].kind # "create"
    BY <1>1, <1>7 DEF WriteIncident, WriteStatus, Tasks, PhasesOf
  <2>2. call[c].t \in TransferIds /\ transfer[call[c].t] \in Transfer
    BY <1>1, <2>1, RowOf
  <2>3. CASE WriteIncident(c)
    <3>1. [transfer[call[c].t] EXCEPT !.incident = IF Opens(c) THEN "open" ELSE "resolved"]
             \in Transfer
      BY <2>2 DEF Transfer
    <3>2. transfer' \in [TransferIds -> {Absent} \cup Transfer] /\ Known \subseteq Known'
      BY <2>2, <2>3, <3>1, Rewritten DEF WriteIncident
    <3>. DEFINE task == [call[c] EXCEPT !.phase = "status"]
    <3>3. task \in Tasks /\ task.t = call[c].t /\ task.kind = call[c].kind
      BY <1>1, <2>3 DEF Tasks, PhasesOf, WriteIncident
    <3>4. call' = [call EXCEPT ![c] = task]
      BY <2>3 DEF WriteIncident, Goto
    <3>. HIDE DEF task
    <3>. QED BY <1>1, <2>3, <3>2, <3>3, <3>4, GoesOn DEF WriteIncident, Typed, TypeOK
  <2>4. CASE WriteStatus(c)
    <3>1. [transfer[call[c].t] EXCEPT !.status = IF Opens(c) THEN "partial_received"
                                                             ELSE "received"] \in Transfer
      BY <2>2 DEF Transfer
    <3>2. transfer' \in [TransferIds -> {Absent} \cup Transfer] /\ Known \subseteq Known'
      BY <2>2, <2>4, <3>1, Rewritten DEF WriteStatus
    <3>. QED BY <1>1, <2>4, <3>2, GoesOn DEF WriteStatus, End, Typed, TypeOK
  <2>. QED BY <1>7, <2>3, <2>4
<1>. QED BY <1>2, <1>3, <1>4, <1>5, <1>6, <1>7

LEMMA TypedUpdateLine ==
    ASSUME Typed, NEW c \in Calls, NEW b \in Keys, UpdateLine(c, b)
    PROVE  Typed'
<1>1. /\ Active(c) /\ call[c] \in Tasks /\ Units(c, b) \in Nat /\ call[c].of \in Transfer
      /\ call[c].left \subseteq Keys
  <2>1. Active(c)
    BY DEF UpdateLine, Active
  <2>. QED BY <2>1, TaskParts DEF Tasks, PhasesOf
<1>2. call[c].kind # "create"
  BY <1>1 DEF UpdateLine, Tasks, PhasesOf
<1>3. call[c].t \in TransferIds /\ transfer[call[c].t] \in Transfer
  BY <1>1, <1>2, RowOf
<1>. DEFINE old == transfer[call[c].t]
            x == [old EXCEPT
                   !.dispatched[b[2]] = IF call[c].kind = "dispatch" THEN Units(c, b) ELSE @,
                   !.received[b[2]] = IF call[c].kind = "dispatch" THEN 0
                                      ELSE call[c].of.received[b[2]] + Units(c, b)]
<1>4. x \in Transfer
  <2>1. b[2] \in Variants /\ call[c].of.received \in Quantities
    BY <1>1 DEF Keys, Transfer
  <2>2. old.dispatched \in Quantities /\ old.received \in Quantities
    BY <1>3 DEF Transfer
  <2>3. /\ [old.dispatched EXCEPT ![b[2]] = IF call[c].kind = "dispatch" THEN Units(c, b) ELSE @]
             \in Quantities
        /\ [old.received EXCEPT ![b[2]] = IF call[c].kind = "dispatch" THEN 0
                                          ELSE call[c].of.received[b[2]] + Units(c, b)] \in Quantities
    BY <1>1, <2>1, <2>2 DEF Quantities
  <2>. QED BY <1>3, <2>3 DEF Transfer
<1>5. transfer' = [transfer EXCEPT ![call[c].t] = x]
  BY <1>3 DEF UpdateLine, Typed, TypeOK
<1>6. transfer' \in [TransferIds -> {Absent} \cup Transfer] /\ Known \subseteq Known'
  <2>. HIDE DEF x
  <2>. QED BY <1>3, <1>4, <1>5, Rewritten
<1>. DEFINE task == [call[c] EXCEPT !.left = @ \ {b}]
<1>7. task \in Tasks /\ task.t = call[c].t /\ task.kind = call[c].kind
  BY <1>1 DEF Tasks, PhasesOf
<1>8. call' = [call EXCEPT ![c] = task]
  BY DEF UpdateLine
<1>. HIDE DEF task, x
<1>. QED BY <1>1, <1>6, <1>7, <1>8, GoesOn, ZenonT(40) DEF UpdateLine, Typed, TypeOK

LEMMA TypedSyncOrder ==
    ASSUME Typed, NEW o \in Orders, NEW op \in OrderOps, SyncOrder(o, op)
    PROVE  /\ Typed'
           /\ (\A b \in Keys : Promised(balance[b])) => \A b \in Keys : Promised(balance'[b])
<1>. DEFINE b == OrderKey[o]
<1>1. b \in Keys /\ balance[b] \in Row
  BY OrderKeyAssumption DEF Typed, TypeOK
<1>2. /\ Effect(op, balance[b], 1) \in Row
      /\ Promised(balance[b]) => Promised(Effect(op, balance[b], 1))
  BY <1>1, OrderRow DEF SyncOrder
<1>3. balance' = [balance EXCEPT ![b] = Effect(op, balance[b], 1)]
  BY DEF SyncOrder
<1>4. balance' \in [Keys -> Row] /\ db' \in [Keys -> Row]
  BY <1>1, <1>2, <1>3 DEF SyncOrder, Typed, TypeOK
<1>5. orderHold' \in [Orders -> {"none", "reserved", "confirmed"}]
  BY DEF SyncOrder, StateAfter, OrderOps, Typed, TypeOK
<1>6. Known' = Known /\ \A c \in Calls : Active(c)' = Active(c)
  BY DEF SyncOrder, Known, Active
<1>7. Typed'
  BY <1>4, <1>5, <1>6 DEF SyncOrder, Typed, TypeOK, Existing, Stocked, Active
<1>8. (\A k \in Keys : Promised(balance[k])) => \A k \in Keys : Promised(balance'[k])
  BY <1>1, <1>2, <1>3 DEF Typed, TypeOK
<1>. QED BY <1>7, <1>8

LEMMA TypedRestart ==
    ASSUME IsFiniteSet(Orders), Typed, Restart
    PROVE  Typed'
<1>1. ASSUME NEW b \in Keys, NEW state PROVE HoldersOf(b, state) \in Nat
  <2>1. IsFiniteSet({o \in Orders : OrderKey[o] = b /\ orderHold[o] = state})
    BY FS_Subset
  <2>. QED BY <2>1, FS_CardinalityType DEF HoldersOf
<1>2. balance' \in [Keys -> Row] /\ db' \in [Keys -> Row]
  BY <1>1 DEF Restart, Typed, TypeOK, Row
<1>3. \A c \in Calls : ~Active(c)'
  BY DEF Restart, Active, Idle
<1>4. Known' = Known /\ restarts' \in 0 .. MaxRestarts
  BY TransferBoundsAssumption DEF Restart, Known, Typed, TypeOK
<1>. QED BY <1>2, <1>3, <1>4 DEF Restart, Typed, TypeOK, Existing, Stocked

LEMMA TypedStep ==
    ASSUME IsFiniteSet(Orders), Typed, [Next]_vars
    PROVE  Typed'
<1>1. ASSUME NEW c \in Calls, Request(c) PROVE Typed'
  BY <1>1, TypedRequest
<1>2. ASSUME NEW c \in Calls, Continue(c) PROVE Typed'
  BY <1>2, TypedMutate, TypedConflict, TypedUpsert, TypedInsert, TypedRecords, TypedUpdateLine
     DEF Continue, Record
<1>3. ASSUME NEW o \in Orders, NEW op \in OrderOps, SyncOrder(o, op) PROVE Typed'
  BY <1>3, TypedSyncOrder
<1>4. CASE UNCHANGED vars
  BY <1>4 DEF vars, Typed, TypeOK, Existing, Stocked, Known, Active
<1>. QED BY <1>1, <1>2, <1>3, <1>4, TypedRestart DEF Next

\* The rows of balances, transfers and calls keep their shape through every step
\* and every restart: no movement takes a counter below zero.
THEOREM TypeCorrect ==
    ASSUME IsFiniteSet(Orders)
    PROVE  Spec => []TypeOK
<1>1. Typed /\ [Next]_vars => Typed'
  BY TypedStep
<1>2. Typed => TypeOK
  BY DEF Typed
<1>. QED BY <1>1, <1>2, TypedInit, PTL DEF Spec

----------------------------------------------------------------------------
\* Only two kinds of step change the balances in memory: a movement whose check
\* passed, and an order's operation whose check passed.
LEMMA PromisedStep ==
    ASSUME Typed, NoDoubleUse, [Next]_vars
    PROVE  NoDoubleUse'
<1>1. SUFFICES ASSUME restarts' = 0 PROVE \A b \in Keys : Promised(balance'[b])
  BY DEF NoDoubleUse, Promised
<1>2. ~Restart
  BY <1>1 DEF Restart, Typed, TypeOK
<1>3. restarts' = restarts
  <2>1. ASSUME NEW c \in Calls, Request(c) PROVE restarts' = restarts
    BY <2>1 DEF Request, createTransfer, dispatchTransfer, cancelTransfer, receiveTransfer,
       reconcileTransfer
  <2>2. ASSUME NEW c \in Calls, Record(c) PROVE restarts' = restarts
    BY <2>2 DEF Record, Insert, RecordCancelled, RecordDispatched, RecordReceived, UpdateLine,
       LinesDone, ReRead, WriteIncident, WriteStatus
  <2>3. ASSUME NEW c \in Calls, Mutate(c) \/ Conflict(c) \/ Upsert(c) PROVE restarts' = restarts
    BY <2>3 DEF Mutate, Conflict, Upsert
  <2>4. ASSUME NEW o \in Orders, NEW op \in OrderOps, SyncOrder(o, op) PROVE restarts' = restarts
    BY <2>4 DEF SyncOrder
  <2>. QED BY <1>2, <2>1, <2>2, <2>3, <2>4 DEF Next, Continue, vars
<1>4. \A b \in Keys : Promised(balance[b])
  BY <1>1, <1>3 DEF NoDoubleUse, Promised
<1>5. ASSUME NEW c \in Calls, Mutate(c) PROVE \A b \in Keys : Promised(balance'[b])
  BY <1>4, <1>5, MutatedRows
<1>6. ASSUME NEW o \in Orders, NEW op \in OrderOps, SyncOrder(o, op)
      PROVE  \A b \in Keys : Promised(balance'[b])
  BY <1>4, <1>6, TypedSyncOrder
<1>7. CASE balance' = balance
  BY <1>4, <1>7
<1>8. \/ balance' = balance
      \/ \E c \in Calls : Mutate(c)
      \/ \E o \in Orders, op \in OrderOps : SyncOrder(o, op)
  BY <1>2, ZenonT(40) DEF Next, Request, createTransfer, dispatchTransfer, cancelTransfer, receiveTransfer,
     reconcileTransfer, Continue, Conflict, Upsert, Record, Insert, RecordCancelled,
     RecordDispatched, RecordReceived, UpdateLine, LinesDone, ReRead, WriteIncident,
     WriteStatus, vars
<1>. QED BY <1>5, <1>6, <1>7, <1>8

\* Transfers and orders never promise a unit twice, whatever calls overlap, until
\* the process restarts.
THEOREM NeverUsedTwice ==
    ASSUME IsFiniteSet(Orders)
    PROVE  Spec => []NoDoubleUse
<1>1. Init => NoDoubleUse
  BY InitialStockAssumption DEF Init, NoDoubleUse, NoRow
<1>2. (Typed /\ NoDoubleUse) /\ [Next]_vars => (Typed /\ NoDoubleUse)'
  BY TypedStep, PromisedStep
<1>. QED BY <1>1, <1>2, TypedInit, PTL DEF Spec

----------------------------------------------------------------------------
\* From here on, two calls never work on one transfer at a time.  Then what a
\* call read of its transfer is still so when it writes.
OneCallPerTransfer ==
    \A c, d \in Calls :
        /\ Active(c) /\ call[c].kind # "create"
        /\ Active(d) /\ call[d].kind # "create"
        /\ call[c].t = call[d].t
        => c = d

Before == {"resolving", "writing", "recording"}

OnCourse(c) ==
    LET k == call[c].kind  ph == call[c].phase  of == call[c].of  x == transfer[call[c].t]
    IN  /\ k = "create" =>
             /\ of.status = "reserved" /\ of.received = NoUnits
             /\ of.origin = call[c].at /\ of.quantity = call[c].units
             /\ of.incident = "none"
        /\ k \in {"cancel", "dispatch"} =>
             /\ x.origin = call[c].at /\ x.quantity = call[c].units /\ x.received = NoUnits
             /\ x.status = IF ph = "lines" THEN "in_transit" ELSE "reserved"
        /\ k = "receive" =>
             /\ x.status \in {"in_transit", "partial_received"}
             /\ x.destination = call[c].at
             /\ ph \in Before => of.received = x.received
             /\ ph = "lines" => \A b \in call[c].left :
                                    b \in CallKeys(c) /\ x.received[b[2]] = of.received[b[2]]
             /\ ph \in {"incident", "status"} =>
                    /\ of.received = x.received
                    /\ of.dispatched = x.dispatched /\ of.quantity = x.quantity
        /\ k = "reconcile" =>
             /\ x.incident # "none"
             /\ ph = "status" => x.incident = "resolved"

SoundTransfer(x) ==
    /\ x.status = "reserved" => x.received = NoUnits
    /\ x.status \in {"reserved", "cancelled"} => x.incident = "none"

Course ==
    /\ OneCallPerTransfer
    /\ \A c \in Calls : Active(c) => OnCourse(c)
    /\ \A t \in Known : SoundTransfer(transfer[t])

LEMMA CourseInit == Init => Course
BY DEF Init, Course, OneCallPerTransfer, Active, Idle, Known, Absent

\* A request starts a call on course, and alone on its transfer.
LEMMA CourseStart ==
    ASSUME Typed, Course, NEW c \in Calls, NEW task \in Tasks, Start(c, task),
           transfer' = transfer, OnCourse(c)',
           task.kind # "create" => InFlight(task.t) = {}
    PROVE  Course'
<1>1. /\ call'[c] = task /\ Active(c)' /\ ~Active(c)
      /\ \A d \in Calls \ {c} : call'[d] = call[d] /\ (Active(d)' <=> Active(d))
  BY DEF Start, Typed, Active, Tasks
<1>2. OneCallPerTransfer'
  BY <1>1 DEF Course, OneCallPerTransfer, InFlight
<1>3. \A d \in Calls \ {c} : Active(d) => OnCourse(d)'
  BY <1>1 DEF Course, OnCourse, CallKeys
<1>. QED BY <1>1, <1>2, <1>3 DEF Course, Known

LEMMA CourseRequest ==
    ASSUME ~Overlap, Typed, Course, NEW c \in Calls, Request(c)
    PROVE  Course'
<1>1. ASSUME NEW w1 \in Warehouses, NEW w2 \in Warehouses, NEW ask \in Asks,
             createTransfer(c, w1, w2, ask)
      PROVE  Course'
  <2>. DEFINE of == [status |-> "reserved", origin |-> w1, destination |-> w2,
                     quantity |-> ask, dispatched |-> NoUnits, received |-> NoUnits,
                     incident |-> "none"]
              task == Task("create", NextNumber, of, w1, ask)
  <2>1. ask \in Quantities /\ NoUnits \in Quantities /\ Variants # {}
    BY AsksAssumption DEF Quantities, NoUnits
  <2>2. of \in Transfer
    BY <2>1 DEF Transfer
  <2>3. task \in Tasks
    <3>. HIDE DEF of
    <3>. QED BY <1>1, <2>1, <2>2, TaskType DEF createTransfer
  <2>4. Start(c, task) /\ transfer' = transfer
    BY <1>1 DEF createTransfer
  <2>5. call'[c] = task
    BY <2>4 DEF Start, Typed
  <2>6. /\ call'[c].kind = "create" /\ call'[c].of = of
        /\ call'[c].at = w1 /\ call'[c].units = ask
    BY <2>5 DEF Task
  <2>7. OnCourse(c)'
    BY <2>6 DEF OnCourse
  <2>. QED BY <2>3, <2>4, <2>5, <2>6, <2>7, CourseStart
<1>2. ASSUME NEW t \in TransferIds, NEW kind \in {"dispatch", "cancel"},
             transfer[t].status = "reserved", Free(t), transfer' = transfer,
             Start(c, Task(kind, t, transfer[t], transfer[t].origin, transfer[t].quantity))
      PROVE  Course'
  <2>. DEFINE task == Task(kind, t, transfer[t], transfer[t].origin, transfer[t].quantity)
  <2>1. t \in Known /\ transfer[t] \in Transfer /\ Variants # {}
    BY <1>2, KnownTransfer DEF Known, Typed, Stocked
  <2>2. transfer[t].origin \in Warehouses /\ transfer[t].quantity \in Quantities
    BY <2>1 DEF Transfer
  <2>3. task \in Tasks
    BY <2>1, <2>2, TaskType
  <2>4. call'[c] = task
    BY <1>2 DEF Start, Typed
  <2>5. /\ call'[c].kind = kind /\ call'[c].t = t /\ call'[c].phase = "resolving"
        /\ call'[c].at = transfer[t].origin /\ call'[c].units = transfer[t].quantity
    BY <2>4 DEF Task
  <2>6. transfer[t].received = NoUnits
    BY <1>2, <2>1 DEF Course, SoundTransfer
  <2>7. OnCourse(c)'
    BY <1>2, <2>5, <2>6 DEF OnCourse
  <2>8. task.kind = kind /\ task.t = t /\ InFlight(t) = {}
    BY <1>2 DEF Task, Free
  <2>. HIDE DEF task
  <2>. QED BY <1>2, <2>3, <2>7, <2>8, CourseStart DEF task
<1>3. ASSUME NEW t \in TransferIds, NEW overage \in BOOLEAN, receiveTransfer(c, t, overage)
      PROVE  Course'
  <2>1. t \in Known /\ transfer[t] \in Transfer /\ Variants # {}
    BY <1>3, KnownTransfer DEF receiveTransfer, Known, Typed, Stocked
  <2>2. transfer[t].destination \in Warehouses
    BY <2>1 DEF Transfer
  <2>3. PICK units \in {Remaining(transfer[t])} \cup Receipts :
          Start(c, Task("receive", t, transfer[t], transfer[t].destination, units))
    BY <1>3 DEF receiveTransfer
  <2>. DEFINE task == Task("receive", t, transfer[t], transfer[t].destination, units)
  <2>4. units \in Quantities
    BY <2>1, RemainingType, AsksAssumption DEF Quantities
  <2>5. task \in Tasks
    BY <2>1, <2>2, <2>4, TaskType
  <2>6. call'[c] = task
    BY <2>3 DEF Start, Typed
  <2>7. /\ call'[c].kind = "receive" /\ call'[c].t = t /\ call'[c].phase = "resolving"
        /\ call'[c].at = transfer[t].destination /\ call'[c].of = transfer[t]
    BY <2>6 DEF Task
  <2>8. OnCourse(c)'
    BY <1>3, <2>7 DEF OnCourse, receiveTransfer
  <2>9. task.kind = "receive" /\ task.t = t /\ InFlight(t) = {}
    BY <1>3 DEF Task, Free, receiveTransfer
  <2>10. Start(c, task) /\ transfer' = transfer
    BY <1>3, <2>3 DEF receiveTransfer
  <2>. HIDE DEF task
  <2>. QED BY <2>5, <2>8, <2>9, <2>10, CourseStart
<1>4. ASSUME NEW t \in TransferIds, reconcileTransfer(c, t)
      PROVE  Course'
  <2>1. t \in Known /\ transfer[t] \in Transfer /\ Variants # {}
    BY <1>4, KnownTransfer DEF reconcileTransfer, Known, Typed, Stocked
  <2>2. transfer[t].destination \in Warehouses /\ NoUnits \in Quantities
    BY <2>1 DEF Transfer, NoUnits, Quantities
  <2>. DEFINE base == Task("reconcile", t, transfer[t], transfer[t].destination, NoUnits)
              task == [base EXCEPT !.phase = "incident"]
  <2>3. task \in Tasks /\ task.t = t /\ task.kind = "reconcile" /\ task.phase = "incident"
    BY <2>1, <2>2, TaskType DEF Task
  <2>4. Start(c, task) /\ transfer' = transfer /\ InFlight(t) = {}
    BY <1>4 DEF reconcileTransfer, Free
  <2>. HIDE DEF task
  <2>5. call'[c] = task
    BY <2>4 DEF Start, Typed
  <2>6. OnCourse(c)'
    BY <1>4, <2>3, <2>4, <2>5 DEF OnCourse, reconcileTransfer
  <2>. QED BY <2>3, <2>4, <2>6, CourseStart
<1>. QED BY <1>1, <1>2, <1>3, <1>4 DEF Request, dispatchTransfer, cancelTransfer

\* A step of a call that goes on or ends.  The others see no change: none works
\* on the same row, and a creation inserts a row that nobody has read.
LEMMA CourseGoesOn ==
    ASSUME Typed, Course, NEW c \in Calls, Active(c), NEW task \in {Idle} \cup Tasks,
           call' = [call EXCEPT ![c] = task],
           task # Idle => task.t = call[c].t /\ task.kind = call[c].kind /\ OnCourse(c)',
           \A u \in TransferIds \ {call[c].t} : transfer'[u] = transfer[u],
           call[c].kind = "create" /\ call[c].t \in Known => transfer'[call[c].t] = transfer[call[c].t],
           call[c].t \in Known' => SoundTransfer(transfer'[call[c].t])
    PROVE  Course'
<1>1. /\ call'[c] = task
      /\ \A d \in Calls \ {c} : call'[d] = call[d] /\ (Active(d)' <=> Active(d))
  BY DEF Typed, Active
<1>2. Active(c)' => task # Idle
  BY <1>1 DEF Active, Idle
<1>3. OneCallPerTransfer'
  BY <1>1, <1>2 DEF Course, OneCallPerTransfer
<1>4. ASSUME NEW d \in Calls \ {c}, Active(d) PROVE OnCourse(d)'
  <2>1. OnCourse(d) /\ call'[d] = call[d]
    BY <1>1, <1>4 DEF Course
  <2>2. CASE call[d].kind = "create"
    BY <2>1, <2>2 DEF OnCourse
  <2>3. CASE call[d].kind # "create"
    <3>1. call[d].t \in TransferIds /\ call[d].t \in Known
      BY <1>4, <2>3, RowOf
    <3>2. transfer'[call[d].t] = transfer[call[d].t]
      <4>1. CASE call[c].kind = "create"
        BY <3>1, <4>1
      <4>2. CASE call[c].kind # "create"
        <5>1. call[d].t # call[c].t
          BY <1>4, <2>3, <4>2 DEF Course, OneCallPerTransfer
        <5>. QED BY <3>1, <5>1
      <4>. QED BY <4>1, <4>2
    <3>. QED BY <2>1, <3>2 DEF OnCourse, CallKeys
  <2>. QED BY <2>2, <2>3
<1>5. \A u \in Known' : SoundTransfer(transfer'[u])
  BY DEF Course, Known
<1>. QED BY <1>1, <1>2, <1>3, <1>4, <1>5 DEF Course, SoundTransfer

\* The row a call works on, and the call itself, on course.
LEMMA CoursePart ==
    ASSUME Typed, Course, NEW c \in Calls, Active(c)
    PROVE  /\ OnCourse(c) /\ call[c] \in Tasks /\ CallKeys(c) \subseteq Keys
           /\ call[c].phase \in PhasesOf(call[c].kind)
           /\ call[c].t \in TransferIds
           /\ call[c].t \in Known => SoundTransfer(transfer[call[c].t])
           /\ call[c].kind # "create" => call[c].t \in Known /\ transfer[call[c].t] \in Transfer
BY TaskParts, RowOf DEF Course, Tasks

\* The steps in InventoryService change nothing of the call but its phase.
LEMMA CourseInventory ==
    ASSUME Typed, Course, NEW c \in Calls, Mutate(c) \/ Conflict(c) \/ Upsert(c)
    PROVE  Course'
<1>1. Active(c) /\ transfer' = transfer
  BY DEF Mutate, Conflict, Upsert, Active
<1>2. /\ OnCourse(c) /\ call[c] \in Tasks
      /\ call[c].t \in Known' => SoundTransfer(transfer'[call[c].t])
  BY <1>1, CoursePart DEF Known
<1>3. CASE Conflict(c)
  BY <1>1, <1>2, <1>3, CourseGoesOn DEF Conflict, End
<1>4. ASSUME NEW task \in Tasks, call' = [call EXCEPT ![c] = task],
             task.t = call[c].t, task.kind = call[c].kind, task.of = call[c].of,
             task.at = call[c].at, task.units = call[c].units,
             call[c].phase \in Before, task.phase \in Before
      PROVE  Course'
  <2>1. call'[c] = task
    BY <1>4 DEF Typed
  <2>2. OnCourse(c)'
    BY <1>1, <1>2, <1>4, <2>1 DEF OnCourse, Before
  <2>. QED BY <1>1, <1>2, <1>4, <2>2, CourseGoesOn
<1>5. CASE Mutate(c)
  <2>1. CASE CallKeys(c) = {}
    <3>. DEFINE task == [call[c] EXCEPT !.phase = "recording"]
    <3>1. /\ call' = [call EXCEPT ![c] = task]
          /\ call[c].phase = "resolving"
      BY <1>5, <2>1 DEF Mutate, Goto
    <3>2. task \in Tasks
      BY <1>2, <3>1 DEF Tasks, PhasesOf
    <3>3. /\ task.t = call[c].t /\ task.kind = call[c].kind /\ task.of = call[c].of
          /\ task.at = call[c].at /\ task.units = call[c].units /\ task.phase = "recording"
      BY <1>2 DEF Tasks
    <3>. HIDE DEF task
    <3>. QED BY <1>4, <3>1, <3>2, <3>3 DEF Before
  <2>2. CASE CallKeys(c) # {}
    <3>1. PICK b \in CallKeys(c) :
            call' = [call EXCEPT ![c].phase = "writing", ![c].key = b, ![c].row = balance'[b],
                                 ![c].left = CallKeys(c) \ {b}]
      BY <1>5, <2>2 DEF Mutate
    <3>. DEFINE task == [call[c] EXCEPT !.phase = "writing", !.key = b, !.row = balance'[b],
                                        !.left = CallKeys(c) \ {b}]
    <3>2. b \in Keys /\ balance'[b] \in Row /\ CallKeys(c) \ {b} \in SUBSET Keys
      BY <1>1, <1>5, TaskParts, MutatedRows
    <3>3. task \in Tasks /\ call[c].phase = "resolving"
      BY <1>2, <1>5, <3>2 DEF Tasks, PhasesOf, Mutate
    <3>4. call' = [call EXCEPT ![c] = task]
      BY <3>1 DEF Typed
    <3>5. /\ task.t = call[c].t /\ task.kind = call[c].kind /\ task.of = call[c].of
          /\ task.at = call[c].at /\ task.units = call[c].units /\ task.phase = "writing"
      BY <1>2 DEF Tasks
    <3>. HIDE DEF task
    <3>. QED BY <1>4, <3>3, <3>4, <3>5 DEF Before
  <2>. QED BY <2>1, <2>2
<1>6. CASE Upsert(c)
  <2>0. call[c].phase = "writing" /\ call[c].kind # "reconcile"
    BY <1>2, <1>6 DEF Upsert, Tasks, PhasesOf
  <2>1. CASE call[c].left = {}
    <3>. DEFINE task == [call[c] EXCEPT !.phase = "recording", !.row = NoRow]
    <3>1. task \in Tasks
      BY <1>2, <2>0 DEF Tasks, PhasesOf, NoRow, Row
    <3>2. call' = [call EXCEPT ![c] = task]
      BY <1>6, <2>1 DEF Upsert
    <3>3. /\ task.t = call[c].t /\ task.kind = call[c].kind /\ task.of = call[c].of
          /\ task.at = call[c].at /\ task.units = call[c].units /\ task.phase = "recording"
      BY <1>2 DEF Tasks
    <3>. HIDE DEF task
    <3>. QED BY <1>4, <2>0, <3>1, <3>2, <3>3 DEF Before
  <2>2. CASE call[c].left # {}
    <3>1. PICK b \in call[c].left :
            call' = [call EXCEPT ![c].key = b, ![c].row = balance[b], ![c].left = @ \ {b}]
      BY <1>6, <2>2 DEF Upsert
    <3>. DEFINE task == [call[c] EXCEPT !.key = b, !.row = balance[b], !.left = @ \ {b}]
    <3>2. b \in Keys /\ balance[b] \in Row /\ call[c].left \ {b} \in SUBSET Keys
      BY <1>2 DEF Tasks, Typed, TypeOK
    <3>3. task \in Tasks
      BY <1>2, <3>2 DEF Tasks, PhasesOf
    <3>4. call' = [call EXCEPT ![c] = task]
      BY <3>1 DEF Typed
    <3>5. /\ task.t = call[c].t /\ task.kind = call[c].kind /\ task.of = call[c].of
          /\ task.at = call[c].at /\ task.units = call[c].units /\ task.phase = "writing"
      BY <1>2, <2>0 DEF Tasks
    <3>. HIDE DEF task
    <3>. QED BY <1>4, <2>0, <3>3, <3>4, <3>5 DEF Before
  <2>. QED BY <2>1, <2>2
<1>. QED BY <1>3, <1>5, <1>6

\* A call ends as it writes the row: only the row has to be sound.
LEMMA CourseEnds ==
    ASSUME Typed, Course, NEW c \in Calls, Active(c), call' = [call EXCEPT ![c] = Idle],
           call[c].kind # "create" \/ call[c].t \notin Known,
           NEW x, SoundTransfer(x), transfer' = [transfer EXCEPT ![call[c].t] = x]
    PROVE  Course'
<1>1. call[c].t \in TransferIds
  BY CoursePart
<1>2. transfer'[call[c].t] = x /\ \A u \in TransferIds \ {call[c].t} : transfer'[u] = transfer[u]
  BY <1>1 DEF Typed, TypeOK
<1>. QED BY <1>2, CourseGoesOn

LEMMA CourseInsert ==
    ASSUME Typed, Course, NEW c \in Calls, Insert(c)
    PROVE  Course'
<1>1. Active(c) /\ call' = [call EXCEPT ![c] = Idle]
  BY DEF Insert, Active, End
<1>2. OnCourse(c) /\ (call[c].t \in Known => SoundTransfer(transfer[call[c].t]))
  BY <1>1, CoursePart
<1>3. CASE call[c].t \in Known
  <2>1. transfer' = transfer
    BY <1>3 DEF Insert
  <2>. QED BY <1>1, <1>2, <2>1, CourseGoesOn DEF Known
<1>4. CASE call[c].t \notin Known
  <2>1. SoundTransfer(call[c].of)
    BY <1>2 DEF OnCourse, Insert, SoundTransfer
  <2>. QED BY <1>1, <1>4, <2>1, CourseEnds DEF Insert
<1>. QED BY <1>3, <1>4

LEMMA CourseRecordCancelled ==
    ASSUME Typed, Course, NEW c \in Calls, RecordCancelled(c)
    PROVE  Course'
<1>1. Active(c) /\ call' = [call EXCEPT ![c] = Idle] /\ call[c].kind = "cancel"
  BY DEF RecordCancelled, Active, End
<1>. DEFINE x == [transfer[call[c].t] EXCEPT !.status = "cancelled"]
<1>2. /\ transfer[call[c].t] \in Transfer /\ SoundTransfer(transfer[call[c].t])
      /\ transfer[call[c].t].status = "reserved"
  BY <1>1, CoursePart DEF OnCourse, RecordCancelled
<1>3. SoundTransfer(x)
  BY <1>2 DEF SoundTransfer, Transfer
<1>4. transfer' = [transfer EXCEPT ![call[c].t] = x]
  BY DEF RecordCancelled
<1>. HIDE DEF x
<1>. QED BY <1>1, <1>3, <1>4, CourseEnds

\* A step of a call to a later phase that leaves the row alone.
LEMMA CourseLater ==
    ASSUME Typed, Course, NEW c \in Calls, Active(c), transfer' = transfer,
           NEW task \in Tasks, call' = [call EXCEPT ![c] = task],
           task.t = call[c].t, task.kind = call[c].kind, OnCourse(c)'
    PROVE  Course'
<1>1. call[c].t \in Known' => SoundTransfer(transfer'[call[c].t])
  BY CoursePart DEF Known
<1>. QED BY <1>1, CourseGoesOn

LEMMA CourseRecordDispatched ==
    ASSUME Typed, Course, NEW c \in Calls, RecordDispatched(c)
    PROVE  Course'
<1>1. Active(c) /\ call[c].kind = "dispatch" /\ call[c].phase = "recording"
  BY DEF RecordDispatched, Active
<1>2. /\ OnCourse(c) /\ call[c] \in Tasks /\ CallKeys(c) \subseteq Keys
      /\ call[c].t \in TransferIds /\ transfer[call[c].t] \in Transfer
  BY <1>1, CoursePart
<1>. DEFINE x == [transfer[call[c].t] EXCEPT !.status = "in_transit"]
            task == [call[c] EXCEPT !.phase = "lines", !.left = CallKeys(c)]
<1>3. transfer'[call[c].t] = x /\ \A u \in TransferIds \ {call[c].t} : transfer'[u] = transfer[u]
  BY <1>2 DEF RecordDispatched, Typed, TypeOK
<1>4. SoundTransfer(x) /\ x.received = transfer[call[c].t].received
      /\ x.origin = transfer[call[c].t].origin /\ x.quantity = transfer[call[c].t].quantity
      /\ x.status = "in_transit"
  BY <1>2 DEF SoundTransfer, Transfer
<1>5. /\ task \in Tasks /\ task.t = call[c].t /\ task.kind = "dispatch" /\ task.at = call[c].at
      /\ task.units = call[c].units /\ task.phase = "lines"
  BY <1>1, <1>2 DEF Tasks, PhasesOf
<1>6. call' = [call EXCEPT ![c] = task]
  BY DEF RecordDispatched, Typed
<1>7. call'[c] = task
  BY <1>6 DEF Typed
<1>. HIDE DEF x, task
<1>8. OnCourse(c)'
  BY <1>1, <1>2, <1>3, <1>4, <1>5, <1>7 DEF OnCourse
<1>. QED BY <1>1, <1>3, <1>4, <1>5, <1>6, <1>8, CourseGoesOn

LEMMA CourseRecordReceived ==
    ASSUME Typed, Course, NEW c \in Calls, RecordReceived(c)
    PROVE  Course'
<1>1. Active(c) /\ call[c].kind = "receive" /\ call[c].phase = "recording" /\ transfer' = transfer
  BY DEF RecordReceived, Active
<1>2. OnCourse(c) /\ call[c] \in Tasks /\ CallKeys(c) \subseteq Keys
  BY <1>1, CoursePart
<1>. DEFINE task == [call[c] EXCEPT !.phase = IF CallKeys(c) = {} THEN "rereading" ELSE "lines",
                                    !.left = CallKeys(c)]
<1>3. /\ task \in Tasks /\ task.t = call[c].t /\ task.kind = "receive" /\ task.at = call[c].at
      /\ task.units = call[c].units /\ task.phase \in {"rereading", "lines"}
      /\ task.of = call[c].of /\ task.left = CallKeys(c)
  BY <1>1, <1>2 DEF Tasks, PhasesOf
<1>4. call' = [call EXCEPT ![c] = task]
  BY DEF RecordReceived, Typed
<1>5. call'[c] = task
  BY <1>4 DEF Typed
<1>. HIDE DEF task
<1>6. CallKeys(c)' = CallKeys(c)
  BY <1>3, <1>5 DEF CallKeys
<1>7. OnCourse(c)'
  BY <1>1, <1>2, <1>3, <1>5, <1>6 DEF OnCourse, Before
<1>. QED BY <1>1, <1>3, <1>4, <1>7, CourseLater

\* A line of a row that is on the road: the other lines stay as they were read.
LEMMA CourseUpdateLine ==
    ASSUME Typed, Course, NEW c \in Calls, NEW b \in Keys, UpdateLine(c, b)
    PROVE  Course'
<1>1. Active(c) /\ call[c].phase = "lines" /\ b \in call[c].left
  BY DEF UpdateLine, Active
<1>2. /\ OnCourse(c) /\ call[c] \in Tasks
      /\ call[c].kind \in {"dispatch", "receive"}
  BY <1>1, CoursePart DEF Tasks, PhasesOf
<1>3. call[c].t \in TransferIds /\ transfer[call[c].t] \in Transfer
  BY <1>1, <1>2, CoursePart
<1>. DEFINE old == transfer[call[c].t]
            q == IF call[c].kind = "dispatch" THEN 0
                 ELSE call[c].of.received[b[2]] + Units(c, b)
            x == [old EXCEPT
                   !.dispatched[b[2]] = IF call[c].kind = "dispatch" THEN Units(c, b) ELSE @,
                   !.received[b[2]] = q]
            task == [call[c] EXCEPT !.left = @ \ {b}]
<1>4. /\ x.status = old.status /\ x.origin = old.origin /\ x.quantity = old.quantity
      /\ x.destination = old.destination /\ x.received = [old.received EXCEPT ![b[2]] = q]
  BY <1>3 DEF Transfer
<1>5. old.received \in Quantities /\ b[2] \in Variants
  BY <1>3 DEF Transfer, Keys
<1>6. transfer' = [transfer EXCEPT ![call[c].t] = x]
  BY <1>3 DEF UpdateLine, Typed, TypeOK
<1>7. transfer'[call[c].t] = x /\ \A u \in TransferIds \ {call[c].t} : transfer'[u] = transfer[u]
  <2>. HIDE DEF x
  <2>. QED BY <1>3, <1>6 DEF Typed, TypeOK
<1>8. /\ task \in Tasks /\ task.t = call[c].t /\ task.kind = call[c].kind
      /\ task.at = call[c].at /\ task.units = call[c].units /\ task.phase = "lines"
      /\ task.of = call[c].of /\ task.left = call[c].left \ {b}
  BY <1>1, <1>2 DEF Tasks, PhasesOf
<1>9. call' = [call EXCEPT ![c] = task]
  BY DEF UpdateLine, Typed
<1>10. call'[c] = task
  BY <1>9 DEF Typed
<1>. HIDE DEF x, task
<1>11. CallKeys(c)' = CallKeys(c)
  BY <1>8, <1>10 DEF CallKeys
<1>12. CASE call[c].kind = "dispatch"
  <2>1. old.received = NoUnits /\ old.status = "in_transit"
        /\ old.origin = call[c].at /\ old.quantity = call[c].units
    BY <1>1, <1>2, <1>12 DEF OnCourse
  <2>2. x.received = NoUnits
    BY <1>4, <1>5, <1>12, <2>1 DEF NoUnits
  <2>. HIDE DEF q
  <2>3. OnCourse(c)'
    BY <1>4, <1>7, <1>8, <1>10, <1>12, <2>1, <2>2 DEF OnCourse
  <2>4. SoundTransfer(x)
    BY <1>4, <2>1 DEF SoundTransfer
  <2>. QED BY <1>1, <1>7, <1>8, <1>9, <1>12, <2>3, <2>4, CourseGoesOn
<1>13. CASE call[c].kind = "receive"
  <2>1. /\ old.status \in {"in_transit", "partial_received"} /\ old.destination = call[c].at
        /\ \A k \in call[c].left :
             k \in CallKeys(c) /\ old.received[k[2]] = call[c].of.received[k[2]]
    BY <1>1, <1>2, <1>13 DEF OnCourse
  <2>2. ASSUME NEW k \in call[c].left \ {b}
        PROVE  k \in CallKeys(c) /\ x.received[k[2]] = call[c].of.received[k[2]]
    <3>1. k \in CallKeys(c) /\ b \in CallKeys(c)
      BY <1>1, <2>1
    <3>2. k[2] # b[2] /\ k[2] \in Variants
      BY <3>1 DEF CallKeys, Keys
    <3>. HIDE DEF q, old
    <3>. QED BY <1>4, <1>5, <2>1, <3>1, <3>2 DEF Quantities
  <2>. HIDE DEF q, old
  <2>5. /\ call'[c].kind = "receive" /\ call'[c].phase = "lines" /\ call'[c].t = call[c].t
        /\ call'[c].at = call[c].at /\ call'[c].of = call[c].of
        /\ call'[c].left = call[c].left \ {b}
    BY <1>8, <1>10, <1>13
  <2>6. /\ transfer'[call'[c].t].status \in {"in_transit", "partial_received"}
        /\ transfer'[call'[c].t].destination = call'[c].at
    BY <1>4, <1>7, <2>1, <2>5
  <2>7. \A k \in call'[c].left :
          k \in CallKeys(c)' /\ transfer'[call'[c].t].received[k[2]] = call'[c].of.received[k[2]]
    BY <1>7, <1>11, <2>2, <2>5
  <2>3. OnCourse(c)'
    BY <2>5, <2>6, <2>7 DEF OnCourse, Before
  <2>4. SoundTransfer(x)
    BY <1>4, <2>1 DEF SoundTransfer
  <2>. QED BY <1>1, <1>7, <1>8, <1>9, <1>13, <2>3, <2>4, CourseGoesOn
<1>. QED BY <1>2, <1>12, <1>13

LEMMA CourseLinesDone ==
    ASSUME Typed, Course, NEW c \in Calls, LinesDone(c)
    PROVE  Course'
<1>1. Active(c) /\ call[c].phase = "lines" /\ transfer' = transfer
  BY DEF LinesDone, Active
<1>2. /\ OnCourse(c) /\ call[c] \in Tasks
      /\ call[c].kind \in {"dispatch", "receive"}
      /\ call[c].t \in Known => SoundTransfer(transfer[call[c].t])
  BY <1>1, CoursePart DEF Tasks, PhasesOf
<1>3. CASE call[c].kind = "dispatch"
  <2>1. call' = [call EXCEPT ![c] = Idle]
    BY <1>3 DEF LinesDone, End
  <2>. QED BY <1>1, <1>2, <1>3, <2>1, CourseGoesOn DEF Known
<1>4. CASE call[c].kind = "receive"
  <2>. DEFINE task == [call[c] EXCEPT !.phase = "rereading"]
  <2>1. /\ task \in Tasks /\ task.t = call[c].t /\ task.kind = "receive" /\ task.at = call[c].at
        /\ task.phase = "rereading"
    BY <1>2, <1>4 DEF Tasks, PhasesOf
  <2>2. call' = [call EXCEPT ![c] = task]
    BY <1>4 DEF LinesDone, Goto
  <2>3. call'[c] = task
    BY <2>2 DEF Typed
  <2>. HIDE DEF task
  <2>4. OnCourse(c)'
    BY <1>1, <1>2, <1>4, <2>1, <2>3 DEF OnCourse, Before
  <2>. QED BY <1>1, <1>4, <2>1, <2>2, <2>4, CourseLater
<1>. QED BY <1>2, <1>3, <1>4

LEMMA CourseReRead ==
    ASSUME Typed, Course, NEW c \in Calls, ReRead(c)
    PROVE  Course'
<1>1. Active(c) /\ call[c].phase = "rereading" /\ transfer' = transfer
  BY DEF ReRead, Active
<1>2. OnCourse(c) /\ call[c] \in Tasks /\ call[c].kind = "receive"
  BY <1>1, CoursePart DEF Tasks, PhasesOf
<1>3. transfer[call[c].t] \in Transfer
  BY <1>1, <1>2, CoursePart
<1>. DEFINE task == [call[c] EXCEPT !.of = transfer[call[c].t],
                                    !.phase = IF Discrepant(transfer[call[c].t])
                                                 \/ transfer[call[c].t].incident = "open"
                                              THEN "incident" ELSE "status"]
<1>4. /\ task \in Tasks /\ task.t = call[c].t /\ task.kind = "receive" /\ task.at = call[c].at
      /\ task.of = transfer[call[c].t] /\ task.phase \in {"incident", "status"}
  BY <1>2, <1>3 DEF Tasks, PhasesOf
<1>5. call' = [call EXCEPT ![c] = task]
  BY DEF ReRead, Typed
<1>6. call'[c] = task
  BY <1>5 DEF Typed
<1>. HIDE DEF task
<1>7. OnCourse(c)'
  BY <1>1, <1>2, <1>4, <1>6 DEF OnCourse, Before
<1>. QED BY <1>1, <1>2, <1>4, <1>5, <1>7, CourseLater

LEMMA CourseWriteIncident ==
    ASSUME Typed, Course, NEW c \in Calls, WriteIncident(c)
    PROVE  Course'
<1>1. Active(c) /\ call[c].phase = "incident"
  BY DEF WriteIncident, Active
<1>2. OnCourse(c) /\ call[c] \in Tasks /\ call[c].kind \in {"receive", "reconcile"}
  BY <1>1, CoursePart DEF Tasks, PhasesOf
<1>3. /\ call[c].t \in TransferIds /\ call[c].t \in Known /\ transfer[call[c].t] \in Transfer
      /\ SoundTransfer(transfer[call[c].t])
  BY <1>1, <1>2, CoursePart
<1>. DEFINE old == transfer[call[c].t]
            x == [old EXCEPT !.incident = IF Opens(c) THEN "open" ELSE "resolved"]
            task == [call[c] EXCEPT !.phase = "status"]
<1>4. /\ x.status = old.status /\ x.destination = old.destination /\ x.received = old.received
      /\ x.dispatched = old.dispatched /\ x.quantity = old.quantity
      /\ x.incident = IF Opens(c) THEN "open" ELSE "resolved"
  BY <1>3 DEF Transfer
<1>5. transfer' = [transfer EXCEPT ![call[c].t] = x]
  BY DEF WriteIncident
<1>6. transfer'[call[c].t] = x /\ \A u \in TransferIds \ {call[c].t} : transfer'[u] = transfer[u]
  <2>. HIDE DEF x
  <2>. QED BY <1>3, <1>5 DEF Typed, TypeOK
<1>7. /\ task \in Tasks /\ task.t = call[c].t /\ task.kind = call[c].kind
      /\ task.at = call[c].at /\ task.of = call[c].of /\ task.phase = "status"
  BY <1>1, <1>2 DEF Tasks, PhasesOf
<1>8. call' = [call EXCEPT ![c] = task]
  BY DEF WriteIncident, Goto
<1>9. call'[c] = task
  BY <1>8 DEF Typed
<1>10. call[c].kind = "reconcile" => x.incident = "resolved"
  BY <1>4 DEF Opens
<1>14. x.status \notin {"reserved", "cancelled"}
  BY <1>1, <1>2, <1>3, <1>4 DEF OnCourse, SoundTransfer
<1>. HIDE DEF x, task, old
<1>12. OnCourse(c)'
  BY <1>1, <1>2, <1>4, <1>6, <1>7, <1>9, <1>10 DEF OnCourse, Before, old
<1>13. SoundTransfer(x)
  BY <1>3, <1>4, <1>14 DEF SoundTransfer, old
<1>. QED BY <1>1, <1>2, <1>6, <1>7, <1>8, <1>12, <1>13, CourseGoesOn

LEMMA CourseWriteStatus ==
    ASSUME Typed, Course, NEW c \in Calls, WriteStatus(c)
    PROVE  Course'
<1>1. Active(c) /\ call[c].phase = "status" /\ call' = [call EXCEPT ![c] = Idle]
  BY DEF WriteStatus, Active, End
<1>2. OnCourse(c) /\ call[c] \in Tasks /\ call[c].kind \in {"receive", "reconcile"}
  BY <1>1, CoursePart DEF Tasks, PhasesOf
<1>3. transfer[call[c].t] \in Transfer
  BY <1>1, <1>2, CoursePart
<1>. DEFINE old == transfer[call[c].t]
            x == [old EXCEPT !.status = IF Opens(c) THEN "partial_received" ELSE "received"]
<1>4. /\ x.status = IF Opens(c) THEN "partial_received" ELSE "received"
      /\ x.received = old.received /\ x.dispatched = old.dispatched
      /\ x.quantity = old.quantity /\ x.incident = old.incident
  BY <1>3 DEF Transfer
<1>5. transfer' = [transfer EXCEPT ![call[c].t] = x]
  BY DEF WriteStatus
<1>. HIDE DEF x
<1>. QED BY <1>1, <1>2, <1>4, <1>5, CourseEnds DEF SoundTransfer

LEMMA CourseStep ==
    ASSUME ~Overlap, Typed, Course, [Next]_vars
    PROVE  Course'
<1>1. ASSUME NEW c \in Calls, Request(c) PROVE Course'
  BY <1>1, CourseRequest
<1>2. ASSUME NEW c \in Calls, Continue(c) PROVE Course'
  BY <1>2, CourseInventory, CourseInsert, CourseRecordCancelled, CourseRecordDispatched,
     CourseRecordReceived, CourseUpdateLine, CourseLinesDone, CourseReRead, CourseWriteIncident,
     CourseWriteStatus DEF Continue, Record
<1>3. CASE UNCHANGED <<transfer, call>>
  BY <1>3 DEF Course, OneCallPerTransfer, Active, OnCourse, CallKeys, Known, SoundTransfer
<1>4. CASE Restart
  <2>1. transfer' = transfer /\ \A c \in Calls : ~Active(c)'
    BY <1>4 DEF Restart, Active, Idle
  <2>. QED BY <2>1 DEF Course, OneCallPerTransfer, Known
<1>5. UNCHANGED vars \/ (\E o \in Orders, op \in OrderOps : SyncOrder(o, op))
        => UNCHANGED <<transfer, call>>
  BY DEF vars, SyncOrder
<1>. QED BY <1>1, <1>2, <1>3, <1>4, <1>5 DEF Next

----------------------------------------------------------------------------
\* The books.  What one call, or one transfer, counts for at a balance.
Moving(c, b, kinds) ==
    IF Active(c) /\ call[c].kind \in kinds /\ call[c].at = b[1] THEN Unrecorded(c, b) ELSE 0
Kept(t, b) ==
    IF transfer[t].status = "reserved" /\ transfer[t].origin = b[1]
    THEN transfer[t].quantity[b[2]] ELSE 0
Sent(t, b) ==
    IF /\ transfer[t].status \in {"in_transit", "partial_received", "received"}
       /\ transfer[t].origin = b[1]
    THEN transfer[t].quantity[b[2]] ELSE 0
Counted(t, b) ==
    IF t \in Known /\ transfer[t].destination = b[1] THEN transfer[t].received[b[2]] ELSE 0

MovingMap(b, kinds) == [c \in Calls |-> Moving(c, b, kinds)]
KeptMap(b) == [t \in TransferIds |-> Kept(t, b)]
SentMap(b) == [t \in TransferIds |-> Sent(t, b)]
CountedMap(b) == [t \in TransferIds |-> Counted(t, b)]

Counts ==
    /\ \A b, kinds : InCalls(b, kinds) = Tally(MovingMap(b, kinds))
    /\ \A b : /\ Separated(b) = Tally(KeptMap(b))
              /\ Gone(b) = Tally(SentMap(b))
              /\ Arrived(b) = Tally(CountedMap(b))
LEMMA Tallies == Counts
BY DEF Counts, InCalls, Separated, Gone, Arrived, MovingMap, KeptMap, SentMap, CountedMap,
       Moving, Kept, Sent, Counted

ShareTypes ==
  \A b \in Keys :
    /\ \A c \in Calls : \A kinds : Moving(c, b, kinds) \in Nat
    /\ \A t \in TransferIds : Kept(t, b) \in Nat /\ Sent(t, b) \in Nat /\ Counted(t, b) \in Nat

LEMMA SharesType == Typed => ShareTypes
<1> SUFFICES ASSUME Typed, NEW b \in Keys
    PROVE  /\ \A c \in Calls : \A kinds : Moving(c, b, kinds) \in Nat
           /\ \A t \in TransferIds :
                Kept(t, b) \in Nat /\ Sent(t, b) \in Nat /\ Counted(t, b) \in Nat
  BY DEF ShareTypes
<1>1. ASSUME NEW c \in Calls, NEW kinds PROVE Moving(c, b, kinds) \in Nat
  <2>1. Active(c) => Units(c, b) \in Nat
    BY TaskParts
  <2>. QED BY <2>1 DEF Moving, Unrecorded
<1>2. ASSUME NEW t \in TransferIds
      PROVE  Kept(t, b) \in Nat /\ Sent(t, b) \in Nat /\ Counted(t, b) \in Nat
  <2>1. transfer[t] = Absent \/ transfer[t] \in Transfer
    BY DEF Typed, TypeOK
  <2>2. transfer[t] \in Transfer => /\ transfer[t].quantity[b[2]] \in Nat
                                    /\ transfer[t].received[b[2]] \in Nat
    BY DEF Transfer, Quantities, Keys
  <2>. QED BY <2>1, <2>2 DEF Kept, Sent, Counted, Known, Absent
<1>. QED BY <1>1, <1>2

\* A function that changes at one point changes its tally by the difference there.
LEMMA Pile ==
    ASSUME NEW i, NEW n \in Nat
    PROVE  IsFiniteSet({i} \X (1 .. n)) /\ Cardinality({i} \X (1 .. n)) = n
<1>1. IsFiniteSet(1 .. n) /\ Cardinality(1 .. n) = n
  BY FS_Interval
<1>2. IsFiniteSet({i}) /\ Cardinality({i}) = 1
  BY FS_Singleton
<1>3. /\ IsFiniteSet({i} \X (1 .. n))
      /\ Cardinality({i} \X (1 .. n)) = Cardinality({i}) * Cardinality(1 .. n)
  BY <1>1, <1>2, FS_Product, Zenon
<1>. QED BY <1>1, <1>2, <1>3

LEMMA TallyWithout ==
    ASSUME NEW S, NEW n \in [S -> Nat], NEW i \in S, NEW rest,
           rest = UNION {{j} \X (1 .. n[j]) : j \in S \ {i}}, IsFiniteSet(rest)
    PROVE  /\ IsFiniteSet(Tokens(n))
           /\ Cardinality(rest) \in Nat
           /\ Tally(n) = Cardinality(rest) + n[i]
<1>. DEFINE own == {i} \X (1 .. n[i])
<1>1. DOMAIN n = S /\ n[i] \in Nat
  OBVIOUS
<1>2. Tokens(n) = rest \cup own
  BY <1>1 DEF Tokens
<1>3. rest \cap own = {}
  OBVIOUS
<1>4. IsFiniteSet(own) /\ Cardinality(own) = n[i]
  BY <1>1, Pile
<1>. HIDE DEF own
<1>5. /\ IsFiniteSet(rest \cup own)
      /\ Cardinality(rest \cup own) = Cardinality(rest) + Cardinality(own) - Cardinality(rest \cap own)
  BY <1>4, FS_Union, Zenon
<1>6. Cardinality(rest \cap own) = 0 /\ Cardinality(rest) \in Nat
  BY <1>3, FS_EmptySet, FS_CardinalityType
<1>. QED BY <1>1, <1>2, <1>4, <1>5, <1>6 DEF Tally

LEMMA TallyChange ==
    ASSUME NEW S, NEW n \in [S -> Nat], NEW m \in [S -> Nat], NEW i \in S,
           \A j \in S \ {i} : m[j] = n[j], IsFiniteSet(Tokens(n))
    PROVE  /\ IsFiniteSet(Tokens(m))
           /\ Tally(n) \in Nat /\ Tally(m) \in Nat
           /\ Tally(m) + n[i] = Tally(n) + m[i]
           /\ n[i] <= Tally(n)
<1>0. PICK rest : rest = UNION {{j} \X (1 .. n[j]) : j \in S \ {i}}
  OBVIOUS
<1>1. rest = UNION {{j} \X (1 .. m[j]) : j \in S \ {i}}
  BY <1>0
<1>2. rest \subseteq Tokens(n)
  BY <1>0 DEF Tokens
<1>3. IsFiniteSet(rest)
  BY <1>2, FS_Subset
<1>4. Cardinality(rest) \in Nat /\ Tally(n) = Cardinality(rest) + n[i]
  BY <1>0, <1>3, TallyWithout
<1>5. IsFiniteSet(Tokens(m)) /\ Tally(m) = Cardinality(rest) + m[i]
  BY <1>1, <1>3, TallyWithout
<1>. QED BY <1>4, <1>5

\* Nothing counted.
LEMMA TallyOfNone ==
    ASSUME NEW S, NEW n \in [S -> Nat], \A i \in S : n[i] = 0
    PROVE  IsFiniteSet(Tokens(n)) /\ Tally(n) = 0
<1>1. \A i \in S : 1 .. n[i] = {}
  OBVIOUS
<1>2. Tokens(n) = {}
  BY <1>1 DEF Tokens
<1>. QED BY <1>2, FS_EmptySet DEF Tally


----------------------------------------------------------------------------
\* The invariant: both books, over piles that can be counted.
Undone == {"dispatch", "cancel"}
Countable(b) ==
    /\ \A kinds \in SUBSET Movements : IsFiniteSet(Tokens(MovingMap(b, kinds)))
    /\ IsFiniteSet(Tokens(KeptMap(b)))
    /\ IsFiniteSet(Tokens(SentMap(b)))
    /\ IsFiniteSet(Tokens(CountedMap(b)))

ReservedBook(b) ==
    balance[b].reserved + InCalls(b, Undone)
        = HoldersOf(b, "reserved") + Separated(b) + InCalls(b, {"create"}) + refused[b]
StockBook(b) ==
    balance[b].stock + Gone(b) + InCalls(b, {"dispatch"})
        = InitialStock[b] + Arrived(b) + InCalls(b, {"receive"})

Books == restarts = 0 => \A b \in Keys : Countable(b) /\ ReservedBook(b) /\ StockBook(b)

\* What a step of call c on transfer t may do to a balance: what the counters gain
\* is what the call and the transfer lose.
ReservedEven(c, t, b) ==
    balance'[b].reserved + Moving(c, b, Undone)' + Kept(t, b) + Moving(c, b, {"create"}) + refused[b]
        = balance[b].reserved + Moving(c, b, Undone) + Kept(t, b)' + Moving(c, b, {"create"})'
            + refused'[b]
StockEven(c, t, b) ==
    balance'[b].stock + Sent(t, b)' + Moving(c, b, {"dispatch"})' + Counted(t, b)
            + Moving(c, b, {"receive"})
        = balance[b].stock + Sent(t, b) + Moving(c, b, {"dispatch"}) + Counted(t, b)'
            + Moving(c, b, {"receive"})'

LEMMA MovingChange ==
    ASSUME Typed, Typed', NEW c \in Calls, \A d \in Calls \ {c} : call'[d] = call[d],
           NEW b \in Keys, NEW kinds, IsFiniteSet(Tokens(MovingMap(b, kinds)))
    PROVE  /\ IsFiniteSet(Tokens(MovingMap(b, kinds)))'
           /\ InCalls(b, kinds) \in Nat /\ InCalls(b, kinds)' \in Nat
           /\ InCalls(b, kinds)' + Moving(c, b, kinds) = InCalls(b, kinds) + Moving(c, b, kinds)'
<1>. DEFINE n == MovingMap(b, kinds)
            m == [d \in Calls |-> Moving(d, b, kinds)']
<1>1. n \in [Calls -> Nat]
  BY SharesType DEF MovingMap, ShareTypes
<1>2. \A d \in Calls : Moving(d, b, kinds)' \in Nat
  <2>1. ShareTypes'
    BY SharesType, PTL
  <2>. QED BY <2>1 DEF ShareTypes, Keys
<1>3. m \in [Calls -> Nat] /\ MovingMap(b, kinds)' = m
  BY <1>2 DEF MovingMap
<1>4. \A d \in Calls \ {c} : Moving(d, b, kinds)' = Moving(d, b, kinds)
  BY DEF Moving, Active, Unrecorded, Units
<1>5. \A d \in Calls \ {c} : m[d] = n[d]
  BY <1>4 DEF MovingMap
<1>6. n[c] = Moving(c, b, kinds) /\ m[c] = Moving(c, b, kinds)'
  BY DEF MovingMap
<1>7. InCalls(b, kinds) = Tally(n) /\ InCalls(b, kinds)' = Tally(m)
  <2>1. Counts'
    BY Tallies, PTL
  <2>. QED BY <1>3, <2>1, Tallies DEF Counts, Tally, Tokens
<1>8. IsFiniteSet(Tokens(MovingMap(b, kinds)))' <=> IsFiniteSet(Tokens(m))
  BY <1>3 DEF Tokens
<1>. HIDE DEF n, m
<1>9. IsFiniteSet(Tokens(n))
  BY DEF n
<1>10. /\ IsFiniteSet(Tokens(m)) /\ Tally(n) \in Nat /\ Tally(m) \in Nat
       /\ Tally(m) + n[c] = Tally(n) + m[c]
  BY <1>1, <1>3, <1>5, <1>9, TallyChange
<1>. QED BY <1>6, <1>7, <1>8, <1>10


LEMMA RowsChange ==
    ASSUME Typed, Typed', NEW t \in TransferIds,
           \A u \in TransferIds \ {t} : transfer'[u] = transfer[u], NEW b \in Keys
    PROVE  /\ IsFiniteSet(Tokens(KeptMap(b))) =>
                /\ IsFiniteSet(Tokens(KeptMap(b)))'
                /\ Separated(b) \in Nat /\ Separated(b)' \in Nat
                /\ Separated(b)' + Kept(t, b) = Separated(b) + Kept(t, b)'
           /\ IsFiniteSet(Tokens(SentMap(b))) =>
                /\ IsFiniteSet(Tokens(SentMap(b)))'
                /\ Gone(b) \in Nat /\ Gone(b)' \in Nat
                /\ Gone(b)' + Sent(t, b) = Gone(b) + Sent(t, b)'
           /\ IsFiniteSet(Tokens(CountedMap(b))) =>
                /\ IsFiniteSet(Tokens(CountedMap(b)))'
                /\ Arrived(b) \in Nat /\ Arrived(b)' \in Nat
                /\ Arrived(b)' + Counted(t, b) = Arrived(b) + Counted(t, b)'
<1>1. ShareTypes' /\ ShareTypes /\ Counts /\ Counts'
  BY SharesType, Tallies, PTL
<1>2. ASSUME NEW n \in [TransferIds -> Nat], NEW m \in [TransferIds -> Nat],
             \A u \in TransferIds \ {t} : m[u] = n[u], IsFiniteSet(Tokens(n))
      PROVE  /\ IsFiniteSet(Tokens(m)) /\ Tally(n) \in Nat /\ Tally(m) \in Nat
             /\ Tally(m) + n[t] = Tally(n) + m[t]
  BY <1>2, TallyChange
<1>3. \A u \in TransferIds \ {t} : /\ Kept(u, b)' = Kept(u, b) /\ Sent(u, b)' = Sent(u, b)
                                  /\ Counted(u, b)' = Counted(u, b)
  BY DEF Kept, Sent, Counted, Known
<1>4. ASSUME IsFiniteSet(Tokens(KeptMap(b)))
      PROVE  /\ IsFiniteSet(Tokens(KeptMap(b)))'
             /\ Separated(b) \in Nat /\ Separated(b)' \in Nat
             /\ Separated(b)' + Kept(t, b) = Separated(b) + Kept(t, b)'
  <2>1. PICK n : n = KeptMap(b)
    OBVIOUS
  <2>2. PICK m : m = [u \in TransferIds |-> Kept(u, b)']
    OBVIOUS
  <2>3. n \in [TransferIds -> Nat] /\ m \in [TransferIds -> Nat]
    BY <1>1, <2>1, <2>2 DEF KeptMap, ShareTypes, Keys
  <2>4. n[t] = Kept(t, b) /\ m[t] = Kept(t, b)' /\ \A u \in TransferIds \ {t} : m[u] = n[u]
    BY <1>3, <2>1, <2>2 DEF KeptMap
  <2>5. Separated(b) = Tally(n) /\ Separated(b)' = Tally(m)
        /\ (IsFiniteSet(Tokens(KeptMap(b)))' <=> IsFiniteSet(Tokens(m)))
    BY <1>1, <2>1, <2>2 DEF Counts, KeptMap, Tally, Tokens
  <2>. QED BY <1>2, <1>4, <2>1, <2>3, <2>4, <2>5
<1>5. ASSUME IsFiniteSet(Tokens(SentMap(b)))
      PROVE  /\ IsFiniteSet(Tokens(SentMap(b)))'
             /\ Gone(b) \in Nat /\ Gone(b)' \in Nat
             /\ Gone(b)' + Sent(t, b) = Gone(b) + Sent(t, b)'
  <2>1. PICK n : n = SentMap(b)
    OBVIOUS
  <2>2. PICK m : m = [u \in TransferIds |-> Sent(u, b)']
    OBVIOUS
  <2>3. n \in [TransferIds -> Nat] /\ m \in [TransferIds -> Nat]
    BY <1>1, <2>1, <2>2 DEF SentMap, ShareTypes, Keys
  <2>4. n[t] = Sent(t, b) /\ m[t] = Sent(t, b)' /\ \A u \in TransferIds \ {t} : m[u] = n[u]
    BY <1>3, <2>1, <2>2 DEF SentMap
  <2>5. Gone(b) = Tally(n) /\ Gone(b)' = Tally(m)
        /\ (IsFiniteSet(Tokens(SentMap(b)))' <=> IsFiniteSet(Tokens(m)))
    BY <1>1, <2>1, <2>2 DEF Counts, SentMap, Tally, Tokens
  <2>. QED BY <1>2, <1>5, <2>1, <2>3, <2>4, <2>5
<1>6. ASSUME IsFiniteSet(Tokens(CountedMap(b)))
      PROVE  /\ IsFiniteSet(Tokens(CountedMap(b)))'
             /\ Arrived(b) \in Nat /\ Arrived(b)' \in Nat
             /\ Arrived(b)' + Counted(t, b) = Arrived(b) + Counted(t, b)'
  <2>1. PICK n : n = CountedMap(b)
    OBVIOUS
  <2>2. PICK m : m = [u \in TransferIds |-> Counted(u, b)']
    OBVIOUS
  <2>3. n \in [TransferIds -> Nat] /\ m \in [TransferIds -> Nat]
    BY <1>1, <2>1, <2>2 DEF CountedMap, ShareTypes, Keys
  <2>4. n[t] = Counted(t, b) /\ m[t] = Counted(t, b)' /\ \A u \in TransferIds \ {t} : m[u] = n[u]
    BY <1>3, <2>1, <2>2 DEF CountedMap
  <2>5. Arrived(b) = Tally(n) /\ Arrived(b)' = Tally(m)
        /\ (IsFiniteSet(Tokens(CountedMap(b)))' <=> IsFiniteSet(Tokens(m)))
    BY <1>1, <2>1, <2>2 DEF Counts, CountedMap, Tally, Tokens
  <2>. QED BY <1>2, <1>6, <2>1, <2>3, <2>4, <2>5
<1>. QED BY <1>4, <1>5, <1>6

\* What the units of one call and one transfer do to the sums they are part of.
LEMMA EvenSums ==
    ASSUME NEW r \in Nat, NEW i \in Nat, NEW k \in Nat, NEW m \in Nat, NEW f \in Nat,
           NEW r1 \in Nat, NEW i1 \in Nat, NEW k1 \in Nat, NEW m1 \in Nat, NEW f1 \in Nat,
           NEW s \in Nat, NEW s1 \in Nat, NEW d \in Nat, NEW d1 \in Nat,
           NEW c0 \in Nat, NEW c1 \in Nat, NEW h \in Nat,
           r1 + d1 + k + m + f = r + d + k1 + m1 + f1,
           i1 + d = i + d1, s1 + k = s + k1, c1 + m = c0 + m1,
           r + i = h + s + c0 + f
    PROVE  r1 + i1 = h + s1 + c1 + f1
<1>1. r1 + i1 + k + m + f = r + i + k1 + m1 + f1
  OBVIOUS
<1>2. r1 + i1 + k + m = h + s + c0 + k1 + m1 + f1
  BY <1>1
<1>. QED BY <1>2

\* A step of call c on transfer t that is even at every balance keeps the books.
LEMMA BooksEven ==
    ASSUME IsFiniteSet(Orders), Typed, Typed', Books, restarts' = restarts,
           NEW c \in Calls, \A d \in Calls \ {c} : call'[d] = call[d],
           NEW t \in TransferIds, \A u \in TransferIds \ {t} : transfer'[u] = transfer[u],
           orderHold' = orderHold,
           \A b \in Keys : ReservedEven(c, t, b) /\ StockEven(c, t, b)
    PROVE  Books'
<1> SUFFICES ASSUME restarts = 0, NEW b \in Keys
             PROVE  Countable(b)' /\ ReservedBook(b)' /\ StockBook(b)'
  BY DEF Books, Keys
<1>1. Countable(b) /\ ReservedBook(b) /\ StockBook(b)
  BY DEF Books
<1>2. ASSUME NEW kinds \in SUBSET Movements
      PROVE  /\ IsFiniteSet(Tokens(MovingMap(b, kinds)))'
             /\ InCalls(b, kinds) \in Nat /\ InCalls(b, kinds)' \in Nat
             /\ InCalls(b, kinds)' + Moving(c, b, kinds) = InCalls(b, kinds) + Moving(c, b, kinds)'
  BY <1>1, MovingChange DEF Countable
<1>3. /\ IsFiniteSet(Tokens(KeptMap(b)))' /\ IsFiniteSet(Tokens(SentMap(b)))'
      /\ IsFiniteSet(Tokens(CountedMap(b)))'
      /\ Separated(b) \in Nat /\ Separated(b)' \in Nat
      /\ Separated(b)' + Kept(t, b) = Separated(b) + Kept(t, b)'
      /\ Gone(b) \in Nat /\ Gone(b)' \in Nat
      /\ Gone(b)' + Sent(t, b) = Gone(b) + Sent(t, b)'
      /\ Arrived(b) \in Nat /\ Arrived(b)' \in Nat
      /\ Arrived(b)' + Counted(t, b) = Arrived(b) + Counted(t, b)'
  BY <1>1, RowsChange DEF Countable
<1>4. Countable(b)'
  BY <1>2, <1>3 DEF Countable
<1>5. /\ Moving(c, b, Undone) \in Nat /\ Moving(c, b, Undone)' \in Nat
      /\ Moving(c, b, {"create"}) \in Nat /\ Moving(c, b, {"create"})' \in Nat
      /\ Moving(c, b, {"dispatch"}) \in Nat /\ Moving(c, b, {"dispatch"})' \in Nat
      /\ Moving(c, b, {"receive"}) \in Nat /\ Moving(c, b, {"receive"})' \in Nat
      /\ Kept(t, b) \in Nat /\ Kept(t, b)' \in Nat
      /\ Sent(t, b) \in Nat /\ Sent(t, b)' \in Nat
      /\ Counted(t, b) \in Nat /\ Counted(t, b)' \in Nat
  <2>1. ShareTypes' /\ ShareTypes
    BY SharesType, PTL
  <2>. QED BY <2>1 DEF ShareTypes, Keys
<1>6. /\ balance[b].reserved \in Nat /\ balance'[b].reserved \in Nat
      /\ balance[b].stock \in Nat /\ balance'[b].stock \in Nat
      /\ refused[b] \in Nat /\ refused'[b] \in Nat /\ InitialStock[b] \in Nat
  <2>1. /\ balance[b] \in Row /\ refused[b] \in Nat
        /\ balance'[b] \in Row /\ refused'[b] \in Nat
    BY DEF Typed, TypeOK
  <2>. QED BY <2>1, InitialStockAssumption DEF Row
<1>7. HoldersOf(b, "reserved") \in Nat /\ HoldersOf(b, "reserved")' = HoldersOf(b, "reserved")
  <2>1. IsFiniteSet({o \in Orders : OrderKey[o] = b /\ orderHold[o] = "reserved"})
    BY FS_Subset
  <2>. QED BY <2>1, FS_CardinalityType DEF HoldersOf
<1>8. ReservedEven(c, t, b) /\ StockEven(c, t, b)
  OBVIOUS
<1>9. ReservedBook(b)'
  <2>1. /\ InCalls(b, Undone) \in Nat /\ InCalls(b, Undone)' \in Nat
        /\ InCalls(b, Undone)' + Moving(c, b, Undone) = InCalls(b, Undone) + Moving(c, b, Undone)'
    BY <1>2 DEF Movements, Undone
  <2>2. /\ InCalls(b, {"create"}) \in Nat /\ InCalls(b, {"create"})' \in Nat
        /\ InCalls(b, {"create"})' + Moving(c, b, {"create"})
             = InCalls(b, {"create"}) + Moving(c, b, {"create"})'
    BY <1>2 DEF Movements
  <2>. QED BY <1>1, <1>3, <1>5, <1>6, <1>7, <1>8, <2>1, <2>2, EvenSums DEF ReservedBook, ReservedEven
<1>10. StockBook(b)'
  <2>1. /\ InCalls(b, {"dispatch"}) \in Nat /\ InCalls(b, {"dispatch"})' \in Nat
        /\ InCalls(b, {"dispatch"})' + Moving(c, b, {"dispatch"})
             = InCalls(b, {"dispatch"}) + Moving(c, b, {"dispatch"})'
    BY <1>2 DEF Movements
  <2>2. /\ InCalls(b, {"receive"}) \in Nat /\ InCalls(b, {"receive"})' \in Nat
        /\ InCalls(b, {"receive"})' + Moving(c, b, {"receive"})
             = InCalls(b, {"receive"}) + Moving(c, b, {"receive"})'
    BY <1>2 DEF Movements
  <2>. QED BY <1>1, <1>3, <1>5, <1>6, <1>8, <2>1, <2>2 DEF StockBook, StockEven
<1>. QED BY <1>4, <1>9, <1>10


\* A step that moves nothing: neither the call nor its transfer counts for more or
\* less anywhere.
LEMMA BooksQuiet ==
    ASSUME IsFiniteSet(Orders), Typed, Typed', Books,
           UNCHANGED <<balance, refused, orderHold, restarts>>,
           NEW c \in Calls, \A d \in Calls \ {c} : call'[d] = call[d],
           NEW t \in TransferIds, \A u \in TransferIds \ {t} : transfer'[u] = transfer[u],
           \A b \in Keys : \A kinds : Moving(c, b, kinds)' = Moving(c, b, kinds),
           \A b \in Keys : /\ Kept(t, b)' = Kept(t, b) /\ Sent(t, b)' = Sent(t, b)
                           /\ Counted(t, b)' = Counted(t, b)
    PROVE  Books'
<1>1. \A b \in Keys : ReservedEven(c, t, b) /\ StockEven(c, t, b)
  BY DEF ReservedEven, StockEven
<1>. QED BY <1>1, BooksEven

LEMMA RequestShape ==
    ASSUME Typed, NEW c \in Calls, Request(c)
    PROVE  /\ ~Active(c) /\ call'[c].phase \in {"resolving", "incident"}
           /\ \A d \in Calls \ {c} : call'[d] = call[d]
           /\ UNCHANGED <<balance, db, transfer, orderHold, refused, restarts>>
<1>1. ASSUME NEW task, Start(c, task)
      PROVE  ~Active(c) /\ call'[c] = task /\ \A d \in Calls \ {c} : call'[d] = call[d]
  BY <1>1 DEF Start, Typed
<1>2. ASSUME NEW w1 \in Warehouses, NEW w2 \in Warehouses, NEW ask \in Asks,
             createTransfer(c, w1, w2, ask)
      PROVE  \E task : Start(c, task) /\ task.phase \in {"resolving", "incident"}
  <2>1. PICK of : Start(c, Task("create", NextNumber, of, w1, ask))
    BY <1>2 DEF createTransfer
  <2>2. Task("create", NextNumber, of, w1, ask).phase = "resolving"
    BY DEF Task
  <2>. QED BY <2>1, <2>2
<1>3. ASSUME NEW t \in TransferIds, dispatchTransfer(c, t) \/ cancelTransfer(c, t)
      PROVE  \E task : Start(c, task) /\ task.phase \in {"resolving", "incident"}
  <2>1. PICK kind, of, at, units : Start(c, Task(kind, t, of, at, units))
    BY <1>3 DEF dispatchTransfer, cancelTransfer
  <2>2. Task(kind, t, of, at, units).phase = "resolving"
    BY DEF Task
  <2>. QED BY <2>1, <2>2
<1>4. ASSUME NEW t \in TransferIds, NEW overage \in BOOLEAN, receiveTransfer(c, t, overage)
      PROVE  \E task : Start(c, task) /\ task.phase \in {"resolving", "incident"}
  <2>1. PICK units : Start(c, Task("receive", t, transfer[t], transfer[t].destination, units))
    BY <1>4 DEF receiveTransfer
  <2>2. Task("receive", t, transfer[t], transfer[t].destination, units).phase = "resolving"
    BY DEF Task
  <2>. QED BY <2>1, <2>2
<1>5. ASSUME NEW t \in TransferIds, reconcileTransfer(c, t)
      PROVE  \E task : Start(c, task) /\ task.phase \in {"resolving", "incident"}
  <2>. DEFINE task == [Task("reconcile", t, transfer[t], transfer[t].destination, NoUnits)
                         EXCEPT !.phase = "incident"]
  <2>1. Start(c, task)
    BY <1>5 DEF reconcileTransfer
  <2>2. task.phase = "incident"
    BY DEF Task
  <2>. HIDE DEF task
  <2>. QED BY <2>1, <2>2
<1>6. UNCHANGED <<balance, db, transfer, orderHold, refused, restarts>>
  BY DEF Request, createTransfer, dispatchTransfer, cancelTransfer, receiveTransfer,
     reconcileTransfer
<1>7. PICK task : Start(c, task) /\ task.phase \in {"resolving", "incident"}
  BY <1>2, <1>3, <1>4, <1>5 DEF Request
<1>. QED BY <1>1, <1>6, <1>7

LEMMA BooksRequest ==
    ASSUME IsFiniteSet(Orders), Typed, Typed', Books, NEW c \in Calls, Request(c)
    PROVE  Books'
<1>1. /\ ~Active(c) /\ call'[c].phase \in {"resolving", "incident"}
      /\ \A d \in Calls \ {c} : call'[d] = call[d]
      /\ UNCHANGED <<balance, db, transfer, orderHold, refused, restarts>>
  BY RequestShape
<1>2. 1 \in TransferIds
  BY NumbersAssumption DEF TransferIds
<1>3. \A b \in Keys : \A kinds : Moving(c, b, kinds)' = Moving(c, b, kinds)
  BY <1>1 DEF Moving, Unrecorded
<1>4. \A b \in Keys : /\ Kept(1, b)' = Kept(1, b) /\ Sent(1, b)' = Sent(1, b)
                      /\ Counted(1, b)' = Counted(1, b)
  BY <1>1 DEF Kept, Sent, Counted, Known
<1>. QED BY <1>1, <1>2, <1>3, <1>4, BooksQuiet

\* The steps of a call that move nothing and leave the rows of transfers alone.
LEMMA BooksAlone ==
    ASSUME IsFiniteSet(Orders), Typed, Typed', Books, NEW c \in Calls, Active(c),
           \/ Conflict(c) \/ Upsert(c) \/ RecordReceived(c) \/ LinesDone(c) \/ ReRead(c)
    PROVE  Books'
<1>1. /\ UNCHANGED <<balance, transfer, refused, orderHold, restarts>>
      /\ \A d \in Calls \ {c} : call'[d] = call[d]
  BY DEF Conflict, Upsert, RecordReceived, LinesDone, ReRead, Goto, End, Typed
<1>2. call[c] \in Tasks /\ call[c].t \in TransferIds /\ \A b \in Keys : Units(c, b) \in Nat
  BY TaskParts
<1>3. ASSUME NEW b \in Keys, NEW kinds PROVE Moving(c, b, kinds)' = Moving(c, b, kinds)
  <2>1. CASE Conflict(c)
    <3>1. call'[c] = Idle /\ call[c].phase = "resolving"
      BY <2>1 DEF Conflict, End, Typed
    <3>. QED BY <3>1 DEF Moving, Unrecorded, Active, Idle
  <2>2. CASE Upsert(c)
    <3>1. /\ call[c].phase = "writing" /\ call'[c].phase \in {"writing", "recording"}
          /\ call'[c].kind = call[c].kind /\ call'[c].at = call[c].at
          /\ call'[c].units = call[c].units
      <4>1. CASE call[c].left = {}
        BY <1>2, <2>2, <4>1 DEF Upsert, Typed, Tasks
      <4>2. CASE call[c].left # {}
        <5>1. PICK k \in call[c].left :
                call' = [call EXCEPT ![c].key = k, ![c].row = balance[k], ![c].left = @ \ {k}]
          BY <2>2, <4>2 DEF Upsert
        <5>. QED BY <1>2, <2>2, <5>1 DEF Upsert, Typed, Tasks
      <4>. QED BY <4>1, <4>2
    <3>. QED BY <3>1 DEF Moving, Unrecorded, Units, Active
  <2>3. CASE RecordReceived(c)
    <3>1. /\ call[c].phase = "recording" /\ call[c].kind = "receive"
          /\ call'[c].phase = IF CallKeys(c) = {} THEN "rereading" ELSE "lines"
          /\ call'[c].kind = call[c].kind /\ call'[c].at = call[c].at
          /\ call'[c].units = call[c].units /\ call'[c].left = CallKeys(c)
      BY <1>2, <2>3 DEF RecordReceived, Typed, Tasks
    <3>2. call[c].at = b[1] => b \in CallKeys(c) \/ Units(c, b) = 0
      BY <1>2 DEF CallKeys, Units
    <3>. QED BY <3>1, <3>2 DEF Moving, Unrecorded, Units, Active
  <2>4. CASE LinesDone(c)
    <3>1. /\ call[c].phase = "lines" /\ call[c].left = {}
          /\ call'[c].phase \in {"idle", "rereading"}
      BY <1>2, <2>4 DEF LinesDone, End, Goto, Typed, Tasks, Idle
    <3>. QED BY <3>1 DEF Moving, Unrecorded, Active
  <2>5. CASE ReRead(c)
    <3>1. call[c].phase = "rereading" /\ call'[c].phase \in {"incident", "status"}
      BY <1>2, <2>5 DEF ReRead, Typed, Tasks
    <3>. QED BY <3>1 DEF Moving, Unrecorded, Active
  <2>. QED BY <2>1, <2>2, <2>3, <2>4, <2>5
<1>4. PICK t \in TransferIds : t = call[c].t
  BY <1>2
<1>5. \A b \in Keys : /\ Kept(t, b)' = Kept(t, b) /\ Sent(t, b)' = Sent(t, b)
                      /\ Counted(t, b)' = Counted(t, b)
  BY <1>1 DEF Kept, Sent, Counted, Known
<1>. QED BY <1>1, <1>3, <1>4, <1>5, BooksQuiet


LEMMA BooksIncident ==
    ASSUME IsFiniteSet(Orders), Typed, Typed', Course, Books, NEW c \in Calls, Active(c),
           WriteIncident(c) \/ WriteStatus(c)
    PROVE  Books'
<1>1. /\ UNCHANGED <<balance, refused, orderHold, restarts>>
      /\ \A d \in Calls \ {c} : call'[d] = call[d]
      /\ call[c].phase \in {"incident", "status"} /\ call'[c].phase \in {"status", "idle"}
  BY TaskParts DEF WriteIncident, WriteStatus, Goto, End, Typed, Tasks, Idle
<1>2. \A b \in Keys : \A kinds : Moving(c, b, kinds)' = Moving(c, b, kinds)
  BY <1>1 DEF Moving, Unrecorded, Active
<1>3. /\ OnCourse(c) /\ call[c].kind \in {"receive", "reconcile"}
      /\ call[c].phase \in PhasesOf(call[c].kind)
      /\ call[c].t \in Known
  BY <1>1, CoursePart DEF Tasks, PhasesOf
<1>4. PICK t \in TransferIds : t = call[c].t
  BY <1>3, CoursePart
<1>5. transfer[t] \in Transfer /\ SoundTransfer(transfer[t])
  BY <1>3, <1>4, CoursePart
<1>6. transfer[t].status \notin {"reserved", "cancelled"}
  BY <1>1, <1>3, <1>4, <1>5 DEF OnCourse, SoundTransfer
<1>7. PICK x : /\ transfer' = [transfer EXCEPT ![t] = x]
               /\ x.status \in {"in_transit", "partial_received", "received"}
               /\ x.origin = transfer[t].origin /\ x.destination = transfer[t].destination
               /\ x.quantity = transfer[t].quantity /\ x.received = transfer[t].received
  <2>1. CASE WriteIncident(c)
    <3>. DEFINE x == [transfer[t] EXCEPT !.incident = IF Opens(c) THEN "open" ELSE "resolved"]
    <3>1. transfer' = [transfer EXCEPT ![t] = x]
      BY <1>4, <2>1 DEF WriteIncident
    <3>2. /\ x.status \in {"in_transit", "partial_received", "received"}
          /\ x.origin = transfer[t].origin /\ x.destination = transfer[t].destination
          /\ x.quantity = transfer[t].quantity /\ x.received = transfer[t].received
      BY <1>5, <1>6 DEF Transfer
    <3>. HIDE DEF x
    <3>. QED BY <3>1, <3>2
  <2>2. CASE WriteStatus(c)
    <3>. DEFINE x == [transfer[t] EXCEPT !.status = IF Opens(c) THEN "partial_received"
                                                               ELSE "received"]
    <3>1. transfer' = [transfer EXCEPT ![t] = x]
      BY <1>4, <2>2 DEF WriteStatus
    <3>2. /\ x.status \in {"in_transit", "partial_received", "received"}
          /\ x.origin = transfer[t].origin /\ x.destination = transfer[t].destination
          /\ x.quantity = transfer[t].quantity /\ x.received = transfer[t].received
      BY <1>5 DEF Transfer
    <3>. HIDE DEF x
    <3>. QED BY <3>1, <3>2
  <2>. QED BY <2>1, <2>2
<1>8. transfer'[t] = x /\ \A u \in TransferIds \ {t} : transfer'[u] = transfer[u]
  BY <1>7 DEF Typed, TypeOK
<1>9. transfer[t].status \in {"in_transit", "partial_received", "received"}
  BY <1>5, <1>6 DEF Transfer
<1>10. \A b \in Keys : /\ Kept(t, b)' = Kept(t, b) /\ Sent(t, b)' = Sent(t, b)
                       /\ Counted(t, b)' = Counted(t, b)
  BY <1>7, <1>8, <1>9 DEF Kept, Sent, Counted, Known
<1>. QED BY <1>1, <1>2, <1>8, <1>10, BooksQuiet

\* The movement of the balances: what it takes or adds is, from then on, counted as
\* moved by the call.
LEMMA BooksMutate ==
    ASSUME IsFiniteSet(Orders), Typed, Typed', Books, NEW c \in Calls, Mutate(c)
    PROVE  Books'
<1>1. /\ Active(c) /\ call[c].phase = "resolving"
      /\ UNCHANGED <<transfer, refused, orderHold, restarts>>
      /\ \A d \in Calls \ {c} : call'[d] = call[d]
  BY DEF Mutate, Active, Goto, Typed
<1>2. /\ call[c] \in Tasks /\ call[c].t \in TransferIds /\ \A b \in Keys : Units(c, b) \in Nat
      /\ call[c].kind \in Movements
  BY <1>1, TaskParts DEF Tasks, PhasesOf, Movements
<1>3. /\ call'[c].phase \in {"writing", "recording"} /\ call'[c].kind = call[c].kind
      /\ call'[c].at = call[c].at /\ call'[c].units = call[c].units
  <2>1. CASE CallKeys(c) = {}
    BY <1>2, <2>1 DEF Mutate, Goto, Typed, Tasks
  <2>2. CASE CallKeys(c) # {}
    <3>1. PICK k \in CallKeys(c) :
            call' = [call EXCEPT ![c].phase = "writing", ![c].key = k, ![c].row = balance'[k],
                                 ![c].left = CallKeys(c) \ {k}]
      BY <2>2 DEF Mutate
    <3>. QED BY <1>2, <3>1 DEF Typed, Tasks
  <2>. QED BY <2>1, <2>2
<1>4. PICK t \in TransferIds : t = call[c].t
  BY <1>2
<1>5. \A b \in Keys : /\ Kept(t, b)' = Kept(t, b) /\ Sent(t, b)' = Sent(t, b)
                      /\ Counted(t, b)' = Counted(t, b)
  BY <1>1 DEF Kept, Sent, Counted, Known
<1>6. ASSUME NEW b \in Keys PROVE ReservedEven(c, t, b) /\ StockEven(c, t, b)
  <2>1. \A kinds : /\ Moving(c, b, kinds) = 0
                   /\ Moving(c, b, kinds)' = IF call[c].kind \in kinds /\ call[c].at = b[1]
                                             THEN Units(c, b) ELSE 0
    BY <1>1, <1>3 DEF Moving, Unrecorded, Units, Active
  <2>2. balance[b].reserved \in Nat /\ balance[b].stock \in Nat /\ refused[b] \in Nat
        /\ balance[b] \in Row
    BY DEF Typed, TypeOK, Row
  <2>3. Kept(t, b) \in Nat /\ Sent(t, b) \in Nat /\ Counted(t, b) \in Nat
    BY SharesType DEF ShareTypes
  <2>4. CASE b \notin CallKeys(c)
    <3>1. balance'[b] = balance[b]
      BY <2>4 DEF Mutate
    <3>2. call[c].at = b[1] => Units(c, b) = 0
      BY <1>2, <2>4 DEF CallKeys, Units
    <3>3. \A kinds : Moving(c, b, kinds)' = 0
      BY <2>1, <3>2
    <3>. QED BY <1>1, <1>5, <2>1, <3>1, <3>3 DEF ReservedEven, StockEven
  <2>5. CASE b \in CallKeys(c)
    <3>1. balance'[b] = Moved(call[c].kind, balance[b], Units(c, b)) /\ call[c].at = b[1]
      BY <2>5 DEF Mutate, CallKeys
    <3>2. PICK q \in Nat : q = Units(c, b)
      BY <1>2
    <3>3. CASE call[c].kind = "create"
      <4>1. balance'[b].reserved = balance[b].reserved + q /\ balance'[b].stock = balance[b].stock
        BY <2>2, <3>1, <3>2, <3>3 DEF Moved, Row
      <4>2. /\ Moving(c, b, Undone)' = 0 /\ Moving(c, b, {"create"})' = q
            /\ Moving(c, b, {"dispatch"})' = 0 /\ Moving(c, b, {"receive"})' = 0
        BY <2>1, <3>1, <3>2, <3>3 DEF Undone
      <4>. QED BY <1>1, <1>5, <2>1, <2>2, <2>3, <4>1, <4>2 DEF ReservedEven, StockEven
    <3>4. CASE call[c].kind = "cancel"
      <4>1. balance'[b].reserved = balance[b].reserved - q /\ balance'[b].stock = balance[b].stock
        BY <2>2, <3>1, <3>2, <3>4 DEF Moved, Row
      <4>2. /\ Moving(c, b, Undone)' = q /\ Moving(c, b, {"create"})' = 0
            /\ Moving(c, b, {"dispatch"})' = 0 /\ Moving(c, b, {"receive"})' = 0
        BY <2>1, <3>1, <3>2, <3>4 DEF Undone
      <4>. QED BY <1>1, <1>5, <2>1, <2>2, <2>3, <4>1, <4>2 DEF ReservedEven, StockEven
    <3>5. CASE call[c].kind = "dispatch"
      <4>1. /\ balance'[b].reserved = balance[b].reserved - q
            /\ balance'[b].stock = balance[b].stock - q
        BY <2>2, <3>1, <3>2, <3>5 DEF Moved, Row
      <4>2. /\ Moving(c, b, Undone)' = q /\ Moving(c, b, {"create"})' = 0
            /\ Moving(c, b, {"dispatch"})' = q /\ Moving(c, b, {"receive"})' = 0
        BY <2>1, <3>1, <3>2, <3>5 DEF Undone
      <4>. QED BY <1>1, <1>5, <2>1, <2>2, <2>3, <4>1, <4>2 DEF ReservedEven, StockEven
    <3>6. CASE call[c].kind = "receive"
      <4>1. balance'[b].reserved = balance[b].reserved /\ balance'[b].stock = balance[b].stock + q
        BY <2>2, <3>1, <3>2, <3>6 DEF Moved, Row
      <4>2. /\ Moving(c, b, Undone)' = 0 /\ Moving(c, b, {"create"})' = 0
            /\ Moving(c, b, {"dispatch"})' = 0 /\ Moving(c, b, {"receive"})' = q
        BY <2>1, <3>1, <3>2, <3>6 DEF Undone
      <4>. QED BY <1>1, <1>5, <2>1, <2>2, <2>3, <4>1, <4>2 DEF ReservedEven, StockEven
    <3>. QED BY <1>2, <3>3, <3>4, <3>5, <3>6 DEF Movements
  <2>. QED BY <2>4, <2>5
<1>. QED BY <1>1, <1>4, <1>6, BooksEven


\* What a call that is about to write the row counts for: its units where it works.
LEMMA MovingRecorded ==
    ASSUME Typed, NEW c \in Calls, call[c].phase = "recording", NEW b \in Keys, NEW kinds
    PROVE  Moving(c, b, kinds) =
             IF call[c].kind \in kinds /\ call[c].at = b[1] THEN Units(c, b) ELSE 0
BY DEF Moving, Unrecorded, Active

\* A creation: its units are those of the row it inserts, or are left behind.
LEMMA BooksInsert ==
    ASSUME IsFiniteSet(Orders), Typed, Typed', Course, Books, NEW c \in Calls, Insert(c)
    PROVE  Books'
<1>1. /\ Active(c) /\ call[c].phase = "recording" /\ call[c].kind = "create"
      /\ UNCHANGED <<balance, orderHold, restarts>>
      /\ \A d \in Calls \ {c} : call'[d] = call[d]
      /\ ~Active(c)'
  BY DEF Insert, Active, End, Typed, Idle
<1>2. OnCourse(c) /\ call[c].t \in TransferIds /\ \A b \in Keys : Units(c, b) \in Nat
  BY <1>1, CoursePart, TaskParts
<1>3. PICK t \in TransferIds : t = call[c].t
  BY <1>2
<1>4. \A u \in TransferIds \ {t} : transfer'[u] = transfer[u]
  BY <1>3 DEF Insert, Typed, TypeOK
<1>5. ASSUME NEW b \in Keys PROVE ReservedEven(c, t, b) /\ StockEven(c, t, b)
  <2>1. /\ Moving(c, b, {"create"}) = IF call[c].at = b[1] THEN Units(c, b) ELSE 0
        /\ Moving(c, b, Undone) = 0 /\ Moving(c, b, {"dispatch"}) = 0
        /\ Moving(c, b, {"receive"}) = 0
        /\ \A kinds : Moving(c, b, kinds)' = 0
    <3>1. \A kinds : Moving(c, b, kinds)' = 0
      BY <1>1 DEF Moving
    <3>. QED BY <1>1, <3>1, MovingRecorded DEF Undone
  <2>2. /\ balance[b].reserved \in Nat /\ balance[b].stock \in Nat /\ refused[b] \in Nat
        /\ Units(c, b) \in Nat
    BY <1>2 DEF Typed, TypeOK, Row
  <2>3. Kept(t, b) \in Nat /\ Sent(t, b) \in Nat /\ Counted(t, b) \in Nat
    BY SharesType DEF ShareTypes
  <2>4. CASE call[c].t \in Known
    <3>1. transfer' = transfer
          /\ refused'[b] = IF b \in CallKeys(c) THEN refused[b] + Units(c, b) ELSE refused[b]
      BY <2>4 DEF Insert
    <3>2. /\ Kept(t, b)' = Kept(t, b) /\ Sent(t, b)' = Sent(t, b) /\ Counted(t, b)' = Counted(t, b)
      BY <3>1 DEF Kept, Sent, Counted, Known
    <3>3. refused'[b] = refused[b] + Moving(c, b, {"create"})
      BY <2>1, <2>2, <3>1 DEF CallKeys, Units
    <3>. QED BY <1>1, <2>1, <2>2, <2>3, <3>2, <3>3 DEF ReservedEven, StockEven
  <2>5. CASE call[c].t \notin Known
    <3>1. transfer'[t] = call[c].of /\ refused' = refused
      BY <1>3, <2>5 DEF Insert, Typed, TypeOK
    <3>2. /\ transfer'[t].status = "reserved" /\ transfer'[t].received = NoUnits
          /\ transfer'[t].origin = call[c].at /\ transfer'[t].quantity = call[c].units
      BY <1>1, <1>2, <3>1 DEF OnCourse
    <3>3. Kept(t, b) = 0 /\ Sent(t, b) = 0 /\ Counted(t, b) = 0
      BY <1>3, <2>5 DEF Kept, Sent, Counted, Known
    <3>4. Kept(t, b)' = Moving(c, b, {"create"}) /\ Sent(t, b)' = 0
      BY <2>1, <3>2 DEF Kept, Sent, Units
    <3>5. Counted(t, b)' = 0
      BY <3>2 DEF Counted, NoUnits, Keys
    <3>. QED BY <1>1, <2>1, <2>2, <3>1, <3>3, <3>4, <3>5 DEF ReservedEven, StockEven
  <2>. QED BY <2>4, <2>5
<1>. QED BY <1>1, <1>4, <1>5, BooksEven

\* A cancellation or a dispatch writes the status: the row no longer keeps the units
\* that the call had taken out of the reserved ones.
LEMMA BooksLeaves ==
    ASSUME IsFiniteSet(Orders), Typed, Typed', Course, Books, NEW c \in Calls,
           RecordCancelled(c) \/ RecordDispatched(c)
    PROVE  Books'
<1>1. /\ Active(c) /\ call[c].phase = "recording" /\ call[c].kind \in Undone
      /\ call[c].kind = IF RecordCancelled(c) THEN "cancel" ELSE "dispatch"
      /\ UNCHANGED <<balance, refused, orderHold, restarts>>
      /\ \A d \in Calls \ {c} : call'[d] = call[d]
  BY DEF RecordCancelled, RecordDispatched, Active, End, Typed, Undone
<1>2. /\ OnCourse(c) /\ call[c] \in Tasks /\ call[c].t \in TransferIds
      /\ transfer[call[c].t] \in Transfer
      /\ \A b \in Keys : Units(c, b) \in Nat
  BY <1>1, CoursePart, TaskParts DEF Undone
<1>3. PICK t \in TransferIds : t = call[c].t
  BY <1>2
<1>4. /\ transfer[t].status = "reserved" /\ transfer[t].received = NoUnits
      /\ transfer[t].origin = call[c].at /\ transfer[t].quantity = call[c].units
  BY <1>1, <1>2, <1>3 DEF OnCourse, Undone
<1>5. PICK x : /\ transfer' = [transfer EXCEPT ![t] = x]
               /\ x.status = IF RecordCancelled(c) THEN "cancelled" ELSE "in_transit"
               /\ x.origin = transfer[t].origin /\ x.destination = transfer[t].destination
               /\ x.quantity = transfer[t].quantity /\ x.received = transfer[t].received
  <2>. DEFINE x == [transfer[t] EXCEPT !.status = IF RecordCancelled(c) THEN "cancelled"
                                                                        ELSE "in_transit"]
  <2>1. transfer' = [transfer EXCEPT ![t] = x]
    BY <1>3 DEF RecordCancelled, RecordDispatched
  <2>2. /\ x.status = IF RecordCancelled(c) THEN "cancelled" ELSE "in_transit"
        /\ x.origin = transfer[t].origin /\ x.destination = transfer[t].destination
        /\ x.quantity = transfer[t].quantity /\ x.received = transfer[t].received
    BY <1>2, <1>3 DEF Transfer
  <2>. HIDE DEF x
  <2>. QED BY <2>1, <2>2
<1>6. transfer'[t] = x /\ \A u \in TransferIds \ {t} : transfer'[u] = transfer[u]
  BY <1>5 DEF Typed, TypeOK
<1>7. call'[c] = Idle \/ (call'[c].phase = "lines" /\ call'[c].kind # "receive")
  BY <1>1, <1>2 DEF RecordCancelled, RecordDispatched, End, Typed, Undone, Tasks
<1>8. ASSUME NEW b \in Keys PROVE ReservedEven(c, t, b) /\ StockEven(c, t, b)
  <2>1. PICK q \in Nat : q = IF call[c].at = b[1] THEN Units(c, b) ELSE 0
    BY <1>2
  <2>2. /\ Moving(c, b, Undone) = q /\ Moving(c, b, {"create"}) = 0
        /\ Moving(c, b, {"receive"}) = 0
        /\ Moving(c, b, {"dispatch"}) = IF RecordCancelled(c) THEN 0 ELSE q
    BY <1>1, <2>1, MovingRecorded DEF Undone
  <2>3. \A kinds : Moving(c, b, kinds)' = 0
    BY <1>7 DEF Moving, Unrecorded, Active, Idle
  <2>4. /\ Kept(t, b) = q /\ Kept(t, b)' = 0 /\ Sent(t, b) = 0
        /\ Sent(t, b)' = IF RecordCancelled(c) THEN 0 ELSE q
    BY <1>4, <1>5, <1>6, <2>1 DEF Kept, Sent, Units
  <2>5. Counted(t, b) = 0 /\ Counted(t, b)' = 0
    BY <1>4, <1>5, <1>6 DEF Counted, NoUnits, Keys
  <2>6. balance[b].reserved \in Nat /\ balance[b].stock \in Nat /\ refused[b] \in Nat
    BY DEF Typed, TypeOK, Row
  <2>. QED BY <1>1, <2>2, <2>3, <2>4, <2>5, <2>6 DEF ReservedEven, StockEven
<1>. QED BY <1>1, <1>6, <1>8, BooksEven

LEMMA LineRow ==
    ASSUME Typed, NEW c \in Calls, NEW b \in Keys, UpdateLine(c, b),
           call[c].t \in TransferIds, transfer[call[c].t] \in Transfer,
           NEW q, q = IF call[c].kind = "dispatch" THEN 0
                      ELSE call[c].of.received[b[2]] + Units(c, b)
    PROVE  \E x : /\ transfer' = [transfer EXCEPT ![call[c].t] = x]
                  /\ x.status = transfer[call[c].t].status
                  /\ x.origin = transfer[call[c].t].origin
                  /\ x.destination = transfer[call[c].t].destination
                  /\ x.quantity = transfer[call[c].t].quantity
                  /\ x.received = [transfer[call[c].t].received EXCEPT ![b[2]] = q]
<1>. DEFINE old == transfer[call[c].t]
            x == [old EXCEPT
                   !.dispatched[b[2]] = IF call[c].kind = "dispatch" THEN Units(c, b) ELSE @,
                   !.received[b[2]] = IF call[c].kind = "dispatch" THEN 0
                                      ELSE call[c].of.received[b[2]] + Units(c, b)]
<1>3. call[c].t \in TransferIds /\ transfer[call[c].t] \in Transfer
  OBVIOUS
<1>1. transfer' = [transfer EXCEPT ![call[c].t] = x]
  BY <1>3 DEF UpdateLine, Typed, TypeOK
<1>2. /\ x.status = old.status /\ x.origin = old.origin /\ x.destination = old.destination
      /\ x.quantity = old.quantity /\ x.received = [old.received EXCEPT ![b[2]] = q]
  BY DEF Transfer
<1>. HIDE DEF x
<1>. QED BY <1>1, <1>2

\* A line: a dispatch has none of it received, a receipt counts in what it moved.
LEMMA BooksUpdateLine ==
    ASSUME IsFiniteSet(Orders), Typed, Typed', Course, Books, NEW c \in Calls, NEW k \in Keys,
           UpdateLine(c, k)
    PROVE  Books'
<1>1. /\ Active(c) /\ call[c].phase = "lines" /\ k \in call[c].left
      /\ UNCHANGED <<balance, refused, orderHold, restarts>>
      /\ \A d \in Calls \ {c} : call'[d] = call[d]
  BY DEF UpdateLine, Active, Typed
<1>2. /\ OnCourse(c) /\ call[c] \in Tasks /\ call[c].t \in TransferIds
      /\ call[c].kind \in {"dispatch", "receive"}
      /\ \A b \in Keys : Units(c, b) \in Nat
  BY <1>1, CoursePart, TaskParts DEF Tasks, PhasesOf
<1>3. PICK t \in TransferIds : t = call[c].t
  BY <1>2
<1>4. transfer[t] \in Transfer /\ t \in Known /\ transfer[t].received \in Quantities
  BY <1>1, <1>2, <1>3, CoursePart DEF Transfer
<1>5. PICK q : q = IF call[c].kind = "dispatch" THEN 0 ELSE call[c].of.received[k[2]] + Units(c, k)
  OBVIOUS
<1>6. PICK x : /\ transfer' = [transfer EXCEPT ![t] = x]
               /\ x.status = transfer[t].status
               /\ x.origin = transfer[t].origin /\ x.destination = transfer[t].destination
               /\ x.quantity = transfer[t].quantity
               /\ x.received = [transfer[t].received EXCEPT ![k[2]] = q]
  BY <1>3, <1>4, <1>5, LineRow
<1>7. transfer'[t] = x /\ \A u \in TransferIds \ {t} : transfer'[u] = transfer[u]
  BY <1>6 DEF Typed, TypeOK
<1>8. /\ call'[c].phase = "lines" /\ call'[c].kind = call[c].kind /\ call'[c].at = call[c].at
      /\ call'[c].units = call[c].units /\ call'[c].left = call[c].left \ {k}
  BY <1>1, <1>2 DEF UpdateLine, Typed, Tasks
<1>9. ASSUME NEW b \in Keys PROVE ReservedEven(c, t, b) /\ StockEven(c, t, b)
  <2>1. Kept(t, b)' = Kept(t, b) /\ Sent(t, b)' = Sent(t, b)
    BY <1>6, <1>7 DEF Kept, Sent
  <2>2. /\ Moving(c, b, Undone)' = Moving(c, b, Undone)
        /\ Moving(c, b, {"create"})' = Moving(c, b, {"create"})
        /\ Moving(c, b, {"dispatch"})' = Moving(c, b, {"dispatch"})
    BY <1>1, <1>2, <1>8 DEF Moving, Unrecorded, Active, Undone
  <2>3. /\ Counted(t, b) = IF transfer[t].destination = b[1] THEN transfer[t].received[b[2]] ELSE 0
        /\ Counted(t, b)' = IF transfer[t].destination = b[1]
                            THEN [transfer[t].received EXCEPT ![k[2]] = q][b[2]] ELSE 0
    <3>1. t \in Known'
      BY <1>4, <1>6, <1>7 DEF Known
    <3>2. Counted(t, b)' = IF x.destination = b[1] THEN x.received[b[2]] ELSE 0
      BY <1>7, <3>1 DEF Counted
    <3>3. Counted(t, b) = IF transfer[t].destination = b[1] THEN transfer[t].received[b[2]] ELSE 0
      BY <1>4 DEF Counted
    <3>. QED BY <1>6, <3>2, <3>3, Zenon
  <2>4. Counted(t, b) + Moving(c, b, {"receive"}) = Counted(t, b)' + Moving(c, b, {"receive"})'
    <3>1. CASE call[c].kind = "dispatch"
      <4>1. transfer[t].received = NoUnits /\ q = 0
        BY <1>1, <1>2, <1>3, <1>5, <3>1 DEF OnCourse
      <4>2. Counted(t, b) = 0 /\ Counted(t, b)' = 0
        BY <2>3, <4>1 DEF NoUnits, Keys
      <4>3. Moving(c, b, {"receive"}) = 0 /\ Moving(c, b, {"receive"})' = 0
        BY <1>8, <3>1 DEF Moving
      <4>. QED BY <4>2, <4>3
    <3>2. CASE call[c].kind = "receive"
      <4>1. /\ transfer[t].destination = call[c].at
            /\ k \in CallKeys(c) /\ transfer[t].received[k[2]] = call[c].of.received[k[2]]
        BY <1>1, <1>2, <1>3, <3>2 DEF OnCourse
      <4>2. k[1] = call[c].at /\ k = <<k[1], k[2]>> /\ b = <<b[1], b[2]>>
            /\ k[2] \in Variants /\ b[2] \in Variants
        BY <4>1 DEF CallKeys, Keys
      <4>3. /\ Moving(c, b, {"receive"}) = IF call[c].at = b[1] /\ b \in call[c].left
                                           THEN Units(c, b) ELSE 0
            /\ Moving(c, b, {"receive"})' = IF call[c].at = b[1] /\ b \in call[c].left \ {k}
                                            THEN Units(c, b) ELSE 0
        BY <1>1, <1>8, <3>2 DEF Moving, Unrecorded, Active, Units
      <4>4. CASE b = k
        <5>1. Moving(c, b, {"receive"}) = Units(c, b) /\ Moving(c, b, {"receive"})' = 0
          BY <1>1, <4>2, <4>3, <4>4
        <5>2. Counted(t, b) = transfer[t].received[b[2]]
              /\ Counted(t, b)' = transfer[t].received[b[2]] + Units(c, b)
          BY <1>4, <1>5, <2>3, <3>2, <4>1, <4>2, <4>4 DEF Quantities
        <5>3. transfer[t].received[b[2]] \in Nat /\ Units(c, b) \in Nat
          BY <1>2, <1>4, <4>2 DEF Quantities
        <5>. QED BY <5>1, <5>2, <5>3
      <4>5. CASE b # k
        <5>1. Moving(c, b, {"receive"}) = Moving(c, b, {"receive"})'
          BY <4>3, <4>5
        <5>2. b[1] = transfer[t].destination => b[2] # k[2]
          BY <4>1, <4>2, <4>5
        <5>3. Counted(t, b) = Counted(t, b)'
          BY <1>4, <2>3, <4>2, <5>2 DEF Quantities
        <5>. QED BY <5>1, <5>3
      <4>. QED BY <4>4, <4>5
    <3>. QED BY <1>2, <3>1, <3>2
  <2>5. /\ balance[b].stock \in Nat /\ Sent(t, b) \in Nat /\ Moving(c, b, {"dispatch"}) \in Nat
        /\ Counted(t, b) \in Nat /\ Moving(c, b, {"receive"}) \in Nat
        /\ Counted(t, b)' \in Nat /\ Moving(c, b, {"receive"})' \in Nat
    <3>1. ShareTypes /\ ShareTypes'
      BY SharesType, PTL
    <3>. QED BY <3>1 DEF ShareTypes, Typed, TypeOK, Row, Keys
  <2>. QED BY <1>1, <2>1, <2>2, <2>4, <2>5 DEF ReservedEven, StockEven
<1>. QED BY <1>1, <1>7, <1>9, BooksEven


\* While no call and no row changes, what they count for stays.
LEMMA CountsStay ==
    ASSUME UNCHANGED <<call, transfer>>, NEW b \in Keys
    PROVE  /\ \A kinds : InCalls(b, kinds)' = InCalls(b, kinds)
           /\ Separated(b)' = Separated(b) /\ Gone(b)' = Gone(b) /\ Arrived(b)' = Arrived(b)
           /\ Countable(b) => Countable(b)'
<1>1. \A kinds : MovingMap(b, kinds)' = MovingMap(b, kinds)
  BY DEF MovingMap, Moving, Active, Unrecorded, Units
<1>2. KeptMap(b)' = KeptMap(b) /\ SentMap(b)' = SentMap(b) /\ CountedMap(b)' = CountedMap(b)
  BY DEF KeptMap, SentMap, CountedMap, Kept, Sent, Counted, Known
<1>3. Counts /\ Counts'
  BY Tallies, PTL
<1>4. ASSUME NEW kinds PROVE InCalls(b, kinds)' = InCalls(b, kinds)
  <2>1. PICK n : n = MovingMap(b, kinds) /\ n = MovingMap(b, kinds)'
    BY <1>1
  <2>2. InCalls(b, kinds) = Tally(n) /\ InCalls(b, kinds)' = Tally(n)
    BY <1>3, <2>1 DEF Counts, Tally, Tokens
  <2>. QED BY <2>2
<1>5. Separated(b)' = Separated(b) /\ Gone(b)' = Gone(b) /\ Arrived(b)' = Arrived(b)
  BY <1>2, <1>3 DEF Counts, Tally, Tokens
<1>6. Countable(b) => Countable(b)'
  BY <1>1, <1>2 DEF Countable, Tokens
<1>. QED BY <1>4, <1>5, <1>6

\* The reserved units of a balance change with the orders that hold one there.
LEMMA HoldersChange ==
    ASSUME IsFiniteSet(Orders), Typed, NEW o \in Orders, NEW op \in OrderOps, SyncOrder(o, op),
           NEW b \in Keys
    PROVE  /\ HoldersOf(b, "reserved") \in Nat
           /\ balance'[b].reserved - balance[b].reserved
                = HoldersOf(b, "reserved")' - HoldersOf(b, "reserved")
           /\ balance'[b].stock = balance[b].stock
           /\ HoldersOf(b, "reserved")' \in Nat
<1>. DEFINE H == {x \in Orders : OrderKey[x] = b /\ orderHold[x] = "reserved"}
            G == {x \in Orders : OrderKey[x] = b /\ orderHold'[x] = "reserved"}
<1>1. IsFiniteSet(H) /\ IsFiniteSet(G)
  BY FS_Subset
<1>2. HoldersOf(b, "reserved") = Cardinality(H) /\ HoldersOf(b, "reserved")' = Cardinality(G)
  BY DEF HoldersOf
<1>3. Cardinality(H) \in Nat /\ Cardinality(G) \in Nat
  BY <1>1, FS_CardinalityType
<1>4. /\ balance[b] \in Row /\ balance[b].reserved \in Nat /\ balance[b].stock \in Nat
      /\ OrderKey[o] \in Keys /\ balance[OrderKey[o]] \in Row
  BY OrderKeyAssumption DEF Typed, TypeOK, Row
<1>5. /\ balance' = [balance EXCEPT ![OrderKey[o]] = Effect(op, balance[OrderKey[o]], 1)]
      /\ orderHold'[o] = IF op = "reserve" THEN "reserved"
                         ELSE IF op = "confirm" THEN "confirmed" ELSE "none"
      /\ \A x \in Orders \ {o} : orderHold'[x] = orderHold[x]
      /\ orderHold[o] = CASE op = "reserve" -> "none" [] op \in {"confirm", "release"} -> "reserved"
                          [] op = "reverse" -> "confirmed"
  BY DEF SyncOrder, StateAfter, OrderOps, Typed, TypeOK
<1>6. CASE OrderKey[o] # b
  <2>1. G = H
    BY <1>5, <1>6
  <2>2. balance'[b] = balance[b]
    BY <1>4, <1>5, <1>6 DEF Typed, TypeOK
  <2>. HIDE DEF G, H
  <2>. QED BY <1>2, <1>3, <1>4, <2>1, <2>2
<1>7. CASE OrderKey[o] = b
  <2>1. balance'[b] = Effect(op, balance[b], 1)
    BY <1>4, <1>5, <1>7 DEF Typed, TypeOK
  <2>2. CASE op = "reserve"
    <3>1. G = H \cup {o} /\ o \notin H
      BY <1>5, <1>7, <2>2
    <3>2. Cardinality(G) = Cardinality(H) + 1
      <4>. HIDE DEF G, H
      <4>. QED BY <1>1, <3>1, FS_AddElement
    <3>3. balance'[b].reserved = balance[b].reserved + 1 /\ balance'[b].stock = balance[b].stock
      BY <1>4, <2>1, <2>2 DEF Effect, Row
    <3>. QED BY <1>2, <1>3, <1>4, <3>2, <3>3
  <2>3. CASE op \in {"confirm", "release"}
    <3>1. G = H \ {o} /\ o \in H
      BY <1>5, <1>7, <2>3
    <3>2. Cardinality(G) = Cardinality(H) - 1
      <4>. HIDE DEF G, H
      <4>. QED BY <1>1, <3>1, FS_RemoveElement
    <3>3. balance'[b].reserved = balance[b].reserved - 1 /\ balance'[b].stock = balance[b].stock
      BY <1>4, <2>1, <2>3 DEF Effect, Row
    <3>. QED BY <1>2, <1>3, <1>4, <3>2, <3>3
  <2>4. CASE op = "reverse"
    <3>1. G = H
      BY <1>5, <2>4
    <3>2. balance'[b].reserved = balance[b].reserved /\ balance'[b].stock = balance[b].stock
      BY <1>4, <2>1, <2>4 DEF Effect, Row
    <3>. QED BY <1>2, <1>3, <1>4, <3>1, <3>2
  <2>. QED BY <2>2, <2>3, <2>4 DEF OrderOps
<1>. QED BY <1>6, <1>7

\* The types of the two sides of the books.
LEMMA BookTypes ==
    ASSUME Typed, NEW b \in Keys, Countable(b)
    PROVE  /\ InCalls(b, Undone) \in Nat /\ InCalls(b, {"create"}) \in Nat
           /\ InCalls(b, {"dispatch"}) \in Nat /\ InCalls(b, {"receive"}) \in Nat
           /\ Separated(b) \in Nat /\ Gone(b) \in Nat /\ Arrived(b) \in Nat
           /\ balance[b].reserved \in Nat /\ balance[b].stock \in Nat /\ refused[b] \in Nat
<1>1. ASSUME NEW S, NEW n \in [S -> Nat], IsFiniteSet(Tokens(n)) PROVE Tally(n) \in Nat
  BY <1>1, FS_CardinalityType DEF Tally
<1>2. \A kinds \in SUBSET Movements : InCalls(b, kinds) \in Nat
  BY FS_CardinalityType, Tallies DEF Counts, Countable, Tally
<1>3. Separated(b) \in Nat /\ Gone(b) \in Nat /\ Arrived(b) \in Nat
  BY FS_CardinalityType, Tallies DEF Counts, Countable, Tally
<1>. QED BY <1>2, <1>3 DEF Movements, Undone, Typed, TypeOK, Row

LEMMA BooksSyncOrder ==
    ASSUME IsFiniteSet(Orders), Typed, Typed', Books, NEW o \in Orders, NEW op \in OrderOps,
           SyncOrder(o, op)
    PROVE  Books'
<1> SUFFICES ASSUME restarts = 0, NEW b \in Keys
             PROVE  Countable(b)' /\ ReservedBook(b)' /\ StockBook(b)'
  BY DEF Books, Keys, SyncOrder
<1>1. Countable(b) /\ ReservedBook(b) /\ StockBook(b)
  BY DEF Books
<1>2. UNCHANGED <<call, transfer>> /\ refused' = refused
  BY DEF SyncOrder
<1>3. /\ \A kinds : InCalls(b, kinds)' = InCalls(b, kinds)
      /\ Separated(b)' = Separated(b) /\ Gone(b)' = Gone(b) /\ Arrived(b)' = Arrived(b)
      /\ Countable(b)'
  BY <1>1, <1>2, CountsStay
<1>4. /\ InCalls(b, Undone) \in Nat /\ InCalls(b, {"create"}) \in Nat
      /\ Separated(b) \in Nat /\ balance[b].reserved \in Nat /\ refused[b] \in Nat
      /\ balance'[b].reserved \in Nat
  BY <1>1, BookTypes DEF Typed, TypeOK, Row
<1>5. /\ HoldersOf(b, "reserved") \in Nat /\ HoldersOf(b, "reserved")' \in Nat
      /\ balance'[b].reserved - balance[b].reserved
           = HoldersOf(b, "reserved")' - HoldersOf(b, "reserved")
      /\ balance'[b].stock = balance[b].stock
  BY HoldersChange
<1>6. ReservedBook(b)'
  BY <1>1, <1>2, <1>3, <1>4, <1>5 DEF ReservedBook
<1>7. StockBook(b)'
  BY <1>1, <1>3, <1>5 DEF StockBook
<1>. QED BY <1>3, <1>6, <1>7

LEMMA BooksInit ==
    ASSUME Init
    PROVE  Books
<1> SUFFICES ASSUME NEW b \in Keys PROVE Countable(b) /\ ReservedBook(b) /\ StockBook(b)
  BY DEF Books
<1>1. \A c \in Calls : ~Active(c)
  BY DEF Init, Active, Idle
<1>2. \A t \in TransferIds : transfer[t].status = "absent"
  BY DEF Init, Absent
<1>3. ASSUME NEW kinds
      PROVE  IsFiniteSet(Tokens(MovingMap(b, kinds))) /\ InCalls(b, kinds) = 0
  <2>1. MovingMap(b, kinds) = [c \in Calls |-> 0]
    BY <1>1 DEF MovingMap, Moving
  <2>2. IsFiniteSet(Tokens([c \in Calls |-> 0])) /\ Tally([c \in Calls |-> 0]) = 0
    BY TallyOfNone
  <2>. QED BY <2>1, <2>2, Tallies DEF Counts
<1>4. KeptMap(b) = [t \in TransferIds |-> 0] /\ SentMap(b) = [t \in TransferIds |-> 0]
      /\ CountedMap(b) = [t \in TransferIds |-> 0]
  BY <1>2 DEF KeptMap, SentMap, CountedMap, Kept, Sent, Counted, Known
<1>5. IsFiniteSet(Tokens([t \in TransferIds |-> 0])) /\ Tally([t \in TransferIds |-> 0]) = 0
  BY TallyOfNone
<1>6. Separated(b) = 0 /\ Gone(b) = 0 /\ Arrived(b) = 0
  BY <1>4, <1>5, Tallies DEF Counts
<1>7. Countable(b)
  BY <1>3, <1>4, <1>5 DEF Countable
<1>8. HoldersOf(b, "reserved") = 0
  <2>1. {o \in Orders : OrderKey[o] = b /\ orderHold[o] = "reserved"} = {}
    BY DEF Init
  <2>. QED BY <2>1, FS_EmptySet DEF HoldersOf
<1>9. balance[b].reserved = 0 /\ balance[b].stock = InitialStock[b] /\ refused[b] = 0
      /\ InitialStock[b] \in Nat
  BY InitialStockAssumption DEF Init, NoRow
<1>. QED BY <1>3, <1>6, <1>7, <1>8, <1>9 DEF ReservedBook, StockBook

LEMMA BooksStep ==
    ASSUME IsFiniteSet(Orders), Typed, Typed', Course, Books, [Next]_vars
    PROVE  Books'
<1>1. ASSUME NEW c \in Calls, Request(c) PROVE Books'
  BY <1>1, BooksRequest
<1>2. ASSUME NEW c \in Calls, Continue(c) PROVE Books'
  <2>1. Active(c)
    BY <1>2 DEF Continue, Mutate, Conflict, Upsert, Record, Insert, RecordCancelled,
       RecordDispatched, RecordReceived, UpdateLine, LinesDone, ReRead, WriteIncident,
       WriteStatus, Active
  <2>. QED BY <1>2, <2>1, BooksMutate, BooksAlone, BooksIncident, BooksInsert, BooksLeaves,
              BooksUpdateLine DEF Continue, Record
<1>3. ASSUME NEW o \in Orders, NEW op \in OrderOps, SyncOrder(o, op) PROVE Books'
  BY <1>3, BooksSyncOrder
<1>4. CASE Restart
  <2>1. restarts' # 0
    BY <1>4 DEF Restart, Typed, TypeOK
  <2>. QED BY <2>1 DEF Books
<1>5. CASE UNCHANGED vars
  <2> SUFFICES ASSUME restarts = 0, NEW b \in Keys
               PROVE  Countable(b)' /\ ReservedBook(b)' /\ StockBook(b)'
    BY <1>5 DEF Books, Keys, vars
  <2>1. Countable(b) /\ ReservedBook(b) /\ StockBook(b)
    BY DEF Books
  <2>2. /\ \A kinds : InCalls(b, kinds)' = InCalls(b, kinds)
        /\ Separated(b)' = Separated(b) /\ Gone(b)' = Gone(b) /\ Arrived(b)' = Arrived(b)
        /\ Countable(b)'
    BY <1>5, <2>1, CountsStay DEF vars
  <2>3. HoldersOf(b, "reserved")' = HoldersOf(b, "reserved")
    BY <1>5 DEF HoldersOf, vars
  <2>. QED BY <1>5, <2>1, <2>2, <2>3 DEF ReservedBook, StockBook, vars
<1>. QED BY <1>1, <1>2, <1>3, <1>4, <1>5 DEF Next

\* The reserved units of a balance are those of the orders, of the transfers still
\* to be dispatched, of the calls between their two writes, and of the creations
\* that failed: nothing else holds any, and no call spends another's.
THEOREM ReservedAlwaysAccounted ==
    ASSUME Overlap = FALSE, IsFiniteSet(Orders)
    PROVE  Spec => []ReservedAccounted
<1>1. Typed /\ Course /\ Books /\ [Next]_vars => (Typed /\ Course /\ Books)'
  BY TypedStep, CourseStep, BooksStep
<1>2. Books => ReservedAccounted
  BY DEF Books, ReservedBook, ReservedAccounted, Undone
<1>. QED BY <1>1, <1>2, TypedInit, CourseInit, BooksInit, PTL DEF Spec

\* The stock of a balance is what there was, less what was dispatched, plus what was
\* received, at every point between the writes of the calls.
THEOREM StockAlwaysAccounted ==
    ASSUME Overlap = FALSE, IsFiniteSet(Orders)
    PROVE  Spec => []StockAccounted
<1>1. Typed /\ Course /\ Books /\ [Next]_vars => (Typed /\ Course /\ Books)'
  BY TypedStep, CourseStep, BooksStep
<1>2. Books => StockAccounted
  BY DEF Books, StockBook, StockAccounted
<1>. QED BY <1>1, <1>2, TypedInit, CourseInit, BooksInit, PTL DEF Spec


----------------------------------------------------------------------------
\* The units that the dispatches and cancellations under way have taken, and those
\* this call is about to take, are units of rows that are still reserved: one row
\* each, since no two calls work on one transfer.
LEMMA ClaimsFit ==
    ASSUME Typed, Course, NEW b \in Keys, Countable(b),
           NEW c \in Calls, call[c].phase = "resolving", call[c].kind \in Undone,
           b \in CallKeys(c)
    PROVE  InCalls(b, Undone) + Units(c, b) <= Separated(b)
<1>1. ShareTypes
  BY SharesType
<1>2. PICK n : n = MovingMap(b, Undone)
  OBVIOUS
<1>3. n \in [Calls -> Nat] /\ n[c] = 0 /\ IsFiniteSet(Tokens(n))
      /\ \A d \in Calls : n[d] = Moving(d, b, Undone)
  BY <1>1, <1>2 DEF MovingMap, ShareTypes, Moving, Unrecorded, Countable, Undone, Movements
<1>4. Units(c, b) \in Nat
  BY TaskParts DEF Active
<1>5. PICK m : m = [n EXCEPT ![c] = Units(c, b)]
  OBVIOUS
<1>6. /\ m \in [Calls -> Nat] /\ m[c] = Units(c, b)
      /\ \A d \in Calls \ {c} : m[d] = n[d]
  BY <1>3, <1>4, <1>5
<1>7. IsFiniteSet(Tokens(m)) /\ Tally(n) \in Nat /\ Tally(m) = Tally(n) + Units(c, b)
  BY <1>3, <1>4, <1>6, TallyChange
<1>8. ASSUME NEW d \in Calls, m[d] > 0
      PROVE  /\ Active(d) /\ call[d].kind \in Undone /\ call[d].t \in TransferIds
             /\ KeptMap(b)[call[d].t] = m[d]
  <2>1. /\ Active(d) /\ call[d].kind \in Undone /\ call[d].at = b[1] /\ m[d] = Units(d, b)
        /\ call[d].phase \in Before
    <3>1. CASE d = c
      BY <1>6, <3>1 DEF CallKeys, Active, Before
    <3>2. CASE d # c
      <4>1. Moving(d, b, Undone) > 0 /\ m[d] = Moving(d, b, Undone)
        BY <1>3, <1>6, <1>8, <3>2
      <4>2. /\ Active(d) /\ call[d].kind \in Undone /\ call[d].at = b[1]
            /\ m[d] = Unrecorded(d, b) /\ Unrecorded(d, b) # 0
        BY <4>1 DEF Moving
      <4>. QED BY <4>2 DEF Unrecorded, Before, Undone
    <3>. QED BY <3>1, <3>2
  <2>2. OnCourse(d) /\ call[d].t \in TransferIds
    BY <2>1, CoursePart
  <2>3. /\ transfer[call[d].t].origin = b[1] /\ transfer[call[d].t].quantity = call[d].units
        /\ transfer[call[d].t].status = "reserved"
    BY <2>1, <2>2 DEF OnCourse, Undone, Before
  <2>4. Kept(call[d].t, b) = Units(d, b)
    BY <2>3 DEF Kept, Units
  <2>. QED BY <2>1, <2>2, <2>4 DEF KeptMap
<1>. DEFINE f == [x \in Tokens(m) |-> <<call[x[1]].t, x[2]>>]
<1>9. ASSUME NEW x \in Tokens(m)
      PROVE  /\ x[1] \in Calls /\ x = <<x[1], x[2]>> /\ x[2] \in 1 .. m[x[1]] /\ m[x[1]] > 0
  <2>1. PICK d \in Calls : x \in {d} \X (1 .. m[d])
    BY <1>6 DEF Tokens
  <2>2. m[d] \in Nat
    BY <1>6
  <2>. QED BY <2>1, <2>2
<1>10. ASSUME NEW x \in Tokens(m) PROVE f[x] \in Tokens(KeptMap(b))
  <2>1. call[x[1]].t \in TransferIds /\ KeptMap(b)[call[x[1]].t] = m[x[1]]
    BY <1>8, <1>9
  <2>2. DOMAIN KeptMap(b) = TransferIds
    BY DEF KeptMap
  <2>3. <<call[x[1]].t, x[2]>> \in {call[x[1]].t} \X (1 .. KeptMap(b)[call[x[1]].t])
    BY <1>9, <2>1
  <2>. QED BY <2>1, <2>2, <2>3 DEF Tokens
<1>11. ASSUME NEW x \in Tokens(m), NEW y \in Tokens(m), f[x] = f[y] PROVE x = y
  <2>1. call[x[1]].t = call[y[1]].t /\ x[2] = y[2]
    BY <1>11
  <2>2. /\ x[1] \in Calls /\ Active(x[1]) /\ call[x[1]].kind \in Undone
        /\ y[1] \in Calls /\ Active(y[1]) /\ call[y[1]].kind \in Undone
    BY <1>8, <1>9
  <2>3. x[1] = y[1]
    BY <2>1, <2>2 DEF Course, OneCallPerTransfer, Undone
  <2>. QED BY <1>9, <2>1, <2>3
<1>12. f \in Injection(Tokens(m), Tokens(KeptMap(b)))
  BY <1>10, <1>11 DEF Injection, IsInjective
<1>13. Cardinality(Tokens(m)) <= Cardinality(Tokens(KeptMap(b)))
  <2>. HIDE DEF f
  <2>. QED BY <1>12, FS_Injection DEF Countable
<1>14. InCalls(b, Undone) = Tally(n) /\ Separated(b) = Tally(KeptMap(b))
  BY <1>2, Tallies DEF Counts
<1>. QED BY <1>7, <1>13, <1>14 DEF Tally

\* A dispatch or a cancellation that found its transfer reserved finds its units in
\* the balance, and the goods on the shelf, whatever the other calls and the orders
\* did since: its two conflicts are out of reach while calls do not overlap on one
\* transfer and the process does not restart.
THEOREM OwnReservationAlwaysThere ==
    ASSUME Overlap = FALSE, IsFiniteSet(Orders)
    PROVE  Spec => []OwnReservationThere
<1>1. Typed /\ Course /\ Books /\ NoDoubleUse /\ [Next]_vars
        => (Typed /\ Course /\ Books /\ NoDoubleUse)'
  BY TypedStep, CourseStep, BooksStep, PromisedStep
<1>2. ASSUME Typed, Course, Books, NoDoubleUse PROVE OwnReservationThere
  <2>1. SUFFICES ASSUME restarts = 0, NEW c \in Calls, call[c].phase = "resolving",
                        call[c].kind \in {"dispatch", "cancel"}, NEW b \in CallKeys(c)
                 PROVE  Fits(call[c].kind, balance[b], Units(c, b))
    BY DEF OwnReservationThere
  <2>2. b \in Keys /\ Units(c, b) \in Nat
    BY <1>2, <2>1, TaskParts DEF CallKeys, Active
  <2>3. Countable(b) /\ ReservedBook(b) /\ call[c].kind \in Undone
    BY <1>2, <2>1, <2>2 DEF Books, Undone
  <2>4. InCalls(b, Undone) + Units(c, b) <= Separated(b)
    BY <1>2, <2>1, <2>2, <2>3, ClaimsFit
  <2>5. HoldersOf(b, "reserved") \in Nat
    <3>1. IsFiniteSet({o \in Orders : OrderKey[o] = b /\ orderHold[o] = "reserved"})
      BY FS_Subset
    <3>. QED BY <3>1, FS_CardinalityType DEF HoldersOf
  <2>6. /\ InCalls(b, Undone) \in Nat /\ InCalls(b, {"create"}) \in Nat /\ Separated(b) \in Nat
        /\ balance[b].reserved \in Nat /\ balance[b].stock \in Nat /\ refused[b] \in Nat
    BY <1>2, <2>2, <2>3, BookTypes
  <2>7. balance[b].reserved >= Units(c, b)
    BY <2>2, <2>3, <2>4, <2>5, <2>6 DEF ReservedBook
  <2>8. balance[b].reserved + balance[b].committed <= balance[b].stock
        /\ balance[b].committed \in Nat
    BY <1>2, <2>1, <2>2 DEF NoDoubleUse, Typed, TypeOK, Row
  <2>9. balance[b].stock >= Units(c, b)
    BY <2>2, <2>6, <2>7, <2>8
  <2>. QED BY <2>1, <2>7, <2>9 DEF Fits
<1>3. Init => NoDoubleUse
  BY InitialStockAssumption DEF Init, NoDoubleUse, NoRow
<1>. QED BY <1>1, <1>2, <1>3, TypedInit, CourseInit, BooksInit, PTL DEF Spec
=============================================================================
