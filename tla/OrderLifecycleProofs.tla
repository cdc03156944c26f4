------------------------ MODULE OrderLifecycleProofs ------------------------
(***************************************************************************)
(* For any orders, warehouses, capacities, handlers and restarts: the      *)
(* types of OrderLifecycle; that no order is sold without a payment, in    *)
(* memory or in any snapshot that has landed or is still to land; that a   *)
(* payment is kept, and what is kept of a terminal status.  In a process   *)
(* that has not restarted: that points follow the payment, that points are *)
(* taken back only after the units, and that cancellations and approvals   *)
(* end what they began unless a conflict stops them.                       *)
(***************************************************************************)
EXTENDS OrderLifecycle, TLAPS

LEMMA LifecycleStateType ==
    ASSUME NEW s \in Statuses
    PROVE  LifecycleState(s) \in Lifecycles
BY DEF LifecycleState, Statuses, Lifecycles, Confirmed, Reservable, Cancelled

LEMMA SourceType ==
    ASSUME NEW x \in Order
    PROVE  Source(x) \in Warehouses
BY WarehousesAssumption DEF Source, Order

LEMMA NoOrderType == NoOrder \in Order /\ NoOrders \in [Orders -> Order]
BY DEF NoOrder, NoOrders, Order, Statuses

LEMMA TaskType ==
    ASSUME NEW step \in {"assign", "plan", "sync", "points", "save", "landing"},
           NEW o \in Orders, NEW then \in {"settle", "reverse", "nothing"}
    PROVE  Task(step, o, then) \in Running
BY WarehousesAssumption, NoOrderType DEF Task, Running, Lifecycles

LEMMA SyncOfType ==
    ASSUME NEW task \in Running, NEW x \in Order, NEW allow \in BOOLEAN
    PROVE  SyncOf(task, x, allow) \in Running
<1>1. LifecycleState(x.status) \in Lifecycles
  BY LifecycleStateType DEF Order
<1>2. Source(x) \in Warehouses
  BY SourceType
<1>. QED BY <1>1, <1>2 DEF SyncOf, Running

LEMMA LandingType ==
    ASSUME NEW task \in Running, NEW orders \in [Orders -> Order]
    PROVE  Landing(task, orders) \in Running
BY DEF Landing, Running

\* What syncOrder may leave an order with is a hold.
LEMMA SyncedType ==
    ASSUME hold \in [Orders -> Hold], NEW o \in Orders, NEW target \in Lifecycles,
           NEW w \in Warehouses, NEW allow \in BOOLEAN
    PROVE  Synced(o, target, w, allow).hold \in Hold
<1>1. hold[o] \in Hold
  OBVIOUS
<1>2. [state |-> target, at |-> w] \in Hold
  BY DEF Hold, Lifecycles
<1>3. [state |-> hold[o].state, at |-> w] \in Hold
  BY <1>1 DEF Hold
<1>4. [hold[o] EXCEPT !.state = "released"] \in Hold
  BY <1>1 DEF Hold
<1>. QED BY <1>1, <1>2, <1>3, <1>4 DEF Synced

----------------------------------------------------------------------------
\* Every operation that begins a handler leaves a task of the right shape.
LEMMA StartType ==
    ASSUME TypeOK, NEW h \in Handlers, NEW task \in Running, Start(h, task)
    PROVE  handler' \in [Handlers -> {Idle} \cup Running]
BY DEF Start, TypeOK

LEMMA CreateType ==
    ASSUME TypeOK, NEW h \in Handlers, NEW o \in Orders, NEW new \in Order,
           NEW earned \in Points, Create(h, o, new, earned)
    PROVE  TypeOK'
<1>1. PICK w \in Warehouses \cup {NoWarehouse} :
        LET x == [new EXCEPT !.at = w]
            result == Synced(o, LifecycleState(x.status), Source(x), FALSE)
        IN  /\ order' = [order EXCEPT ![o] = x]
            /\ hold' = [hold EXCEPT ![o] = result.hold]
  BY DEF Create
<1>. DEFINE x == [new EXCEPT !.at = w]
<1>2. x \in Order
  BY DEF Order
<1>3. order' \in [Orders -> Order]
  BY <1>1, <1>2 DEF TypeOK
<1>4. LifecycleState(x.status) \in Lifecycles /\ Source(x) \in Warehouses
  BY <1>2, LifecycleStateType, SourceType DEF Order
<1>5. Synced(o, LifecycleState(x.status), Source(x), FALSE).hold \in Hold
  BY <1>4, SyncedType DEF TypeOK
<1>6. hold' \in [Orders -> Hold]
  BY <1>1, <1>5 DEF TypeOK
<1>7. points' \in [Orders -> Points]
  BY DEF Create, TypeOK
<1>8. Landing(Task("landing", o, "nothing"), order') \in Running
  BY <1>3, TaskType, LandingType
<1>9. handler' \in [Handlers -> {Idle} \cup Running]
  BY <1>8, StartType DEF Create
<1>10. saved' \in [order : [Orders -> Order], points : [Orders -> Points]]
  BY <1>7 DEF Create, TypeOK
<1>. QED BY <1>3, <1>6, <1>7, <1>9, <1>10 DEF Create, TypeOK

\* The operations that change one order and start a handler.
LEMMA BeginType ==
    ASSUME TypeOK, NEW h \in Handlers, NEW o \in Orders, NEW x \in Order, NEW task \in Running,
           order' = [order EXCEPT ![o] = x], Start(h, task),
           UNCHANGED <<hold, points, saved, restarts, stopped>>
    PROVE  TypeOK'
BY StartType DEF TypeOK

LEMMA ConfirmType ==
    ASSUME TypeOK, NEW h \in Handlers, NEW o \in Orders,
           NEW request \in {"none", "open", "approved", "rejected"}, Confirm(h, o, request)
    PROVE  TypeOK'
<1>. DEFINE x == [order[o] EXCEPT !.status = "confirmed", !.payment = "paid", !.request = request]
<1>0. order[o] \in Order /\ "confirmed" \in Statuses
  BY DEF TypeOK, Statuses, Confirmed
<1>1. x \in Order
  BY <1>0 DEF Order
<1>2. order' = [order EXCEPT ![o] = x]
  BY DEF Confirm, TypeOK
<1>3. Task("plan", o, "settle") \in Running
  BY TaskType
<1>. QED BY <1>1, <1>2, <1>3, BeginType DEF Confirm

LEMMA RejectType ==
    ASSUME TypeOK, NEW h \in Handlers, NEW o \in Orders, rejectManualRequest(h, o)
    PROVE  TypeOK'
<1>. DEFINE x == [order[o] EXCEPT !.status = "cancelled", !.payment = "failed", !.request = "rejected"]
<1>0. order[o] \in Order /\ "cancelled" \in Statuses
  BY DEF TypeOK, Statuses, Cancelled
<1>1. x \in Order
  BY <1>0 DEF Order
<1>2. order' = [order EXCEPT ![o] = x] /\ order'[o] = x
  BY DEF rejectManualRequest, TypeOK
<1>3. SyncOf(Task("sync", o, "reverse"), order'[o], FALSE) \in Running
  BY <1>1, <1>2, TaskType, SyncOfType
<1>. QED BY <1>1, <1>2, <1>3, BeginType DEF rejectManualRequest

LEMMA TransitionType ==
    ASSUME TypeOK, NEW h \in Handlers, NEW o \in Orders, NEW next \in Statuses,
           transitionOrderStatus(h, o, next)
    PROVE  TypeOK'
<1>. DEFINE x == [order[o] EXCEPT !.status = next]
            task == Task("plan", o, IF next \in Cancelled THEN "reverse" ELSE "nothing")
<1>0. order[o] \in Order
  BY DEF TypeOK
<1>1. x \in Order
  BY <1>0 DEF Order
<1>2. order' = [order EXCEPT ![o] = x] /\ order'[o] = x
  BY DEF transitionOrderStatus, TypeOK
<1>3. task \in Running
  BY TaskType
<1>4. SyncOf(task, order'[o], FALSE) \in Running
  BY <1>1, <1>2, <1>3, SyncOfType
<1>5. PICK t \in Running : Start(h, t)
  BY <1>3, <1>4 DEF transitionOrderStatus
<1>. QED BY <1>1, <1>2, <1>5, BeginType DEF transitionOrderStatus

LEMMA AssignRequestType ==
    ASSUME TypeOK, NEW h \in Handlers, NEW o \in Orders, NEW w \in Warehouses,
           assignOrderFulfillment(h, o, w)
    PROVE  TypeOK'
<1>1. [Task("assign", o, "nothing") EXCEPT !.to = w] \in Running
  BY TaskType DEF Running
<1>. QED BY <1>1, StartType DEF assignOrderFulfillment, TypeOK

LEMMA RequestType ==
    ASSUME TypeOK, NEW h \in Handlers, Request(h)
    PROVE  TypeOK'
<1>1. PICK o \in Orders :
        \/ createOpenpayCheckout(h, o)
        \/ createManualCheckout(h, o)
        \/ createBackofficeOrder(h, o)
        \/ approveManualRequest(h, o)
        \/ registerAdminManualPayment(h, o)
        \/ confirmOnlinePayment(h, o)
        \/ rejectManualRequest(h, o)
        \/ \E next \in Statuses : transitionOrderStatus(h, o, next)
        \/ \E w \in Warehouses : assignOrderFulfillment(h, o, w)
  BY DEF Request
<1>2. CASE createOpenpayCheckout(h, o) \/ createManualCheckout(h, o) \/ createBackofficeOrder(h, o)
  <2>1. \A new \in Order, earned \in Points : Create(h, o, new, earned) => TypeOK'
    BY CreateType
  <2>2. /\ [NoOrder EXCEPT !.status = "pending_payment", !.payment = "initiated",
                           !.method = "openpay"] \in Order
        /\ [NoOrder EXCEPT !.status = "payment_under_review", !.request = "open"] \in Order
        /\ [NoOrder EXCEPT !.status = "pending_payment"] \in Order
        /\ [NoOrder EXCEPT !.status = "confirmed", !.payment = "paid"] \in Order
    BY DEF NoOrder, Order, Statuses, Reservable, Confirmed
  <2>3. "pending" \in Points /\ "none" \in Points /\ "available" \in Points
    BY DEF Points
  <2>. QED BY <1>2, <2>1, <2>2, <2>3
         DEF createOpenpayCheckout, createManualCheckout, createBackofficeOrder
<1>3. CASE approveManualRequest(h, o) \/ registerAdminManualPayment(h, o) \/ confirmOnlinePayment(h, o)
  <2>1. order[o].request \in {"none", "open", "approved", "rejected"}
    BY DEF TypeOK, Order
  <2>. QED BY <1>3, <2>1, ConfirmType
         DEF approveManualRequest, registerAdminManualPayment, confirmOnlinePayment
<1>4. CASE rejectManualRequest(h, o)
  BY <1>4, RejectType
<1>5. CASE \E next \in Statuses : transitionOrderStatus(h, o, next)
  BY <1>5, TransitionType
<1>6. CASE \E w \in Warehouses : assignOrderFulfillment(h, o, w)
  BY <1>6, AssignRequestType
<1>. QED BY <1>1, <1>2, <1>3, <1>4, <1>5, <1>6

----------------------------------------------------------------------------
\* What follows an await keeps the types.
LEMMA TaskOf ==
    ASSUME TypeOK, NEW h \in Handlers, NEW step, At(h, step), step # "idle"
    PROVE  handler[h] \in Running
BY DEF TypeOK, At, Idle

LEMMA AssignType ==
    ASSUME TypeOK, NEW h \in Handlers, Assign(h)
    PROVE  TypeOK'
<1>. DEFINE o == handler[h].of
            x == [order[o] EXCEPT !.at = handler[h].to]
<1>1. handler[h] \in Running
  BY TaskOf DEF Assign
<1>2. o \in Orders /\ handler[h].to \in Warehouses \cup {NoWarehouse}
  BY <1>1 DEF Running
<1>3. order[o] \in Order
  BY <1>2 DEF TypeOK
<1>4. x \in Order
  BY <1>2, <1>3 DEF Order
<1>5. order' = [order EXCEPT ![o] = x] /\ order'[o] = x
  BY <1>2 DEF Assign, TypeOK
<1>6. SyncOf(handler[h], order'[o], TRUE) \in Running
  BY <1>1, <1>4, <1>5, SyncOfType
<1>. QED BY <1>2, <1>4, <1>5, <1>6 DEF Assign, TypeOK

LEMMA PlanType ==
    ASSUME TypeOK, NEW h \in Handlers, Plan(h)
    PROVE  TypeOK'
<1>. DEFINE o == handler[h].of
<1>1. handler[h] \in Running
  BY TaskOf DEF Plan
<1>2. o \in Orders
  BY <1>1 DEF Running
<1>3. order[o] \in Order
  BY <1>2 DEF TypeOK
<1>4. PICK w \in Warehouses \cup {NoWarehouse} :
        /\ order' = [order EXCEPT ![o].at = IF @ = NoWarehouse THEN w ELSE @]
        /\ handler' = [handler EXCEPT ![h] =
                         SyncOf(@, order'[o], order'[o].at # order[o].at)]
  BY DEF Plan
<1>. DEFINE x == [order[o] EXCEPT !.at = IF order[o].at = NoWarehouse THEN w ELSE order[o].at]
<1>5. x \in Order
  BY <1>3 DEF Order
<1>6. order' = [order EXCEPT ![o] = x] /\ order'[o] = x
  BY <1>2, <1>4 DEF TypeOK
<1>7. SyncOf(handler[h], order'[o], order'[o].at # order[o].at) \in Running
  BY <1>1, <1>5, <1>6, SyncOfType
<1>. QED BY <1>2, <1>4, <1>5, <1>6, <1>7 DEF Plan, TypeOK

LEMMA StepType ==
    ASSUME TypeOK, NEW h \in Handlers,
           NEW step \in {"assign", "plan", "sync", "points", "save", "landing"},
           handler[h] \in Running, End(h) \/ GoTo(h, step)
    PROVE  handler' \in [Handlers -> {Idle} \cup Running]
<1>1. [handler[h] EXCEPT !.step = step] \in Running
  BY DEF Running
<1>. QED BY <1>1 DEF End, GoTo, TypeOK

LEMMA SyncType ==
    ASSUME TypeOK, NEW h \in Handlers, Sync(h)
    PROVE  TypeOK'
<1>. DEFINE t == handler[h]
            result == Synced(t.of, t.target, t.at, t.allow)
<1>1. t \in Running
  BY TaskOf DEF Sync
<1>2. t.of \in Orders /\ t.target \in Lifecycles /\ t.at \in Warehouses /\ t.allow \in BOOLEAN
  BY <1>1 DEF Running
<1>3. result.hold \in Hold
  BY <1>2, SyncedType DEF TypeOK
<1>4. hold' = [hold EXCEPT ![t.of] = result.hold] /\ (End(h) \/ GoTo(h, "points"))
  BY DEF Sync
<1>5. hold' \in [Orders -> Hold]
  BY <1>2, <1>3, <1>4 DEF TypeOK
<1>6. handler' \in [Handlers -> {Idle} \cup Running]
  BY <1>1, <1>4, StepType
<1>7. stopped' \in SUBSET (Orders \X {"settle", "reverse"})
  BY <1>1 DEF Sync, TypeOK, Running
<1>. QED BY <1>5, <1>6, <1>7 DEF Sync, TypeOK

LEMMA PointsType ==
    ASSUME TypeOK, NEW h \in Handlers, Settle(h) \/ Reverse(h)
    PROVE  TypeOK'
<1>. DEFINE o == handler[h].of
<1>1. handler[h] \in Running
  BY TaskOf DEF Settle, Reverse
<1>2. o \in Orders
  BY <1>1 DEF Running
<1>3. points' \in [Orders -> Points]
  <2>1. points[o] \in Points
    BY <1>2 DEF TypeOK
  <2>2. PICK p \in Points : points' = [points EXCEPT ![o] = p]
    BY <1>2, <2>1 DEF Settle, Reverse, Points, TypeOK
  <2>. QED BY <2>2 DEF TypeOK
<1>4. saved' \in [order : [Orders -> Order], points : [Orders -> Points]]
  BY <1>3 DEF Settle, Reverse, TypeOK
<1>5. handler' \in [Handlers -> {Idle} \cup Running]
  BY <1>1, StepType DEF Settle, Reverse
<1>. QED BY <1>3, <1>4, <1>5 DEF Settle, Reverse, TypeOK

LEMMA SaveType ==
    ASSUME TypeOK, NEW h \in Handlers, Save(h) \/ Land(h)
    PROVE  TypeOK'
<1>1. handler[h] \in Running
  BY TaskOf DEF Save, Land
<1>2. CASE Save(h)
  <2>1. Landing(handler[h], order) \in Running
    BY <1>1, LandingType DEF TypeOK
  <2>. QED BY <1>2, <2>1 DEF Save, TypeOK
<1>3. CASE Land(h)
  <2>1. handler[h].copy \in [Orders -> Order]
    BY <1>1 DEF Running
  <2>2. saved' \in [order : [Orders -> Order], points : [Orders -> Points]]
    BY <1>3, <2>1 DEF Land, TypeOK
  <2>. QED BY <1>3, <2>2 DEF Land, End, TypeOK
<1>. QED BY <1>2, <1>3

LEMMA RestartType ==
    ASSUME TypeOK, Restart
    PROVE  TypeOK'
<1>1. PICK at \in [Orders -> Warehouses \cup {NoWarehouse}] :
        order' = [o \in Orders |->
                     IF saved.order[o].status # "absent" /\ saved.order[o].at = NoWarehouse
                     THEN [saved.order[o] EXCEPT !.at = at[o]] ELSE saved.order[o]]
  BY DEF Restart
<1>2. ASSUME NEW o \in Orders
      PROVE  saved.order[o] \in Order /\ [saved.order[o] EXCEPT !.at = at[o]] \in Order
  <2>1. saved.order[o] \in Order
    BY DEF TypeOK
  <2>2. at[o] \in Warehouses \cup {NoWarehouse}
    OBVIOUS
  <2>. QED BY <2>1, <2>2 DEF Order
<1>3. order' \in [Orders -> Order]
  BY <1>1, <1>2
<1>4. ASSUME NEW o \in Orders PROVE Rebuilt(order'[o]) \in Hold
  BY <1>3, SourceType, WarehousesAssumption DEF Rebuilt, Hold, Free
<1>5. hold' \in [Orders -> Hold]
  BY <1>4 DEF Restart
<1>6. restarts' \in 0 .. MaxRestarts
  BY RestartsAssumption DEF Restart, TypeOK
<1>7. points' \in [Orders -> Points] /\ handler' \in [Handlers -> {Idle} \cup Running]
  BY DEF Restart, TypeOK
<1>8. saved' \in [order : [Orders -> Order], points : [Orders -> Points]]
  BY <1>3 DEF Restart, TypeOK
<1>9. stopped' \in SUBSET (Orders \X {"settle", "reverse"})
  BY DEF Restart
<1>. QED BY <1>3, <1>5, <1>6, <1>7, <1>8, <1>9 DEF TypeOK

LEMMA TypeInit == Init => TypeOK
<1>1. NoOrders \in [Orders -> Order] /\ Free \in Hold /\ "none" \in Points
  BY NoOrderType, WarehousesAssumption DEF Free, Hold, Points
<1>. QED BY <1>1, RestartsAssumption DEF Init, TypeOK

LEMMA TypeStep == TypeOK /\ [Next]_vars => TypeOK'
<1>. SUFFICES ASSUME TypeOK, [Next]_vars PROVE TypeOK'
  OBVIOUS
<1>1. ASSUME NEW h \in Handlers, Request(h) PROVE TypeOK'
  BY <1>1, RequestType
<1>2. ASSUME NEW h \in Handlers, Continue(h) PROVE TypeOK'
  BY <1>2, AssignType, PlanType, SyncType, PointsType, SaveType DEF Continue
<1>3. CASE Restart
  BY <1>3, RestartType
<1>4. CASE UNCHANGED vars
  BY <1>4 DEF vars, TypeOK
<1>. QED BY <1>1, <1>2, <1>3, <1>4 DEF Next

\* Orders, holds, points, tasks and snapshots keep their shapes.
THEOREM LifecycleTypeCorrect == Spec => []TypeOK
BY TypeInit, TypeStep, PTL DEF Spec

----------------------------------------------------------------------------
\* What every copy of an order satisfies, wherever it may be: a sold order carries
\* its payment, and an order paid online exists and is never under manual review.
OrderSound(x) ==
    /\ x.status \in Confirmed => x.payment = "paid"
    /\ x.method = "openpay" => x.request = "none" /\ x.status # "absent"

CopiesSound ==
    /\ \A o \in Orders : OrderSound(order[o]) /\ OrderSound(saved.order[o])
    /\ \A h \in Handlers : handler[h] # Idle => \A o \in Orders : OrderSound(handler[h].copy[o])

LEMMA CopiesSoundIsSoldIsPaid == CopiesSound => SoldIsPaid
BY DEF CopiesSound, SoldIsPaid, OrderSound, Copies

\* An absent order is sound.
LEMMA NoOrdersSound == \A o \in Orders : OrderSound(NoOrders[o])
BY DEF OrderSound, NoOrders, NoOrder, Confirmed

\* A new task carries no copy of a sold order.
LEMMA FreshTask ==
    ASSUME NEW step, NEW o, NEW then
    PROVE  Task(step, o, then).copy = NoOrders
BY DEF Task

\* What a step must show: the orders it leaves are sound, and so is the copy of
\* the one task it changes; the snapshot is untouched.
LEMMA OneTask ==
    ASSUME TypeOK, CopiesSound, NEW h \in Handlers, NEW task \in {Idle} \cup Running,
           handler' = [handler EXCEPT ![h] = task],
           \A o \in Orders : OrderSound(order'[o]),
           task # Idle => \A o \in Orders : OrderSound(task.copy[o]),
           saved'.order = saved.order
    PROVE  CopiesSound'
BY DEF CopiesSound, TypeOK, OrderSound

\* One order changes, and stays sound.
LEMMA OneOrder ==
    ASSUME TypeOK, CopiesSound, NEW o \in Orders, NEW x, OrderSound(x),
           order' = [order EXCEPT ![o] = x]
    PROVE  \A p \in Orders : OrderSound(order'[p])
BY DEF CopiesSound, TypeOK, OrderSound

LEMMA SoldInit == Init => CopiesSound
BY NoOrdersSound DEF Init, CopiesSound

LEMMA SoldCreate ==
    ASSUME TypeOK, CopiesSound, NEW h \in Handlers, NEW o \in Orders, NEW new \in Order,
           OrderSound(new), NEW earned \in Points, Create(h, o, new, earned)
    PROVE  CopiesSound'
<1>1. PICK w \in Warehouses \cup {NoWarehouse} : order' = [order EXCEPT ![o] = [new EXCEPT !.at = w]]
  BY DEF Create
<1>2. OrderSound([new EXCEPT !.at = w])
  BY DEF OrderSound, Order
<1>3. \A p \in Orders : OrderSound(order'[p])
  BY <1>1, <1>2, OneOrder
<1>. DEFINE task == Landing(Task("landing", o, "nothing"), order')
<1>4. TypeOK'
  BY CreateType
<1>5. task \in Running /\ task.copy = order'
  <2>1. order' \in [Orders -> Order]
    BY <1>4 DEF TypeOK
  <2>2. Task("landing", o, "nothing") \in Running
    BY TaskType
  <2>3. task \in Running
    BY <2>1, <2>2, LandingType
  <2>. QED BY <2>2, <2>3 DEF Landing, Running
<1>6. handler' = [handler EXCEPT ![h] = task] /\ saved'.order = saved.order
  BY DEF Create, Start, TypeOK
<1>. HIDE DEF task
<1>. QED BY <1>3, <1>5, <1>6, OneTask

LEMMA SyncOfCopy ==
    ASSUME NEW task \in Running, NEW x, NEW allow
    PROVE  SyncOf(task, x, allow).copy = task.copy
BY DEF SyncOf, Running

\* The table of transitions leads nowhere from a cancelled order, nor back to absent.
LEMMA TransitionTable ==
    ASSUME NEW s \in Statuses, NEW next \in operationalTransitions(s)
    PROVE  s \notin Cancelled \cup {"absent"} /\ next # "absent"
BY DEF operationalTransitions, Statuses, Confirmed, Reservable, Cancelled

LEMMA SoldRequest ==
    ASSUME TypeOK, CopiesSound, NEW h \in Handlers, Request(h)
    PROVE  CopiesSound'
<1>1. PICK o \in Orders :
        \/ createOpenpayCheckout(h, o)
        \/ createManualCheckout(h, o)
        \/ createBackofficeOrder(h, o)
        \/ approveManualRequest(h, o)
        \/ registerAdminManualPayment(h, o)
        \/ confirmOnlinePayment(h, o)
        \/ rejectManualRequest(h, o)
        \/ \E next \in Statuses : transitionOrderStatus(h, o, next)
        \/ \E w \in Warehouses : assignOrderFulfillment(h, o, w)
  BY DEF Request
<1>2. order[o] \in Order
  BY DEF TypeOK
<1>3. TypeOK'
  BY RequestType
\* A task that is only begun carries no copy.
<1>4. ASSUME NEW task \in Running, task.copy = NoOrders, Start(h, task),
             \A p \in Orders : OrderSound(order'[p]), UNCHANGED saved
      PROVE  CopiesSound'
  BY <1>4, OneTask, NoOrdersSound DEF Start
<1>5. CASE createOpenpayCheckout(h, o) \/ createManualCheckout(h, o) \/ createBackofficeOrder(h, o)
  <2>1. \A new \in Order, earned \in Points :
          OrderSound(new) /\ Create(h, o, new, earned) => CopiesSound'
    BY SoldCreate
  <2>2. /\ [NoOrder EXCEPT !.status = "pending_payment", !.payment = "initiated",
                           !.method = "openpay"] \in Order
        /\ [NoOrder EXCEPT !.status = "payment_under_review", !.request = "open"] \in Order
        /\ [NoOrder EXCEPT !.status = "pending_payment"] \in Order
        /\ [NoOrder EXCEPT !.status = "confirmed", !.payment = "paid"] \in Order
    BY DEF NoOrder, Order, Statuses, Reservable, Confirmed
  <2>3. /\ OrderSound([NoOrder EXCEPT !.status = "pending_payment", !.payment = "initiated",
                                      !.method = "openpay"])
        /\ OrderSound([NoOrder EXCEPT !.status = "payment_under_review", !.request = "open"])
        /\ OrderSound([NoOrder EXCEPT !.status = "pending_payment"])
        /\ OrderSound([NoOrder EXCEPT !.status = "confirmed", !.payment = "paid"])
    BY DEF NoOrder, OrderSound, Confirmed
  <2>4. "pending" \in Points /\ "none" \in Points /\ "available" \in Points
    BY DEF Points
  <2>. QED BY <1>5, <2>1, <2>2, <2>3, <2>4
         DEF createOpenpayCheckout, createManualCheckout, createBackofficeOrder
<1>6. CASE approveManualRequest(h, o) \/ registerAdminManualPayment(h, o) \/ confirmOnlinePayment(h, o)
  <2>1. PICK request \in {"none", "open", "approved", "rejected"} :
          Confirm(h, o, request) /\ (order[o].method = "openpay" => request = order[o].request)
    BY <1>2, <1>6 DEF approveManualRequest, registerAdminManualPayment, confirmOnlinePayment,
                      Reviewable, Order
  <2>. DEFINE x == [order[o] EXCEPT !.status = "confirmed", !.payment = "paid", !.request = request]
  <2>2. OrderSound(x)
    BY <1>2, <2>1 DEF CopiesSound, OrderSound, Order
  <2>3. order' = [order EXCEPT ![o] = x]
    BY <2>1 DEF Confirm, TypeOK
  <2>4. \A p \in Orders : OrderSound(order'[p])
    BY <2>2, <2>3, OneOrder
  <2>. QED BY <1>4, <2>1, <2>4, TaskType, FreshTask DEF Confirm
<1>7. CASE rejectManualRequest(h, o)
  <2>. DEFINE x == [order[o] EXCEPT !.status = "cancelled", !.payment = "failed", !.request = "rejected"]
              task == Task("sync", o, "reverse")
  <2>1. OrderSound(x)
    BY <1>2, <1>7 DEF rejectManualRequest, Reviewable, OrderSound, Order, Confirmed
  <2>2. order' = [order EXCEPT ![o] = x]
    BY <1>7 DEF rejectManualRequest, TypeOK
  <2>3. \A p \in Orders : OrderSound(order'[p])
    BY <2>1, <2>2, OneOrder
  <2>4. task \in Running /\ task.copy = NoOrders
    BY TaskType, FreshTask
  <2>5. order'[o] \in Order
    BY <1>3 DEF TypeOK
  <2>6. SyncOf(task, order'[o], FALSE) \in Running /\ SyncOf(task, order'[o], FALSE).copy = NoOrders
    BY <2>4, <2>5, SyncOfType, SyncOfCopy
  <2>. QED BY <1>4, <1>7, <2>3, <2>6 DEF rejectManualRequest
<1>8. CASE \E next \in Statuses : transitionOrderStatus(h, o, next)
  <2>1. PICK next \in Statuses : transitionOrderStatus(h, o, next)
    BY <1>8
  <2>. DEFINE x == [order[o] EXCEPT !.status = next]
              task == Task("plan", o, IF next \in Cancelled THEN "reverse" ELSE "nothing")
  <2>2. OrderSound(x)
    BY <1>2, <2>1, TransitionTable DEF CopiesSound, OrderSound, Order, transitionOrderStatus, MayTransition
  <2>3. order' = [order EXCEPT ![o] = x]
    BY <2>1 DEF transitionOrderStatus, TypeOK
  <2>4. \A p \in Orders : OrderSound(order'[p])
    BY <2>2, <2>3, OneOrder
  <2>5. task \in Running /\ task.copy = NoOrders
    BY TaskType, FreshTask
  <2>6. order'[o] \in Order
    BY <1>3 DEF TypeOK
  <2>7. SyncOf(task, order'[o], FALSE) \in Running /\ SyncOf(task, order'[o], FALSE).copy = NoOrders
    BY <2>5, <2>6, SyncOfType, SyncOfCopy
  <2>. QED BY <1>4, <2>1, <2>4, <2>5, <2>7 DEF transitionOrderStatus
<1>9. CASE \E w \in Warehouses : assignOrderFulfillment(h, o, w)
  <2>1. PICK w \in Warehouses : assignOrderFulfillment(h, o, w)
    BY <1>9
  <2>. DEFINE task == [Task("assign", o, "nothing") EXCEPT !.to = w]
  <2>2. task \in Running /\ task.copy = NoOrders
    BY TaskType, FreshTask DEF Running
  <2>3. \A p \in Orders : OrderSound(order'[p])
    BY <2>1 DEF assignOrderFulfillment, CopiesSound
  <2>. QED BY <1>4, <2>1, <2>2, <2>3 DEF assignOrderFulfillment
<1>. QED BY <1>1, <1>5, <1>6, <1>7, <1>8, <1>9

LEMMA SoldContinue ==
    ASSUME TypeOK, CopiesSound, NEW h \in Handlers, Continue(h)
    PROVE  CopiesSound'
<1>1. handler[h] \in Running /\ handler[h] # Idle
  <2>1. handler[h] \in Running
    BY TaskOf DEF Continue, Assign, Plan, Sync, Settle, Reverse, Save, Land
  <2>. QED BY <2>1 DEF Running, Idle
<1>2. \A o \in Orders : OrderSound(handler[h].copy[o]) /\ OrderSound(order[o])
  BY <1>1 DEF CopiesSound
<1>3. handler[h].of \in Orders /\ order[handler[h].of] \in Order
  BY <1>1 DEF Running, TypeOK
<1>4. TypeOK'
  BY AssignType, PlanType, SyncType, PointsType, SaveType DEF Continue
\* A step that leaves the copy and the orders alone.
<1>5. ASSUME UNCHANGED order, saved'.order = saved.order,
             End(h) \/ GoTo(h, "points") \/ GoTo(h, "save")
      PROVE  CopiesSound'
  <2>1. PICK task \in {Idle} \cup Running :
          /\ handler' = [handler EXCEPT ![h] = task]
          /\ task = Idle \/ task.copy = handler[h].copy
    <3>1. \A step \in {"points", "save"} : [handler[h] EXCEPT !.step = step] \in Running
      BY <1>1 DEF Running
    <3>2. \A step \in {"points", "save"} : [handler[h] EXCEPT !.step = step].copy = handler[h].copy
      BY <1>1 DEF Running
    <3>. QED BY <1>1, <1>5, <3>1, <3>2 DEF End, GoTo, TypeOK
  <2>. QED BY <1>2, <1>5, <2>1, OneTask
\* The warehouse of an order changes.
<1>6. CASE Assign(h) \/ Plan(h)
  <2>1. PICK at \in Warehouses \cup {NoWarehouse}, allow \in BOOLEAN :
          /\ order' = [order EXCEPT ![handler[h].of].at = at]
          /\ handler' = [handler EXCEPT ![h] = SyncOf(@, order'[handler[h].of], allow)]
    <3>1. CASE Assign(h)
      BY <1>1, <3>1 DEF Assign, Running
    <3>2. CASE Plan(h)
      <4>1. PICK w \in Warehouses \cup {NoWarehouse} :
              /\ order' = [order EXCEPT ![handler[h].of].at = IF @ = NoWarehouse THEN w ELSE @]
              /\ handler' = [handler EXCEPT ![h] =
                   SyncOf(@, order'[handler[h].of],
                          order'[handler[h].of].at # order[handler[h].of].at)]
        BY <3>2 DEF Plan
      <4>. DEFINE at == IF order[handler[h].of].at = NoWarehouse THEN w
                                                                 ELSE order[handler[h].of].at
      <4>2. at \in Warehouses \cup {NoWarehouse}
        BY <1>3 DEF Order
      <4>3. order' = [order EXCEPT ![handler[h].of].at = at]
        BY <1>3, <4>1 DEF TypeOK
      <4>. HIDE DEF at
      <4>. QED BY <4>1, <4>2, <4>3
    <3>. QED BY <1>6, <3>1, <3>2
  <2>. DEFINE x == [order[handler[h].of] EXCEPT !.at = at]
              task == SyncOf(handler[h], order'[handler[h].of], allow)
  <2>2. OrderSound(x)
    BY <1>2, <1>3 DEF OrderSound, Order
  <2>3. order' = [order EXCEPT ![handler[h].of] = x]
    BY <1>3, <2>1 DEF TypeOK
  <2>4. \A p \in Orders : OrderSound(order'[p])
    BY <1>3, <2>2, <2>3, OneOrder
  <2>5. order'[handler[h].of] \in Order
    BY <1>3, <1>4 DEF TypeOK
  <2>6. task \in Running /\ task.copy = handler[h].copy
    BY <1>1, <2>5, SyncOfType, SyncOfCopy
  <2>7. handler' = [handler EXCEPT ![h] = task] /\ saved'.order = saved.order
    BY <1>6, <2>1 DEF Assign, Plan, TypeOK
  <2>. HIDE DEF task
  <2>. QED BY <1>2, <2>4, <2>6, <2>7, OneTask
<1>7. CASE Sync(h) \/ Settle(h) \/ Reverse(h)
  BY <1>5, <1>7 DEF Sync, Settle, Reverse, TypeOK
<1>8. CASE Save(h)
  <2>. DEFINE task == Landing(handler[h], order)
  <2>1. task \in Running /\ task.copy = order
    <3>1. task \in Running
      BY <1>1, LandingType DEF TypeOK
    <3>. QED BY <1>1, <3>1 DEF Landing, Running
  <2>2. handler' = [handler EXCEPT ![h] = task] /\ UNCHANGED <<order, saved>>
    BY <1>8 DEF Save, TypeOK
  <2>. HIDE DEF task
  <2>. QED BY <1>2, <2>1, <2>2, OneTask
<1>9. CASE Land(h)
  <2>1. \A o \in Orders : OrderSound(saved'.order[o])
    BY <1>2, <1>9 DEF Land, TypeOK
  <2>2. \A k \in Handlers : handler'[k] # Idle => handler[k] # Idle /\ handler'[k] = handler[k]
    BY <1>9 DEF Land, End, TypeOK
  <2>. QED BY <1>9, <2>1, <2>2 DEF Land, CopiesSound
<1>. QED BY <1>6, <1>7, <1>8, <1>9 DEF Continue

LEMMA SoldRestart ==
    ASSUME TypeOK, CopiesSound, Restart
    PROVE  CopiesSound'
<1>1. PICK at \in [Orders -> Warehouses \cup {NoWarehouse}] :
        order' = [o \in Orders |->
                     IF saved.order[o].status # "absent" /\ saved.order[o].at = NoWarehouse
                     THEN [saved.order[o] EXCEPT !.at = at[o]] ELSE saved.order[o]]
  BY DEF Restart
<1>2. ASSUME NEW o \in Orders PROVE OrderSound(order'[o])
  <2>1. saved.order[o] \in Order /\ OrderSound(saved.order[o])
    BY DEF TypeOK, CopiesSound
  <2>2. OrderSound([saved.order[o] EXCEPT !.at = at[o]])
    BY <2>1 DEF OrderSound, Order
  <2>. QED BY <1>1, <2>1, <2>2
<1>3. saved'.order = order' /\ \A h \in Handlers : handler'[h] = Idle
  BY DEF Restart, TypeOK
<1>. QED BY <1>2, <1>3 DEF CopiesSound

LEMMA SoldStep == TypeOK /\ CopiesSound /\ [Next]_vars => CopiesSound'
<1>. SUFFICES ASSUME TypeOK, CopiesSound, [Next]_vars PROVE CopiesSound'
  OBVIOUS
<1>1. CASE UNCHANGED vars
  BY <1>1 DEF vars, CopiesSound
<1>. QED BY <1>1, SoldRequest, SoldContinue, SoldRestart DEF Next

\* No order is sold, prepared or shipped without a payment: not in memory, not in
\* the snapshot, not in a snapshot that is being written, whatever handlers race,
\* in whatever order snapshots land, however often the process restarts.
THEOREM NeverSoldUnpaid == Spec => []SoldIsPaid
<1>1. Init => TypeOK /\ CopiesSound
  BY TypeInit, SoldInit
<1>2. (TypeOK /\ CopiesSound) /\ [Next]_vars => (TypeOK /\ CopiesSound)'
  BY TypeStep, SoldStep
<1>. QED BY <1>1, <1>2, CopiesSoundIsSoldIsPaid, PTL DEF Spec

----------------------------------------------------------------------------
\* What a request and what follows it may do, one line for each kind of step. The
\* handler h goes on with the task t, and no order but o is touched.
Moves(h, o, t) ==
    /\ handler' = [handler EXCEPT ![h] = t]
    /\ \A p \in Orders \ {o} : order'[p] = order[p] /\ hold'[p] = hold[p] /\ points'[p] = points[p]
    /\ stopped \subseteq stopped'

Begins(h, o, t, then) ==
    /\ handler[h] = Idle
    /\ t \in Running /\ t.of = o /\ t.then = then
    /\ Moves(h, o, t)

Creates(h, o, t) ==
    /\ Begins(h, o, t, "nothing")
    /\ order[o] = NoOrder
    /\ order'[o].status \in Reservable \cup {"confirmed"}
    /\ order'[o].payment = "paid" \/ points'[o] # "available"
    /\ points'[o] # "reversed"
    /\ hold'[o].state \in {"reserved", "confirmed"}
    /\ order'[o].request # "approved" /\ (order'[o].request # "none" => points'[o] # "none")

Confirms(h, o, t) ==
    /\ Begins(h, o, t, "settle")
    /\ order[o].status # "absent" /\ order[o].payment # "paid" /\ order[o].request # "rejected"
    /\ order'[o].status = "confirmed" /\ order'[o].payment = "paid"
    /\ t.step = "plan" /\ (order'[o].request # "none" => order[o].request # "none")
    /\ UNCHANGED <<hold, points>>

Rejects(h, o, t) ==
    /\ Begins(h, o, t, "reverse")
    /\ t.step = "sync" /\ t.target = "released" /\ ~t.allow
    /\ order[o].status = "payment_under_review" /\ order[o].payment = "pending"
    /\ order'[o].status = "cancelled"
    /\ order[o].request = "open" /\ order'[o].request = "rejected"
    /\ UNCHANGED <<hold, points>>

Transits(h, o, t) ==
    /\ order[o].status \notin Cancelled \cup {"absent"}
    /\ order'[o].status # "absent" /\ order'[o].payment = order[o].payment
    /\ order'[o].request = order[o].request
    /\ IF order'[o].status \in Cancelled
         THEN Begins(h, o, t, "reverse") /\ t.step = "sync" /\ t.target = "released" /\ ~t.allow
         ELSE Begins(h, o, t, "nothing")
    /\ UNCHANGED <<hold, points>>

Asks(h, o, t) ==
    /\ Begins(h, o, t, "nothing")
    /\ order[o].status # "absent"
    /\ UNCHANGED <<order, hold, points>>

LEMMA LifecycleStates ==
    /\ \A s \in Reservable \cup {"confirmed"} : LifecycleState(s) \in {"reserved", "confirmed"}
    /\ \A s \in Cancelled : LifecycleState(s) = "released"
BY DEF LifecycleState, Confirmed, Reservable, Cancelled

\* A first sync that does not throw leaves the order with its units.
LEMMA FirstSync ==
    ASSUME hold \in [Orders -> Hold], NEW o \in Orders, NEW w, NEW target \in {"reserved", "confirmed"},
           hold[o].state = "none", ~Synced(o, target, w, FALSE).throws
    PROVE  Synced(o, target, w, FALSE).hold = [state |-> target, at |-> w]
BY DEF Synced

LEMMA CreateMoves ==
    ASSUME TypeOK, NEW h \in Handlers, NEW o \in Orders, NEW new \in Order, NEW earned \in Points,
           new.status \in Reservable \cup {"confirmed"}, new.payment = "paid" \/ earned # "available",
           new.request # "approved", new.request # "none" => earned # "none", earned # "reversed",
           Create(h, o, new, earned)
    PROVE  \E t \in Running : Creates(h, o, t)
<1>. DEFINE t == Landing(Task("landing", o, "nothing"), order')
<1>1. PICK w \in Warehouses \cup {NoWarehouse} :
        LET x == [new EXCEPT !.at = w]
            result == Synced(o, LifecycleState(x.status), Source(x), FALSE)
        IN  /\ ~result.throws
            /\ order' = [order EXCEPT ![o] = x]
            /\ hold' = [hold EXCEPT ![o] = result.hold]
  BY DEF Create
<1>. DEFINE x == [new EXCEPT !.at = w]
<1>2. x \in Order /\ x.status = new.status /\ x.payment = new.payment /\ x.request = new.request
  BY DEF Order
<1>3. LifecycleState(x.status) \in {"reserved", "confirmed"}
  BY <1>2, LifecycleStates
<1>4. hold[o].state = "none" /\ order[o] = NoOrder
  BY DEF Create
<1>0. /\ ~Synced(o, LifecycleState(x.status), Source(x), FALSE).throws
      /\ order' = [order EXCEPT ![o] = x]
      /\ hold' = [hold EXCEPT ![o] = Synced(o, LifecycleState(x.status), Source(x), FALSE).hold]
  BY <1>1
<1>. HIDE DEF x
<1>5. Synced(o, LifecycleState(x.status), Source(x), FALSE).hold =
        [state |-> LifecycleState(x.status), at |-> Source(x)]
  <2>1. hold \in [Orders -> Hold]
    BY DEF TypeOK
  <2>. QED BY <1>0, <1>3, <1>4, <2>1, FirstSync, Zenon
<1>6. hold'[o].state \in {"reserved", "confirmed"}
  <2>1. hold' = [hold EXCEPT ![o] = [state |-> LifecycleState(x.status), at |-> Source(x)]]
    BY <1>0, <1>5, Zenon
  <2>. QED BY <1>3, <2>1 DEF TypeOK
<1>7. t \in Running /\ t.of = o /\ t.then = "nothing"
  <2>1. order' \in [Orders -> Order]
    BY CreateType DEF TypeOK
  <2>2. Task("landing", o, "nothing") \in Running
    BY TaskType
  <2>. QED BY <2>1, <2>2, LandingType DEF Landing, Task, Running
<1>8. order'[o] = x
  BY <1>0 DEF TypeOK
<1>9. points'[o] = earned
  BY DEF Create, TypeOK
<1>10. handler[h] = Idle /\ handler' = [handler EXCEPT ![h] = t]
  BY DEF Create, Start
<1>11. /\ \A p \in Orders \ {o} : order'[p] = order[p] /\ hold'[p] = hold[p] /\ points'[p] = points[p]
       /\ stopped' = stopped
  BY <1>0 DEF Create, TypeOK
<1>. HIDE DEF t
<1>. QED BY <1>2, <1>4, <1>6, <1>7, <1>8, <1>9, <1>10, <1>11 DEF Creates, Begins, Moves

LEMMA ConfirmMoves ==
    ASSUME TypeOK, NEW h \in Handlers, NEW o \in Orders, NEW request, Confirm(h, o, request),
           order[o].status # "absent", order[o].payment # "paid", order[o].request # "rejected",
           request # "none" => order[o].request # "none"
    PROVE  \E t \in Running : Confirms(h, o, t)
<1>. DEFINE t == Task("plan", o, "settle")
<1>1. t \in Running /\ t.of = o /\ t.then = "settle" /\ t.step = "plan"
  BY TaskType DEF Task
<1>2. order'[o].status = "confirmed" /\ order'[o].payment = "paid" /\ order'[o].request = request
  BY DEF Confirm, TypeOK, Order
<1>3. \A p \in Orders \ {o} : order'[p] = order[p]
  BY DEF Confirm, TypeOK
<1>4. /\ handler[h] = Idle /\ handler' = [handler EXCEPT ![h] = t]
      /\ UNCHANGED <<hold, points, stopped>>
  BY DEF Confirm, Start
<1>. HIDE DEF t
<1>. QED BY <1>1, <1>2, <1>3, <1>4 DEF Confirms, Begins, Moves

LEMMA RejectMoves ==
    ASSUME TypeOK, NEW h \in Handlers, NEW o \in Orders, rejectManualRequest(h, o)
    PROVE  \E t \in Running : Rejects(h, o, t)
<1>. DEFINE t == SyncOf(Task("sync", o, "reverse"), order'[o], FALSE)
<1>1. order'[o] \in Order /\ order'[o].status = "cancelled" /\ order'[o].request = "rejected"
  <2>1. order[o] \in Order /\ order'[o] = [order[o] EXCEPT !.status = "cancelled",
                                              !.payment = "failed", !.request = "rejected"]
    BY DEF rejectManualRequest, TypeOK
  <2>2. "cancelled" \in Statuses
    BY DEF Statuses, Cancelled
  <2>. QED BY <2>1, <2>2 DEF Order
<1>2. t \in Running
  BY <1>1, TaskType, SyncOfType
<1>3. LifecycleState("cancelled") = "released"
  BY LifecycleStates DEF Cancelled
<1>4. t.of = o /\ t.then = "reverse" /\ t.step = "sync" /\ t.target = "released" /\ ~t.allow
  BY <1>1, <1>3 DEF SyncOf, Task
<1>5. \A p \in Orders \ {o} : order'[p] = order[p]
  BY DEF rejectManualRequest, TypeOK
<1>6. /\ handler[h] = Idle /\ handler' = [handler EXCEPT ![h] = t]
      /\ UNCHANGED <<hold, points, stopped>>
      /\ order[o].status = "payment_under_review" /\ order[o].payment = "pending"
      /\ order[o].request = "open"
  BY DEF rejectManualRequest, Start, Reviewable
<1>. HIDE DEF t
<1>. QED BY <1>1, <1>2, <1>4, <1>5, <1>6 DEF Rejects, Begins, Moves

LEMMA TransitionMoves ==
    ASSUME TypeOK, NEW h \in Handlers, NEW o \in Orders, NEW next \in Statuses,
           transitionOrderStatus(h, o, next)
    PROVE  \E t \in Running : Transits(h, o, t)
<1>. DEFINE then == IF next \in Cancelled THEN "reverse" ELSE "nothing"
            task == Task("plan", o, then)
            t == IF next \in dispatchQueueStatuses THEN task ELSE SyncOf(task, order'[o], FALSE)
<1>1. order[o] \in Order /\ order'[o] = [order[o] EXCEPT !.status = next]
  BY DEF transitionOrderStatus, TypeOK
<1>2. /\ order'[o] \in Order /\ order'[o].status = next
      /\ order'[o].payment = order[o].payment /\ order'[o].request = order[o].request
  BY <1>1 DEF Order
<1>3. order[o].status \notin Cancelled \cup {"absent"} /\ next # "absent"
  BY <1>1, TransitionTable DEF transitionOrderStatus, MayTransition, Order
<1>4. task \in Running /\ task.of = o /\ task.then = then
  BY TaskType DEF Task
<1>5. SyncOf(task, order'[o], FALSE) \in Running
  BY <1>2, <1>4, SyncOfType
<1>6. /\ SyncOf(task, order'[o], FALSE).of = o /\ SyncOf(task, order'[o], FALSE).then = then
      /\ SyncOf(task, order'[o], FALSE).step = "sync"
      /\ SyncOf(task, order'[o], FALSE).target = LifecycleState(next)
      /\ ~SyncOf(task, order'[o], FALSE).allow
  BY <1>2 DEF SyncOf, Task
<1>7. next \in Cancelled => LifecycleState(next) = "released" /\ next \notin dispatchQueueStatuses
  BY LifecycleStates DEF Cancelled, dispatchQueueStatuses
<1>. HIDE DEF task
<1>8. t \in Running /\ t.of = o /\ t.then = then
  BY <1>4, <1>5, <1>6
<1>9. next \in Cancelled => t.step = "sync" /\ t.target = "released" /\ ~t.allow
  BY <1>6, <1>7
<1>10. \A p \in Orders \ {o} : order'[p] = order[p]
  BY DEF transitionOrderStatus, TypeOK
<1>11. /\ handler[h] = Idle /\ handler' = [handler EXCEPT ![h] = t]
       /\ UNCHANGED <<hold, points, stopped>>
  BY DEF transitionOrderStatus, Start, task
<1>. HIDE DEF t
<1>. QED BY <1>2, <1>3, <1>8, <1>9, <1>10, <1>11 DEF Transits, Begins, Moves

LEMMA AskMoves ==
    ASSUME TypeOK, NEW h \in Handlers, NEW o \in Orders, NEW w \in Warehouses,
           assignOrderFulfillment(h, o, w)
    PROVE  \E t \in Running : Asks(h, o, t)
<1>. DEFINE t == [Task("assign", o, "nothing") EXCEPT !.to = w]
<1>1. t \in Running /\ t.of = o /\ t.then = "nothing"
  <2>1. Task("assign", o, "nothing") \in Running
    BY TaskType
  <2>2. t \in Running
    BY <2>1 DEF Running
  <2>. QED BY <2>1, <2>2 DEF Task, Running
<1>2. /\ handler[h] = Idle /\ handler' = [handler EXCEPT ![h] = t]
      /\ order[o].status # "absent" /\ UNCHANGED <<order, hold, points, stopped>>
  BY DEF assignOrderFulfillment, Start
<1>. HIDE DEF t
<1>. QED BY <1>1, <1>2 DEF Asks, Begins, Moves

\* A request creates an order, confirms or rejects its payment, moves its status, or asks
\* for a warehouse.
LEMMA RequestMoves ==
    ASSUME TypeOK, CopiesSound, NEW h \in Handlers, Request(h)
    PROVE  \E o \in Orders, t \in Running :
             \/ Creates(h, o, t) \/ Confirms(h, o, t) \/ Rejects(h, o, t)
             \/ Transits(h, o, t) \/ Asks(h, o, t)
<1>1. PICK o \in Orders :
        \/ createOpenpayCheckout(h, o)
        \/ createManualCheckout(h, o)
        \/ createBackofficeOrder(h, o)
        \/ approveManualRequest(h, o)
        \/ registerAdminManualPayment(h, o)
        \/ confirmOnlinePayment(h, o)
        \/ rejectManualRequest(h, o)
        \/ \E next \in Statuses : transitionOrderStatus(h, o, next)
        \/ \E w \in Warehouses : assignOrderFulfillment(h, o, w)
  BY DEF Request
<1>2. CASE createOpenpayCheckout(h, o) \/ createManualCheckout(h, o) \/ createBackofficeOrder(h, o)
  <2>1. /\ [NoOrder EXCEPT !.status = "pending_payment", !.payment = "initiated",
                           !.method = "openpay"] \in Order
        /\ [NoOrder EXCEPT !.status = "payment_under_review", !.request = "open"] \in Order
        /\ [NoOrder EXCEPT !.status = "pending_payment"] \in Order
        /\ [NoOrder EXCEPT !.status = "confirmed", !.payment = "paid"] \in Order
    BY DEF NoOrder, Order, Statuses, Reservable, Confirmed
  <2>2. PICK new \in Order, earned \in Points :
          /\ new.status \in Reservable \cup {"confirmed"}
          /\ new.payment = "paid" \/ earned # "available"
          /\ new.request # "approved" /\ (new.request # "none" => earned # "none")
          /\ earned # "reversed"
          /\ Create(h, o, new, earned)
    BY <1>2, <2>1 DEF createOpenpayCheckout, createManualCheckout, createBackofficeOrder,
                      NoOrder, Points, Reservable
  <2>. QED BY <2>2, CreateMoves
<1>3. CASE approveManualRequest(h, o) \/ registerAdminManualPayment(h, o) \/ confirmOnlinePayment(h, o)
  <2>1. PICK request : Confirm(h, o, request) /\ (request # "none" => order[o].request # "none")
    BY <1>3 DEF approveManualRequest, registerAdminManualPayment, confirmOnlinePayment, Reviewable
  <2>2. OrderSound(order[o]) /\ order[o] \in Order
    BY DEF CopiesSound, TypeOK
  <2>3. order[o].status # "absent" /\ order[o].payment # "paid" /\ order[o].request # "rejected"
    <3>1. CASE approveManualRequest(h, o)
      BY <3>1 DEF approveManualRequest, Reviewable
    <3>2. CASE registerAdminManualPayment(h, o)
      BY <3>2 DEF registerAdminManualPayment
    <3>3. CASE confirmOnlinePayment(h, o)
      BY <2>2, <3>3 DEF confirmOnlinePayment, OrderSound
    <3>. QED BY <1>3, <3>1, <3>2, <3>3
  <2>. QED BY <2>1, <2>3, ConfirmMoves
<1>4. CASE rejectManualRequest(h, o)
  BY <1>4, RejectMoves
<1>5. CASE \E next \in Statuses : transitionOrderStatus(h, o, next)
  BY <1>5, TransitionMoves
<1>6. CASE \E w \in Warehouses : assignOrderFulfillment(h, o, w)
  BY <1>6, AskMoves
<1>. QED BY <1>1, <1>2, <1>3, <1>4, <1>5, <1>6

\* What follows the awaits of a handler, likewise.
Continues(h, o, t) ==
    /\ handler[h] \in Running /\ handler[h] # Idle /\ handler[h].of = o
    /\ t \in {Idle} \cup Running
    /\ t # Idle => t.of = o /\ t.then = handler[h].then
    /\ Moves(h, o, t)

Arranges(h, o, t) ==
    /\ Continues(h, o, t)
    /\ handler[h].step \in {"assign", "plan"} /\ t # Idle /\ t.step = "sync"
    /\ order'[o].status = order[o].status /\ order'[o].payment = order[o].payment
    /\ order'[o].request = order[o].request
    /\ UNCHANGED <<hold, points>>

Syncs(h, o, t) ==
    LET result == Synced(o, handler[h].target, handler[h].at, handler[h].allow)
    IN  /\ Continues(h, o, t)
        /\ handler[h].step = "sync"
        /\ IF result.throws THEN t = Idle ELSE t # Idle /\ t.step = "points"
        /\ result.throws /\ handler[h].then # "nothing" => <<o, handler[h].then>> \in stopped'
        /\ hold' = [hold EXCEPT ![o] = result.hold]
        /\ UNCHANGED <<order, points>>

Settles(h, o, t) ==
    /\ Continues(h, o, t)
    /\ handler[h].step = "points" /\ handler[h].then = "settle"
    /\ points'[o] = IF points[o] = "pending" THEN "available" ELSE points[o]
    /\ t # Idle => t.step = "save"
    /\ UNCHANGED <<order, hold>>

Reverses(h, o, t) ==
    /\ Continues(h, o, t)
    /\ handler[h].step = "points" /\ handler[h].then = "reverse"
    /\ points'[o] = IF points[o] = "none" THEN "none" ELSE "reversed"
    /\ t # Idle => t.step = "save"
    /\ UNCHANGED <<order, hold>>

Ends(h, o, t) ==
    /\ Continues(h, o, t)
    /\ handler[h].step \in {"save", "landing"} \/ handler[h].then = "nothing"
    /\ t # Idle => t.step = "landing"
    /\ UNCHANGED <<order, hold, points>>

LEMMA ArrangeMoves ==
    ASSUME TypeOK, NEW h \in Handlers, Assign(h) \/ Plan(h)
    PROVE  \E o \in Orders, t \in Running : Arranges(h, o, t)
<1>. DEFINE o == handler[h].of
<1>1. handler[h] \in Running /\ handler[h] # Idle
  <2>1. handler[h] \in Running
    BY TaskOf DEF Assign, Plan
  <2>. QED BY <2>1 DEF Running, Idle
<1>2. o \in Orders
  BY <1>1 DEF Running
<1>3. PICK allow \in BOOLEAN :
        /\ order' = [order EXCEPT ![o].at = order'[o].at]
        /\ handler' = [handler EXCEPT ![h] = SyncOf(handler[h], order'[o], allow)]
  <2>1. CASE Assign(h)
    BY <2>1 DEF Assign, TypeOK
  <2>2. CASE Plan(h)
    <3>1. PICK w :
            /\ order' = [order EXCEPT ![o].at = IF @ = NoWarehouse THEN w ELSE @]
            /\ handler' = [handler EXCEPT ![h] =
                 SyncOf(@, order'[o], order'[o].at # order[o].at)]
      BY <2>2 DEF Plan
    <3>. DEFINE at == IF order[o].at = NoWarehouse THEN w ELSE order[o].at
    <3>2. order' = [order EXCEPT ![o].at = at]
      BY <1>2, <3>1 DEF TypeOK
    <3>3. handler' = [handler EXCEPT ![h] = SyncOf(handler[h], order'[o], order'[o].at # order[o].at)]
      BY <3>1 DEF TypeOK
    <3>. QED BY <3>2, <3>3
  <2>. QED BY <2>1, <2>2
<1>. DEFINE t == SyncOf(handler[h], order'[o], allow)
<1>4. order'[o] \in Order
  BY <1>2, AssignType, PlanType DEF TypeOK
<1>5. t \in Running
  BY <1>1, <1>4, SyncOfType
<1>6. t.of = o /\ t.then = handler[h].then /\ t.step = "sync" /\ t # Idle
  BY <1>1, <1>5 DEF SyncOf, Running, Idle
<1>7. /\ order'[o].status = order[o].status /\ order'[o].payment = order[o].payment
      /\ order'[o].request = order[o].request
  BY <1>2, <1>3 DEF TypeOK, Order
<1>8. \A p \in Orders \ {o} : order'[p] = order[p]
  BY <1>3 DEF TypeOK
<1>9. handler[h].step \in {"assign", "plan"} /\ UNCHANGED <<hold, points, stopped>>
  BY DEF Assign, Plan, At
<1>10. handler' = [handler EXCEPT ![h] = t]
  BY <1>3
<1>. HIDE DEF t
<1>. QED BY <1>1, <1>2, <1>5, <1>6, <1>7, <1>8, <1>9, <1>10 DEF Arranges, Continues, Moves

\* A handler that goes to its next step keeps its order and what it is to do with the points.
LEMMA NextStep ==
    ASSUME TypeOK, NEW h \in Handlers, handler[h] \in Running, NEW step \in {"points", "save"},
           GoTo(h, step)
    PROVE  \E t \in Running : /\ t # Idle /\ t.step = step
                              /\ t.of = handler[h].of /\ t.then = handler[h].then
                              /\ handler' = [handler EXCEPT ![h] = t]
<1>. DEFINE t == [handler[h] EXCEPT !.step = step]
<1>1. t \in Running
  BY DEF Running
<1>2. t # Idle /\ t.step = step /\ t.of = handler[h].of /\ t.then = handler[h].then
  BY DEF Running, Idle
<1>3. handler' = [handler EXCEPT ![h] = t]
  BY DEF GoTo, TypeOK
<1>. HIDE DEF t
<1>. QED BY <1>1, <1>2, <1>3

LEMMA ContinueMoves ==
    ASSUME TypeOK, NEW h \in Handlers, Continue(h)
    PROVE  \E o \in Orders, t \in {Idle} \cup Running :
             \/ Arranges(h, o, t) \/ Syncs(h, o, t) \/ Settles(h, o, t) \/ Reverses(h, o, t)
             \/ Ends(h, o, t)
<1>. DEFINE o == handler[h].of
<1>1. handler[h] \in Running /\ handler[h] # Idle
  <2>1. handler[h] \in Running
    BY TaskOf DEF Continue, Assign, Plan, Sync, Settle, Reverse, Save, Land
  <2>. QED BY <2>1 DEF Running, Idle
<1>2. o \in Orders
  BY <1>1 DEF Running
<1>3. CASE Assign(h) \/ Plan(h)
  BY <1>3, ArrangeMoves
<1>4. CASE Sync(h)
  <2>. DEFINE result == Synced(o, handler[h].target, handler[h].at, handler[h].allow)
  <2>1. /\ handler[h].step = "sync" /\ hold' = [hold EXCEPT ![o] = result.hold]
        /\ UNCHANGED <<order, points>>
        /\ IF result.throws THEN End(h) ELSE GoTo(h, "points")
        /\ stopped \subseteq stopped'
        /\ result.throws /\ handler[h].then # "nothing" => <<o, handler[h].then>> \in stopped'
    BY <1>4 DEF Sync, At
  <2>. HIDE DEF result
  <2>2. PICK t \in {Idle} \cup Running :
          /\ handler' = [handler EXCEPT ![h] = t]
          /\ IF result.throws THEN t = Idle ELSE t # Idle /\ t.step = "points"
          /\ t # Idle => t.of = o /\ t.then = handler[h].then
    BY <1>1, <2>1, NextStep DEF End
  <2>3. \A p \in Orders \ {o} : hold'[p] = hold[p]
    BY <2>1 DEF TypeOK
  <2>4. Moves(h, o, t)
    BY <2>1, <2>2, <2>3 DEF Moves
  <2>5. Continues(h, o, t)
    BY <1>1, <2>2, <2>4 DEF Continues
  <2>6. Syncs(h, o, t)
    BY <2>1, <2>2, <2>5 DEF Syncs, result
  <2>. QED BY <1>2, <2>6
<1>5. CASE Settle(h) \/ Reverse(h)
  <2>1. PICK t \in {Idle} \cup Running :
          /\ handler' = [handler EXCEPT ![h] = t]
          /\ t # Idle => t.of = o /\ t.then = handler[h].then /\ t.step = "save"
    BY <1>1, <1>5, NextStep DEF Settle, Reverse, End
  <2>2. \A p \in Orders \ {o} : points'[p] = points[p]
    BY <1>5 DEF Settle, Reverse, TypeOK
  <2>3. UNCHANGED <<order, hold, stopped>> /\ handler[h].step = "points"
    BY <1>5 DEF Settle, Reverse, At
  <2>4. Continues(h, o, t)
    BY <1>1, <2>1, <2>2, <2>3 DEF Continues, Moves
  <2>5. \/ /\ handler[h].then = "settle"
           /\ points'[o] = IF points[o] = "pending" THEN "available" ELSE points[o]
        \/ /\ handler[h].then = "reverse"
           /\ points'[o] = IF points[o] = "none" THEN "none" ELSE "reversed"
    BY <1>2, <1>5 DEF Settle, Reverse, TypeOK
  <2>. QED BY <1>2, <2>1, <2>3, <2>4, <2>5 DEF Settles, Reverses
<1>6. CASE Save(h) \/ Land(h)
  <2>1. PICK t \in {Idle} \cup Running :
          /\ handler' = [handler EXCEPT ![h] = t]
          /\ t # Idle => t.of = o /\ t.then = handler[h].then /\ t.step = "landing"
    <3>1. CASE Save(h)
      <4>1. Landing(handler[h], order) \in Running
        BY <1>1, LandingType DEF TypeOK
      <4>2. /\ Landing(handler[h], order).of = o
            /\ Landing(handler[h], order).then = handler[h].then
            /\ Landing(handler[h], order).step = "landing"
        BY <1>1 DEF Landing, Running
      <4>3. handler' = [handler EXCEPT ![h] = Landing(handler[h], order)]
        BY <3>1 DEF Save, TypeOK
      <4>. QED BY <4>1, <4>2, <4>3
    <3>2. CASE Land(h)
      BY <3>2 DEF Land, End
    <3>. QED BY <1>6, <3>1, <3>2
  <2>2. UNCHANGED <<order, hold, points, stopped>>
    BY <1>6 DEF Save, Land
  <2>3. handler[h].step \in {"save", "landing"} \/ handler[h].then = "nothing"
    BY <1>6 DEF Save, Land, At
  <2>4. Continues(h, o, t)
    BY <1>1, <2>1, <2>2 DEF Continues, Moves
  <2>. QED BY <1>2, <2>1, <2>2, <2>3, <2>4 DEF Ends
<1>. QED BY <1>3, <1>4, <1>5, <1>6 DEF Continue

Moved(h, o, t) ==
    \/ Creates(h, o, t) \/ Confirms(h, o, t) \/ Rejects(h, o, t) \/ Transits(h, o, t)
    \/ Asks(h, o, t)
    \/ Arranges(h, o, t) \/ Syncs(h, o, t) \/ Settles(h, o, t) \/ Reverses(h, o, t)
    \/ Ends(h, o, t)

\* Every step but a restart is one of the moves.
LEMMA StepMoves ==
    ASSUME TypeOK, CopiesSound, Next, restarts' = restarts
    PROVE  \E h \in Handlers, o \in Orders, t \in {Idle} \cup Running : Moved(h, o, t)
<1>1. ~Restart
  <2>1. restarts + 1 # restarts
    BY DEF TypeOK
  <2>. QED BY <2>1 DEF Restart
<1>2. CASE \E h \in Handlers : Request(h)
  BY <1>2, RequestMoves DEF Moved
<1>3. CASE \E h \in Handlers : Continue(h)
  BY <1>3, ContinueMoves DEF Moved
<1>. QED BY <1>1, <1>2, <1>3 DEF Next

\* Whatever the move, the task that changes is that of h, and only o is touched.
LEMMA MovedMoves ==
    ASSUME NEW h \in Handlers, NEW o \in Orders, NEW t \in {Idle} \cup Running, Moved(h, o, t)
    PROVE  Moves(h, o, t)
BY DEF Moved, Creates, Confirms, Rejects, Transits, Asks, Begins,
       Arranges, Syncs, Settles, Reverses, Ends, Continues

\* A move leaves the payment of an order that has one.
LEMMA PaidStays ==
    ASSUME TypeOK, NEW h \in Handlers, NEW o \in Orders, NEW t \in {Idle} \cup Running,
           Moved(h, o, t), NEW p \in Orders, order[p].payment = "paid"
    PROVE  order'[p].payment = "paid"
<1>1. CASE p # o
  BY <1>1, MovedMoves DEF Moves
<1>2. CASE p = o
  BY <1>2 DEF Moved, Creates, NoOrder, Confirms, Rejects, Transits, Asks,
              Arranges, Syncs, Settles, Reverses, Ends
<1>. QED BY <1>1, <1>2

LEMMA SoundAlways == Spec => [](TypeOK /\ CopiesSound)
<1>1. Init => TypeOK /\ CopiesSound
  BY TypeInit, SoldInit
<1>2. (TypeOK /\ CopiesSound) /\ [Next]_vars => (TypeOK /\ CopiesSound)'
  BY TypeStep, SoldStep
<1>. QED BY <1>1, <1>2, PTL DEF Spec

\* A payment that was confirmed stays confirmed (applyCommercialConfirmation,
\* rejectManualRequest, transitionOrderStatus and whatever runs between their awaits); only
\* a restart may forget it.
THEOREM PaymentNeverLost == Spec => PaymentIsFinal
<1>1. TypeOK /\ CopiesSound /\ [Next]_vars
      => [restarts' = restarts =>
            \A o \in Orders : order[o].payment = "paid" => order'[o].payment = "paid"]_vars
  BY StepMoves, PaidStays
<1>. QED BY <1>1, SoundAlways, PTL DEF Spec, PaymentIsFinal

\* What a move makes of an order that is cancelled, refunded or expired: nothing, or a sale
\* by the payment it still lacked.
LEMMA CancelledLeaves ==
    ASSUME TypeOK, NEW h \in Handlers, NEW o \in Orders, NEW t \in {Idle} \cup Running,
           Moved(h, o, t), NEW p \in Orders,
           order[p].status \in Cancelled, order'[p].status # order[p].status
    PROVE  p = o /\ Confirms(h, o, t)
<1>1. p = o
  BY MovedMoves DEF Moves
<1>2. ~Creates(h, o, t)
  BY <1>1 DEF Creates, NoOrder, Cancelled
<1>3. ~Rejects(h, o, t)
  BY <1>1 DEF Rejects, Cancelled
<1>4. ~Transits(h, o, t) /\ ~Asks(h, o, t)
  BY <1>1 DEF Transits, Asks
<1>5. ~(\/ Arranges(h, o, t) \/ Syncs(h, o, t) \/ Settles(h, o, t) \/ Reverses(h, o, t)
        \/ Ends(h, o, t))
  BY <1>1 DEF Arranges, Syncs, Settles, Reverses, Ends
<1>. QED BY <1>1, <1>2, <1>3, <1>4, <1>5 DEF Moved

\* No handler, and no race of handlers, takes a refunded or a rejected order out of its
\* terminal status; a cancelled or expired one leaves it only by being paid.
THEOREM TerminalStatusesHold == Spec => TerminalLeavesByPayment
<1>1. TypeOK /\ CopiesSound /\ [Next]_vars
      => [restarts' = restarts =>
            \A o \in Orders :
               order[o].status \in Cancelled /\ order'[o].status # order[o].status
               => /\ order[o].payment # "paid"
                  /\ order[o].request # "rejected"
                  /\ order'[o].payment = "paid"
                  /\ order'[o].status = "confirmed"]_vars
  BY StepMoves, CancelledLeaves DEF Confirms
<1>. QED BY <1>1, SoundAlways, PTL DEF Spec, TerminalLeavesByPayment

----------------------------------------------------------------------------
\* What holds until the process restarts.

\* A handler that is to settle points works for a paid order.
SettlingIsPaid ==
    \A h \in Handlers : handler[h] # Idle /\ handler[h].then = "settle"
        => order[handler[h].of].payment = "paid"

\* An order that does not exist has no points, no record of stock and no handler; one that
\* exists has a record, and keeps it.
Existing ==
    /\ \A o \in Orders : order[o].status = "absent" => points[o] = "none"
    /\ \A o \in Orders : order[o].status = "absent" <=> hold[o].state = "none"
    /\ \A h \in Handlers : handler[h] # Idle => order[handler[h].of].status # "absent"

LEMMA SettlingInit == Init => SettlingIsPaid
BY DEF Init, SettlingIsPaid

\* The task of another handler is the one it was.
LEMMA OtherTasks ==
    ASSUME TypeOK, NEW h \in Handlers, NEW o, NEW t, Moves(h, o, t)
    PROVE  handler'[h] = t /\ \A k \in Handlers \ {h} : handler'[k] = handler[k]
BY DEF Moves, TypeOK

LEMMA SettlingMove ==
    ASSUME TypeOK, SettlingIsPaid, NEW h \in Handlers, NEW o \in Orders,
           NEW t \in {Idle} \cup Running, Moved(h, o, t)
    PROVE  SettlingIsPaid'
<1>. SUFFICES ASSUME NEW k \in Handlers, handler'[k] # Idle, handler'[k].then = "settle"
              PROVE  order'[handler'[k].of].payment = "paid"
  BY DEF SettlingIsPaid
<1>0. Moves(h, o, t)
  BY MovedMoves
<1>1. handler'[h] = t /\ \A j \in Handlers \ {h} : handler'[j] = handler[j]
  BY <1>0, OtherTasks
<1>2. CASE k # h
  <2>1. handler[k] \in Running
    BY <1>1, <1>2 DEF TypeOK
  <2>2. handler[k].of \in Orders /\ order[handler[k].of].payment = "paid"
    BY <1>1, <1>2, <2>1 DEF SettlingIsPaid, Running
  <2>. QED BY <1>1, <1>2, <2>2, PaidStays
<1>3. CASE k = h /\ (\/ Arranges(h, o, t) \/ Syncs(h, o, t) \/ Settles(h, o, t)
                     \/ Reverses(h, o, t) \/ Ends(h, o, t))
  <2>1. Continues(h, o, t)
    BY <1>3 DEF Arranges, Syncs, Settles, Reverses, Ends
  <2>2. t.of = o /\ order[o].payment = "paid"
    BY <1>1, <1>3, <2>1 DEF Continues, SettlingIsPaid
  <2>. QED BY <1>1, <1>3, <2>2, PaidStays
<1>4. CASE k = h /\ Confirms(h, o, t)
  BY <1>1, <1>4 DEF Confirms, Begins
<1>5. CASE k = h /\ (Creates(h, o, t) \/ Rejects(h, o, t) \/ Transits(h, o, t) \/ Asks(h, o, t))
  BY <1>1, <1>5 DEF Creates, Rejects, Transits, Asks, Begins
<1>. QED BY <1>2, <1>3, <1>4, <1>5 DEF Moved

\* syncOrder never takes back the record of an order.
LEMMA SyncedKeeps ==
    ASSUME hold \in [Orders -> Hold], NEW o \in Orders, NEW target \in Lifecycles, NEW w \in Warehouses,
           NEW allow \in BOOLEAN, hold[o].state # "none"
    PROVE  Synced(o, target, w, allow).hold.state # "none"
<1>1. hold[o] \in Hold
  OBVIOUS
<1>2. [hold[o] EXCEPT !.state = "released"].state = "released"
  BY <1>1 DEF Hold
<1>. QED BY <1>1, <1>2 DEF Synced, Hold

LEMMA ExistingInit == Init => Existing
BY DEF Init, Existing, NoOrders, NoOrder, Free

LEMMA ExistingMove ==
    ASSUME TypeOK, Existing, NEW h \in Handlers, NEW o \in Orders,
           NEW t \in {Idle} \cup Running, Moved(h, o, t)
    PROVE  Existing'
<1>0. Moves(h, o, t)
  BY MovedMoves
<1>1. handler'[h] = t /\ \A j \in Handlers \ {h} : handler'[j] = handler[j]
  BY <1>0, OtherTasks
\* The order a handler works for exists before its step.
<1>2. ~Creates(h, o, t) => order[o].status # "absent"
  <2>1. Continues(h, o, t) => order[o].status # "absent"
    BY DEF Continues, Existing
  <2>. QED BY <2>1 DEF Moved, Confirms, Rejects, Transits, Asks,
                       Arranges, Syncs, Settles, Reverses, Ends
\* It exists, and has a record, after it.
<1>3. order'[o].status # "absent" /\ hold'[o].state # "none"
  <2>1. CASE Creates(h, o, t)
    BY <2>1 DEF Creates, Reservable
  <2>2. CASE Syncs(h, o, t)
    <3>1. handler[h] \in Running /\ order[o].status # "absent" /\ hold[o].state # "none"
      BY <1>2, <2>2 DEF Syncs, Continues, Existing, Creates, Begins
    <3>2. /\ handler[h].target \in Lifecycles /\ handler[h].at \in Warehouses
          /\ handler[h].allow \in BOOLEAN
      BY <3>1 DEF Running
    <3>3. hold'[o].state # "none"
      BY <2>2, <3>1, <3>2, SyncedKeeps DEF Syncs, TypeOK
    <3>. QED BY <2>2, <3>1, <3>3 DEF Syncs
  <2>3. CASE ~Creates(h, o, t) /\ ~Syncs(h, o, t)
    <3>1. hold[o].state # "none" /\ UNCHANGED hold
      BY <1>2, <2>3 DEF Existing, Moved, Confirms, Rejects, Transits, Asks,
                        Arranges, Settles, Reverses, Ends
    <3>2. order'[o].status # "absent"
      BY <1>2, <2>3 DEF Moved, Confirms, Rejects, Transits, Asks,
                        Arranges, Settles, Reverses, Ends
    <3>. QED BY <3>1, <3>2
  <2>. QED BY <2>1, <2>2, <2>3
<1>4. ASSUME NEW p \in Orders
      PROVE  /\ order'[p].status = "absent" => points'[p] = "none"
             /\ order'[p].status = "absent" <=> hold'[p].state = "none"
  BY <1>0, <1>3 DEF Moves, Existing
<1>5. ASSUME NEW k \in Handlers, handler'[k] # Idle
      PROVE  order'[handler'[k].of].status # "absent"
  <2>1. CASE k = h
    <3>1. t.of = o
      BY <1>1, <1>5, <2>1 DEF Moved, Creates, Confirms, Rejects, Transits, Asks, Begins,
                 Arranges, Syncs, Settles, Reverses, Ends, Continues
    <3>. QED BY <1>1, <1>3, <2>1, <3>1
  <2>2. CASE k # h
    <3>1. handler[k] \in Running
      BY <1>1, <1>5, <2>2 DEF TypeOK
    <3>2. handler[k].of \in Orders /\ order[handler[k].of].status # "absent"
      BY <1>1, <1>5, <2>2, <3>1 DEF Existing, Running
    <3>. QED BY <1>0, <1>1, <1>3, <2>2, <3>2 DEF Moves
  <2>. QED BY <2>1, <2>2
<1>. QED BY <1>4, <1>5 DEF Existing

\* The step after which the process has not restarted is not a restart, and it had not
\* restarted before.
LEMMA NoRestart ==
    ASSUME TypeOK, Next, restarts' = 0
    PROVE  restarts = 0
<1>1. ~Restart
  BY DEF TypeOK, Restart
<1>2. CASE \E h \in Handlers : Request(h)
  <2>1. PICK h \in Handlers, o \in Orders :
          \/ createOpenpayCheckout(h, o) \/ createManualCheckout(h, o) \/ createBackofficeOrder(h, o)
          \/ approveManualRequest(h, o) \/ registerAdminManualPayment(h, o)
          \/ confirmOnlinePayment(h, o) \/ rejectManualRequest(h, o)
          \/ \E next \in Statuses : transitionOrderStatus(h, o, next)
          \/ \E w \in Warehouses : assignOrderFulfillment(h, o, w)
    BY <1>2 DEF Request
  <2>2. \A new, earned : Create(h, o, new, earned) => UNCHANGED restarts
    BY Zenon DEF Create
  <2>3. \A request : Confirm(h, o, request) => UNCHANGED restarts
    BY DEF Confirm
  <2>4. CASE createOpenpayCheckout(h, o) \/ createManualCheckout(h, o) \/ createBackofficeOrder(h, o)
    BY <2>2, <2>4, Zenon DEF createOpenpayCheckout, createManualCheckout, createBackofficeOrder
  <2>5. CASE \/ approveManualRequest(h, o) \/ registerAdminManualPayment(h, o)
             \/ confirmOnlinePayment(h, o)
    BY <2>3, <2>5 DEF approveManualRequest, registerAdminManualPayment, confirmOnlinePayment
  <2>. QED BY <2>1, <2>4, <2>5 DEF rejectManualRequest, transitionOrderStatus, assignOrderFulfillment
<1>3. CASE \E h \in Handlers : Continue(h)
  BY <1>3 DEF Continue, Assign, Plan, Sync, Settle, Reverse, Save, Land
<1>. QED BY <1>1, <1>2, <1>3 DEF Next

----------------------------------------------------------------------------
\* Units come back before points, and for good.

\* A handler that reverses never waits for a warehouse, asks to release where the order is,
\* and has the units back once it is past its sync; so has an order with reversed points.
ReversalsRelease ==
    /\ \A h \in Handlers : handler[h] # Idle /\ handler[h].then = "reverse"
         => /\ handler[h].step \notin {"assign", "plan"}
            /\ handler[h].step = "sync" => handler[h].target = "released" /\ ~handler[h].allow
            /\ handler[h].step # "sync" => hold[handler[h].of].state = "released"
    /\ \A o \in Orders : points[o] = "reversed" => hold[o].state = "released"

LEMMA ReversalsInit == Init => ReversalsRelease
BY DEF Init, ReversalsRelease

\* syncOrder: a record that was released stays released, and a release that is not refused
\* releases it.
LEMMA SyncedReleases ==
    ASSUME hold \in [Orders -> Hold], NEW o \in Orders, NEW target \in Lifecycles, NEW w \in Warehouses,
           NEW allow \in BOOLEAN, hold[o].state # "none"
    PROVE  LET result == Synced(o, target, w, allow)
           IN  /\ hold[o].state = "released" => result.hold.state = "released"
               /\ target = "released" /\ ~allow /\ ~result.throws => result.hold.state = "released"
<1>1. hold[o] \in Hold
  OBVIOUS
<1>2. [hold[o] EXCEPT !.state = "released"].state = "released"
  BY <1>1 DEF Hold
<1>. QED BY <1>1, <1>2 DEF Synced, Hold, Lifecycles

\* No move takes an order's released units again.
LEMMA ReleasedStays ==
    ASSUME TypeOK, Existing, NEW h \in Handlers, NEW o \in Orders,
           NEW t \in {Idle} \cup Running, Moved(h, o, t),
           NEW p \in Orders, hold[p].state = "released"
    PROVE  hold'[p].state = "released"
<1>1. CASE p # o
  BY <1>1, MovedMoves DEF Moves
<1>2. CASE p = o /\ Syncs(h, o, t)
  <2>1. handler[h] \in Running
    BY <1>2 DEF Syncs, Continues
  <2>2. handler[h].target \in Lifecycles /\ handler[h].at \in Warehouses /\ handler[h].allow \in BOOLEAN
    BY <2>1 DEF Running
  <2>3. Synced(o, handler[h].target, handler[h].at, handler[h].allow).hold.state = "released"
    BY <1>2, <2>2, SyncedReleases DEF TypeOK
  <2>. QED BY <1>2, <2>3 DEF Syncs, TypeOK
<1>3. CASE p = o /\ Creates(h, o, t)
  <2>1. order[o].status = "absent"
    BY <1>3 DEF Creates, NoOrder
  <2>. QED BY <1>3, <2>1 DEF Existing
<1>4. CASE p = o /\ ~Syncs(h, o, t) /\ ~Creates(h, o, t)
  BY <1>4 DEF Moved, Confirms, Rejects, Transits, Asks, Arranges, Settles, Reverses, Ends
<1>. QED BY <1>1, <1>2, <1>3, <1>4

LEMMA ReversalsReleaseMove ==
    ASSUME TypeOK, Existing, ReversalsRelease, NEW h \in Handlers, NEW o \in Orders,
           NEW t \in {Idle} \cup Running, Moved(h, o, t)
    PROVE  ReversalsRelease'
<1>0. Moves(h, o, t)
  BY MovedMoves
<1>1. handler'[h] = t /\ \A j \in Handlers \ {h} : handler'[j] = handler[j]
  BY <1>0, OtherTasks
<1>2. ASSUME t # Idle, t.then = "reverse"
      PROVE  /\ t.of = o
             /\ t.step \notin {"assign", "plan"}
             /\ t.step = "sync" => t.target = "released" /\ ~t.allow
             /\ t.step # "sync" => hold'[o].state = "released"
  <2>1. CASE Rejects(h, o, t) \/ Transits(h, o, t)
    BY <1>2, <2>1 DEF Rejects, Transits, Begins
  <2>2. CASE Creates(h, o, t) \/ Confirms(h, o, t) \/ Asks(h, o, t)
    BY <1>2, <2>2 DEF Creates, Confirms, Asks, Begins
  <2>3. CASE Arranges(h, o, t)
    BY <1>2, <2>3 DEF Arranges, Continues, ReversalsRelease
  <2>4. CASE Syncs(h, o, t)
    <3>1. /\ handler[h] \in Running /\ handler[h] # Idle
          /\ handler[h].of = o /\ handler[h].then = "reverse" /\ handler[h].step = "sync"
      BY <1>2, <2>4 DEF Syncs, Continues
    <3>2. /\ handler[h].target = "released" /\ ~handler[h].allow
          /\ handler[h].at \in Warehouses /\ handler[h].allow \in BOOLEAN
      BY <3>1 DEF ReversalsRelease, Running
    <3>3. hold[o].state # "none"
      BY <3>1 DEF Existing
    <3>. DEFINE result == Synced(o, handler[h].target, handler[h].at, handler[h].allow)
    <3>4. ~result.throws /\ t.step = "points" /\ hold' = [hold EXCEPT ![o] = result.hold]
      BY <1>2, <2>4 DEF Syncs
    <3>5. handler[h].target \in Lifecycles
      BY <3>1 DEF Running
    <3>6. result.hold.state = "released"
      BY <3>2, <3>3, <3>4, <3>5, SyncedReleases DEF TypeOK
    <3>. HIDE DEF result
    <3>. QED BY <1>2, <2>4, <3>4, <3>6 DEF Syncs, Continues, TypeOK
  <2>5. CASE Settles(h, o, t) \/ Reverses(h, o, t) \/ Ends(h, o, t)
    <3>1. handler[h] # Idle /\ handler[h].of = o /\ handler[h].then = "reverse"
      BY <1>2, <2>5 DEF Settles, Reverses, Ends, Continues
    <3>2. handler[h].step # "sync"
      BY <2>5, <3>1 DEF Settles, Reverses, Ends
    <3>. QED BY <1>2, <2>5, <3>1, <3>2 DEF Settles, Reverses, Ends, Continues, ReversalsRelease
  <2>. QED BY <2>1, <2>2, <2>3, <2>4, <2>5 DEF Moved
<1>3. ASSUME NEW k \in Handlers, handler'[k] # Idle, handler'[k].then = "reverse"
      PROVE  /\ handler'[k].step \notin {"assign", "plan"}
             /\ handler'[k].step = "sync" => handler'[k].target = "released" /\ ~handler'[k].allow
             /\ handler'[k].step # "sync" => hold'[handler'[k].of].state = "released"
  <2>1. CASE k = h
    BY <1>1, <1>2, <1>3, <2>1
  <2>2. CASE k # h
    <3>1. handler'[k] = handler[k] /\ handler[k] \in Running
      BY <1>1, <1>3, <2>2 DEF TypeOK
    <3>2. handler[k].of \in Orders
      BY <3>1 DEF Running
    <3>3. handler[k].step # "sync" => hold[handler[k].of].state = "released"
      BY <1>3, <3>1 DEF ReversalsRelease
    <3>4. handler[k].step # "sync" => hold'[handler[k].of].state = "released"
      BY <3>2, <3>3, ReleasedStays
    <3>. QED BY <1>3, <3>1, <3>4 DEF ReversalsRelease
  <2>. QED BY <2>1, <2>2
<1>4. ASSUME NEW p \in Orders, points'[p] = "reversed"
      PROVE  hold'[p].state = "released"
  <2>1. CASE points[p] = "reversed"
    BY <2>1, ReleasedStays DEF ReversalsRelease
  <2>2. CASE points[p] # "reversed" /\ p = o /\ Reverses(h, o, t)
    <3>1. hold[o].state = "released"
      BY <2>2 DEF Reverses, Continues, ReversalsRelease
    <3>. QED BY <2>2, <3>1, ReleasedStays
  <2>3. CASE points[p] # "reversed" /\ p = o /\ Creates(h, o, t)
    <3>. QED BY <1>4, <2>3 DEF Creates
  <2>4. CASE points[p] # "reversed" /\ ~(p = o /\ (Reverses(h, o, t) \/ Creates(h, o, t)))
    BY <1>0, <1>4, <2>4 DEF Moves, Moved, Confirms, Rejects, Transits, Asks, Arranges, Syncs,
                            Settles, Ends
  <2>. QED BY <2>1, <2>2, <2>3, <2>4
<1>. QED BY <1>3, <1>4 DEF ReversalsRelease

----------------------------------------------------------------------------
\* What a handler has still to do for an order.
DueFor(o, then, steps) ==
    \E h \in Handlers : /\ handler[h] # Idle
                        /\ handler[h].of = o /\ handler[h].then = then
                        /\ handler[h].step \in steps

\* As long as a cancelled order has points or units, a handler is on its way to take
\* them, unless a conflict stopped one.
ReversalDue ==
    \A o \in Orders : order[o].status \in Cancelled /\ <<o, "reverse">> \notin stopped =>
        /\ points[o] \in {"pending", "available"} => DueFor(o, "reverse", {"sync", "points"})
        /\ hold[o].state # "released" => DueFor(o, "reverse", {"sync"})

\* An order with a manual request has points; as long as those of an approved one are
\* pending, a handler is on its way to settle them, unless a conflict stopped one.
SettlementDue ==
    \A o \in Orders :
        /\ order[o].request # "none" => points[o] # "none"
        /\ order[o].request = "approved" /\ <<o, "settle">> \notin stopped /\ points[o] = "pending"
           => DueFor(o, "settle", {"plan", "sync", "points"})

LEMMA DueInit == Init => ReversalDue /\ SettlementDue
BY DEF Init, ReversalDue, SettlementDue, NoOrders, NoOrder, Cancelled

\* A handler that is not the one that moves is still on its way after the step.
LEMMA StillDue ==
    ASSUME TypeOK, NEW h \in Handlers, NEW o \in Orders, NEW t \in {Idle} \cup Running,
           Moves(h, o, t), NEW p \in Orders, NEW then, NEW steps, DueFor(p, then, steps),
           handler[h] = Idle \/ handler[h].of # p \/ handler[h].then # then
             \/ handler[h].step \notin steps
    PROVE  DueFor(p, then, steps)'
<1>1. \A j \in Handlers \ {h} : handler'[j] = handler[j]
  BY OtherTasks
<1>. QED BY <1>1 DEF DueFor

\* The one that moves is on its way if its new step is one of those asked for.
LEMMA NowDue ==
    ASSUME TypeOK, NEW h \in Handlers, NEW o \in Orders, NEW t \in Running,
           Moves(h, o, t), t.of = o, NEW then, t.then = then, NEW steps, t.step \in steps
    PROVE  DueFor(o, then, steps)'
<1>1. handler'[h] = t
  BY OtherTasks
<1>2. t # Idle
  BY DEF Running, Idle
<1>. QED BY <1>1, <1>2 DEF DueFor

LEMMA ReversalDueMove ==
    ASSUME TypeOK, Existing, ReversalsRelease, ReversalDue,
           NEW h \in Handlers, NEW o \in Orders, NEW t \in {Idle} \cup Running, Moved(h, o, t)
    PROVE  ReversalDue'
<1>0. Moves(h, o, t) /\ handler'[h] = t /\ stopped \subseteq stopped'
  <2>1. Moves(h, o, t)
    BY MovedMoves
  <2>2. handler'[h] = t
    BY <2>1, OtherTasks
  <2>3. stopped \subseteq stopped'
    BY <2>1 DEF Moves
  <2>. QED BY <2>1, <2>2, <2>3
<1>. SUFFICES ASSUME NEW p \in Orders, order'[p].status \in Cancelled, <<p, "reverse">> \notin stopped'
              PROVE  /\ points'[p] \in {"pending", "available"}
                        => DueFor(p, "reverse", {"sync", "points"})'
                     /\ hold'[p].state # "released" => DueFor(p, "reverse", {"sync"})'
  BY DEF ReversalDue
\* What was due before.
<1>1. ASSUME order[p].status \in Cancelled
      PROVE  /\ points[p] \in {"pending", "available"} => DueFor(p, "reverse", {"sync", "points"})
             /\ hold[p].state # "released" => DueFor(p, "reverse", {"sync"})
  BY <1>0, <1>1 DEF ReversalDue
<1>2. hold'[p].state # "released" => hold[p].state # "released"
  BY ReleasedStays
<1>3. CASE p # o
  <2>1. handler[h] = Idle \/ handler[h].of # p
    BY <1>3 DEF Moved, Creates, Confirms, Rejects, Transits, Asks, Begins,
                Arranges, Syncs, Settles, Reverses, Ends, Continues
  <2>2. order'[p] = order[p] /\ hold'[p] = hold[p] /\ points'[p] = points[p]
    BY <1>0, <1>3 DEF Moves
  <2>. QED BY <1>0, <1>1, <2>1, <2>2, StillDue
<1>4. CASE p = o /\ (Creates(h, o, t) \/ Confirms(h, o, t))
  BY <1>4 DEF Creates, Confirms, Cancelled, Reservable
<1>5. CASE p = o /\ (Rejects(h, o, t) \/ Transits(h, o, t))
  <2>1. t \in Running /\ t.of = o /\ t.then = "reverse" /\ t.step = "sync"
    BY <1>5 DEF Rejects, Transits, Begins
  <2>. QED BY <1>0, <1>5, <2>1, NowDue
<1>6. CASE p = o /\ (Asks(h, o, t) \/ Arranges(h, o, t) \/ Ends(h, o, t))
  <2>1. \/ handler[h] = Idle \/ handler[h].then # "reverse"
        \/ handler[h].step \notin {"sync", "points"}
    BY <1>6 DEF Asks, Begins, Arranges, Ends
  <2>2. order'[p].status = order[p].status /\ hold'[p] = hold[p] /\ points'[p] = points[p]
    BY <1>6 DEF Asks, Arranges, Ends
  <2>. QED BY <1>0, <1>1, <2>1, <2>2, StillDue
<1>7. CASE p = o /\ Syncs(h, o, t)
  <2>1. order'[p] = order[p] /\ points'[p] = points[p]
    BY <1>7 DEF Syncs
  <2>2. CASE handler[h].then # "reverse"
    BY <1>0, <1>1, <1>2, <2>1, <2>2, StillDue
  <2>3. CASE handler[h].then = "reverse"
    <3>1. t \in Running /\ t.of = o /\ t.then = "reverse" /\ t.step = "points"
      BY <1>7, <2>3 DEF Syncs, Continues
    <3>2. hold'[o].state = "released"
      BY <1>0, <3>1, ReversalsReleaseMove DEF ReversalsRelease, Running, Idle
    <3>. QED BY <1>0, <1>7, <3>1, <3>2, NowDue
  <2>. QED BY <2>2, <2>3
<1>8. CASE p = o /\ Settles(h, o, t)
  <2>1. /\ order'[p] = order[p] /\ handler[h].then # "reverse"
        /\ points'[p] \in {"pending", "available"} => points[p] \in {"pending", "available"}
    BY <1>8 DEF Settles
  <2>. QED BY <1>0, <1>1, <1>2, <2>1, StillDue
<1>9. CASE p = o /\ Reverses(h, o, t)
  <2>1. /\ order'[p] = order[p] /\ handler[h].step = "points"
        /\ points'[p] \notin {"pending", "available"}
    BY <1>9 DEF Reverses
  <2>. QED BY <1>0, <1>1, <1>2, <2>1, StillDue
<1>. QED BY <1>3, <1>4, <1>5, <1>6, <1>7, <1>8, <1>9 DEF Moved

LEMMA SettlementDueMove ==
    ASSUME TypeOK, Existing, SettlementDue,
           NEW h \in Handlers, NEW o \in Orders, NEW t \in {Idle} \cup Running, Moved(h, o, t)
    PROVE  SettlementDue'
<1>0. Moves(h, o, t) /\ handler'[h] = t /\ stopped \subseteq stopped'
  <2>1. Moves(h, o, t)
    BY MovedMoves
  <2>2. handler'[h] = t
    BY <2>1, OtherTasks
  <2>3. stopped \subseteq stopped'
    BY <2>1 DEF Moves
  <2>. QED BY <2>1, <2>2, <2>3
<1>. SUFFICES ASSUME NEW p \in Orders
              PROVE  /\ order'[p].request # "none" => points'[p] # "none"
                     /\ /\ order'[p].request = "approved" /\ <<p, "settle">> \notin stopped'
                        /\ points'[p] = "pending"
                        => DueFor(p, "settle", {"plan", "sync", "points"})'
  BY DEF SettlementDue
<1>1. /\ order[p].request # "none" => points[p] # "none"
      /\ /\ order[p].request = "approved" /\ <<p, "settle">> \notin stopped'
         /\ points[p] = "pending"
         => DueFor(p, "settle", {"plan", "sync", "points"})
  BY <1>0 DEF SettlementDue
<1>2. CASE p # o
  <2>1. handler[h] = Idle \/ handler[h].of # p
    BY <1>2 DEF Moved, Creates, Confirms, Rejects, Transits, Asks, Begins,
                Arranges, Syncs, Settles, Reverses, Ends, Continues
  <2>2. order'[p] = order[p] /\ points'[p] = points[p]
    BY <1>0, <1>2 DEF Moves
  <2>. QED BY <1>0, <1>1, <2>1, <2>2, StillDue
<1>3. CASE p = o /\ Creates(h, o, t)
  BY <1>3 DEF Creates
<1>4. CASE p = o /\ Confirms(h, o, t)
  <2>1. t \in Running /\ t.of = o /\ t.then = "settle" /\ t.step = "plan"
    BY <1>4 DEF Confirms, Begins
  <2>2. points' = points /\ (order'[o].request # "none" => order[o].request # "none")
    BY <1>4 DEF Confirms
  <2>. QED BY <1>0, <1>1, <1>4, <2>1, <2>2, NowDue
<1>5. CASE p = o /\ Rejects(h, o, t)
  BY <1>1, <1>5 DEF Rejects
<1>6. CASE p = o /\ (Transits(h, o, t) \/ Asks(h, o, t) \/ Ends(h, o, t) \/ Reverses(h, o, t))
  <2>1. \/ handler[h] = Idle \/ handler[h].then # "settle"
        \/ handler[h].step \notin {"plan", "sync", "points"}
    BY <1>6 DEF Transits, Asks, Begins, Ends, Reverses
  <2>2. /\ order'[p].request = order[p].request
        /\ points'[p] = "none" <=> points[p] = "none"
        /\ points'[p] = "pending" => points[p] = "pending"
    BY <1>6 DEF Transits, Asks, Ends, Reverses
  <2>. QED BY <1>0, <1>1, <2>1, <2>2, StillDue
<1>7. CASE p = o /\ (Arranges(h, o, t) \/ Syncs(h, o, t))
  <2>1. order'[p].request = order[p].request /\ points'[p] = points[p]
    BY <1>7 DEF Arranges, Syncs
  <2>2. CASE handler[h].then # "settle"
    BY <1>0, <1>1, <2>1, <2>2, StillDue
  <2>3. CASE handler[h].then = "settle" /\ <<p, "settle">> \notin stopped'
    <3>1. t \in Running /\ t.of = o /\ t.then = "settle" /\ t.step \in {"sync", "points"}
      BY <1>7, <2>3 DEF Arranges, Syncs, Continues
    <3>. QED BY <1>0, <1>1, <1>7, <2>1, <3>1, NowDue
  <2>. QED BY <1>1, <2>1, <2>2, <2>3
<1>8. CASE p = o /\ Settles(h, o, t)
  <2>1. /\ order'[p] = order[p] /\ points'[p] # "pending"
        /\ points'[p] = "none" <=> points[p] = "none"
    BY <1>8 DEF Settles
  <2>. QED BY <1>1, <2>1
<1>. QED BY <1>2, <1>3, <1>4, <1>5, <1>6, <1>7, <1>8 DEF Moved

----------------------------------------------------------------------------
\* The invariant of a process that has not restarted.
Undisturbed == SettlingIsPaid /\ Existing /\ ReversalsRelease /\ ReversalDue /\ SettlementDue

LEMMA UndisturbedAlways == Spec => [](TypeOK /\ CopiesSound /\ (restarts = 0 => Undisturbed))
<1>. DEFINE Calm == restarts = 0 => Undisturbed
<1>1. Init => Calm
  BY SettlingInit, ExistingInit, ReversalsInit, DueInit DEF Undisturbed
<1>2. TypeOK /\ CopiesSound /\ Calm /\ [Next]_vars => Calm'
  <2>. SUFFICES ASSUME TypeOK, CopiesSound, Calm, [Next]_vars, restarts' = 0
                PROVE  Undisturbed'
    OBVIOUS
  <2>1. CASE Next
    <3>1. restarts = 0
      BY <2>1, NoRestart
    <3>2. PICK h \in Handlers, o \in Orders, t \in {Idle} \cup Running : Moved(h, o, t)
      BY <2>1, <3>1, StepMoves
    <3>. QED BY <3>1, <3>2, SettlingMove, ExistingMove, ReversalsReleaseMove,
                ReversalDueMove, SettlementDueMove DEF Undisturbed
  <2>2. CASE UNCHANGED vars
    BY <2>2 DEF vars, Undisturbed, SettlingIsPaid, Existing, ReversalsRelease,
                ReversalDue, SettlementDue, DueFor
  <2>. QED BY <2>1, <2>2
<1>. QED BY <1>1, <1>2, SoundAlways, PTL DEF Spec

\* Points become spendable only with the payment of their order, and points that were
\* reversed stay so (settleOrderPoints, reverseOrderPoints), until the process restarts:
\* a restart may load points newer than the orders, and create the order again.
THEOREM PointsFollow == Spec => PointsFollowPayment
<1>1. ASSUME TypeOK, CopiesSound, restarts = 0 => Undisturbed, Next, restarts' = 0, NEW p \in Orders
      PROVE  /\ points'[p] = "available" /\ points[p] # "available" => order'[p].payment = "paid"
             /\ points[p] = "reversed" => points'[p] = "reversed"
  <2>0. restarts = 0 /\ SettlingIsPaid /\ Existing
    BY <1>1, NoRestart DEF Undisturbed
  <2>1. PICK h \in Handlers, o \in Orders, t \in {Idle} \cup Running : Moved(h, o, t)
    BY <1>1, <2>0, StepMoves
  <2>2. CASE p # o
    BY <2>1, <2>2, MovedMoves DEF Moves
  <2>3. CASE p = o /\ Creates(h, o, t)
    BY <2>0, <2>3 DEF Creates, Existing, NoOrder
  <2>4. CASE p = o /\ Settles(h, o, t)
    BY <2>0, <2>4 DEF Settles, Continues, SettlingIsPaid
  <2>5. CASE p = o /\ Reverses(h, o, t)
    BY <2>5 DEF Reverses
  <2>6. CASE ~Creates(h, o, t) /\ ~Settles(h, o, t) /\ ~Reverses(h, o, t)
    BY <2>1, <2>6 DEF Moved, Confirms, Rejects, Transits, Asks, Arranges, Syncs, Ends
  <2>. QED BY <2>2, <2>3, <2>4, <2>5, <2>6
<1>2. TypeOK /\ CopiesSound /\ (restarts = 0 => Undisturbed) /\ [Next]_vars
      => [restarts' = 0 =>
            \A o \in Orders :
               /\ points'[o] = "available" /\ points[o] # "available" => order'[o].payment = "paid"
               /\ points[o] = "reversed" => points'[o] = "reversed"]_vars
  BY <1>1
<1>. QED BY <1>2, UndisturbedAlways, PTL DEF Spec, PointsFollowPayment

\* An order whose points were taken back has given its units back before, and never holds a
\* unit again, whatever assignments, payments and conflicts cross its cancellation, until the
\* process restarts.
THEOREM ReversedOrdersHoldNothing == Spec => []ReversedHoldsNothing
<1>1. (restarts = 0 => Undisturbed) => ReversedHoldsNothing
  BY DEF Undisturbed, ReversalsRelease, ReversedHoldsNothing
<1>. QED BY <1>1, UndisturbedAlways, PTL

\* Once its handlers have ended, a cancelled, refunded or expired order has given back its
\* units and its points, over any number of warehouses, unless a conflict of the inventory
\* stopped the handler that was to give them back or the process restarted.
THEOREM CancellationGivesBack == Spec => []CancelledGivesBack
<1>1. TypeOK /\ (restarts = 0 => Undisturbed) => CancelledGivesBack
  <2>. SUFFICES ASSUME TypeOK, Undisturbed, NEW o \in Orders, AtRest(o),
                       order[o].status \in Cancelled, <<o, "reverse">> \notin stopped
                PROVE  hold[o].state = "released" /\ points[o] \in {"none", "reversed"}
    BY DEF CancelledGivesBack
  <2>1. \A steps : ~DueFor(o, "reverse", steps)
    BY DEF AtRest, DueFor
  <2>2. points[o] \in Points
    BY DEF TypeOK
  <2>. QED BY <2>1, <2>2 DEF Undisturbed, ReversalDue, Points
<1>. QED BY <1>1, UndisturbedAlways, PTL

\* Once its handlers have ended, an approved manual payment has its points spendable or taken
\* back again, unless a conflict stopped the approval or the process restarted.
THEOREM ApprovalSettles == Spec => []ApprovedSaleSettles
<1>1. TypeOK /\ (restarts = 0 => Undisturbed) => ApprovedSaleSettles
  <2>. SUFFICES ASSUME TypeOK, Undisturbed, NEW o \in Orders, AtRest(o),
                       order[o].request = "approved", <<o, "settle">> \notin stopped
                PROVE  points[o] \in {"available", "reversed"}
    BY DEF ApprovedSaleSettles
  <2>1. \A steps : ~DueFor(o, "settle", steps)
    BY DEF AtRest, DueFor
  <2>2. points[o] \in Points
    BY DEF TypeOK
  <2>. QED BY <2>1, <2>2 DEF Undisturbed, SettlementDue, Points
<1>. QED BY <1>1, UndisturbedAlways, PTL

=============================================================================
