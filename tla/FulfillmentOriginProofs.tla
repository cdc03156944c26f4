---------------------- MODULE FulfillmentOriginProofs ----------------------
(***************************************************************************)
(* The engine assigns the documented origin, an order's origin is replaced *)
(* by an operator alone, and at rest its units are where its origin says,  *)
(* for every set of warehouses, of configurations, of variants and of      *)
(* running calls: nothing is assumed of the constants beyond what          *)
(* FulfillmentOrigin states.                                               *)
(*                                                                         *)
(* The argument.  An order is created by one call, and nobody else works   *)
(* on it until that call has taken its units (Creation, Held).  From then  *)
(* on the only calls that may move the units are those that gave it an     *)
(* origin, and the only ones that may end with none those that began when  *)
(* it was stopped.  While none of these meets another, the one that moves  *)
(* the units carries the lines of the current origin, one that gives them  *)
(* back for good carries those they are held by, and without either they   *)
(* are held by the lines of the order (Follow).                            *)
(*                                                                         *)
(* What the engine ranks by is what the documentation describes, one       *)
(* criterion after the other: the candidate whose bucket, rank, weight and *)
(* priority come before those of all others is the one the elimination     *)
(* leaves, and a fallback comes after every warehouse that covers the      *)
(* destination (PlanIsDocumented).  That is a fact about one state.  The   *)
(* engine ranks after several awaits, and a call whose inputs nobody       *)
(* changed has read the warehouses as they still are and knows of those it *)
(* has asked about which can serve (Fresh).                                *)
(***************************************************************************)
EXTENDS FulfillmentOrigin, FiniteSetTheorems, WellFoundedInduction, TLAPS

(***************************************************************************)
(* The inductive invariant.                                                *)
(***************************************************************************)

\* The fields of the records that the steps rewrite.
IsOrder(x) ==
    /\ x = [exists |-> x.exists, status |-> x.status, items |-> x.items,
            origin |-> x.origin, by |-> x.by, suggestion |-> x.suggestion]
    /\ x.exists \in BOOLEAN
IsHold(x) == x = [state |-> x.state, at |-> x.at]
CallFields == {"step", "kind", "items", "seen", "pending", "fits", "to", "stage", "allow"}
IsCall(x) == x = [f \in CallFields |-> x[f]]

Shape ==
    /\ IsOrder(order)
    /\ IsHold(hold)
    /\ call = [c \in Calls |-> call[c]]
    /\ \A c \in Calls : IsCall(call[c])

\* What a call may be while an order exists, or does not.
Runs(x, exists) ==
    /\ x.kind = "none" <=> x.step = "idle"
    /\ x.kind = "create" =>
          ~exists /\ ~x.allow /\ x.step \in {"load", "assess", "build", "sync"}
    /\ x.kind \notin {"none", "create"} => exists
    /\ x.step = "sync" => x.stage \in {"reserved", "confirmed", "released"}
    /\ x.step = "take" => x.allow /\ x.stage \in {"reserved", "confirmed"}
    /\ x.step = "sync" /\ x.kind = "create" => x.stage # "released"

\* An order is created by one call, which runs alone; the others work on an order that
\* exists.
Creation ==
    /\ \A c \in Calls : Runs(call[c], order.exists)
    /\ \A c, d \in Calls : call[c].kind = "create" /\ call[d].kind = "create" => c = d

\* An order that exists has a record of its units.  One being created has an origin only when
\* the call that creates it is about to take its units there, with the lines of the order.
Held ==
    /\ hold.state = "none" <=> ~order.exists
    /\ ~order.exists => order.status \in {"pending", "confirmed"}
    /\ order.exists /\ order.origin # NoWarehouse =>
          order.items = rewriteItemsToWarehouse(order.origin)
    /\ \A c \in Calls : call[c].kind = "create" /\ At(c, "sync") =>
          /\ Lines(c) = order.items
          /\ order.origin # NoWarehouse => order.items = rewriteItemsToWarehouse(order.origin)
    /\ ~order.exists /\ order.origin # NoWarehouse =>
          \E c \in Calls : call[c].kind = "create" /\ At(c, "sync")

\* The one call that moves the units carries the lines of the order; only it gives them
\* back to take others, of an order that stands.  One that gives them back for good carries
\* those they are held by.  Without either the units are held by the lines of the order.
Follow ==
    ~crossed =>
        /\ \A c \in Calls : Moving(c) => Lines(c) = order.items
        /\ \A c, d \in Calls : Moving(c) /\ Moving(d) => c = d
        /\ \A c \in Calls : At(c, "take") =>
              /\ hold.state = "released" /\ ~Stopped(order.status)
              /\ \A d \in Calls : ~Stopping(d)
        /\ Holds => /\ \A c \in Calls : Stopping(c) => hold.at = Lines(c)
                    /\ \A c, d \in Calls : Stopping(c) => ~Moving(d)
                    /\ (\A c \in Calls : ~Moving(c)) => hold.at = order.items
                    /\ Stopped(order.status) => \E c \in Calls : Stopping(c)

\* The units of an order that stands are given back by a move alone.
Kept ==
    /\ hold.state \in {"none", "reserved", "confirmed", "released"}
    /\ \A c \in Calls : At(c, "sync") /\ call[c].stage = "released" =>
          Stopped(order.status) \/ revived
    /\ hold.state = "released" /\ ~refused /\ ~revived =>
          Stopped(order.status) \/ \E c \in Calls : At(c, "take")

IInv == Shape /\ Creation /\ Held /\ Follow /\ Kept

----------------------------------------------------------------------------
(***************************************************************************)
(* A call that ends, or goes on without touching the order's origin, its   *)
(* units or the units' history.                                            *)
(***************************************************************************)

LEMMA BecomeGives ==
    ASSUME Shape, NEW c \in Calls, NEW x, Become(c, x)
    PROVE  /\ call' = [d \in Calls |-> call'[d]]
           /\ call'[c] = x
           /\ \A d \in Calls \ {c} : call'[d] = call[d]
BY DEF Shape, Become

\* The calls that are not about the order's units.
Apart(x) == ~(x.step \in {"sync", "take"} /\ x.allow)

LEMMA StageIs ==
    ASSUME NEW status
    PROVE  /\ LifecycleState(status) \in {"reserved", "confirmed", "released"}
           /\ LifecycleState(status) = "released" <=> Stopped(status)
BY DEF LifecycleState

\* Such a call starts, ends or goes on, perhaps to the inventory with the lines and the status
\* of the order.  A stop comes with a call that gives the units back, and when nobody moves
\* them or else it crosses.
LEMMA CallGoesOn ==
    ASSUME IInv, NEW c \in Calls, NEW x, Become(c, x), IsCall(x), UNCHANGED <<hold, refused>>,
           IsOrder(order'), order'.exists = order.exists, order'.origin = order.origin,
           call[c].kind # "create" /\ x.kind # "create" => order'.items = order.items,
           Apart(x), call[c].step \notin {"sync", "take"}, Runs(x, order.exists),
           x.kind = "create" => \A d \in Calls \ {c} : call[d].kind # "create",
           x.step = "sync" => x.items = order'.items /\ x.stage = LifecycleState(order'.status),
           x.kind = "create" /\ x.step = "sync" => order.origin = NoWarehouse,
           ~order.exists => order'.status \in {"pending", "confirmed"},
           Stopped(order.status) => Stopped(order'.status) \/ revived',
           Stopped(order'.status) =>
             \/ Stopped(order.status)
             \/ x.step = "sync" /\ (crossed' \/ \A d \in Calls \ {c} : ~Moving(d)),
           crossed => crossed', revived => revived'
    PROVE  IInv'
<1>1. /\ call' = [d \in Calls |-> call'[d]]
      /\ call'[c] = x
      /\ \A d \in Calls \ {c} : call'[d] = call[d]
  BY BecomeGives DEF IInv
<1>2. Shape'
  BY <1>1 DEF IInv, Shape, IsHold
<1>3. /\ Creation'
      /\ order.exists => order'.items = order.items
  BY <1>1 DEF IInv, Creation, Runs
<1>4. ~Moving(c) /\ ~Stopping(c) /\ ~At(c, "take") /\ ~At(c, "sync")
  BY DEF Moving, Stopping, At
<1>5. \A d \in Calls : Moving(d)' <=> Moving(d)
  BY <1>1, <1>4 DEF Moving, Apart
<1>6. \A d \in Calls : At(d, "take")' <=> At(d, "take")
  BY <1>1, <1>4 DEF At, Apart, Runs
<1>7. \A d \in Calls \ {c} : /\ Stopping(d)' <=> Stopping(d)
                             /\ Lines(d)' = Lines(d)
                             /\ At(d, "sync")' <=> At(d, "sync")
  BY <1>1 DEF Stopping, At, Lines
<1>8. /\ At(c, "sync")' => /\ Lines(c)' = order'.items
                           /\ call'[c].stage = "released" <=> Stopped(order'.status)
      /\ Stopping(c)' <=> x.step = "sync" /\ Stopped(order'.status)
  BY <1>1, StageIs DEF At, Lines, Stopping, Apart
<1>9. Held'
  <2>1. hold'.state = "none" <=> ~order'.exists
    BY DEF IInv, Held
  <2>2. order'.exists /\ order'.origin # NoWarehouse =>
          order'.items = rewriteItemsToWarehouse(order'.origin)
    BY <1>3 DEF IInv, Held
  <2>3. ASSUME NEW d \in Calls, call'[d].kind = "create", At(d, "sync")'
        PROVE  /\ Lines(d)' = order'.items
               /\ order'.origin # NoWarehouse => order'.items = rewriteItemsToWarehouse(order'.origin)
    <3>1. CASE d = c
      BY <1>1, <1>8, <2>3, <3>1 DEF At
    <3>2. CASE d # c
      <4>1. call[d].kind = "create" /\ At(d, "sync") /\ Lines(d)' = Lines(d)
        BY <1>1, <1>7, <2>3, <3>2
      <4>2. ~order.exists /\ call[d].step # "idle"
        BY <4>1 DEF At, IInv, Creation, Runs
      <4>3. call[c].kind = "none" /\ x.kind = "none"
        BY <4>1, <4>2, <3>2 DEF IInv, Creation, Runs
      <4> QED BY <4>1, <4>3, <2>3 DEF IInv, Held
    <3> QED BY <3>1, <3>2
  <2>4. ASSUME ~order'.exists, order'.origin # NoWarehouse
        PROVE  \E d \in Calls : call'[d].kind = "create" /\ At(d, "sync")'
    <3>1. PICK d \in Calls : call[d].kind = "create" /\ At(d, "sync")
      BY <2>4 DEF IInv, Held
    <3>2. d # c
      BY <1>4, <3>1
    <3> QED BY <1>1, <1>7, <3>1, <3>2
  <2> QED BY <2>1, <2>2, <2>3, <2>4 DEF Held, rewriteItemsToWarehouse
<1>10. Follow'
  <2> SUFFICES ASSUME ~crossed' PROVE Follow'
    BY DEF Follow
  <2>1. ~crossed
    OBVIOUS
  <2>2. Stopped(order'.status) => Stopped(order.status) \/ \A d \in Calls : ~Moving(d)
    BY <1>4
  <2>3. \A d \in Calls : At(d, "take") => Moving(d)
    BY DEF IInv, Creation, Runs, At, Moving
  <2>4. ASSUME NEW d \in Calls, At(d, "take")'
        PROVE  /\ hold.state = "released" /\ ~Stopped(order'.status)
               /\ \A e \in Calls : ~Stopping(e)'
    <3>1. At(d, "take") /\ Moving(d)
      BY <1>6, <2>3, <2>4
    <3>2. hold.state = "released" /\ ~Stopped(order.status) /\ \A e \in Calls : ~Stopping(e)
      BY <2>1, <3>1 DEF IInv, Follow
    <3>3. ~Stopped(order'.status)
      BY <2>2, <3>1, <3>2
    <3> QED BY <1>7, <1>8, <3>2, <3>3
  <2>5. Holds /\ Stopped(order'.status) =>
          /\ \A d \in Calls : ~Moving(d)
          /\ \E d \in Calls : Stopping(d)'
    <3>1. CASE Stopped(order.status)
      <4>1. Holds => \E d \in Calls : Stopping(d) /\ \A e \in Calls : ~Moving(e)
        BY <2>1, <3>1 DEF IInv, Follow
      <4> QED BY <1>4, <1>7, <4>1
    <3>2. CASE ~Stopped(order.status)
      BY <1>8, <2>2, <3>2
    <3> QED BY <3>1, <3>2
  <2>6. Holds => order.exists
    BY DEF Holds, IInv, Held
  <2>7. Holds /\ (\A d \in Calls : ~Moving(d)) => hold.at = order'.items
    BY <1>3, <2>1, <2>6 DEF IInv, Follow
  <2>8. ASSUME Holds, NEW d \in Calls, Stopping(d)'
        PROVE  hold.at = Lines(d)' /\ \A e \in Calls : ~Moving(e)
    <3>1. CASE d = c
      BY <1>8, <2>5, <2>7, <2>8, <3>1 DEF Stopping
    <3>2. CASE d # c
      BY <1>7, <2>1, <2>8, <3>2 DEF IInv, Follow
    <3> QED BY <3>1, <3>2
  <2>9. \A d \in Calls : Moving(d) => order.exists
    BY DEF IInv, Creation, Runs, Moving
  <2>10. \A d \in Calls : Moving(d)' => Lines(d)' = order'.items
    <3>1. \A d \in Calls : Moving(d) => order.exists /\ Lines(d) = order.items
      BY <2>1, <2>9 DEF IInv, Follow
    <3> QED BY <1>3, <1>4, <1>5, <1>7, <3>1
  <2>11. \A d, e \in Calls : Moving(d)' /\ Moving(e)' => d = e
    BY <1>5, <2>1 DEF IInv, Follow
  <2> QED BY <1>5, <2>4, <2>5, <2>7, <2>8, <2>10, <2>11 DEF Follow, Holds
<1>11. Kept'
  <2>1. \A d \in Calls : At(d, "sync")' /\ call'[d].stage = "released" =>
          Stopped(order'.status) \/ revived'
    <3>1. ASSUME NEW d \in Calls, d # c, At(d, "sync")', call'[d].stage = "released"
          PROVE  Stopped(order'.status) \/ revived'
      BY <1>1, <1>7, <3>1 DEF IInv, Kept
    <3> QED BY <1>8, <3>1
  <2> QED BY <1>6, <2>1 DEF IInv, Kept
<1> QED BY <1>2, <1>3, <1>9, <1>10, <1>11 DEF IInv

\* Without a call that is about to take the units of a new order, a new order has no origin.
LEMMA NewOrderHasNoOrigin ==
    ASSUME IInv, ~order.exists, NEW c \in Calls,
           \A d \in Calls \ {c} : call[d].kind # "create", ~At(c, "sync")
    PROVE  order.origin = NoWarehouse
BY DEF IInv, Held

LEMMA OneCreates ==
    ASSUME IInv, NEW c \in Calls, call[c].kind = "create"
    PROVE  /\ ~order.exists
           /\ \A d \in Calls \ {c} : call[d].kind # "create"
BY DEF IInv, Creation, Runs

LEMMA CreateStep ==
    ASSUME IInv, NEW c \in Calls, createOrder(c)
    PROVE  IInv'
<1>1. PICK items \in Items : Engine(c, "create", items)
  BY DEF createOrder
<1>2. PICK status \in {"pending", "confirmed"} : order' = [NoOrder EXCEPT !.status = status]
  BY DEF createOrder
<1> DEFINE x == [Idle EXCEPT !.step = "load", !.kind = "create", !.items = items]
<1>3. Become(c, x) /\ IsCall(x) /\ Apart(x) /\ Runs(x, order.exists)
      /\ x.step = "load" /\ x.kind = "create"
  BY <1>1 DEF Engine, Idle, IsCall, CallFields, Apart, Runs, createOrder
<1>4. /\ IsOrder(order') /\ order'.exists = order.exists /\ order'.origin = NoWarehouse
      /\ order'.status \in {"pending", "confirmed"} /\ ~order.exists
  <2>1. ~order.exists /\ order.exists \in BOOLEAN
    BY DEF createOrder, IInv, Shape, IsOrder
  <2> QED BY <1>2, <2>1 DEF NoOrder, IsOrder
<1>5. order.origin = NoWarehouse
  BY NewOrderHasNoOrigin DEF createOrder, At
<1>6. call[c].step \notin {"sync", "take"} /\ \A d \in Calls \ {c} : call[d].kind # "create"
  BY DEF createOrder, At
<1>7. UNCHANGED <<hold, refused, crossed, revived>>
  BY DEF createOrder
<1>8. ~Stopped(order.status) /\ ~Stopped(order'.status)
  BY <1>4 DEF Stopped, IInv, Held
<1> HIDE DEF x
<1> QED BY <1>3, <1>4, <1>5, <1>6, <1>7, <1>8, CallGoesOn

\* The status changes: to the inventory at once, or by way of the engine.
LEMMA AdvanceStep ==
    ASSUME IInv, NEW c \in Calls, NEW next, Advance(c, next), At(c, "idle"), order.exists,
           Stopped(order.status) => Stopped(next) \/ revived',
           Stopped(next) => Crossing(c), crossed => crossed', revived => revived'
    PROVE  IInv'
<1> DEFINE plans == next = "confirmed" /\ order.origin = NoWarehouse
           x == IF plans THEN [Idle EXCEPT !.step = "load", !.kind = "advance", !.items = order.items]
                ELSE Syncing("advance", order.items, next, FALSE)
<1>1. Become(c, x) /\ UNCHANGED <<hold, refused>>
  BY DEF Advance, Engine
<1>2. /\ IsCall(x) /\ Apart(x) /\ Runs(x, order.exists) /\ x.kind # "create"
      /\ x.step = "sync" => x.items = order.items /\ x.stage = LifecycleState(next)
      /\ x.step = IF plans THEN "load" ELSE "sync"
  BY StageIs DEF Syncing, Idle, IsCall, CallFields, Apart, Runs
<1>3. /\ IsOrder(order') /\ order'.exists = order.exists /\ order'.origin = order.origin
      /\ order'.status = next /\ order'.items = order.items
  BY DEF Advance, IsOrder, IInv, Shape
<1>4. call[c].step \notin {"sync", "take"}
  BY DEF At
<1>5. Stopped(next) => x.step = "sync" /\ (crossed' \/ \A d \in Calls \ {c} : ~Moving(d))
  <2>1. Stopped(next) => ~plans
    BY DEF Stopped
  <2> QED BY <1>2, <2>1 DEF Crossing
<1> HIDE DEF x, plans
<1> QED BY <1>1, <1>2, <1>3, <1>4, <1>5, CallGoesOn

LEMMA StatusStep ==
    ASSUME IInv, NEW c \in Calls,
           applyCommercialConfirmation(c) \/ \E next \in Statuses : transitionOrderStatus(c, next)
    PROVE  IInv'
<1>1. CASE applyCommercialConfirmation(c)
  <2>1. ~Stopped("confirmed")
    BY DEF Stopped
  <2>2. Stopped(order.status) => revived'
    BY <1>1 DEF applyCommercialConfirmation, Stopped
  <2> QED BY <1>1, <2>1, <2>2, AdvanceStep DEF applyCommercialConfirmation
<1>2. ASSUME NEW next \in Statuses, transitionOrderStatus(c, next) PROVE IInv'
  <2>1. ~Stopped(order.status)
    BY <1>2 DEF transitionOrderStatus, operationalTransitions, Stopped
  <2>2. crossed => crossed'
    BY <1>2 DEF transitionOrderStatus, Crossing
  <2> QED BY <1>2, <2>1, <2>2, AdvanceStep DEF transitionOrderStatus
<1> QED BY <1>1, <1>2

LEMMA AskStep ==
    ASSUME IInv, NEW c \in Calls, listDispatchOrders(c) \/ suggestOrderFulfillment(c)
    PROVE  IInv'
<1>1. PICK kind \in {"dispatch", "suggest"} : Engine(c, kind, order.items)
  BY DEF listDispatchOrders, suggestOrderFulfillment
<1> DEFINE x == [Idle EXCEPT !.step = "load", !.kind = kind, !.items = order.items]
<1>2. Become(c, x)
  BY <1>1 DEF Engine
<1>3. order.exists /\ At(c, "idle") /\ UNCHANGED <<order, hold, refused, crossed, revived>>
  BY DEF listDispatchOrders, suggestOrderFulfillment
<1>4. IsCall(x) /\ Apart(x) /\ Runs(x, order.exists) /\ x.kind # "create" /\ x.step = "load"
  BY <1>3 DEF Idle, IsCall, CallFields, Apart, Runs
<1>5. call[c].step \notin {"sync", "take"}
  BY <1>3 DEF At
<1>6. IsOrder(order')
  BY <1>3 DEF IInv, Shape
<1> HIDE DEF x
<1> QED BY <1>2, <1>3, <1>4, <1>5, <1>6, CallGoesOn

LEMMA AssignStep ==
    ASSUME IInv, NEW c \in Calls, NEW w \in Warehouses, assignOrderFulfillment(c, w)
    PROVE  IInv'
<1> DEFINE x == [Idle EXCEPT !.step = "validate", !.kind = "assign", !.to = w]
<1>1. Become(c, x)
  BY DEF assignOrderFulfillment
<1>2. IsCall(x) /\ Apart(x) /\ Runs(x, order.exists) /\ x.kind # "create" /\ x.step = "validate"
  BY DEF assignOrderFulfillment, Idle, IsCall, CallFields, Apart, Runs
<1>3. call[c].step \notin {"sync", "take"}
  BY DEF assignOrderFulfillment, At
<1>4. UNCHANGED <<order, hold, refused, crossed, revived>> /\ IsOrder(order') /\ order.exists
  BY DEF assignOrderFulfillment, history, IInv, Shape
<1> HIDE DEF x
<1> QED BY <1>1, <1>2, <1>3, <1>4, CallGoesOn

\* A call that goes on with an order whose status is as it was.
LEMMA StatusStays ==
    ASSUME IInv, NEW c \in Calls, NEW x, Become(c, x), IsCall(x),
           UNCHANGED <<hold, refused, crossed, revived>>,
           IsOrder(order'), order'.exists = order.exists, order'.origin = order.origin,
           order'.status = order.status, call[c].kind # "create" => order'.items = order.items,
           Apart(x), call[c].step \notin {"sync", "take"}, Runs(x, order.exists),
           x.kind = "create" => call[c].kind = "create",
           x.step = "sync" => x.items = order'.items /\ x.stage = LifecycleState(order.status)
    PROVE  IInv'
<1>1. x.kind = "create" => \A d \in Calls \ {c} : call[d].kind # "create"
  BY OneCreates
<1>2. ~order.exists => order'.status \in {"pending", "confirmed"}
  BY DEF IInv, Held
<1>3. x.kind = "create" => order.origin = NoWarehouse
  BY OneCreates, NewOrderHasNoOrigin DEF At
<1> QED BY <1>1, <1>2, <1>3, CallGoesOn

\* The engine's end leaves the origin and the existence of the order alone.
LEMMA ConcludeStep ==
    ASSUME IInv, NEW c \in Calls, NEW seen, NEW candidates, call[c].step \in {"load", "assess"},
           Conclude(c, seen, candidates), UNCHANGED <<hold, refused, crossed, revived>>
    PROVE  IInv'
<1>1. /\ IsOrder(order') /\ order'.exists = order.exists /\ order'.origin = order.origin
      /\ order'.status = order.status
      /\ order'.items = IF call[c].kind = "create" THEN call[c].items ELSE order.items
  BY DEF Conclude, IsOrder, IInv, Shape
<1>2. call[c].step \notin {"sync", "take"} /\ Runs(call[c], order.exists)
  BY DEF IInv, Creation
<1>3. call[c].kind # "create" => order'.items = order.items
  BY <1>1
<1>4. CASE Become(c, [Idle EXCEPT !.step = "build", !.kind = call[c].kind,
                                  !.items = call[c].items,
                                  !.to = Selected(seen, call[c].items, candidates)])
  <2> DEFINE x == [Idle EXCEPT !.step = "build", !.kind = call[c].kind,
                               !.items = call[c].items,
                               !.to = Selected(seen, call[c].items, candidates)]
  <2>1. /\ IsCall(x) /\ Apart(x) /\ x.kind = call[c].kind /\ Runs(x, order.exists)
        /\ x.step = "build"
    BY <1>2 DEF Idle, IsCall, CallFields, Apart, Runs
  <2>2. Become(c, x)
    BY <1>4
  <2> HIDE DEF x
  <2> QED BY <1>1, <1>2, <1>3, <2>1, <2>2, StatusStays
<1>5. CASE End(c)
  <2>1. /\ IsCall(Idle) /\ Apart(Idle) /\ Idle.kind # "create" /\ Runs(Idle, order.exists)
        /\ Idle.step = "idle"
    BY DEF Idle, IsCall, CallFields, Apart, Runs
  <2> QED BY <1>1, <1>2, <1>3, <1>5, <2>1, StatusStays DEF End
<1>6. ASSUME call[c].kind \in {"create", "advance"},
             Become(c, Syncing(call[c].kind, order'.items, order.status, FALSE))
      PROVE  IInv'
  <2> DEFINE x == Syncing(call[c].kind, order'.items, order.status, FALSE)
  <2>1. call[c].kind = "create" => ~Stopped(order.status)
    BY OneCreates DEF IInv, Held, Stopped
  <2>2. /\ IsCall(x) /\ Apart(x) /\ x.kind = call[c].kind /\ Runs(x, order.exists)
        /\ x.items = order'.items /\ x.stage = LifecycleState(order.status)
    BY <1>2, <1>6, <2>1, StageIs DEF Syncing, Idle, IsCall, CallFields, Apart, Runs
  <2>3. Become(c, x)
    BY <1>6
  <2> HIDE DEF x
  <2> QED BY <1>1, <1>2, <1>3, <2>2, <2>3, StatusStays
<1>7. \/ Become(c, [Idle EXCEPT !.step = "build", !.kind = call[c].kind,
                                !.items = call[c].items,
                                !.to = Selected(seen, call[c].items, candidates)])
      \/ End(c)
      \/ /\ call[c].kind \in {"create", "advance"}
         /\ Become(c, Syncing(call[c].kind, order'.items, order.status, FALSE))
  BY <1>1 DEF Conclude
<1> QED BY <1>4, <1>5, <1>6, <1>7

\* The engine goes on reading.
LEMMA ReadStep ==
    ASSUME IInv, NEW c \in Calls, call[c].step \in {"load", "assess"}, NEW x, Become(c, x),
           IsCall(x), x.step = "assess", x.kind = call[c].kind, x.allow = call[c].allow,
           UNCHANGED <<order, hold, refused, crossed, revived>>
    PROVE  IInv'
<1>1. Apart(x) /\ call[c].step \notin {"sync", "take"} /\ Runs(x, order.exists)
  BY DEF Apart, Runs, IInv, Creation
<1>2. IsOrder(order')
  BY DEF IInv, Shape
<1> QED BY <1>1, <1>2, StatusStays

LEMMA LoadStep ==
    ASSUME IInv, NEW c \in Calls, Load(c)
    PROVE  IInv'
<1> DEFINE seen == [w \in {u \in Warehouses : warehouse[u].active} |-> warehouse[w]]
           covering == {w \in DOMAIN seen : CoverageOf(seen, call[c].items, w) # NoCoverage}
           x == [call[c] EXCEPT !.step = "assess", !.seen = seen, !.pending = covering]
<1>1. UNCHANGED <<hold, refused, crossed, revived>> /\ call[c].step \in {"load", "assess"}
  BY DEF Load, At
<1>2. CASE Conclude(c, seen, {})
  <2> HIDE DEF seen
  <2> QED BY <1>1, <1>2, ConcludeStep
<1>3. CASE Become(c, x) /\ order' = order
  <2>1. IsCall(x) /\ x.step = "assess" /\ x.kind = call[c].kind /\ x.allow = call[c].allow
    <3> HIDE DEF seen, covering
    <3> QED BY DEF IsCall, CallFields, IInv, Shape
  <2> HIDE DEF x
  <2> QED BY <1>1, <1>3, <2>1, ReadStep
<1> QED BY <1>2, <1>3 DEF Load

LEMMA AssessStep ==
    ASSUME IInv, NEW c \in Calls, Assess(c)
    PROVE  IInv'
<1> DEFINE Spot(w) == <<call[c].seen[w].priority, Code[w]>>
           next == CHOOSE w \in call[c].pending :
                       \A u \in call[c].pending : ~Before(Spot(u), Spot(w))
           found == call[c].fits \cup {w \in {next} : CanServe(w)}
           x == [call[c] EXCEPT !.pending = @ \ {next}, !.fits = found]
<1>1. UNCHANGED <<hold, refused, crossed, revived>> /\ call[c].step = "assess"
  BY DEF Assess, At
<1>2. \/ Conclude(c, call[c].seen, found)
      \/ Become(c, x) /\ order' = order
  BY DEF Assess
<1> HIDE DEF next, found
<1>3. CASE Conclude(c, call[c].seen, found)
  BY <1>1, <1>3, ConcludeStep
<1>4. CASE Become(c, x) /\ order' = order
  <2>1. IsCall(x) /\ x.step = "assess" /\ x.kind = call[c].kind /\ x.allow = call[c].allow
    BY <1>1 DEF IsCall, CallFields, IInv, Shape
  <2> HIDE DEF x
  <2> QED BY <1>1, <1>4, <2>1, ReadStep
<1> QED BY <1>2, <1>3, <1>4

LEMMA ValidateStep ==
    ASSUME IInv, NEW c \in Calls, Validate(c) \/ Check(c)
    PROVE  IInv'
<1> DEFINE go == [call[c] EXCEPT !.step = IF At(c, "validate") THEN "check" ELSE "reassign"]
<1>1. /\ call[c].step \in {"validate", "check"}
      /\ UNCHANGED <<order, hold, refused, crossed, revived>>
      /\ Become(c, go) \/ Become(c, Idle)
  BY DEF Validate, Check, At, history, End
<1>2. /\ call[c].step \notin {"sync", "take"} /\ IsOrder(order')
      /\ call[c].kind \notin {"none", "create"} /\ order.exists
  BY <1>1 DEF IInv, Shape, Creation, Runs
<1>3. CASE Become(c, Idle)
  <2>1. /\ IsCall(Idle) /\ Apart(Idle) /\ Idle.kind # "create" /\ Runs(Idle, order.exists)
        /\ Idle.step = "idle"
    BY DEF Idle, IsCall, CallFields, Apart, Runs
  <2> QED BY <1>1, <1>2, <1>3, <2>1, StatusStays
<1>4. CASE Become(c, go)
  <2>1. IsCall(go) /\ go.step \in {"check", "reassign"} /\ go.kind = call[c].kind
    BY DEF IsCall, CallFields, IInv, Shape
  <2> HIDE DEF go
  <2>2. Apart(go) /\ Runs(go, order.exists) /\ go.kind # "create" /\ go.step # "sync"
    BY <2>1, <1>2 DEF Apart, Runs
  <2> QED BY <1>1, <1>2, <1>4, <2>1, <2>2, StatusStays
<1> QED BY <1>1, <1>3, <1>4

LEMMA DroppedStep ==
    ASSUME IInv, NEW c \in Calls, Dropped(c)
    PROVE  IInv'
<1> DEFINE x == IF call[c].kind = "advance"
                THEN Syncing("advance", order.items, order.status, FALSE) ELSE Idle
<1>1. /\ Become(c, x) /\ At(c, "build") /\ UNCHANGED <<hold, refused, crossed, revived>>
      /\ order' = [order EXCEPT !.suggestion = call[c].to]
  BY DEF Dropped, history, End
<1>2. /\ IsOrder(order') /\ order'.exists = order.exists /\ order'.origin = order.origin
      /\ order'.status = order.status /\ order'.items = order.items
  BY <1>1 DEF IsOrder, IInv, Shape
<1>3. call[c].step \notin {"sync", "take"} /\ Runs(call[c], order.exists)
  BY <1>1 DEF At, IInv, Creation
<1>4. /\ IsCall(x) /\ Apart(x) /\ Runs(x, order.exists) /\ x.kind # "create"
      /\ x.step = "sync" => x.items = order.items /\ x.stage = LifecycleState(order.status)
  BY <1>3, StageIs DEF Syncing, Idle, IsCall, CallFields, Apart, Runs
<1> HIDE DEF x
<1> QED BY <1>1, <1>2, <1>3, <1>4, StatusStays

LEMMA NotActiveStep ==
    ASSUME IInv, NEW c \in Calls, NotActive(c)
    PROVE  IInv'
<1>1. /\ Become(c, Idle) /\ call[c].step \in {"build", "reassign"}
      /\ UNCHANGED <<hold, refused, crossed, revived>>
      /\ order' = IF call[c].kind = "create" THEN NoOrder ELSE order
  BY DEF NotActive, history, Throw, End, At
<1>2. call[c].step \notin {"sync", "take"} /\ ~At(c, "sync")
  BY <1>1 DEF At
<1>3. /\ IsCall(Idle) /\ Apart(Idle) /\ Runs(Idle, order.exists) /\ Idle.kind # "create"
      /\ Idle.step = "idle"
  BY DEF Idle, IsCall, CallFields, Apart, Runs
<1>4. CASE call[c].kind = "create"
  <2>1. ~order.exists /\ \A d \in Calls \ {c} : call[d].kind # "create"
    BY <1>4, OneCreates
  <2>2. order.origin = NoWarehouse
    BY <1>2, <2>1, NewOrderHasNoOrigin
  <2>3. order' = NoOrder /\ order.exists = FALSE
    BY <1>1, <1>4, <2>1 DEF IInv, Shape, IsOrder
  <2>4. /\ IsOrder(order') /\ order'.exists = order.exists /\ order'.origin = order.origin
        /\ order'.status = "pending"
    BY <2>2, <2>3 DEF NoOrder, IsOrder
  <2>5. ~Stopped(order.status) /\ ~Stopped(order'.status)
    BY <2>1, <2>4 DEF Stopped, IInv, Held
  <2> QED BY <1>1, <1>2, <1>3, <2>1, <2>4, <2>5, CallGoesOn
<1>5. CASE call[c].kind # "create"
  <2>1. order' = order /\ IsOrder(order')
    BY <1>1, <1>5 DEF IInv, Shape
  <2> QED BY <1>1, <1>2, <1>3, <2>1, StatusStays
<1> QED BY <1>4, <1>5

----------------------------------------------------------------------------
(***************************************************************************)
(* The steps that give the order an origin, and those on its units.        *)
(***************************************************************************)

\* The order takes an origin: the call that gives it will move the units, unless it is
\* creating the order, which holds none yet.
LEMMA OriginGiven ==
    ASSUME IInv, NEW c \in Calls, call[c].step \in {"build", "reassign"},
           NEW w, NEW who, NEW kind, NEW allow, kind # "none", allow = (kind # "create"),
           kind = "create" <=> call[c].kind = "create",
           order' = Assigned(rewriteItemsToWarehouse(w), w, who),
           Become(c, Syncing(kind, rewriteItemsToWarehouse(w), order.status, allow)),
           Crossing(c), UNCHANGED <<hold, refused, revived>>
    PROVE  IInv'
<1> DEFINE x == Syncing(kind, rewriteItemsToWarehouse(w), order.status, allow)
<1>1. /\ IsCall(x) /\ x.step = "sync" /\ x.kind = kind /\ x.allow = allow
      /\ x.items = rewriteItemsToWarehouse(w) /\ x.stage = LifecycleState(order.status)
  BY DEF IsCall, CallFields, Syncing, Idle
<1>2. Become(c, x)
  OBVIOUS
<1> HIDE DEF x
<1>3. /\ call' = [d \in Calls |-> call'[d]] /\ call'[c] = x
      /\ \A d \in Calls \ {c} : call'[d] = call[d]
  BY <1>2, BecomeGives DEF IInv
<1>4. /\ IsOrder(order') /\ order'.exists = order.exists /\ order'.origin = w
      /\ order'.status = order.status /\ order'.items = rewriteItemsToWarehouse(w)
  BY DEF Assigned, IsOrder, IInv, Shape
<1>5. Runs(call[c], order.exists) /\ ~Moving(c) /\ ~Stopping(c) /\ ~At(c, "take") /\ ~At(c, "sync")
  BY DEF IInv, Creation, Moving, Stopping, At
<1>6. Shape'
  BY <1>1, <1>3, <1>4 DEF IInv, Shape, IsHold
<1>7. kind = "create" <=> ~order.exists
  BY <1>5 DEF Runs, IInv, Creation
<1>8. ~order.exists => ~Stopped(order.status)
  BY DEF IInv, Held, Stopped
<1>9. Creation'
  <2>1. Runs(x, order.exists)
    BY <1>1, <1>7, <1>8, StageIs DEF Runs
  <2> QED BY <1>1, <1>3, <1>4, <2>1 DEF IInv, Creation
<1>10. Held'
  <2>1. ~order.exists => /\ call'[c].kind = "create" /\ At(c, "sync")'
                         /\ \A d \in Calls \ {c} : call'[d].kind # "create"
    BY <1>1, <1>3, <1>7, OneCreates DEF At
  <2>2. Lines(c)' = rewriteItemsToWarehouse(w)
    BY <1>1, <1>3 DEF Lines
  <2>3. order.exists => \A d \in Calls : call'[d].kind # "create"
    BY <1>1, <1>3, <1>7 DEF IInv, Creation, Runs
  <2> QED BY <1>4, <2>1, <2>2, <2>3 DEF IInv, Held, rewriteItemsToWarehouse
<1>11. Follow'
  <2> SUFFICES ASSUME ~crossed' PROVE Follow'
    BY DEF Follow
  <2>1. ~crossed /\ \A d \in Calls \ {c} : ~Moving(d) /\ ~Stopping(d)
    BY DEF Crossing
  <2>2. \A d \in Calls \ {c} : ~Moving(d)' /\ ~Stopping(d)' /\ ~At(d, "take")'
    <3>1. \A d \in Calls \ {c} : /\ Moving(d)' <=> Moving(d)
                                 /\ Stopping(d)' <=> Stopping(d)
                                 /\ At(d, "take")' <=> At(d, "take")
      BY <1>3 DEF Moving, Stopping, At
    <3>2. \A d \in Calls : At(d, "take") => Moving(d)
      BY DEF IInv, Creation, Runs, At, Moving
    <3> QED BY <2>1, <3>1, <3>2
  <2>3. /\ ~At(c, "take")' /\ Lines(c)' = rewriteItemsToWarehouse(w)
        /\ Moving(c)' <=> order.exists
        /\ ~Stopping(c)'
    BY <1>1, <1>3, <1>7, <1>8, StageIs DEF At, Lines, Moving, Stopping
  <2>4. Holds => order.exists
    BY DEF Holds, IInv, Held
  <2>5. Holds => ~Stopped(order.status)
    BY <1>5, <2>1 DEF IInv, Follow
  <2> QED BY <1>4, <2>2, <2>3, <2>4, <2>5 DEF Follow, Holds
<1>12. Kept'
  <2>1. \A d \in Calls \ {c} : /\ At(d, "sync")' <=> At(d, "sync")
                               /\ At(d, "take")' <=> At(d, "take")
                               /\ call'[d].stage = call[d].stage
    BY <1>3 DEF At
  <2>2. ~At(c, "take")' /\ (call'[c].stage = "released" => Stopped(order.status))
    BY <1>1, <1>3, StageIs DEF At
  <2>3. \A d \in Calls : At(d, "sync")' /\ call'[d].stage = "released" =>
          Stopped(order'.status) \/ revived'
    BY <1>4, <2>1, <2>2 DEF IInv, Kept
  <2>4. (\E d \in Calls : At(d, "take")) => \E d \in Calls : At(d, "take")'
    BY <1>5, <2>1
  <2> QED BY <1>4, <2>3, <2>4 DEF IInv, Kept
<1> QED BY <1>6, <1>9, <1>10, <1>11, <1>12 DEF IInv

LEMMA ApplyStep ==
    ASSUME IInv, NEW c \in Calls, Apply(c)
    PROVE  IInv'
<1>1. call[c].step \in {"build", "reassign"} /\ call[c].kind # "none"
  BY DEF Apply, At, IInv, Creation, Runs
<1>2. /\ order' = Assigned(rewriteItemsToWarehouse(call[c].to), call[c].to, "engine")
      /\ Become(c, Syncing(call[c].kind, rewriteItemsToWarehouse(call[c].to),
                           order.status, call[c].kind # "create"))
      /\ Crossing(c) /\ UNCHANGED <<hold, refused, revived>>
  BY DEF Apply
<1> QED BY <1>1, <1>2, OriginGiven

LEMMA ReassignStep ==
    ASSUME IInv, NEW c \in Calls, Reassign(c)
    PROVE  IInv'
<1>1. call[c].step \in {"build", "reassign"} /\ call[c].kind # "create"
  BY DEF Reassign, At, IInv, Creation, Runs
<1>2. /\ order' = Assigned(rewriteItemsToWarehouse(call[c].to), call[c].to, "operator")
      /\ Become(c, Syncing("assign", rewriteItemsToWarehouse(call[c].to),
                           order.status, TRUE))
      /\ Crossing(c) /\ UNCHANGED <<hold, refused, revived>>
  BY DEF Reassign
<1>3. /\ "assign" # "none" /\ TRUE = ("assign" # "create")
      /\ "assign" = "create" <=> call[c].kind = "create"
  BY <1>1
<1> QED BY <1>1, <1>2, <1>3, OriginGiven

\* An order that does not exist is known to one call at most.
LEMMA Alone ==
    ASSUME IInv, NEW c \in Calls, call[c].kind = "create"
    PROVE  /\ ~order.exists /\ ~Moving(c)
           /\ \A d \in Calls \ {c} : call[d].kind = "none" /\ At(d, "idle")
           /\ \A d \in Calls : ~At(d, "take")
BY DEF IInv, Creation, Runs, At, Moving

LEMMA CallEnds ==
    ASSUME IInv, NEW c \in Calls, End(c)
    PROVE  /\ call' = [d \in Calls |-> call'[d]] /\ call'[c] = Idle
           /\ \A d \in Calls \ {c} : call'[d] = call[d]
           /\ \A d \in Calls : IsCall(call'[d])
           /\ ~Moving(c)' /\ ~Stopping(c)' /\ ~At(c, "take")' /\ ~At(c, "sync")'
           /\ call'[c].kind = "none"
           /\ \A d \in Calls \ {c} : /\ Moving(d)' <=> Moving(d)
                                     /\ Stopping(d)' <=> Stopping(d)
                                     /\ At(d, "take")' <=> At(d, "take")
                                     /\ At(d, "sync")' <=> At(d, "sync")
                                     /\ Lines(d)' = Lines(d)
<1>1. /\ call' = [d \in Calls |-> call'[d]] /\ call'[c] = Idle
      /\ \A d \in Calls \ {c} : call'[d] = call[d]
  BY BecomeGives DEF End, IInv
<1>2. IsCall(Idle) /\ Idle.step = "idle" /\ Idle.kind = "none"
  BY DEF Idle, IsCall, CallFields
<1> HIDE DEF Idle
<1> QED BY <1>1, <1>2 DEF IInv, Shape, Moving, Stopping, At, Lines

\* The units of a new order are taken, or it is forgotten.
LEMMA FirstTake ==
    ASSUME IInv, NEW c \in Calls, Take(c), call[c].kind = "create"
    PROVE  IInv'
<1>1. At(c, "sync") /\ call[c].stage \in {"reserved", "confirmed"}
  BY DEF Take, At, IInv, Creation, Runs
<1>2. hold.state = "none" /\ End(c) /\ UNCHANGED revived
  BY <1>1 DEF Take, Done, Throw, At
<1>3. /\ call' = [d \in Calls |-> call'[d]] /\ \A d \in Calls : IsCall(call'[d])
      /\ call'[c] = Idle /\ \A d \in Calls \ {c} : call'[d] = call[d]
  BY <1>2, CallEnds
<1>4. ~order.exists /\ \A d \in Calls \ {c} : call[d].kind = "none" /\ call[d].step = "idle"
  BY Alone DEF At
<1> \A d \in Calls : call'[d].step = "idle" /\ call'[d].kind = "none"
  BY <1>3, <1>4 DEF Idle
<1>5. \A d \in Calls : /\ Runs(call'[d], order'.exists) /\ ~Moving(d)' /\ ~Stopping(d)'
                       /\ ~At(d, "take")' /\ ~At(d, "sync")' /\ call'[d].kind # "create"
  BY <1>4 DEF Runs, Moving, Stopping, At
<1>6. /\ Lines(c) = order.items /\ ~Stopped(order.status)
      /\ order.origin # NoWarehouse => order.items = rewriteItemsToWarehouse(order.origin)
  BY <1>1, <1>4 DEF IInv, Held, Stopped
<1>7. Creation'
  BY <1>4, <1>5 DEF Creation
<1>8. CASE Enough(Lines(c))
  <2>1. hold' = [state |-> call[c].stage, at |-> Lines(c)] /\ order' = [order EXCEPT !.exists = TRUE]
    BY <1>8 DEF Take, Done
  <2>2. /\ IsOrder(order') /\ order'.exists = TRUE /\ order'.origin = order.origin
        /\ order'.items = order.items /\ order'.status = order.status
    BY <2>1 DEF IsOrder, IInv, Shape
  <2>3. IsHold(hold') /\ hold'.state \in {"reserved", "confirmed"} /\ hold'.at = Lines(c)
    BY <2>1, <1>1 DEF IsHold
  <2>4. Shape'
    BY <1>3, <2>2, <2>3 DEF Shape
  <2>5. Held'
    BY <1>5, <1>6, <2>2, <2>3 DEF Held, rewriteItemsToWarehouse
  <2>6. Follow'
    BY <2>2, <2>3, <1>5, <1>6 DEF Follow
  <2>7. Kept'
    BY <2>3, <1>5 DEF Kept
  <2> QED BY <1>7, <2>4, <2>5, <2>6, <2>7 DEF IInv
<1>9. CASE ~Enough(Lines(c))
  <2>1. hold' = hold /\ order' = NoOrder
    BY <1>9 DEF Take, Throw
  <2>2. /\ IsOrder(order') /\ order'.exists = FALSE /\ order'.origin = NoWarehouse
        /\ order'.status = "pending"
    BY <2>1 DEF NoOrder, IsOrder
  <2>3. Shape'
    BY <1>3, <2>1, <2>2 DEF IInv, Shape, IsHold
  <2>4. Held'
    BY <1>2, <1>5, <2>1, <2>2 DEF Held
  <2>5. Follow' /\ Kept'
    BY <2>1, <1>2, <1>5 DEF Follow, Kept, Holds
  <2> QED BY <1>7, <2>3, <2>4, <2>5 DEF IInv
<1> QED BY <1>8, <1>9

\* What a call on an order that exists finds.
LEMMA Existing ==
    ASSUME IInv, NEW c \in Calls, call[c].step \in {"sync", "take"}, call[c].kind # "create"
    PROVE  /\ order.exists /\ hold.state # "none"
           /\ At(c, "sync") => call[c].stage \in {"reserved", "confirmed", "released"}
           /\ At(c, "take") => Moving(c) /\ call[c].stage \in {"reserved", "confirmed"}
BY DEF IInv, Creation, Runs, Held, At, Moving

\* What stays as it was when a call on an existing order ends.
LEMMA EndKeeps ==
    ASSUME IInv, NEW c \in Calls, End(c), order.exists, order' = order,
           IsHold(hold'), hold'.state # "none"
    PROVE  Shape' /\ Creation' /\ Held'
<1>1. /\ call' = [d \in Calls |-> call'[d]] /\ call'[c] = Idle
      /\ \A d \in Calls \ {c} : call'[d] = call[d]
      /\ \A d \in Calls : IsCall(call'[d])
  BY CallEnds
<1>2. Shape'
  BY <1>1 DEF IInv, Shape
<1>3. Creation'
  BY <1>1 DEF IInv, Creation, Runs, Idle
<1>4. \A d \in Calls : call'[d].kind # "create"
  BY <1>3 DEF Creation, Runs
<1>5. Held'
  BY <1>4 DEF IInv, Held, rewriteItemsToWarehouse
<1> QED BY <1>2, <1>3, <1>5

\* What stays true of the units: a call ends that leaves a stopped order's units with another
\* that gives them back, or given back.
LEMMA EndFollows ==
    ASSUME IInv, NEW c \in Calls, End(c), order' = order, crossed' = crossed,
           Holds' => \/ Holds /\ hold'.at = hold.at
                     \/ ~Stopped(order.status) /\ \A d \in Calls : ~Stopping(d),
           Holds' /\ Holds => ~Stopping(c),
           ~crossed /\ Holds' /\ (\A d \in Calls \ {c} : ~Moving(d)) => hold'.at = order.items,
           ~crossed => \A d \in Calls \ {c} : At(d, "take") => hold'.state = "released"
    PROVE  Follow'
<1> SUFFICES ASSUME ~crossed' PROVE Follow'
  BY DEF Follow
<1>1. /\ ~Moving(c)' /\ ~Stopping(c)' /\ ~At(c, "take")'
      /\ \A d \in Calls \ {c} : /\ Moving(d)' <=> Moving(d)
                                /\ Stopping(d)' <=> Stopping(d)
                                /\ At(d, "take")' <=> At(d, "take")
                                /\ Lines(d)' = Lines(d)
  BY CallEnds
<1>2. /\ \A d \in Calls : Moving(d)' => Lines(d)' = order'.items
      /\ \A d, e \in Calls : Moving(d)' /\ Moving(e)' => d = e
  BY <1>1 DEF IInv, Follow
<1>3. ASSUME NEW d \in Calls, At(d, "take")'
      PROVE  /\ hold'.state = "released" /\ ~Stopped(order'.status)
             /\ \A e \in Calls : ~Stopping(e)'
  <2>1. d # c /\ At(d, "take")
    BY <1>1, <1>3
  <2> QED BY <1>1, <2>1 DEF IInv, Follow
<1>4. ASSUME Holds'
      PROVE  /\ \A d \in Calls : Stopping(d)' => hold'.at = Lines(d)'
             /\ \A d, e \in Calls : Stopping(d)' => ~Moving(e)'
             /\ (\A d \in Calls : ~Moving(d)') => hold'.at = order'.items
             /\ Stopped(order'.status) => \E d \in Calls : Stopping(d)'
  <2>1. (\A d \in Calls : ~Moving(d)') => hold'.at = order'.items
    BY <1>1, <1>4
  <2>2. CASE ~Stopped(order.status) /\ \A d \in Calls : ~Stopping(d)
    BY <1>1, <2>1, <2>2
  <2>3. CASE Holds /\ hold'.at = hold.at
    <3>1. /\ \A d \in Calls : Stopping(d) => hold.at = Lines(d)
          /\ \A d, e \in Calls : Stopping(d) => ~Moving(e)
          /\ Stopped(order.status) => \E d \in Calls : Stopping(d)
      BY <2>3 DEF IInv, Follow
    <3> QED BY <1>1, <1>4, <2>1, <2>3, <3>1
  <2> QED BY <1>4, <2>2, <2>3
<1> QED BY <1>2, <1>3, <1>4 DEF Follow

\* The history that excuses an order without units, when a call ends.
LEMMA EndIsKept ==
    ASSUME IInv, NEW c \in Calls, End(c), order' = order, UNCHANGED revived,
           refused => refused', hold'.state \in {"none", "reserved", "confirmed", "released"},
           hold'.state = "released" /\ ~refused' /\ ~revived =>
             \/ Stopped(order.status)
             \/ hold.state = "released" /\ ~At(c, "take")
    PROVE  Kept'
<1>1. /\ ~At(c, "sync")' /\ ~At(c, "take")'
      /\ \A d \in Calls \ {c} : /\ At(d, "sync")' <=> At(d, "sync")
                                /\ At(d, "take")' <=> At(d, "take")
                                /\ call'[d] = call[d]
  BY CallEnds
<1>2. \A d \in Calls : At(d, "sync")' /\ call'[d].stage = "released" =>
        Stopped(order'.status) \/ revived'
  BY <1>1 DEF IInv, Kept
<1>3. hold'.state = "released" /\ ~refused' /\ ~revived' =>
        Stopped(order'.status) \/ \E d \in Calls : At(d, "take")'
  BY <1>1 DEF IInv, Kept
<1> QED BY <1>2, <1>3 DEF Kept

\* The units of a move that were given back are taken at the new origin, or are gone.
LEMMA MoveTake ==
    ASSUME IInv, NEW c \in Calls, Take(c), call[c].kind # "create"
    PROVE  IInv'
<1>1. call[c].step \in {"sync", "take"}
  BY DEF Take, At
<1>2. At(c, "take")
  BY <1>1, Existing DEF Take
<1>3. order.exists /\ hold.state # "none" /\ Moving(c) /\ call[c].stage \in {"reserved", "confirmed"}
  BY <1>1, <1>2, Existing
<1>4. End(c) /\ order' = order /\ UNCHANGED <<crossed, revived>>
  BY DEF Take, Done, Throw
<1>5. ~crossed => /\ Lines(c) = order.items /\ hold.state = "released" /\ ~Stopped(order.status)
                  /\ \A d \in Calls : ~Stopping(d)
                  /\ \A d \in Calls \ {c} : ~At(d, "take")
  <2>1. \A d \in Calls : At(d, "take") => Moving(d)
    BY DEF IInv, Creation, Runs, At, Moving
  <2> QED BY <1>2, <1>3, <2>1 DEF IInv, Follow
<1>6. CASE Enough(Lines(c))
  <2>1. hold' = [state |-> call[c].stage, at |-> Lines(c)] /\ UNCHANGED refused
    BY <1>6 DEF Take
  <2>2. IsHold(hold') /\ hold'.state \in {"reserved", "confirmed"} /\ hold'.at = Lines(c)
    BY <2>1, <1>3 DEF IsHold
  <2>3. Shape' /\ Creation' /\ Held'
    BY <1>3, <1>4, <2>2, EndKeeps
  <2>4. Follow'
    <3>1. CASE crossed
      BY <1>4, <3>1 DEF Follow
    <3>2. CASE ~crossed
      BY <1>4, <1>5, <2>2, <3>2, EndFollows DEF Holds
    <3> QED BY <3>1, <3>2
  <2>5. Kept'
    BY <1>4, <2>1, <2>2, EndIsKept
  <2> QED BY <2>3, <2>4, <2>5 DEF IInv
<1>7. CASE ~Enough(Lines(c))
  <2>1. hold' = hold /\ refused'
    BY <1>2, <1>7 DEF Take
  <2>2. Shape' /\ Creation' /\ Held'
    BY <1>3, <1>4, <2>1, EndKeeps DEF IInv, Shape, IsHold
  <2>3. Follow'
    <3>1. CASE crossed
      BY <1>4, <3>1 DEF Follow
    <3>2. CASE ~crossed
      BY <1>4, <1>5, <2>1, <3>2, EndFollows DEF Holds
    <3> QED BY <3>1, <3>2
  <2>4. Kept'
    BY <1>4, <2>1, EndIsKept DEF IInv, Kept
  <2> QED BY <2>2, <2>3, <2>4 DEF IInv
<1> QED BY <1>6, <1>7

\* The lines are those of the record already.
LEMMA SameLinesStep ==
    ASSUME IInv, NEW c \in Calls, SameLines(c)
    PROVE  IInv'
<1>1. /\ At(c, "sync") /\ hold.state # "none" /\ hold.at = Lines(c) /\ End(c)
      /\ hold.state = "released" \/ call[c].stage # "released"
      /\ hold' = [hold EXCEPT !.state = IF @ = "reserved" THEN call[c].stage ELSE @]
      /\ UNCHANGED <<order, refused, crossed, revived>>
  BY DEF SameLines, history
<1>2. order.exists /\ call[c].stage \in {"reserved", "confirmed", "released"} /\ ~At(c, "take")
  BY <1>1 DEF IInv, Held, Creation, Runs, At
<1>3. /\ IsHold(hold') /\ hold'.at = hold.at
      /\ hold'.state = IF hold.state = "reserved" THEN call[c].stage ELSE hold.state
  BY <1>1 DEF IInv, Shape, IsHold
<1>4. hold.state \in {"reserved", "confirmed", "released"}
  BY <1>1 DEF IInv, Kept
<1>5. /\ Holds' <=> Holds
      /\ hold'.state = "released" <=> hold.state = "released"
      /\ hold'.state \in {"reserved", "confirmed", "released"}
  BY <1>1, <1>2, <1>3, <1>4 DEF Holds
<1>6. Shape' /\ Creation' /\ Held'
  BY <1>1, <1>2, <1>3, <1>5, EndKeeps
<1>7. Follow'
  <2>1. Holds => ~Stopping(c)
    BY <1>1 DEF Holds, Stopping
  <2>2. ~crossed /\ Holds /\ (\A d \in Calls \ {c} : ~Moving(d)) => hold'.at = order.items
    BY <1>1, <1>3 DEF IInv, Follow
  <2>3. ~crossed => \A d \in Calls \ {c} : At(d, "take") => hold'.state = "released"
    BY <1>5 DEF IInv, Follow
  <2> QED BY <1>1, <1>3, <1>5, <2>1, <2>2, <2>3, EndFollows
<1>8. Kept'
  BY <1>1, <1>2, <1>5, EndIsKept
<1> QED BY <1>6, <1>7, <1>8 DEF IInv

\* The units are given back for good.
LEMMA ReleaseStep ==
    ASSUME IInv, NEW c \in Calls, Release(c)
    PROVE  IInv'
<1>1. /\ At(c, "sync") /\ Holds /\ call[c].stage = "released" /\ End(c)
      /\ hold' = [hold EXCEPT !.state = "released"]
      /\ UNCHANGED <<order, refused, crossed, revived>>
  BY DEF Release, Holds
<1>2. order.exists
  BY <1>1 DEF Holds, IInv, Held
<1>3. IsHold(hold') /\ hold'.state = "released"
  BY <1>1 DEF IInv, Shape, IsHold
<1>4. Shape' /\ Creation' /\ Held'
  BY <1>1, <1>2, <1>3, EndKeeps
<1>5. Follow'
  BY <1>1, <1>3, EndFollows DEF Holds
<1>6. Kept'
  <2>1. Stopped(order.status) \/ revived
    BY <1>1 DEF IInv, Kept
  <2> QED BY <1>1, <1>3, <2>1, EndIsKept
<1> QED BY <1>4, <1>5, <1>6 DEF IInv

\* The old units are given back.
LEMMA GiveBackStep ==
    ASSUME IInv, NEW c \in Calls, GiveBack(c)
    PROVE  IInv'
<1> DEFINE x == [call[c] EXCEPT !.step = "take", !.stage = hold.state]
<1>1. /\ At(c, "sync") /\ hold.state \in {"reserved", "confirmed"} /\ call[c].allow
      /\ Become(c, x) /\ hold' = [hold EXCEPT !.state = "released"]
      /\ UNCHANGED <<order, refused, crossed, revived>>
  BY DEF GiveBack
<1>2. /\ IsCall(x) /\ x.step = "take" /\ x.stage = hold.state /\ x.kind = call[c].kind
      /\ x.allow = call[c].allow /\ x.items = call[c].items
  BY DEF IsCall, CallFields, IInv, Shape
<1> HIDE DEF x
<1>3. /\ call' = [d \in Calls |-> call'[d]] /\ call'[c] = x
      /\ \A d \in Calls \ {c} : call'[d] = call[d]
  BY <1>1, BecomeGives DEF IInv
<1>4. IsHold(hold') /\ hold'.at = hold.at /\ hold'.state = "released"
  BY <1>1 DEF IInv, Shape, IsHold
<1>5. /\ order.exists /\ call[c].kind \notin {"none", "create"} /\ Moving(c) /\ ~Stopping(c)
      /\ Holds /\ ~At(c, "take")
  BY <1>1 DEF IInv, Held, Creation, Runs, At, Moving, Stopping, Holds
<1>6. Shape'
  BY <1>1, <1>2, <1>3, <1>4 DEF IInv, Shape
<1>7. Creation'
  <2>1. Runs(x, order.exists)
    BY <1>1, <1>2, <1>5 DEF Runs
  <2> QED BY <1>1, <1>2, <1>3, <1>5, <2>1 DEF IInv, Creation
<1>8. \A d \in Calls : call'[d].kind # "create"
  BY <1>1, <1>5, <1>7 DEF Creation, Runs
<1>9. Held'
  BY <1>1, <1>4, <1>5, <1>8 DEF IInv, Held, rewriteItemsToWarehouse
<1>10. /\ Moving(c)' /\ At(c, "take")' /\ ~At(c, "sync")' /\ ~Stopping(c)' /\ Lines(c)' = Lines(c)
       /\ \A d \in Calls \ {c} : /\ Moving(d)' <=> Moving(d)
                                 /\ Stopping(d)' <=> Stopping(d)
                                 /\ At(d, "take")' <=> At(d, "take")
                                 /\ At(d, "sync")' <=> At(d, "sync")
  BY <1>1, <1>2, <1>3 DEF Moving, Stopping, At, Lines
<1>11. Follow'
  <2> SUFFICES ASSUME ~crossed' PROVE Follow'
    BY DEF Follow
  <2>1. /\ Lines(c) = order.items
        /\ \A d \in Calls \ {c} : ~Moving(d)
        /\ \A d \in Calls : ~Stopping(d)
        /\ ~Stopped(order.status)
    BY <1>1, <1>5 DEF IInv, Follow
  <2>2. ~Holds'
    BY <1>4 DEF Holds
  <2> QED BY <1>1, <1>4, <1>10, <2>1, <2>2 DEF Follow
<1>12. Kept'
  <2>1. \A d \in Calls : At(d, "sync")' /\ call'[d].stage = "released" =>
          Stopped(order'.status) \/ revived'
    BY <1>1, <1>3, <1>10 DEF IInv, Kept
  <2> QED BY <1>4, <1>10, <2>1 DEF Kept
<1> QED BY <1>6, <1>7, <1>9, <1>11, <1>12 DEF IInv

\* The lines changed without leave, or the units are given back already.
LEMMA ConflictStep ==
    ASSUME IInv, NEW c \in Calls, Conflict(c)
    PROVE  IInv'
<1>1. /\ At(c, "sync") /\ hold.state # "none" /\ Throw(c) /\ hold.at # Lines(c)
      /\ hold.state = "released" \/ ~call[c].allow
      /\ UNCHANGED <<hold, refused, crossed, revived>>
  BY DEF Conflict, history
<1>2. order.exists /\ ~At(c, "take")
  BY <1>1 DEF IInv, Held, At
<1>3. End(c) /\ order' = order
  BY <1>1, <1>2 DEF Throw, IInv, Creation, Runs
<1>4. Shape' /\ Creation' /\ Held'
  BY <1>1, <1>2, <1>3, EndKeeps DEF IInv, Shape, IsHold
<1>5. Holds => ~Moving(c)
  BY <1>1 DEF Holds, Moving
<1>6. Holds' <=> Holds
  BY <1>1 DEF Holds
<1>7. Follow'
  <2>1. CASE crossed
    BY <1>1, <2>1 DEF Follow
  <2>2. CASE ~crossed
    <3>1. Holds => ~Stopping(c)
      BY <1>1, <2>2 DEF IInv, Follow
    <3>2. Holds /\ (\A d \in Calls \ {c} : ~Moving(d)) => hold.at = order.items
      BY <1>5, <2>2 DEF IInv, Follow
    <3>3. \A d \in Calls \ {c} : At(d, "take") => hold.state = "released"
      BY <2>2 DEF IInv, Follow
    <3> QED BY <1>1, <1>3, <1>6, <3>1, <3>2, <3>3, EndFollows
  <2> QED BY <2>1, <2>2
<1>8. Kept'
  BY <1>1, <1>2, <1>3, EndIsKept DEF IInv, Kept
<1> QED BY <1>4, <1>7, <1>8 DEF IInv

----------------------------------------------------------------------------
(***************************************************************************)
(* The theorems.                                                           *)
(***************************************************************************)

LEMMA Start == Init => IInv
<1> SUFFICES ASSUME Init PROVE IInv
  OBVIOUS
<1>1. order = NoOrder /\ hold = NoHold /\ call = [c \in Calls |-> Idle]
  BY DEF Init
<1>2. IsOrder(order) /\ ~order.exists /\ order.origin = NoWarehouse /\ order.status = "pending"
  BY <1>1 DEF NoOrder, IsOrder
<1>3. IsHold(hold) /\ hold.state = "none" /\ ~Holds
  BY <1>1 DEF NoHold, IsHold, Holds
<1>4. IsCall(Idle) /\ Idle.step = "idle" /\ Idle.kind = "none"
  BY DEF Idle, IsCall, CallFields
<1> HIDE DEF Idle
<1>5. Shape /\ Creation /\ Held
  BY <1>1, <1>2, <1>3, <1>4 DEF Shape, Creation, Runs, Held, At
<1>6. Follow /\ Kept
  BY <1>1, <1>2, <1>3, <1>4 DEF Follow, Kept, Moving, Stopping, At
<1> QED BY <1>5, <1>6 DEF IInv

LEMMA Unmoved ==
    ASSUME IInv, UNCHANGED <<order, hold, call, refused, crossed, revived>>
    PROVE  IInv'
<1>1. Shape' /\ Creation' /\ Held'
  BY DEF IInv, Shape, IsHold, IsOrder, Creation, Held, At, Lines, rewriteItemsToWarehouse
<1>2. Follow' /\ Kept'
  BY DEF IInv, Follow, Kept, Moving, Stopping, At, Lines, Holds
<1> QED BY <1>1, <1>2 DEF IInv

LEMMA Step == IInv /\ [Next]_vars => IInv'
<1> SUFFICES ASSUME IInv, [Next]_vars PROVE IInv'
  OBVIOUS
<1>1. ASSUME NEW c \in Calls, createOrder(c) PROVE IInv'
  BY <1>1, CreateStep
<1>2. ASSUME NEW c \in Calls,
             applyCommercialConfirmation(c) \/ \E next \in Statuses : transitionOrderStatus(c, next)
      PROVE  IInv'
  BY <1>2, StatusStep
<1>3. ASSUME NEW c \in Calls, listDispatchOrders(c) \/ suggestOrderFulfillment(c) PROVE IInv'
  BY <1>3, AskStep
<1>4. ASSUME NEW c \in Calls, Load(c) PROVE IInv'
  BY <1>4, LoadStep
<1>5. ASSUME NEW c \in Calls, Assess(c) PROVE IInv'
  BY <1>5, AssessStep
<1>6. ASSUME NEW c \in Calls, Apply(c) PROVE IInv'
  BY <1>6, ApplyStep
<1>7. ASSUME NEW c \in Calls, Dropped(c) PROVE IInv'
  BY <1>7, DroppedStep
<1>8. ASSUME NEW c \in Calls, NotActive(c) PROVE IInv'
  BY <1>8, NotActiveStep
<1>9. ASSUME NEW c \in Calls, Validate(c) \/ Check(c) PROVE IInv'
  BY <1>9, ValidateStep
<1>10. ASSUME NEW c \in Calls, Reassign(c) PROVE IInv'
  BY <1>10, ReassignStep
<1>11. ASSUME NEW c \in Calls, Take(c) PROVE IInv'
  BY <1>11, FirstTake, MoveTake
<1>12. ASSUME NEW c \in Calls, SameLines(c) PROVE IInv'
  BY <1>12, SameLinesStep
<1>13. ASSUME NEW c \in Calls, GiveBack(c) PROVE IInv'
  BY <1>13, GiveBackStep
<1>14. ASSUME NEW c \in Calls, Conflict(c) PROVE IInv'
  BY <1>14, ConflictStep
<1>15. ASSUME NEW c \in Calls, NEW w \in Warehouses, assignOrderFulfillment(c, w) PROVE IInv'
  BY <1>15, AssignStep
<1>16. ASSUME NEW w \in Warehouses, patchWarehouse(w) \/ \E v \in Variants : StockMoves(w, v)
       PROVE  IInv'
  <2>1. UNCHANGED <<order, hold, call, refused, crossed, revived>>
    BY <1>16 DEF patchWarehouse, StockMoves
  <2> QED BY <2>1, Unmoved
<1>17. CASE UNCHANGED vars
  BY <1>17, Unmoved DEF vars, places, history
<1>18. ASSUME NEW c \in Calls, Release(c) PROVE IInv'
  BY <1>18, ReleaseStep
<1> QED BY <1>1, <1>2, <1>3, <1>4, <1>5, <1>6, <1>7, <1>8, <1>9, <1>10, <1>11, <1>12, <1>13,
           <1>14, <1>15, <1>16, <1>17, <1>18 DEF Next

LEMMA Invariance == Spec => []IInv
BY Start, Step, PTL DEF Spec

\* At rest an order holds units at its origin and nowhere else, and none once it was stopped,
\* unless a move of its units met another or their release; and an order that stands holds
\* them, unless those of a new origin went between the release and the reserve or it was paid
\* after it was cancelled.
THEOREM UnitsFollowOrigin == Spec => []HeldAtOrigin
<1>1. IInv => HeldAtOrigin
  <2> SUFFICES ASSUME IInv, \A c \in Calls : At(c, "idle"), order.exists, ~crossed
               PROVE  /\ Holds /\ order.origin # NoWarehouse =>
                           hold.at = rewriteItemsToWarehouse(order.origin)
                      /\ Stopped(order.status) => ~Holds
                      /\ Stopped(order.status) \/ refused \/ revived \/ Holds
    BY DEF HeldAtOrigin
  <2>1. \A c \in Calls : ~Moving(c) /\ ~Stopping(c) /\ ~At(c, "take")
    BY DEF Moving, Stopping, At
  <2>2. Holds => hold.at = order.items /\ ~Stopped(order.status)
    BY <2>1 DEF IInv, Follow
  <2>3. order.origin # NoWarehouse => order.items = rewriteItemsToWarehouse(order.origin)
    BY DEF IInv, Held
  <2>4. Stopped(order.status) \/ refused \/ revived \/ hold.state # "released"
    BY <2>1 DEF IInv, Kept
  <2>5. hold.state \in {"reserved", "confirmed", "released"}
    BY DEF IInv, Held, Kept
  <2> QED BY <2>2, <2>3, <2>4, <2>5 DEF Holds
<1> QED BY <1>1, Invariance, PTL

\* An origin once given is replaced by an operator alone: the engine applies its plan only to
\* an order without one, and the call that creates an order, which may forget it, is over.
THEOREM OriginKept == Spec => AssignmentKept
<1> DEFINE Stays == <<order.origin, order.by>>' = <<order.origin, order.by>> \/ order'.by = "operator"
<1>1. ASSUME IInv, [Next]_vars, order.exists, order.origin # NoWarehouse
      PROVE  Stays
  <2>1. IsOrder(order) /\ \A c \in Calls : call[c].kind # "create"
    BY <1>1 DEF IInv, Shape, Creation, Runs
  <2>2. ASSUME UNCHANGED order PROVE Stays
    BY <2>2
  <2>3. ASSUME NEW c \in Calls, Throw(c) PROVE Stays
    BY <2>1, <2>3 DEF Throw
  <2>4. ASSUME NEW c \in Calls, NEW seen, NEW candidates, Conclude(c, seen, candidates) PROVE Stays
    <3> DEFINE s == IF At(c, "build")' THEN order.suggestion
                    ELSE Selected(seen, call[c].items, candidates)
               i == IF call[c].kind = "create" THEN call[c].items ELSE order.items
    <3>1. order' = [order EXCEPT !.suggestion = s, !.items = i]
      BY <2>4 DEF Conclude
    <3> HIDE DEF s, i
    <3> QED BY <2>1, <3>1 DEF IsOrder
  <2>5. ASSUME NEW c \in Calls, createOrder(c) PROVE Stays
    BY <1>1, <2>5 DEF createOrder
  <2>6. ASSUME NEW c \in Calls, applyCommercialConfirmation(c)
                               \/ \E next \in Statuses : transitionOrderStatus(c, next)
        PROVE  Stays
    <3>1. PICK next : Advance(c, next)
      BY <2>6 DEF applyCommercialConfirmation, transitionOrderStatus
    <3> QED BY <2>1, <3>1 DEF Advance, IsOrder
  <2>7. ASSUME NEW c \in Calls, Load(c) \/ Assess(c) PROVE Stays
    <3>1. UNCHANGED order \/ \E seen, candidates : Conclude(c, seen, candidates)
      BY <2>7 DEF Load, Assess
    <3> QED BY <2>2, <2>4, <3>1
  <2>8. ASSUME NEW c \in Calls, Apply(c) PROVE Stays
    BY <1>1, <2>8 DEF Apply
  <2>9. ASSUME NEW c \in Calls, Dropped(c) PROVE Stays
    BY <2>1, <2>9 DEF Dropped, IsOrder
  <2>10. ASSUME NEW c \in Calls, NotActive(c) \/ Conflict(c) PROVE Stays
    BY <2>3, <2>10 DEF NotActive, Conflict
  <2>11. ASSUME NEW c \in Calls, Reassign(c) PROVE Stays
    BY <2>1, <2>11 DEF Reassign, Assigned, IsOrder
  <2>12. ASSUME NEW c \in Calls, Take(c) PROVE Stays
    <3>1. order' = order \/ Throw(c)
      BY <2>1, <2>12 DEF Take, Done
    <3> QED BY <2>2, <2>3, <3>1
  <2>13. ASSUME NEW c \in Calls, \/ listDispatchOrders(c) \/ suggestOrderFulfillment(c)
                                 \/ Validate(c) \/ Check(c) \/ SameLines(c) \/ Release(c) \/ GiveBack(c)
                                 \/ \E w \in Warehouses : assignOrderFulfillment(c, w)
         PROVE  Stays
    BY <2>2, <2>13 DEF listDispatchOrders, suggestOrderFulfillment, Validate, Check, SameLines,
                       Release, GiveBack, assignOrderFulfillment
  <2>14. ASSUME NEW w \in Warehouses, patchWarehouse(w) \/ \E v \in Variants : StockMoves(w, v)
         PROVE  Stays
    BY <2>2, <2>14 DEF patchWarehouse, StockMoves
  <2>15. CASE UNCHANGED vars
    BY <2>2, <2>15 DEF vars
  <2> HIDE DEF Stays
  <2> QED BY <1>1, <2>5, <2>6, <2>7, <2>8, <2>9, <2>10, <2>11, <2>12, <2>13, <2>14, <2>15 DEF Next
<1>2. IInv /\ [Next]_vars => [order.exists /\ order.origin # NoWarehouse =>
                                 \/ <<order.origin, order.by>>' = <<order.origin, order.by>>
                                 \/ order'.by = "operator"]_vars
  BY <1>1
<1> QED BY <1>2, Invariance, PTL DEF Spec, AssignmentKept

----------------------------------------------------------------------------
(***************************************************************************)
(* Least numbers, and least pairs of numbers.                              *)
(***************************************************************************)

\* Of the parts of a finite set, one contains no other.
LEMMA SmallestPart ==
    ASSUME NEW S, IsFiniteSet(S), NEW T \in SUBSET (SUBSET S), T # {}
    PROVE  \E m \in T : \A i \in T : i \subseteq m => i = m
<1>1. T \subseteq FiniteSubsetsOf(S)
  BY FS_Subset DEF FiniteSubsetsOf
<1>2. PICK m \in T : \A i \in T : ~ (<<i, m>> \in StrictSubsetOrdering(S))
  BY <1>1, FS_StrictSubsetOrderingWellFounded, WFMin
<1> QED BY <1>1, <1>2 DEF StrictSubsetOrdering, FiniteSubsetsOf

\* The interval below the least of some numbers contains that below no other.
LEMMA LeastNumber ==
    ASSUME NEW S \in SUBSET Nat, S # {}
    PROVE  \E m \in S : \A i \in S : m <= i
<1>1. PICK n \in S : TRUE
  OBVIOUS
<1>2. PICK S0 : S0 = 0 .. n
  OBVIOUS
<1>3. PICK T : T = {0 .. k : k \in {i \in S : i <= n}}
  OBVIOUS
<1>4. IsFiniteSet(S0)
  BY <1>1, <1>2, FS_Interval
<1>5. T \in SUBSET (SUBSET S0) /\ T # {}
  <2>1. ASSUME NEW k \in S, k <= n PROVE 0 .. k \subseteq S0
    BY <1>1, <1>2, <2>1
  <2>2. 0 .. n \in T
    <3>1. n \in {i \in S : i <= n}
      BY <1>1
    <3> QED BY <1>3, <3>1
  <2> QED BY <1>3, <2>1, <2>2
<1>6. PICK U \in T : \A V \in T : V \subseteq U => V = U
  BY ONLY <1>4, <1>5, SmallestPart
<1>7. PICK m \in S : U = 0 .. m /\ m <= n
  BY <1>3
<1>8. ASSUME NEW i \in S, i < m PROVE FALSE
  <2>1. 0 .. i \in T
    BY <1>1, <1>3, <1>7, <1>8
  <2>2. 0 .. i \subseteq U /\ m \in U /\ m \notin 0 .. i
    BY <1>7, <1>8
  <2> QED BY <1>6, <2>1, <2>2
<1> QED BY <1>8

\* Pairs of numbers have a first one, in the order of their first difference.
LEMMA FirstPair ==
    ASSUME NEW S, S # {}, NEW f \in [S -> Nat], NEW g \in [S -> Nat]
    PROVE  \E m \in S : \A i \in S : f[m] < f[i] \/ (f[m] = f[i] /\ g[m] <= g[i])
<1>1. PICK n \in {f[i] : i \in S} : \A k \in {f[i] : i \in S} : n <= k
  <2>1. {f[i] : i \in S} \in SUBSET Nat /\ {f[i] : i \in S} # {}
    OBVIOUS
  <2> QED BY <2>1, LeastNumber
<1> DEFINE R == {i \in S : f[i] = n}
<1>2. PICK k \in {g[i] : i \in R} : \A j \in {g[i] : i \in R} : k <= j
  <2>1. {g[i] : i \in R} \in SUBSET Nat /\ {g[i] : i \in R} # {}
    BY <1>1
  <2> QED BY <2>1, LeastNumber
<1>3. PICK m \in R : g[m] = k
  OBVIOUS
<1>4. ASSUME NEW i \in S PROVE f[m] < f[i] \/ (f[m] = f[i] /\ g[m] <= g[i])
  <2>1. n <= f[i] /\ f[m] = n /\ f[i] \in Nat /\ n \in Nat
    BY <1>1, <1>3
  <2>2. f[i] = n => k <= g[i]
    BY <1>2
  <2>3. g[m] = k
    BY <1>3
  <2> HIDE DEF R
  <2>4. n < f[i] \/ n = f[i]
    BY ONLY <2>1
  <2> QED BY ONLY <2>1, <2>2, <2>3, <2>4
<1> QED BY <1>4

LEMMA BeforePair ==
    ASSUME NEW a \in Int, NEW b \in Int, NEW c \in Int, NEW d \in Int
    PROVE  Before(<<a, b>>, <<c, d>>) <=> a < c \/ (a = c /\ b < d)
<1> DEFINE s == <<a, b>>
           t == <<c, d>>
<1>1. DOMAIN s = 1 .. 2 /\ s[1] = a /\ s[2] = b /\ t[1] = c /\ t[2] = d
  OBVIOUS
<1> HIDE DEF s, t
<1>2. Before(s, t) <=> \E i \in 1 .. 2 : s[i] < t[i] /\ \A j \in 1 .. (i - 1) : s[j] = t[j]
  BY <1>1 DEF Before
<1>3. \A i \in 1 .. 2 : i = 1 \/ i = 2
  OBVIOUS
<1>4. /\ (\A j \in 1 .. (1 - 1) : s[j] = t[j]) <=> TRUE
      /\ (\A j \in 1 .. (2 - 1) : s[j] = t[j]) <=> a = c
  BY <1>1
<1>5. Before(s, t) <=> a < c \/ (a = c /\ b < d)
  BY <1>1, <1>2, <1>3, <1>4
<1> QED BY <1>5 DEF s, t

LEMMA MinIs ==
    ASSUME NEW S \in SUBSET Int, NEW m \in S, \A i \in S : m <= i
    PROVE  Min(S) = m
<1>1. \A x \in S : (\A y \in S : x =< y) => x = m
  OBVIOUS
<1> QED BY <1>1 DEF Min

\* Five numbers in the order of their first difference.
LEMMA BeforeFive ==
    ASSUME NEW s, NEW t, DOMAIN s = 1 .. 5
    PROVE  Before(s, t) <=> \/ s[1] < t[1]
                            \/ s[1] = t[1] /\ s[2] < t[2]
                            \/ s[1] = t[1] /\ s[2] = t[2] /\ s[3] < t[3]
                            \/ s[1] = t[1] /\ s[2] = t[2] /\ s[3] = t[3] /\ s[4] < t[4]
                            \/ /\ s[1] = t[1] /\ s[2] = t[2] /\ s[3] = t[3] /\ s[4] = t[4]
                               /\ s[5] < t[5]
<1>1. Before(s, t) <=> \E i \in 1 .. 5 : s[i] < t[i] /\ \A j \in 1 .. (i - 1) : s[j] = t[j]
  BY DEF Before
<1>2. \A i \in 1 .. 5 : i = 1 \/ i = 2 \/ i = 3 \/ i = 4 \/ i = 5
  OBVIOUS
<1>3. /\ (\A j \in 1 .. (1 - 1) : s[j] = t[j]) <=> TRUE
      /\ (\A j \in 1 .. (2 - 1) : s[j] = t[j]) <=> s[1] = t[1]
      /\ (\A j \in 1 .. (3 - 1) : s[j] = t[j]) <=> s[1] = t[1] /\ s[2] = t[2]
      /\ (\A j \in 1 .. (4 - 1) : s[j] = t[j]) <=> s[1] = t[1] /\ s[2] = t[2] /\ s[3] = t[3]
      /\ (\A j \in 1 .. (5 - 1) : s[j] = t[j])
            <=> s[1] = t[1] /\ s[2] = t[2] /\ s[3] = t[3] /\ s[4] = t[4]
  <2>1. /\ \A j \in 1 .. 1 : j = 1
        /\ \A j \in 1 .. 2 : j = 1 \/ j = 2
        /\ \A j \in 1 .. 3 : j = 1 \/ j = 2 \/ j = 3
        /\ \A j \in 1 .. 4 : j = 1 \/ j = 2 \/ j = 3 \/ j = 4
    OBVIOUS
  <2> QED BY <2>1
<1> QED BY <1>1, <1>2, <1>3

----------------------------------------------------------------------------
(***************************************************************************)
(* What a warehouse covers: the code's ranks order the coverage as the     *)
(* documentation's distances do.                                           *)
(***************************************************************************)

LEMMA RankIs == \A s \in Scopes : Rank[s] \in 0 .. 2
BY DEF Rank, Scopes

LEMMA ThreeScopes == Cardinality(Scopes) = 3
<1> DEFINE one == {"district"}
           two == one \cup {"province"}
<1>1. IsFiniteSet(one) /\ Cardinality(one) = 1
  BY FS_Singleton
<1>2. IsFiniteSet(two) /\ Cardinality(two) = 2
  <2>1. "province" \notin one
    OBVIOUS
  <2> QED BY <1>1, <2>1, FS_AddElement
<1>3. Cardinality(two \cup {"department"}) = 3
  <2>1. "department" \notin two
    OBVIOUS
  <2> HIDE DEF two
  <2> QED BY <1>2, <2>1, FS_AddElement
<1> QED BY <1>3 DEF Scopes

\* What the engine takes of the areas that match, and what the documentation does: the
\* nearest, of these the first priority.
FirstArea(M) == CHOOSE a \in M : \A b \in M :
                   ~Before(<<Rank[b.scope], b.priority>>, <<Rank[a.scope], a.priority>>)

LEMMA NearestArea ==
    ASSUME NEW M, M # {}, \A a \in M : a.scope \in Scopes /\ a.priority \in Nat,
           NEW best, best = FirstArea(M)
    PROVE  /\ best \in M
           /\ Min({Rank[a.scope] : a \in M}) = Rank[best.scope]
           /\ Min({a.priority : a \in {b \in M : \A d \in M : Rank[b.scope] <= Rank[d.scope]}})
                = best.priority
<1>1. \A a \in M : Rank[a.scope] \in Nat /\ a.priority \in Nat
  <2>1. \A a \in M : a.scope \in Scopes /\ a.priority \in Nat
    OBVIOUS
  <2>2. \A s \in Scopes : Rank[s] \in Nat
    BY ONLY RankIs
  <2> QED BY ONLY <2>1, <2>2
<1>2. \A a, b \in M : ~Before(<<Rank[b.scope], b.priority>>, <<Rank[a.scope], a.priority>>)
                   <=> \/ Rank[a.scope] < Rank[b.scope]
                       \/ Rank[a.scope] = Rank[b.scope] /\ a.priority <= b.priority
  <2> SUFFICES ASSUME NEW a \in M, NEW b \in M
               PROVE  ~Before(<<Rank[b.scope], b.priority>>, <<Rank[a.scope], a.priority>>)
                      <=> \/ Rank[a.scope] < Rank[b.scope]
                          \/ Rank[a.scope] = Rank[b.scope] /\ a.priority <= b.priority
    OBVIOUS
  <2>1. PICK i \in Nat, j \in Nat, k \in Nat, l \in Nat :
          i = Rank[a.scope] /\ j = a.priority /\ k = Rank[b.scope] /\ l = b.priority
    BY <1>1
  <2>2. Before(<<k, l>>, <<i, j>>) <=> k < i \/ (k = i /\ l < j)
    BY ONLY BeforePair, i \in Int, j \in Int, k \in Int, l \in Int
  <2>3. ~Before(<<k, l>>, <<i, j>>) <=> i < k \/ (i = k /\ j <= l)
    BY ONLY <2>2, i \in Int, j \in Int, k \in Int, l \in Int
  <2> QED BY ONLY <2>1, <2>3
<1>3. \E m \in M : \A i \in M : \/ Rank[m.scope] < Rank[i.scope]
                                \/ Rank[m.scope] = Rank[i.scope] /\ m.priority <= i.priority
  <2>1. PICK f : f = [a \in M |-> Rank[a.scope]]
    OBVIOUS
  <2>2. PICK g : g = [a \in M |-> a.priority]
    OBVIOUS
  <2>3. f \in [M -> Nat] /\ g \in [M -> Nat] /\ M # {}
    BY <1>1, <2>1, <2>2
  <2>4. \E m \in M : \A i \in M : f[m] < f[i] \/ (f[m] = f[i] /\ g[m] <= g[i])
    BY ONLY <2>3, FirstPair
  <2> QED BY ONLY <2>1, <2>2, <2>4
<1>4. /\ best \in M
      /\ \A i \in M : \/ Rank[best.scope] < Rank[i.scope]
                      \/ Rank[best.scope] = Rank[i.scope] /\ best.priority <= i.priority
  <2>1. \E m \in M : \A b \in M : ~Before(<<Rank[b.scope], b.priority>>, <<Rank[m.scope], m.priority>>)
    BY <1>2, <1>3
  <2>2. /\ best \in M
        /\ \A b \in M : ~Before(<<Rank[b.scope], b.priority>>, <<Rank[best.scope], best.priority>>)
    BY <2>1 DEF FirstArea
  <2> QED BY <2>2, <1>2
<1>5. Min({Rank[a.scope] : a \in M}) = Rank[best.scope]
  <2>1. PICK S : S = {Rank[a.scope] : a \in M}
    OBVIOUS
  <2>2. S \in SUBSET Int /\ Rank[best.scope] \in S /\ \A i \in S : Rank[best.scope] <= i
    BY ONLY <1>1, <1>4, <2>1
  <2> QED BY <2>1, <2>2, MinIs
<1>6. Min({a.priority : a \in {b \in M : \A d \in M : Rank[b.scope] <= Rank[d.scope]}})
        = best.priority
  <2>1. PICK S : S = {a.priority : a \in {b \in M : \A d \in M : Rank[b.scope] <= Rank[d.scope]}}
    OBVIOUS
  <2>2. S \in SUBSET Int /\ best.priority \in S /\ \A i \in S : best.priority <= i
    <3>1. \A d \in M : Rank[best.scope] <= Rank[d.scope]
      BY ONLY <1>1, <1>4
    <3>2. \A b \in M : Rank[b.scope] <= Rank[best.scope] => best.priority <= b.priority
      BY ONLY <1>1, <1>4
    <3> QED BY ONLY <1>1, <1>4, <2>1, <3>1, <3>2
  <2> QED BY <2>1, <2>2, MinIs
<1> QED BY <1>4, <1>5, <1>6

\* Ranks 0 to 2 and 10 to 12 are distances 0 to 5.
RankOf(n) == IF n < 3 THEN n ELSE n + 7

\* A known destination is covered by what the documentation counts, at the same distance
\* and priority; otherwise a common default warehouse may remain as a fallback.
LEMMA AreasCover ==
    ASSUME NEW w \in Warehouses, warehouse[w] \in Offered[w], address # NoUbigeo,
           NEW fallback \in BOOLEAN, ActiveAreas(warehouse[w]) # {},
           NEW cov, cov = matchWarehouseCoverage(warehouse[w], fallback)
    PROVE  /\ Covered(w) = {} => cov = NoCoverage
           /\ Covered(w) # {} => /\ cov.source = "service_area"
                                 /\ Nearest(w) \in 0 .. 5 /\ cov.rank = RankOf(Nearest(w))
                                 /\ FirstPriority(w) \in Nat /\ cov.priority = FirstPriority(w)
<1> DEFINE cfg == warehouse[w]
           M == {a \in ActiveAreas(cfg) : address[a.scope] = a.code}
           best == FirstArea(M)
<1>1. \A a \in ActiveAreas(cfg) : a.scope \in Scopes /\ a.priority \in Nat
  BY OriginAssumption DEF ActiveAreas
<1>2. Covered(w) = M
  BY DEF Covered, ActiveAreas
<1>3. cov = IF M = {} THEN NoCoverage
            ELSE [source |-> "service_area", rank |-> Rank[best.scope], priority |-> best.priority]
  BY DEF matchWarehouseCoverage, FirstArea
<1>4. \E a \in warehouse[w].areas : a.isActive
  BY DEF ActiveAreas
<1>5. \A a \in M : a.scope \in Scopes /\ a.priority \in Nat
  BY <1>1
<1>6. ASSUME M # {}
      PROVE  /\ cov.source = "service_area"
             /\ Nearest(w) \in 0 .. 5 /\ cov.rank = RankOf(Nearest(w))
             /\ FirstPriority(w) \in Nat /\ cov.priority = FirstPriority(w)
  <2>1. /\ cov.source = "service_area" /\ cov.rank = Rank[best.scope]
        /\ cov.priority = best.priority
    BY ONLY <1>3, <1>6
  <2>2. PICK N : N = M
    OBVIOUS
  <2>3. PICK b : b = best
    OBVIOUS
  <2>4. b = FirstArea(N)
    BY ONLY <2>2, <2>3
  <2>5. N # {} /\ (\A a \in N : a.scope \in Scopes /\ a.priority \in Nat) /\ Covered(w) = N
    BY <1>2, <1>5, <1>6, <2>2
  <2> HIDE DEF M, best, cfg
  <2>6. /\ b \in N
        /\ Min({Rank[a.scope] : a \in N}) = Rank[b.scope]
        /\ Min({a.priority : a \in {d \in N : \A e \in N : Rank[d.scope] <= Rank[e.scope]}})
             = b.priority
    BY ONLY <2>4, <2>5, NearestArea
  <2>7. FirstPriority(w) = b.priority
    BY <2>5, <2>6 DEF FirstPriority
  <2>8. Nearest(w) = Rank[b.scope] + 0
    BY <2>5, <2>6, <1>4 DEF Nearest
  <2>9. Rank[b.scope] \in 0 .. 2 /\ b.priority \in Nat
    BY <2>5, <2>6, RankIs
  <2>10. Nearest(w) = Rank[b.scope] /\ Nearest(w) \in 0 .. 5
    BY <2>8, <2>9
  <2> QED BY <2>1, <2>3, <2>7, <2>9, <2>10 DEF RankOf
<1> QED BY <1>2, <1>3, <1>6

LEMMA PlaceCovers ==
    ASSUME NEW w \in Warehouses, warehouse[w] \in Offered[w], address # NoUbigeo,
           NEW fallback \in BOOLEAN, ActiveAreas(warehouse[w]) = {},
           NEW cov, cov = matchWarehouseCoverage(warehouse[w], fallback)
    PROVE  /\ Covered(w) = {} => cov = IF fallback THEN Fallback(warehouse[w]) ELSE NoCoverage
           /\ Covered(w) # {} => /\ cov.source = "warehouse_location"
                                 /\ Nearest(w) \in 0 .. 5 /\ cov.rank = RankOf(Nearest(w))
                                 /\ FirstPriority(w) \in Nat /\ cov.priority = FirstPriority(w)
<1> DEFINE cfg == warehouse[w]
           near == {s \in Scopes : cfg.location[s] = address[s]}
           least == CHOOSE s \in near : \A t \in near : Rank[s] <= Rank[t]
           around == {[scope |-> s, code |-> cfg.location[s], priority |-> cfg.priority] : s \in Scopes}
<1>1. cfg.priority \in Nat
  BY OriginAssumption
<1>2. Covered(w) = {a \in around : a.code = address[a.scope]}
  <2>1. {a \in cfg.areas : a.isActive} = {}
    BY DEF ActiveAreas
  <2> QED BY <2>1 DEF Covered
<1>3. /\ \A a \in Covered(w) : a.scope \in near /\ a.priority = cfg.priority
      /\ \A s \in near : \E a \in Covered(w) : a.scope = s
  <2>1. ASSUME NEW s \in near PROVE \E a \in Covered(w) : a.scope = s
    <3>1. [scope |-> s, code |-> cfg.location[s], priority |-> cfg.priority] \in Covered(w)
      BY <1>2
    <3> QED BY <3>1
  <2>2. ASSUME NEW a \in Covered(w) PROVE a.scope \in near /\ a.priority = cfg.priority
    BY <1>2
  <2> QED BY <2>1, <2>2
<1>4. cov = IF near # {} THEN [source |-> "warehouse_location", rank |-> 10 + Rank[least],
                               priority |-> cfg.priority]
            ELSE IF fallback THEN Fallback(cfg) ELSE NoCoverage
  BY DEF matchWarehouseCoverage
<1>5. ASSUME Covered(w) # {}
      PROVE  /\ cov.source = "warehouse_location"
             /\ Nearest(w) \in 0 .. 5 /\ cov.rank = RankOf(Nearest(w))
             /\ FirstPriority(w) \in Nat /\ cov.priority = FirstPriority(w)
  <2> near # {}
    BY <1>3, <1>5
  <2>1. /\ cov.source = "warehouse_location" /\ cov.rank = 10 + Rank[least]
        /\ cov.priority = cfg.priority
    BY <1>4
  <2>2. PICK N : N = Covered(w)
    OBVIOUS
  <2>3. PICK b : b = FirstArea(N)
    OBVIOUS
  <2>4. N # {} /\ \A a \in N : a.scope \in Scopes /\ a.priority \in Nat
    BY <1>1, <1>3, <1>5, <2>2
  <2>5. /\ b \in N
        /\ Min({Rank[a.scope] : a \in N}) = Rank[b.scope]
        /\ Min({a.priority : a \in {d \in N : \A e \in N : Rank[d.scope] <= Rank[e.scope]}})
             = b.priority
    BY ONLY <2>3, <2>4, NearestArea
  <2>6. FirstPriority(w) = b.priority /\ b.priority = cfg.priority
    BY <2>2, <2>5, <1>3 DEF FirstPriority
  <2>7. Nearest(w) = Rank[b.scope] + 3
    <3>1. ~\E a \in warehouse[w].areas : a.isActive
      BY DEF ActiveAreas
    <3> QED BY <2>2, <2>5, <3>1, ThreeScopes DEF Nearest
  <2>8. PICK S : S = {Rank[a.scope] : a \in N}
    OBVIOUS
  <2>9. S = {Rank[s] : s \in near} /\ S \in SUBSET Nat /\ S # {}
    <3>1. {Rank[a.scope] : a \in Covered(w)} = {Rank[s] : s \in near}
      <4> HIDE DEF near
      <4> QED BY <1>3
    <3>2. \A s \in near : Rank[s] \in Nat
      BY RankIs
    <3> HIDE DEF near
    <3>3. S = {Rank[s] : s \in near}
      BY ONLY <2>2, <2>8, <3>1
    <3>4. near # {}
      OBVIOUS
    <3> QED BY ONLY <3>2, <3>3, <3>4
  <2>10. \E s \in near : \A t \in near : Rank[s] <= Rank[t]
    <3>1. PICK m \in S : \A i \in S : m <= i
      BY <2>9, LeastNumber
    <3> HIDE DEF near
    <3> QED BY <2>9, <3>1
  <2>11. least \in near /\ \A t \in near : Rank[least] <= Rank[t]
    <3> HIDE DEF near
    <3> QED BY <2>10
  <2>12. Rank[least] = Min(S)
    <3>1. Rank[least] \in S /\ \A i \in S : Rank[least] <= i
      <4> HIDE DEF near, least
      <4> QED BY <2>9, <2>11
    <3>2. PICK r : r = Rank[least]
      OBVIOUS
    <3>3. S \in SUBSET Int /\ r \in S /\ \A i \in S : r <= i
      BY ONLY <2>9, <3>1, <3>2
    <3>4. Min(S) = r
      BY ONLY <3>3, MinIs
    <3> HIDE DEF near, least
    <3> QED BY ONLY <3>2, <3>4
  <2>13. Rank[least] = Rank[b.scope] /\ Rank[least] \in 0 .. 2
    <3> least \in Scopes
      BY <2>11
    <3> HIDE DEF near, least
    <3> QED BY <2>5, <2>8, <2>12, RankIs
  <2>14. Nearest(w) = Rank[least] + 3
    BY <2>7, <2>13
  <2> HIDE DEF near, least, cfg
  <2>15. Nearest(w) \in 0 .. 5 /\ RankOf(Nearest(w)) = 10 + Rank[least]
    BY <2>13, <2>14 DEF RankOf
  <2> QED BY <2>1, <2>6, <2>15, <1>1
<1>6. Covered(w) = {} => near = {}
  BY <1>3
<1> QED BY <1>4, <1>5, <1>6

----------------------------------------------------------------------------
(***************************************************************************)
(* The ranking: the code's keys, with their buckets, order the candidates  *)
(* as the documented elimination does.                                     *)
(***************************************************************************)

\* How many units have a warehouse as base: some as soon as a line has it.
LEMMA WeightIs ==
    ASSUME NEW items \in Items, NEW w
    PROVE  /\ Weight(items, w) \in Nat
           /\ Weight(items, w) > 0 <=> \E v \in Variants : items[v] = w
<1> DEFINE lines == {v \in Variants : items[v] = w}
           n == [v \in lines |-> Quantity[v]]
<1>1. IsFiniteSet(lines)
  BY OriginAssumption, FS_Subset
<1>2. \A v \in lines : Quantity[v] \in Nat \ {0}
  BY OriginAssumption
<1>3. Tokens(n) = UNION {{v} \X (1 .. Quantity[v]) : v \in lines}
  BY DEF Tokens
<1>4. IsFiniteSet(Tokens(n))
  <2>1. PICK piles : piles = {{v} \X (1 .. Quantity[v]) : v \in lines}
    OBVIOUS
  <2>2. PICK pile : pile = [v \in lines |-> {v} \X (1 .. Quantity[v])]
    OBVIOUS
  <2>3. PICK L : L = lines
    OBVIOUS
  <2>4. pile \in Surjection(L, piles) /\ IsFiniteSet(L)
    BY <1>1, <2>1, <2>2, <2>3 DEF Surjection
  <2>5. IsFiniteSet(piles)
    BY ONLY <2>4, FS_Surjection
  <2>6. \A T \in piles : IsFiniteSet(T)
    <3> SUFFICES ASSUME NEW v \in lines PROVE IsFiniteSet({v} \X (1 .. Quantity[v]))
      BY <2>1
    <3>1. IsFiniteSet({v})
      BY FS_Singleton
    <3>2. IsFiniteSet(1 .. Quantity[v])
      BY <1>2, FS_Interval
    <3> QED BY <3>1, <3>2, FS_Product
  <2>7. IsFiniteSet(UNION piles)
    BY ONLY <2>5, <2>6, FS_UNION
  <2> QED BY <2>1, <2>7, <1>3
<1>5. Tokens(n) # {} <=> lines # {}
  <2>1. ASSUME NEW v \in lines PROVE <<v, 1>> \in Tokens(n)
    <3>1. 1 \in 1 .. Quantity[v]
      BY <1>2
    <3> QED BY <1>3, <3>1
  <2>2. ASSUME lines = {} PROVE Tokens(n) = {}
    <3> HIDE DEF lines, n
    <3> QED BY <1>3, <2>2
  <2> HIDE DEF lines, n
  <2> QED BY <2>1, <2>2
<1>6. Weight(items, w) = Cardinality(Tokens(n))
  BY DEF Weight, Tally
<1>7. Cardinality(Tokens(n)) \in Nat /\ (Cardinality(Tokens(n)) = 0 <=> Tokens(n) = {})
  <2> HIDE DEF n
  <2> QED BY <1>4, FS_CardinalityType, FS_EmptySet
<1>8. lines # {} <=> \E v \in Variants : items[v] = w
  OBVIOUS
<1> HIDE DEF lines, n
<1> QED BY <1>5, <1>6, <1>7, <1>8

\* The rules of the documentation, one after another.
Better(items, u, w) ==
    \/ Weight(items, u) > Weight(items, w)
    \/ /\ Weight(items, u) = Weight(items, w)
       /\ \/ Nearest(u) < Nearest(w)
          \/ Nearest(u) = Nearest(w) /\ FirstPriority(u) < FirstPriority(w)
          \/ /\ Nearest(u) = Nearest(w) /\ FirstPriority(u) = FirstPriority(w)
             /\ warehouse[u].priority < warehouse[w].priority

\* What a candidate is ranked by.
LEMMA KeyOf ==
    ASSUME NEW items \in Items, NEW seen, NEW w \in Warehouses, warehouse[w] \in Offered[w],
           seen[w] = warehouse[w], address # NoUbigeo, CoverageOf(seen, items, w) # NoCoverage
    PROVE  /\ Covered(w) # {} =>
                /\ ~(CoverageOf(seen, items, w).source = "default_fallback")
                /\ Nearest(w) \in 0 .. 5 /\ FirstPriority(w) \in Nat
                /\ warehouse[w].priority \in Nat
                /\ Key(seen, items, w) =
                     <<IF CommonDefault(items, w) THEN 0 ELSE IF Weight(items, w) > 0 THEN 1 ELSE 2,
                       -Weight(items, w), RankOf(Nearest(w)), FirstPriority(w), warehouse[w].priority>>
           /\ Covered(w) = {} =>
                /\ CoverageOf(seen, items, w).source = "default_fallback"
                /\ CommonDefault(items, w) /\ warehouse[w].priority \in Nat
                /\ Key(seen, items, w) = <<3, -Weight(items, w), 90, warehouse[w].priority,
                                           warehouse[w].priority>>
<1> DEFINE cov == CoverageOf(seen, items, w)
<1>1. CommonDefault(items, w) \in BOOLEAN
  BY DEF CommonDefault
<1>2. PICK fallback \in BOOLEAN : fallback = CommonDefault(items, w)
  BY <1>1
<1>3. cov = matchWarehouseCoverage(warehouse[w], fallback)
  BY <1>2 DEF CoverageOf
<1>4. warehouse[w].priority \in Nat
  BY OriginAssumption
<1>5. /\ Covered(w) = {} => cov = IF fallback THEN Fallback(warehouse[w]) ELSE NoCoverage
      /\ Covered(w) # {} => /\ cov.source \in {"service_area", "warehouse_location"}
                            /\ Nearest(w) \in 0 .. 5 /\ cov.rank = RankOf(Nearest(w))
                            /\ FirstPriority(w) \in Nat /\ cov.priority = FirstPriority(w)
  <2>1. CASE ActiveAreas(warehouse[w]) # {}
    <3>1. /\ Covered(w) = {} => cov = NoCoverage
          /\ Covered(w) # {} => /\ cov.source = "service_area"
                                /\ Nearest(w) \in 0 .. 5 /\ cov.rank = RankOf(Nearest(w))
                                /\ FirstPriority(w) \in Nat /\ cov.priority = FirstPriority(w)
      <4> HIDE DEF cov
      <4> QED BY <1>3, <2>1, AreasCover
    <3> QED BY <3>1
  <2>2. CASE ActiveAreas(warehouse[w]) = {}
    <3>1. /\ Covered(w) = {} => cov = IF fallback THEN Fallback(warehouse[w]) ELSE NoCoverage
          /\ Covered(w) # {} => /\ cov.source = "warehouse_location"
                                /\ Nearest(w) \in 0 .. 5 /\ cov.rank = RankOf(Nearest(w))
                                /\ FirstPriority(w) \in Nat /\ cov.priority = FirstPriority(w)
      <4> HIDE DEF cov
      <4> QED BY <1>3, <2>2, PlaceCovers
    <3> QED BY <3>1
  <2> QED BY <2>1, <2>2
<1>6. cov # NoCoverage
  OBVIOUS
<1>7. Key(seen, items, w) = <<resolveSuggestionBucket(seen, items, w), -Weight(items, w),
                              cov.rank, cov.priority, warehouse[w].priority>>
  BY DEF Key
<1>8. resolveSuggestionBucket(seen, items, w) =
        IF CommonDefault(items, w)
          THEN IF ~(cov.source = "default_fallback") THEN 0 ELSE 3
        ELSE IF Weight(items, w) > 0
          THEN IF cov.source = "default_fallback" THEN 4 ELSE 1
        ELSE IF cov.source = "default_fallback" THEN 5 ELSE 2
  BY DEF resolveSuggestionBucket
<1>9. CoverageOf(seen, items, w) = cov
  OBVIOUS
<1> HIDE DEF cov
<1>10. CASE Covered(w) # {}
  <2>1. ~(cov.source = "default_fallback")
    BY <1>5, <1>10
  <2>2. resolveSuggestionBucket(seen, items, w) =
          IF CommonDefault(items, w) THEN 0 ELSE IF Weight(items, w) > 0 THEN 1 ELSE 2
    BY <1>8, <2>1
  <2> QED BY <1>4, <1>5, <1>7, <1>9, <1>10, <2>1, <2>2
<1>11. CASE Covered(w) = {}
  <2>1. CommonDefault(items, w) /\ cov = Fallback(warehouse[w])
    BY <1>2, <1>5, <1>6, <1>11
  <2>2. cov.source = "default_fallback" /\ cov.rank = 90 /\ cov.priority = warehouse[w].priority
    BY <2>1 DEF Fallback
  <2>3. resolveSuggestionBucket(seen, items, w) = 3
    BY <1>8, <2>1, <2>2
  <2> QED BY <1>4, <1>7, <1>9, <1>11, <2>1, <2>2, <2>3
<1> QED BY <1>10, <1>11

\* The buckets follow the weights, and of two that cover the destination one comes before
\* the other as documented.
LEMMA KeysOfCovering ==
    ASSUME NEW items \in Items, NEW seen, address # NoUbigeo,
           NEW u \in Warehouses, warehouse[u] \in Offered[u], seen[u] = warehouse[u],
           CoverageOf(seen, items, u) # NoCoverage, Covered(u) # {},
           NEW w \in Warehouses, warehouse[w] \in Offered[w], seen[w] = warehouse[w],
           CoverageOf(seen, items, w) # NoCoverage, Covered(w) # {}
    PROVE  Before(Key(seen, items, u), Key(seen, items, w)) <=> Better(items, u, w)
<1> DEFINE Bucket(x) == IF CommonDefault(items, x) THEN 0 ELSE IF Weight(items, x) > 0 THEN 1 ELSE 2
<1>1. /\ Key(seen, items, u) = <<Bucket(u), -Weight(items, u), RankOf(Nearest(u)),
                                 FirstPriority(u), warehouse[u].priority>>
      /\ Nearest(u) \in 0 .. 5 /\ FirstPriority(u) \in Nat /\ warehouse[u].priority \in Nat
  BY KeyOf
<1>2. /\ Key(seen, items, w) = <<Bucket(w), -Weight(items, w), RankOf(Nearest(w)),
                                 FirstPriority(w), warehouse[w].priority>>
      /\ Nearest(w) \in 0 .. 5 /\ FirstPriority(w) \in Nat /\ warehouse[w].priority \in Nat
  BY KeyOf
<1>3. /\ Weight(items, u) \in Nat /\ (Weight(items, u) > 0 <=> \E v \in Variants : items[v] = u)
      /\ Weight(items, w) \in Nat /\ (Weight(items, w) > 0 <=> \E v \in Variants : items[v] = w)
  BY WeightIs
<1>4. /\ Bucket(u) < Bucket(w) => Weight(items, u) > Weight(items, w)
      /\ Bucket(w) < Bucket(u) => Weight(items, w) > Weight(items, u)
      /\ Bucket(u) \in 0 .. 2 /\ Bucket(w) \in 0 .. 2
  <2>1. Variants # {}
    BY OriginAssumption
  <2>2. CommonDefault(items, u) => Weight(items, u) > 0 /\ (w # u => Weight(items, w) = 0)
    BY <1>3, <2>1 DEF CommonDefault
  <2>3. CommonDefault(items, w) => Weight(items, w) > 0 /\ (w # u => Weight(items, u) = 0)
    BY <1>3, <2>1 DEF CommonDefault
  <2>4. CommonDefault(items, u) \in BOOLEAN /\ CommonDefault(items, w) \in BOOLEAN
    BY DEF CommonDefault
  <2> QED BY <1>3, <2>2, <2>3, <2>4
<1>5. /\ RankOf(Nearest(u)) \in Int /\ RankOf(Nearest(w)) \in Int
      /\ RankOf(Nearest(u)) < RankOf(Nearest(w)) <=> Nearest(u) < Nearest(w)
      /\ RankOf(Nearest(u)) = RankOf(Nearest(w)) <=> Nearest(u) = Nearest(w)
  BY <1>1, <1>2 DEF RankOf
<1>6. PICK a \in Int, b \in Int, c \in Int, d \in Int, e \in Int :
        /\ a = Bucket(u) /\ b = -Weight(items, u) /\ c = RankOf(Nearest(u))
        /\ d = FirstPriority(u) /\ e = warehouse[u].priority
  BY <1>1, <1>3, <1>4, <1>5
<1>7. PICK k \in Int, l \in Int, m \in Int, n \in Int, o \in Int :
        /\ k = Bucket(w) /\ l = -Weight(items, w) /\ m = RankOf(Nearest(w))
        /\ n = FirstPriority(w) /\ o = warehouse[w].priority
  BY <1>2, <1>3, <1>4, <1>5
<1> HIDE DEF Bucket
<1>8. Before(Key(seen, items, u), Key(seen, items, w))
        <=> \/ a < k
            \/ a = k /\ b < l
            \/ a = k /\ b = l /\ c < m
            \/ a = k /\ b = l /\ c = m /\ d < n
            \/ a = k /\ b = l /\ c = m /\ d = n /\ e < o
  <2>1. PICK s, t : s = <<a, b, c, d, e>> /\ t = <<k, l, m, n, o>>
    OBVIOUS
  <2>2. /\ DOMAIN s = 1 .. 5
        /\ s[1] = a /\ s[2] = b /\ s[3] = c /\ s[4] = d /\ s[5] = e
        /\ t[1] = k /\ t[2] = l /\ t[3] = m /\ t[4] = n /\ t[5] = o
    BY ONLY <2>1
  <2>3. Key(seen, items, u) = s /\ Key(seen, items, w) = t
    BY ONLY <1>1, <1>2, <1>6, <1>7, <2>1
  <2> QED BY ONLY <2>2, <2>3, BeforeFive
<1>9. /\ a < k => b < l
      /\ k < a => l < b
      /\ b < l <=> Weight(items, u) > Weight(items, w)
      /\ b = l <=> Weight(items, u) = Weight(items, w)
  BY <1>3, <1>4, <1>6, <1>7
<1>10. /\ c < m <=> Nearest(u) < Nearest(w)
       /\ c = m <=> Nearest(u) = Nearest(w)
  BY <1>5, <1>6, <1>7
<1>11. \/ a < k
       \/ a = k /\ b < l
       \/ a = k /\ b = l /\ c < m
       \/ a = k /\ b = l /\ c = m /\ d < n
       \/ a = k /\ b = l /\ c = m /\ d = n /\ e < o
       <=> \/ b < l
           \/ b = l /\ \/ c < m
                       \/ c = m /\ d < n
                       \/ c = m /\ d = n /\ e < o
  BY <1>9
<1> QED BY <1>6, <1>7, <1>8, <1>9, <1>10, <1>11 DEF Better

\* One that covers the destination comes before a fallback.
LEMMA FallbackIsLast ==
    ASSUME NEW items \in Items, NEW seen, address # NoUbigeo,
           NEW u \in Warehouses, warehouse[u] \in Offered[u], seen[u] = warehouse[u],
           CoverageOf(seen, items, u) # NoCoverage, Covered(u) # {},
           NEW w \in Warehouses, warehouse[w] \in Offered[w], seen[w] = warehouse[w],
           CoverageOf(seen, items, w) # NoCoverage, Covered(w) = {}
    PROVE  /\ Before(Key(seen, items, u), Key(seen, items, w))
           /\ ~Before(Key(seen, items, w), Key(seen, items, u))
<1> DEFINE bucket == IF CommonDefault(items, u) THEN 0 ELSE IF Weight(items, u) > 0 THEN 1 ELSE 2
<1>1. /\ Key(seen, items, u) = <<bucket, -Weight(items, u), RankOf(Nearest(u)),
                                 FirstPriority(u), warehouse[u].priority>>
      /\ Nearest(u) \in 0 .. 5 /\ FirstPriority(u) \in Nat /\ warehouse[u].priority \in Nat
  BY KeyOf
<1>2. /\ Key(seen, items, w) = <<3, -Weight(items, w), 90, warehouse[w].priority, warehouse[w].priority>>
      /\ warehouse[w].priority \in Nat
  BY KeyOf
<1>3. Weight(items, u) \in Nat /\ Weight(items, w) \in Nat
  BY WeightIs
<1>4. bucket \in Int /\ bucket < 3 /\ RankOf(Nearest(u)) \in Int
  BY <1>1, <1>3 DEF RankOf
<1>5. PICK a \in Int, b \in Int, c \in Int, d \in Int, e \in Int :
        /\ a = bucket /\ b = -Weight(items, u) /\ c = RankOf(Nearest(u))
        /\ d = FirstPriority(u) /\ e = warehouse[u].priority
  BY <1>1, <1>3, <1>4
<1>6. PICK l \in Int, n \in Int : l = -Weight(items, w) /\ n = warehouse[w].priority
  BY <1>2, <1>3
<1> HIDE DEF bucket
<1>7. a < 3 /\ a # 3
  BY <1>4, <1>5
<1>8. Before(<<a, b, c, d, e>>, <<3, l, 90, n, n>>) /\ ~Before(<<3, l, 90, n, n>>, <<a, b, c, d, e>>)
  <2>1. PICK s, t : s = <<a, b, c, d, e>> /\ t = <<3, l, 90, n, n>>
    OBVIOUS
  <2>2. DOMAIN s = 1 .. 5 /\ DOMAIN t = 1 .. 5 /\ s[1] = a /\ t[1] = 3
    BY ONLY <2>1
  <2>3. Before(s, t) /\ ~Before(t, s)
    <3>1. a \in Int
      OBVIOUS
    <3>2. s[1] < t[1] /\ s[1] # t[1] /\ ~(t[1] < s[1])
      BY ONLY <1>7, <2>2, <3>1
    <3> QED BY ONLY <2>2, <3>2, BeforeFive
  <2> QED BY ONLY <2>1, <2>3
<1> QED BY <1>1, <1>2, <1>5, <1>6, <1>8

\* The elimination, rule by rule.
ByBase(items, D) == {w \in D : \A u \in D : -Weight(items, w) <= -Weight(items, u)}
ByReach(items, D) == {w \in ByBase(items, D) : \A u \in ByBase(items, D) : Nearest(w) <= Nearest(u)}
ByCoverage(items, D) ==
    {w \in ByReach(items, D) : \A u \in ByReach(items, D) : FirstPriority(w) <= FirstPriority(u)}
ByPriority(items, D) ==
    {w \in ByCoverage(items, D) : \A u \in ByCoverage(items, D) :
        warehouse[w].priority <= warehouse[u].priority}

\* What the elimination leaves are those that none is better than.
LEMMA Elimination ==
    ASSUME NEW items \in Items, NEW D \in SUBSET Warehouses,
           \A w \in D : /\ Nearest(w) \in 0 .. 5 /\ FirstPriority(w) \in Nat
                        /\ warehouse[w].priority \in Nat
    PROVE  ByPriority(items, D) = {w \in D : \A u \in D : ~Better(items, u, w)}
<1> DEFINE byBase == ByBase(items, D)
           byReach == ByReach(items, D)
           byCoverage == ByCoverage(items, D)
           left == ByPriority(items, D)
<1>1. \A w \in D : Weight(items, w) \in Nat
  BY WeightIs
<1>2. byBase = {w \in D : \A u \in D : Weight(items, u) <= Weight(items, w)}
  <2>1. \A u, w \in D : -Weight(items, w) <= -Weight(items, u) <=> Weight(items, u) <= Weight(items, w)
    BY <1>1
  <2> QED BY <2>1 DEF ByBase
<1>3. byReach = {w \in byBase : \A u \in byBase : Nearest(w) <= Nearest(u)}
  BY DEF ByReach
<1>4. byCoverage = {w \in byReach : \A u \in byReach : FirstPriority(w) <= FirstPriority(u)}
  BY DEF ByCoverage
<1>5. left = {w \in byCoverage : \A u \in byCoverage :
                 warehouse[w].priority <= warehouse[u].priority}
  BY DEF ByPriority
<1> HIDE DEF byBase, byReach, byCoverage, left
<1>7. ASSUME NEW w \in left PROVE w \in D /\ \A u \in D : ~Better(items, u, w)
  <2>1. w \in byCoverage /\ w \in byReach /\ w \in byBase /\ w \in D
    BY <1>2, <1>3, <1>4, <1>5
  <2>2. ASSUME NEW u \in D, Better(items, u, w) PROVE FALSE
    <3>1. Weight(items, u) <= Weight(items, w)
      BY <1>2, <2>1
    <3>2. Weight(items, u) = Weight(items, w)
      BY <1>1, <2>1, <2>2, <3>1 DEF Better
    <3>3. u \in byBase
      BY <1>2, <2>1, <3>2
    <3>4. Nearest(w) <= Nearest(u)
      BY <1>3, <2>1, <3>3
    <3>5. Nearest(u) = Nearest(w)
      BY <1>1, <2>1, <2>2, <3>2, <3>4 DEF Better
    <3>6. u \in byReach
      BY <1>3, <2>1, <3>3, <3>5
    <3>7. FirstPriority(w) <= FirstPriority(u)
      BY <1>4, <2>1, <3>6
    <3>8. FirstPriority(u) = FirstPriority(w)
      BY <1>1, <2>1, <2>2, <3>2, <3>5, <3>7 DEF Better
    <3>9. u \in byCoverage
      BY <1>4, <2>1, <3>6, <3>8
    <3>10. warehouse[w].priority <= warehouse[u].priority
      BY <1>5, <3>9
    <3> QED BY <1>1, <2>1, <2>2, <3>2, <3>5, <3>8, <3>10 DEF Better
  <2> QED BY <2>1, <2>2
<1>8. ASSUME NEW w \in D, \A u \in D : ~Better(items, u, w) PROVE w \in left
  <2>1. w \in byBase
    BY <1>1, <1>2, <1>8 DEF Better
  <2>2. \A u \in byBase : u \in D /\ Weight(items, u) = Weight(items, w)
    BY <1>1, <1>2, <2>1
  <2>3. w \in byReach
    BY <1>3, <1>8, <2>1, <2>2 DEF Better
  <2>4. \A u \in byReach : u \in byBase /\ Nearest(u) = Nearest(w)
    BY <1>3, <2>1, <2>2, <2>3
  <2>5. w \in byCoverage
    BY <1>4, <1>8, <2>2, <2>3, <2>4 DEF Better
  <2>6. \A u \in byCoverage : u \in byReach /\ FirstPriority(u) = FirstPriority(w)
    BY <1>4, <2>2, <2>3, <2>4, <2>5
  <2> QED BY <1>5, <1>8, <2>2, <2>4, <2>5, <2>6 DEF Better
<1>9. left = {w \in D : \A u \in D : ~Better(items, u, w)}
  BY <1>7, <1>8
<1> QED BY <1>9 DEF left

\* The units of the order count wherever it holds them.
LEMMA ServingIs ==
    ASSUME NEW w \in Warehouses, warehouse[w].active, free \in [Warehouses -> [Variants -> Nat]],
           hold.state \in {"none", "reserved", "confirmed", "released"}, hold.state # "released"
    PROVE  CanServe(w) <=> Serving(w)
<1>1. \A v \in Variants : free[w][v] \in Nat /\ Quantity[v] \in Nat
  BY OriginAssumption
<1>2. ASSUME NEW v \in Variants
      PROVE  free[w][v] + Own(w, v) >= Quantity[v]
               <=> \/ free[w][v] >= Quantity[v]
                   \/ hold.state \in {"reserved", "confirmed"} /\ hold.at[v] = w
  BY <1>1, <1>2 DEF Own
<1> QED BY <1>2 DEF CanServe, Serving

\* The active warehouses that cover the destination, by place, by area or as a fallback.
Covering(items) ==
    {w \in Warehouses : warehouse[w].active /\ CoverageOf(warehouse, items, w) # NoCoverage}

Seen == [w \in {u \in Warehouses : warehouse[u].active} |-> warehouse[w]]

LEMMA SeenCovers ==
    ASSUME NEW items \in Items, NEW w \in Warehouses, warehouse[w].active
    PROVE  Seen[w] = warehouse[w] /\ CoverageOf(Seen, items, w) = CoverageOf(warehouse, items, w)
BY DEF Seen, CoverageOf

LEMMA OneIsSome ==
    ASSUME NEW S, Cardinality(S) = 1
    PROVE  S # {}
BY FS_EmptySet

\* For a known destination the candidates ranked first are those the documentation leaves; a
\* fallback is ranked first only where nothing covers, and is not assigned.
LEMMA KnownDestination ==
    ASSUME NEW items \in Items, address # NoUbigeo,
           \A w \in Warehouses : warehouse[w] \in Offered[w],
           free \in [Warehouses -> [Variants -> Nat]],
           hold.state \in {"none", "reserved", "confirmed", "released"}, hold.state # "released",
           NEW candidates, candidates = {w \in Covering(items) : CanServe(w)},
           NEW chosen, chosen = Selected(Seen, items, candidates)
    PROVE  (IF canAutoAssign(Seen, items, chosen) THEN chosen ELSE NoWarehouse)
             = DocumentedOrigin(items)
<1> DEFINE D == {w \in candidates : Covered(w) # {}}
           first == {w \in candidates : \A u \in candidates :
                       ~Before(Key(Seen, items, u), Key(Seen, items, w))}
           left == {w \in D : \A u \in D : ~Better(items, u, w)}
<1>1. ASSUME NEW w \in candidates
      PROVE  /\ w \in Warehouses /\ warehouse[w].active /\ warehouse[w] \in Offered[w]
             /\ Seen[w] = warehouse[w] /\ CoverageOf(Seen, items, w) # NoCoverage
             /\ CanServe(w) /\ Serving(w)
  <2>1. w \in Warehouses /\ warehouse[w].active /\ CanServe(w)
    BY DEF Covering
  <2>2. CoverageOf(warehouse, items, w) # NoCoverage
    BY DEF Covering
  <2> QED BY <2>1, <2>2, SeenCovers, ServingIs
<1>2. \A w \in D : /\ ~(CoverageOf(Seen, items, w).source = "default_fallback")
                   /\ Nearest(w) \in 0 .. 5 /\ FirstPriority(w) \in Nat
                   /\ warehouse[w].priority \in Nat
  BY <1>1, KeyOf
<1>3. \A w \in candidates \ D : CoverageOf(Seen, items, w).source = "default_fallback"
  BY <1>1, KeyOf
<1>4. D = {w \in {u \in Warehouses : Serving(u)} : Covered(w) # {}}
  <2>1. ASSUME NEW w \in Warehouses, Serving(w), Covered(w) # {} PROVE w \in candidates
    <3>1. warehouse[w].active
      BY <2>1 DEF Serving
    <3>2. CanServe(w)
      BY <2>1, <3>1, ServingIs
    <3>3. CoverageOf(warehouse, items, w) # NoCoverage
      <4>1. PICK fallback \in BOOLEAN : fallback = CommonDefault(items, w)
        BY DEF CommonDefault
      <4>2. PICK cov : cov = matchWarehouseCoverage(warehouse[w], fallback)
        OBVIOUS
      <4>3. cov.source \in {"service_area", "warehouse_location"}
        BY <2>1, <4>2, AreasCover, PlaceCovers
      <4>4. cov # NoCoverage
        BY <4>3 DEF NoCoverage
      <4> QED BY <4>1, <4>2, <4>4 DEF CoverageOf
    <3> QED BY <3>1, <3>2, <3>3 DEF Covering
  <2> QED BY <1>1, <2>1
<1>5. DocumentedOrigin(items) = IF Cardinality(left) = 1 THEN CHOOSE w \in left : TRUE ELSE NoWarehouse
  <2>1. PICK E : E = D
    OBVIOUS
  <2>2. /\ E \in SUBSET Warehouses
        /\ \A w \in E : /\ Nearest(w) \in 0 .. 5 /\ FirstPriority(w) \in Nat
                         /\ warehouse[w].priority \in Nat
    <3> HIDE DEF D
    <3> QED BY <1>2, <1>4, <2>1
  <2>3. ByPriority(items, E) = {w \in E : \A u \in E : ~Better(items, u, w)}
    BY ONLY <2>2, items \in Items, Elimination
  <2>4. E = {w \in {u \in Warehouses : Serving(u)} : Covered(w) # {}}
    BY ONLY <1>4, <2>1
  <2>5. DocumentedOrigin(items) =
          IF Cardinality(ByPriority(items, E)) = 1 THEN CHOOSE w \in ByPriority(items, E) : TRUE
          ELSE NoWarehouse
    BY ONLY <2>4, address # NoUbigeo
       DEF DocumentedOrigin, Least, ByPriority, ByCoverage, ByReach, ByBase
  <2>6. ByPriority(items, E) = left
    BY ONLY <2>1, <2>3
  <2> QED BY ONLY <2>5, <2>6
<1>6. chosen = IF Cardinality(first) = 1 THEN CHOOSE w \in first : TRUE ELSE NoWarehouse
  BY DEF Selected
<1>7. \A u, w \in D : Before(Key(Seen, items, u), Key(Seen, items, w)) <=> Better(items, u, w)
  BY <1>1, KeysOfCovering
<1>8. \A u \in D : \A w \in candidates \ D :
        /\ Before(Key(Seen, items, u), Key(Seen, items, w))
        /\ ~Before(Key(Seen, items, w), Key(Seen, items, u))
  BY <1>1, FallbackIsLast
<1>9. NoWarehouse \notin Warehouses
  BY OriginAssumption
<1>10. CASE D # {}
  <2>1. first = left
    <3> HIDE DEF D
    <3>1. D \subseteq candidates
      BY DEF D
    <3> QED BY <1>7, <1>8, <1>10, <3>1
  <2>2. chosen = DocumentedOrigin(items)
    <3> HIDE DEF first, left
    <3> QED BY <1>5, <1>6, <2>1
  <2>3. chosen # NoWarehouse => canAutoAssign(Seen, items, chosen)
    <3> SUFFICES ASSUME chosen # NoWarehouse PROVE canAutoAssign(Seen, items, chosen)
      OBVIOUS
    <3>1. Cardinality(left) = 1 /\ chosen = CHOOSE w \in left : TRUE
      <4> HIDE DEF first, left
      <4> QED BY <1>6, <2>1
    <3>2. left # {}
      BY ONLY <3>1, OneIsSome
    <3>3. chosen \in left
      <4> HIDE DEF left
      <4> QED BY <3>1, <3>2
    <3>4. chosen \in D
      <4> HIDE DEF D
      <4> QED BY <3>3
    <3> HIDE DEF D, left
    <3> QED BY <1>2, <3>4 DEF canAutoAssign
  <2> QED BY <2>2, <2>3
<1>11. CASE D = {}
  <2>1. left = {}
    <3> HIDE DEF D
    <3> QED BY <1>11
  <2>2. DocumentedOrigin(items) = NoWarehouse
    <3> HIDE DEF left
    <3> QED BY <1>5, <2>1, FS_EmptySet
  <2>3. chosen # NoWarehouse => CoverageOf(Seen, items, chosen).source = "default_fallback"
    <3> SUFFICES ASSUME chosen # NoWarehouse
                 PROVE  CoverageOf(Seen, items, chosen).source = "default_fallback"
      OBVIOUS
    <3>1. Cardinality(first) = 1 /\ chosen = CHOOSE w \in first : TRUE
      <4> HIDE DEF first
      <4> QED BY <1>6
    <3>2. chosen \in first
      <4>1. first # {}
        BY ONLY <3>1, OneIsSome
      <4> HIDE DEF first
      <4> QED BY ONLY <3>1, <4>1
    <3>3. chosen \in candidates
      BY <3>2
    <3> HIDE DEF D
    <3> QED BY <1>3, <1>11, <3>3
  <2>4. ~canAutoAssign(Seen, items, chosen)
    BY <2>3 DEF canAutoAssign
  <2> QED BY <2>2, <2>4
<1> QED BY <1>10, <1>11

\* Without a destination the only candidate is the warehouse all lines have as base.
LEMMA UnknownDestination ==
    ASSUME NEW items \in Items, address = NoUbigeo,
           \A w \in Warehouses : warehouse[w] \in Offered[w],
           free \in [Warehouses -> [Variants -> Nat]],
           hold.state \in {"none", "reserved", "confirmed", "released"}, hold.state # "released",
           NEW candidates, candidates = {w \in Covering(items) : CanServe(w)},
           NEW chosen, chosen = Selected(Seen, items, candidates)
    PROVE  (IF canAutoAssign(Seen, items, chosen) THEN chosen ELSE NoWarehouse)
             = DocumentedOrigin(items)
<1> DEFINE first == {w \in candidates : \A u \in candidates :
                       ~Before(Key(Seen, items, u), Key(Seen, items, w))}
<1>1. \A w \in Warehouses : CoverageOf(warehouse, items, w) # NoCoverage <=> CommonDefault(items, w)
  <2> SUFFICES ASSUME NEW w \in Warehouses
               PROVE  CoverageOf(warehouse, items, w) # NoCoverage <=> CommonDefault(items, w)
    OBVIOUS
  <2>1. CoverageOf(warehouse, items, w) =
          IF CommonDefault(items, w) THEN Fallback(warehouse[w]) ELSE NoCoverage
    BY DEF CoverageOf, matchWarehouseCoverage
  <2>2. Fallback(warehouse[w]).source # NoCoverage.source
    BY DEF Fallback, NoCoverage
  <2> QED BY <2>1, <2>2
<1>2. \A w \in candidates : w \in Warehouses /\ CommonDefault(items, w) /\ Seen[w] = warehouse[w]
  BY <1>1, SeenCovers DEF Covering
<1>3. \A u, w \in candidates : u = w
  <2>1. Variants # {}
    BY OriginAssumption
  <2> QED BY <1>2, <2>1 DEF CommonDefault
<1>4. candidates = {w \in {u \in Warehouses : Serving(u)} : CommonDefault(items, w)}
  <2>1. \A w \in Warehouses : warehouse[w].active => (CanServe(w) <=> Serving(w))
    BY ServingIs
  <2>2. \A w \in Warehouses : Serving(w) => warehouse[w].active
    BY DEF Serving
  <2> QED BY <1>1, <2>1, <2>2 DEF Covering
<1>5. DocumentedOrigin(items) =
        IF Cardinality(candidates) = 1 THEN CHOOSE w \in candidates : TRUE ELSE NoWarehouse
  <2>1. PICK C : C = candidates
    OBVIOUS
  <2>2. C = {w \in {u \in Warehouses : Serving(u)} : CommonDefault(items, w)}
    BY <1>4, <2>1
  <2>3. DocumentedOrigin(items) = IF Cardinality(C) = 1 THEN CHOOSE w \in C : TRUE ELSE NoWarehouse
    BY ONLY <2>2, address = NoUbigeo DEF DocumentedOrigin, Least
  <2> QED BY <2>1, <2>3
<1>6. first = candidates
  <2> SUFFICES ASSUME NEW w \in candidates
               PROVE  ~Before(Key(Seen, items, w), Key(Seen, items, w))
    BY <1>3
  <2>1. Weight(items, w) \in Nat /\ warehouse[w].priority \in Nat
    BY <1>2, WeightIs, OriginAssumption
  <2>2. CoverageOf(Seen, items, w) = Fallback(warehouse[w])
    BY <1>2 DEF CoverageOf, matchWarehouseCoverage
  <2>3. /\ CoverageOf(Seen, items, w).rank = 90
        /\ CoverageOf(Seen, items, w).priority = warehouse[w].priority
    BY <2>2 DEF Fallback
  <2>4. Key(Seen, items, w) = <<0, -Weight(items, w), 90, warehouse[w].priority, warehouse[w].priority>>
    BY <1>2, <2>3 DEF Key, resolveSuggestionBucket
  <2>5. PICK a \in Int, b \in Int : a = -Weight(items, w) /\ b = warehouse[w].priority
    BY <2>1
  <2>6. ~Before(<<0, a, 90, b, b>>, <<0, a, 90, b, b>>)
    <3>1. PICK s : s = <<0, a, 90, b, b>>
      OBVIOUS
    <3>2. DOMAIN s = 1 .. 5 /\ s[1] = 0 /\ s[2] = a /\ s[3] = 90 /\ s[4] = b /\ s[5] = b
      BY ONLY <3>1
    <3>3. ~(0 < 0) /\ ~(a < a) /\ ~(90 < 90) /\ ~(b < b)
      OBVIOUS
    <3>4. ~Before(s, s)
      BY ONLY <3>2, <3>3, BeforeFive
    <3> QED BY ONLY <3>1, <3>4
  <2> QED BY <2>4, <2>5, <2>6
<1>7. chosen = DocumentedOrigin(items)
  <2>1. chosen = IF Cardinality(first) = 1 THEN CHOOSE w \in first : TRUE ELSE NoWarehouse
    BY DEF Selected
  <2> HIDE DEF first
  <2> QED BY <1>5, <1>6, <2>1
<1>8. chosen # NoWarehouse => canAutoAssign(Seen, items, chosen)
  <2> SUFFICES ASSUME chosen # NoWarehouse PROVE canAutoAssign(Seen, items, chosen)
    OBVIOUS
  <2>1. Cardinality(candidates) = 1 /\ chosen = CHOOSE w \in candidates : TRUE
    BY <1>5, <1>7
  <2>2. candidates # {}
    BY ONLY <2>1, OneIsSome
  <2>3. chosen \in candidates
    BY ONLY <2>1, <2>2
  <2> QED BY <1>2, <2>3 DEF canAutoAssign
<1> QED BY <1>7, <1>8

LEMMA PlanIsDocumented ==
    ASSUME NEW items \in Items, \A w \in Warehouses : warehouse[w] \in Offered[w],
           free \in [Warehouses -> [Variants -> Nat]],
           hold.state \in {"none", "reserved", "confirmed", "released"}, hold.state # "released",
           NEW candidates, candidates = {w \in Covering(items) : CanServe(w)},
           NEW chosen, chosen = Selected(Seen, items, candidates)
    PROVE  (IF canAutoAssign(Seen, items, chosen) THEN chosen ELSE NoWarehouse)
             = DocumentedOrigin(items)
<1>1. CASE address = NoUbigeo
  BY <1>1, UnknownDestination
<1>2. CASE address # NoUbigeo
  BY <1>2, KnownDestination
<1> QED BY <1>1, <1>2

----------------------------------------------------------------------------
(***************************************************************************)
(* What a running call of the engine knows.                                *)
(***************************************************************************)

\* A call has the lines of an order, and goes to a warehouse.
Bound(x) ==
    /\ x.step \in Steps /\ x.kind \in Kinds /\ x.items \in Items
    /\ x.step \in {"build", "validate", "check", "reassign"} => x.to \in Warehouses

\* The engine asks about warehouses it has read.
Reading(x) ==
    /\ x.step = "load" => x.fits = {}
    /\ x.step = "assess" =>
         /\ x.pending # {} /\ x.pending \subseteq Warehouses /\ x.fits \subseteq Warehouses
         /\ \A w \in x.pending : x.seen[w] \in Offered[w]

\* It has read the warehouses as they are, it has yet to ask about warehouses that cover,
\* and it knows of the others which can serve.
Current(x) ==
    /\ x.step \in {"load", "assess"}
    /\ x.step = "assess" =>
         /\ x.seen = Seen /\ x.pending \subseteq Covering(x.items)
         /\ x.fits = {w \in Covering(x.items) \ x.pending : CanServe(w)}

\* So while nobody changes what it reads.
Fresh(c) == c \in undisturbed => Current(call[c])

Goes(c) == Bound(call[c]) /\ Reading(call[c])

Setting ==
    /\ warehouse \in [Warehouses -> UNION {Offered[w] : w \in Warehouses}]
    /\ \A w \in Warehouses : warehouse[w] \in Offered[w]
    /\ free \in [Warehouses -> [Variants -> Nat]]
    /\ address \in Addresses

Placed ==
    /\ order.status \in Statuses /\ order.items \in Items
    /\ order.origin \in Warehouses \cup {NoWarehouse}
    /\ hold.state \in {"none", "reserved", "confirmed", "released"} /\ hold.at \in Items

Sight == Setting /\ Placed /\ undisturbed \subseteq Calls /\ \A c \in Calls : Goes(c) /\ Fresh(c)
Known == IInv /\ Sight

LEMMA KnownTypes == Known => TypeOK
BY DEF Known, Sight, Setting, Placed, Goes, Bound, TypeOK

\* Nobody's reading is disturbed: what the engine reads is as it was, and the calls it
\* leaves undisturbed were so or start now.
Undisturbing(c, x) ==
    /\ UNCHANGED places /\ hold'.at = hold.at /\ (hold'.state = "none" <=> hold.state = "none")
    /\ undisturbed' \subseteq undisturbed \cup {c}
    /\ c \in undisturbed' => Current(x)

LEMMA SameView ==
    ASSUME UNCHANGED places, hold'.at = hold.at, hold'.state = "none" <=> hold.state = "none",
           NEW x
    PROVE  Current(x)' <=> Current(x)
<1>1. UNCHANGED <<warehouse, free, address>>
  BY DEF places
<1>2. \A w : CanServe(w)' <=> CanServe(w)
  BY <1>1 DEF CanServe, Own
<1>3. Covering(x.items)' = Covering(x.items)
  BY <1>1 DEF Covering, CoverageOf, matchWarehouseCoverage
<1>4. Seen' = Seen
  BY <1>1 DEF Seen
<1> QED BY <1>2, <1>3, <1>4 DEF Current

\* A step of one call: the others go on as they were.
LEMMA OthersGoOn ==
    ASSUME Known, NEW c \in Calls, NEW x, Become(c, x), Setting', Placed',
           Bound(x), Reading(x),
           undisturbed' = {} \/ Undisturbing(c, x)
    PROVE  Sight'
<1>1. /\ call'[c] = x
      /\ \A d \in Calls \ {c} : call'[d] = call[d]
  BY BecomeGives DEF Known, IInv
<1>2. \A d \in Calls : Bound(call'[d]) /\ Reading(call'[d])
  BY <1>1 DEF Known, Sight, Goes
<1>3. \A d \in Calls : Goes(d)'
  BY <1>2 DEF Goes, Bound, Reading
<1>4. undisturbed' \subseteq Calls
  BY DEF Undisturbing, Known, Sight
<1>5. ASSUME NEW d \in Calls, d \in undisturbed'
      PROVE  Current(call[d])'
  <2>1. Undisturbing(c, x)
    BY <1>5
  <2>2. PICK y : y = call'[d]
    OBVIOUS
  <2>3. Current(y)' <=> Current(y)
    BY <2>1, SameView DEF Undisturbing
  <2>4. CASE d = c
    BY <1>1, <1>5, <2>1, <2>2, <2>3, <2>4 DEF Undisturbing
  <2>5. CASE d # c
    <3>1. d \in undisturbed /\ y = call[d]
      BY <1>1, <1>5, <2>1, <2>2, <2>5 DEF Undisturbing
    <3>2. Current(y)
      BY <3>1 DEF Known, Sight, Fresh
    <3> QED BY <2>1, <2>2, <2>3, <3>2 DEF Undisturbing
  <2> QED BY <2>4, <2>5
<1>6. \A d \in Calls : Fresh(d)'
  BY <1>5 DEF Fresh
<1> QED BY <1>3, <1>4, <1>6 DEF Sight

\* A step that leaves the order's origin and its units alone.
LEMMA OneGoesOn ==
    ASSUME Known, NEW c \in Calls, NEW x, Become(c, x), Bound(x), Reading(x),
           order'.origin = order.origin, order'.items \in Items, order'.status \in Statuses,
           UNCHANGED <<places, hold>>,
           undisturbed' \subseteq undisturbed \cup {c},
           c \in undisturbed' => Current(x)
    PROVE  Sight'
<1>1. Setting' /\ Placed'
  BY DEF Known, Sight, Setting, Placed, places
<1>2. Undisturbing(c, x)
  BY DEF Undisturbing
<1> QED BY <1>1, <1>2, OthersGoOn

\* A call of the engine starts: it has read nothing yet.
LEMMA EngineStarts ==
    ASSUME NEW kind \in Kinds, NEW items \in Items,
           NEW x, x = [Idle EXCEPT !.step = "load", !.kind = kind, !.items = items]
    PROVE  Bound(x) /\ Reading(x) /\ Current(x) /\ x.kind = kind
BY DEF Idle, Bound, Steps, Reading, Current

LEMMA KindsAre == {"create", "advance", "dispatch", "suggest", "assign"} \subseteq Kinds
BY DEF Kinds

LEMMA DefaultsAreItems == DefaultOf \in Items
BY OriginAssumption DEF Items

LEMMA IdleIsBound == Bound(Idle) /\ Reading(Idle)
BY DefaultsAreItems DEF Idle, Bound, Steps, Kinds, Reading

\* A call that has been handed to the inventory.
LEMMA SyncIsBound ==
    ASSUME NEW x, x.step = "sync", x.kind \in Kinds, x.items \in Items
    PROVE  Bound(x) /\ Reading(x)
BY DEF Bound, Steps, Reading

LEMMA CreateSees ==
    ASSUME Known, NEW c \in Calls, createOrder(c)
    PROVE  Sight'
<1>1. PICK items \in Items : Engine(c, "create", items)
  BY DEF createOrder
<1>2. PICK x : x = [Idle EXCEPT !.step = "load", !.kind = "create", !.items = items]
  OBVIOUS
<1>3. Become(c, x) /\ undisturbed' = undisturbed \cup {c}
  BY <1>1, <1>2 DEF Engine
<1>4. Bound(x) /\ Reading(x) /\ Current(x) /\ x.kind = "create"
  BY <1>2, EngineStarts, KindsAre
<1>5. order.origin = NoWarehouse
  BY NewOrderHasNoOrigin DEF createOrder, At, Known
<1>6. order'.origin = NoWarehouse /\ order'.items = DefaultOf /\ order'.status \in Statuses
  BY DEF createOrder, NoOrder, Statuses, operationalTransitions
<1>7. UNCHANGED <<places, hold>>
  BY DEF createOrder
<1> QED BY <1>3, <1>4, <1>5, <1>6, <1>7, DefaultsAreItems, OneGoesOn

LEMMA AdvanceSees ==
    ASSUME Known, NEW c \in Calls, NEW next \in Statuses, Advance(c, next), At(c, "idle")
    PROVE  Sight'
<1> DEFINE plans == next = "confirmed" /\ order.origin = NoWarehouse
<1>1. /\ order'.origin = order.origin /\ order'.items = order.items /\ order.items \in Items
      /\ order'.status \in Statuses
  BY DEF Advance, Known, IInv, Shape, IsOrder, Sight, Placed
<1>2. UNCHANGED <<places, hold>>
  BY DEF Advance
<1>3. CASE ~plans
  <2>1. PICK x : x = Syncing("advance", order.items, next, FALSE)
    OBVIOUS
  <2>2. Become(c, x) /\ undisturbed' = undisturbed
    BY <1>3, <2>1 DEF Advance
  <2>3. Bound(x) /\ Reading(x)
    <3>1. x.step = "sync" /\ x.kind = "advance" /\ x.items = order.items
      BY <2>1 DEF Syncing, Idle
    <3> QED BY <1>1, <3>1, SyncIsBound, KindsAre
  <2>4. c \notin undisturbed
    BY DEF At, Known, Sight, Fresh, Current
  <2> QED BY <1>1, <1>2, <2>2, <2>3, <2>4, OneGoesOn
<1>4. CASE plans
  <2>1. PICK x : x = [Idle EXCEPT !.step = "load", !.kind = "advance", !.items = order.items]
    OBVIOUS
  <2>2. Become(c, x) /\ undisturbed' = undisturbed \cup {c}
    BY <1>4, <2>1 DEF Advance, Engine
  <2>3. Bound(x) /\ Reading(x) /\ Current(x)
    <3>1. PICK items \in Items : items = order.items
      BY <1>1
    <3>2. "advance" \in Kinds
      BY KindsAre
    <3> QED BY ONLY <2>1, <3>1, <3>2, EngineStarts
  <2> QED BY <1>1, <1>2, <1>4, <2>2, <2>3, OneGoesOn
<1> QED BY <1>3, <1>4

LEMMA StatusSees ==
    ASSUME Known, NEW c \in Calls,
           applyCommercialConfirmation(c) \/ \E next \in Statuses : transitionOrderStatus(c, next)
    PROVE  Sight'
<1>1. "confirmed" \in Statuses
  BY DEF Statuses, operationalTransitions
<1>2. \E next \in Statuses : Advance(c, next) /\ At(c, "idle")
  BY <1>1 DEF applyCommercialConfirmation, transitionOrderStatus
<1> QED BY <1>2, AdvanceSees

LEMMA AskSees ==
    ASSUME Known, NEW c \in Calls, listDispatchOrders(c) \/ suggestOrderFulfillment(c)
    PROVE  Sight'
<1>1. PICK kind \in {"dispatch", "suggest"} : Engine(c, kind, order.items)
  BY DEF listDispatchOrders, suggestOrderFulfillment
<1>2. PICK x : x = [Idle EXCEPT !.step = "load", !.kind = kind, !.items = order.items]
  OBVIOUS
<1>3. Become(c, x) /\ undisturbed' = undisturbed \cup {c}
  BY <1>1, <1>2 DEF Engine
<1>4. order.items \in Items /\ order.status \in Statuses
  BY DEF Known, Sight, Placed
<1>5. Bound(x) /\ Reading(x) /\ Current(x) /\ x.kind = kind
  <2>1. kind \in Kinds
    BY KindsAre
  <2>2. PICK items \in Items : items = order.items
    BY <1>4
  <2> QED BY <1>2, <2>1, <2>2, EngineStarts
<1>6. UNCHANGED <<places, order, hold>>
  BY DEF listDispatchOrders, suggestOrderFulfillment
<1> QED BY <1>1, <1>3, <1>4, <1>5, <1>6, OneGoesOn

LEMMA AssignSees ==
    ASSUME Known, NEW c \in Calls, NEW w \in Warehouses, assignOrderFulfillment(c, w)
    PROVE  Sight'
<1>1. PICK x : x = [Idle EXCEPT !.step = "validate", !.kind = "assign", !.to = w]
  OBVIOUS
<1>2. /\ Become(c, x) /\ At(c, "idle") /\ UNCHANGED <<places, order, hold>>
      /\ undisturbed' = undisturbed
  BY <1>1 DEF assignOrderFulfillment, history
<1>3. Bound(x) /\ Reading(x)
  BY <1>1, DefaultsAreItems DEF Idle, Bound, Steps, Kinds, Reading
<1>4. c \notin undisturbed /\ order.items \in Items /\ order.status \in Statuses
  BY <1>2 DEF At, Known, Sight, Fresh, Current, Placed
<1> QED BY <1>2, <1>3, <1>4, OneGoesOn

LEMMA ValidateSees ==
    ASSUME Known, NEW c \in Calls, Validate(c) \/ Check(c)
    PROVE  Sight'
<1>1. PICK x : x = [call[c] EXCEPT !.step = IF At(c, "validate") THEN "check" ELSE "reassign"]
  OBVIOUS
<1>2. /\ call[c].step \in {"validate", "check"} /\ UNCHANGED <<places, order, hold>>
      /\ undisturbed' = undisturbed
      /\ Become(c, x) \/ Become(c, Idle)
  BY <1>1 DEF Validate, Check, At, history, End
<1>3. c \notin undisturbed /\ order.items \in Items /\ order.status \in Statuses
  BY <1>2 DEF Known, Sight, Fresh, Current, Placed
<1>4. /\ x.step \in {"check", "reassign"} /\ x.kind = call[c].kind /\ x.items = call[c].items
      /\ x.to = call[c].to
  <2>1. IsCall(call[c])
    BY DEF Known, IInv, Shape
  <2> QED BY <1>1, <2>1 DEF IsCall, CallFields
<1>5. Bound(call[c])
  BY DEF Known, Sight, Goes
<1>6. Bound(x) /\ Reading(x)
  BY <1>2, <1>4, <1>5 DEF Bound, Steps, Reading
<1> QED BY <1>2, <1>3, <1>6, IdleIsBound, OneGoesOn

LEMMA DroppedSees ==
    ASSUME Known, NEW c \in Calls, Dropped(c)
    PROVE  Sight'
<1>1. PICK x : x = IF call[c].kind = "advance"
                   THEN Syncing("advance", order.items, order.status, FALSE) ELSE Idle
  OBVIOUS
<1>2. /\ Become(c, x) /\ At(c, "build") /\ UNCHANGED <<places, hold>> /\ undisturbed' = undisturbed
      /\ order' = [order EXCEPT !.suggestion = call[c].to] /\ order.origin # NoWarehouse
  BY <1>1 DEF Dropped, history, End
<1>3. /\ order'.origin = order.origin /\ order'.items = order.items /\ order.items \in Items
      /\ order'.status \in Statuses
  BY <1>2 DEF Known, IInv, Shape, IsOrder, Sight, Placed
<1>4. Bound(x) /\ Reading(x)
  <2>1. CASE call[c].kind = "advance"
    <3>1. x.step = "sync" /\ x.kind = "advance" /\ x.items = order.items
      BY <1>1, <2>1 DEF Syncing, Idle
    <3> QED BY <1>3, <3>1, SyncIsBound, KindsAre
  <2>2. CASE call[c].kind # "advance"
    BY <1>1, <2>2, IdleIsBound
  <2> QED BY <2>1, <2>2
<1>5. c \notin undisturbed
  BY <1>2 DEF At, Known, Sight, Fresh, Current
<1> QED BY <1>2, <1>3, <1>4, <1>5, OneGoesOn

LEMMA SelectedIs ==
    ASSUME NEW seen, NEW items, NEW candidates, Selected(seen, items, candidates) # NoWarehouse
    PROVE  Selected(seen, items, candidates) \in candidates
<1> DEFINE first == {w \in candidates : \A u \in candidates :
                       ~Before(Key(seen, items, u), Key(seen, items, w))}
<1>1. Cardinality(first) = 1 /\ Selected(seen, items, candidates) = CHOOSE w \in first : TRUE
  BY DEF Selected
<1>2. first # {}
  <2> HIDE DEF first
  <2> QED BY <1>1, FS_EmptySet
<1> QED BY <1>1, <1>2

LEMMA ConcludeSees ==
    ASSUME Known, NEW c \in Calls, NEW seen, NEW candidates \in SUBSET Warehouses,
           call[c].step \in {"load", "assess"},
           Conclude(c, seen, candidates), UNCHANGED <<places, hold>>
    PROVE  Sight'
<1>1. PICK w : w = Selected(seen, call[c].items, candidates)
  OBVIOUS
<1>2. /\ order'.origin = order.origin
      /\ order'.items = IF call[c].kind = "create" THEN call[c].items ELSE order.items
      /\ order'.status \in Statuses
      /\ undisturbed' = undisturbed \ {c}
  <2>1. IsOrder(order) /\ order.status \in Statuses
    BY DEF Known, IInv, Shape, Sight, Placed
  <2> QED BY <2>1 DEF Conclude, IsOrder
<1>3. call[c].items \in Items /\ call[c].kind \in Kinds /\ order.items \in Items
  BY DEF Known, Sight, Goes, Bound, Placed
<1>4. order'.items \in Items
  BY <1>2, <1>3
<1>5. CASE canAutoAssign(seen, call[c].items, w) /\ call[c].kind # "suggest"
  <2>1. PICK x : x = [Idle EXCEPT !.step = "build", !.kind = call[c].kind,
                                  !.items = call[c].items, !.to = w]
    OBVIOUS
  <2>2. Become(c, x)
    BY <1>1, <1>5, <2>1 DEF Conclude
  <2>3. w \in Warehouses
    BY <1>1, <1>5, SelectedIs DEF canAutoAssign
  <2>4. Bound(x) /\ Reading(x)
    BY <1>3, <2>1, <2>3 DEF Idle, Bound, Steps, Reading
  <2> QED BY <1>2, <1>4, <2>2, <2>4, OneGoesOn
<1>6. ASSUME call[c].kind \in {"create", "advance"},
             NEW items \in Items, Become(c, Syncing(call[c].kind, items, order.status, FALSE))
      PROVE  Sight'
  <2>1. PICK x : x = Syncing(call[c].kind, items, order.status, FALSE)
    OBVIOUS
  <2>2. Bound(x) /\ Reading(x) /\ x.allow = FALSE
    <3>1. x.step = "sync" /\ x.kind = call[c].kind /\ x.items = items /\ x.allow = FALSE
      BY <2>1 DEF Syncing, Idle
    <3> QED BY <1>3, <1>6, <3>1, SyncIsBound
  <2> QED BY <1>2, <1>4, <1>6, <2>1, <2>2, OneGoesOn
<1>7. CASE End(c)
  BY <1>2, <1>4, <1>7, IdleIsBound, OneGoesOn DEF End
<1> QED BY <1>1, <1>3, <1>5, <1>6, <1>7 DEF Conclude

\* What the engine reads first: every active warehouse as it is.
LEMMA LoadSees ==
    ASSUME Known, NEW c \in Calls, Load(c)
    PROVE  Sight'
<1>1. PICK cov : cov = {w \in DOMAIN Seen : CoverageOf(Seen, call[c].items, w) # NoCoverage}
  OBVIOUS
<1>2. PICK x : x = [call[c] EXCEPT !.step = "assess", !.seen = Seen, !.pending = cov]
  OBVIOUS
<1>3. /\ At(c, "load") /\ UNCHANGED <<places, hold>>
      /\ IF cov = {} THEN Conclude(c, Seen, {})
         ELSE Become(c, x) /\ UNCHANGED <<order, undisturbed>>
  BY <1>1, <1>2 DEF Load, Seen
<1>4. CASE cov = {}
  BY <1>3, <1>4, ConcludeSees DEF At
<1>5. CASE cov # {}
  <2>1. /\ x.step = "assess" /\ x.seen = Seen /\ x.pending = cov /\ x.fits = call[c].fits
        /\ x.items = call[c].items /\ x.kind = call[c].kind
    <3>1. IsCall(call[c])
      BY DEF Known, IInv, Shape
    <3> QED BY <1>2, <3>1 DEF IsCall, CallFields
  <2>2. Bound(call[c]) /\ Reading(call[c]) /\ order.items \in Items /\ order.status \in Statuses
    BY DEF Known, Sight, Goes, Placed
  <2>3. cov = Covering(x.items) /\ cov \subseteq Warehouses
    <3>1. DOMAIN Seen = {w \in Warehouses : warehouse[w].active}
      BY DEF Seen
    <3>2. x.items \in Items
      BY <2>1, <2>2 DEF Bound
    <3> QED BY <1>1, <2>1, <3>1, <3>2, SeenCovers DEF Covering
  <2>4. x.fits = {}
    BY <1>3, <2>1, <2>2 DEF At, Reading
  <2>5. \A w \in cov : x.seen[w] \in Offered[w]
    <3>1. \A w \in cov : Seen[w] = warehouse[w]
      BY <2>3 DEF Covering, Seen
    <3> QED BY <2>1, <2>3, <3>1 DEF Known, Sight, Setting
  <2>6. Bound(x) /\ Reading(x)
    BY <1>5, <2>1, <2>2, <2>3, <2>4, <2>5 DEF Bound, Steps, Reading
  <2>7. Current(x)
    BY <2>1, <2>3, <2>4 DEF Current
  <2> QED BY <1>3, <1>5, <2>2, <2>6, <2>7, OneGoesOn
<1> QED BY <1>4, <1>5

\* The warehouse the engine asks about next is one of those it has yet to ask about.
LEMMA NextIsPending ==
    ASSUME Known, NEW c \in Calls, At(c, "assess"), NEW next,
           next = CHOOSE w \in call[c].pending : \A u \in call[c].pending :
                     ~Before(<<call[c].seen[u].priority, Code[u]>>,
                             <<call[c].seen[w].priority, Code[w]>>)
    PROVE  next \in call[c].pending
<1>1. PICK S : S = call[c].pending
  OBVIOUS
<1>2. PICK seen : seen = call[c].seen
  OBVIOUS
<1>3. S # {} /\ S \subseteq Warehouses /\ \A w \in S : seen[w] \in Offered[w]
  BY <1>1, <1>2 DEF Known, Sight, Goes, Reading, At
<1>4. \A w \in S : seen[w].priority \in Nat /\ Code[w] \in Nat
  BY <1>3, OriginAssumption
<1>5. PICK f, g : f = [w \in S |-> seen[w].priority] /\ g = [w \in S |-> Code[w]]
  OBVIOUS
<1>6. f \in [S -> Nat] /\ g \in [S -> Nat]
  BY <1>4, <1>5
<1>7. PICK m \in S : \A u \in S : f[m] < f[u] \/ (f[m] = f[u] /\ g[m] <= g[u])
  BY <1>3, <1>6, FirstPair
<1>8. ASSUME NEW u \in S
      PROVE  ~Before(<<seen[u].priority, Code[u]>>, <<seen[m].priority, Code[m]>>)
  <2>1. PICK a \in Int, b \in Int, d \in Int, e \in Int :
          a = seen[u].priority /\ b = Code[u] /\ d = seen[m].priority /\ e = Code[m]
    BY <1>4
  <2>2. d < a \/ (d = a /\ e <= b)
    BY <1>5, <1>7, <2>1
  <2>3. ~Before(<<a, b>>, <<d, e>>)
    BY <2>2, BeforePair
  <2> QED BY <2>1, <2>3
<1>9. \E w \in S : \A u \in S : ~Before(<<seen[u].priority, Code[u]>>, <<seen[w].priority, Code[w]>>)
  BY <1>8
<1>10. next = CHOOSE w \in S : \A u \in S :
                 ~Before(<<seen[u].priority, Code[u]>>, <<seen[w].priority, Code[w]>>)
  BY <1>1, <1>2
<1> QED BY <1>1, <1>9, <1>10

\* What the step about the next warehouse does.
LEMMA AssessDoes ==
    ASSUME Known, NEW c \in Calls, Assess(c)
    PROVE  \E next \in call[c].pending, found \in SUBSET Warehouses :
             /\ At(c, "assess") /\ UNCHANGED <<places, hold>>
             /\ found = call[c].fits \cup {w \in {next} : CanServe(w)}
             /\ IF call[c].pending = {next} THEN Conclude(c, call[c].seen, found)
                ELSE /\ Become(c, [call[c] EXCEPT !.pending = @ \ {next}, !.fits = found])
                     /\ UNCHANGED <<order, undisturbed>>
<1>1. PICK next : next = CHOOSE w \in call[c].pending : \A u \in call[c].pending :
                     ~Before(<<call[c].seen[u].priority, Code[u]>>,
                             <<call[c].seen[w].priority, Code[w]>>)
  OBVIOUS
<1>2. PICK found : found = call[c].fits \cup {w \in {next} : CanServe(w)}
  OBVIOUS
<1>3. /\ At(c, "assess") /\ UNCHANGED <<places, hold>>
      /\ IF call[c].pending = {next} THEN Conclude(c, call[c].seen, found)
         ELSE /\ Become(c, [call[c] EXCEPT !.pending = @ \ {next}, !.fits = found])
              /\ UNCHANGED <<order, undisturbed>>
  BY <1>1, <1>2 DEF Assess
<1>4. next \in call[c].pending
  BY <1>1, <1>3, NextIsPending
<1>5. found \in SUBSET Warehouses
  BY <1>2, <1>3, <1>4 DEF Known, Sight, Goes, Reading, At
<1> QED BY <1>2, <1>3, <1>4, <1>5

LEMMA AssessSees ==
    ASSUME Known, NEW c \in Calls, Assess(c)
    PROVE  Sight'
<1>1. PICK next \in call[c].pending, found \in SUBSET Warehouses :
        /\ At(c, "assess") /\ UNCHANGED <<places, hold>>
        /\ found = call[c].fits \cup {w \in {next} : CanServe(w)}
        /\ IF call[c].pending = {next} THEN Conclude(c, call[c].seen, found)
           ELSE /\ Become(c, [call[c] EXCEPT !.pending = @ \ {next}, !.fits = found])
                /\ UNCHANGED <<order, undisturbed>>
  BY AssessDoes
<1>2. CASE call[c].pending = {next}
  BY <1>1, <1>2, ConcludeSees DEF At
<1>3. CASE call[c].pending # {next}
  <2>1. PICK x : x = [call[c] EXCEPT !.pending = @ \ {next}, !.fits = found]
    OBVIOUS
  <2>2. Become(c, x) /\ UNCHANGED <<order, undisturbed>>
    BY <1>1, <1>3, <2>1
  <2>3. /\ x.step = "assess" /\ x.seen = call[c].seen /\ x.pending = call[c].pending \ {next}
        /\ x.fits = found /\ x.items = call[c].items /\ x.kind = call[c].kind
    <3>1. IsCall(call[c])
      BY DEF Known, IInv, Shape
    <3> QED BY <1>1, <2>1, <3>1 DEF IsCall, CallFields, At
  <2>4. Bound(call[c]) /\ Reading(call[c]) /\ order.items \in Items /\ order.status \in Statuses
    BY DEF Known, Sight, Goes, Placed
  <2>5. Bound(x) /\ Reading(x)
    BY <1>1, <1>3, <2>3, <2>4 DEF At, Bound, Steps, Reading
  <2>6. ASSUME c \in undisturbed'
        PROVE  Current(x)
    <3>1. Current(call[c])
      BY <2>2, <2>6 DEF Known, Sight, Fresh
    <3>2. /\ call[c].seen = Seen /\ call[c].pending \subseteq Covering(call[c].items)
          /\ call[c].fits = {w \in Covering(call[c].items) \ call[c].pending : CanServe(w)}
      BY <1>1, <3>1 DEF Current, At
    <3>3. found = {w \in Covering(call[c].items) \ (call[c].pending \ {next}) : CanServe(w)}
      BY <1>1, <3>2
    <3> QED BY <2>3, <3>1, <3>2, <3>3 DEF Current
  <2> QED BY <1>1, <2>2, <2>4, <2>5, <2>6, OneGoesOn
<1> QED BY <1>2, <1>3

\* A call that leaves with an exception: the order it was creating held no units.
LEMMA ThrowSees ==
    ASSUME Known, NEW c \in Calls, Throw(c), UNCHANGED <<places, hold>>,
           undisturbed' = undisturbed, call[c].step \notin {"load", "assess"}
    PROVE  Sight'
<1>1. Become(c, Idle) /\ order' = IF call[c].kind = "create" THEN NoOrder ELSE order
  BY DEF Throw, End
<1>2. c \notin undisturbed
  BY DEF Known, Sight, Fresh, Current
<1>3. CASE call[c].kind # "create"
  <2>1. order' = order /\ order.items \in Items /\ order.status \in Statuses
    BY <1>1, <1>3 DEF Known, Sight, Placed
  <2> QED BY <1>1, <1>2, <2>1, IdleIsBound, OneGoesOn
<1>4. CASE call[c].kind = "create"
  <2>1. order'.origin = NoWarehouse /\ order'.items \in Items /\ order'.status \in Statuses
    BY <1>1, <1>4, DefaultsAreItems DEF NoOrder, Statuses, operationalTransitions
  <2>2. Setting' /\ Placed'
    BY <2>1 DEF Known, Sight, Setting, Placed, places
  <2>3. Undisturbing(c, Idle)
    BY <1>2, <2>1 DEF Undisturbing
  <2> QED BY <1>1, <2>2, <2>3, IdleIsBound, OthersGoOn
<1> QED BY <1>3, <1>4

\* The order takes an origin; a reading begun before is worth nothing.
LEMMA GivenSees ==
    ASSUME Known, NEW c \in Calls, NEW w \in Warehouses, NEW who, NEW kind \in Kinds, NEW allow,
           order' = Assigned(rewriteItemsToWarehouse(w), w, who),
           Become(c, Syncing(kind, rewriteItemsToWarehouse(w), order.status, allow)),
           UNCHANGED <<places, hold>>, undisturbed' = {}
    PROVE  Sight'
<1>1. rewriteItemsToWarehouse(w) \in Items /\ w # NoWarehouse
  BY OriginAssumption DEF rewriteItemsToWarehouse, Items
<1>2. order'.origin = w /\ order'.items = rewriteItemsToWarehouse(w) /\ order'.status = order.status
  BY DEF Assigned, Known, IInv, Shape, IsOrder
<1>3. PICK x : x = Syncing(kind, rewriteItemsToWarehouse(w), order.status, allow)
  OBVIOUS
<1>4. Bound(x) /\ Reading(x)
  <2>1. x.step = "sync" /\ x.kind = kind /\ x.items = rewriteItemsToWarehouse(w)
    BY <1>3 DEF Syncing, Idle
  <2> QED BY <1>1, <2>1, SyncIsBound
<1>5. Setting' /\ Placed'
  BY <1>1, <1>2 DEF Known, Sight, Setting, Placed, places
<1> QED BY <1>1, <1>2, <1>3, <1>4, <1>5, OthersGoOn

LEMMA ApplySees ==
    ASSUME Known, NEW c \in Calls, Apply(c) \/ Reassign(c)
    PROVE  Sight'
<1>1. call[c].to \in Warehouses /\ call[c].kind \in Kinds
  BY DEF Apply, Reassign, At, Known, Sight, Goes, Bound
<1>2. PICK w : w = call[c].to
  OBVIOUS
<1>3. CASE Apply(c)
  <2>1. /\ order' = Assigned(rewriteItemsToWarehouse(w), w, "engine")
        /\ Become(c, Syncing(call[c].kind, rewriteItemsToWarehouse(w), order.status,
                             call[c].kind # "create"))
        /\ UNCHANGED <<places, hold>> /\ undisturbed' = {}
    BY <1>2, <1>3 DEF Apply
  <2> QED BY <1>1, <1>2, <2>1, GivenSees
<1>4. CASE Reassign(c)
  <2>1. /\ order' = Assigned(rewriteItemsToWarehouse(w), w, "operator")
        /\ Become(c, Syncing("assign", rewriteItemsToWarehouse(w), order.status, TRUE))
        /\ UNCHANGED <<places, hold>> /\ undisturbed' = {}
    BY <1>2, <1>4 DEF Reassign
  <2> QED BY <1>1, <1>2, <2>1, GivenSees, KindsAre
<1> QED BY <1>3, <1>4

\* The stock after units are taken or given back.
LEMMA MovedIs ==
    ASSUME Sight, NEW items \in Items, NEW sign \in {-1, 1}, sign = -1 => Enough(items)
    PROVE  Moved(items, sign) \in [Warehouses -> [Variants -> Nat]]
<1> SUFFICES ASSUME NEW w \in Warehouses, NEW v \in Variants
             PROVE  free[w][v] + (IF items[v] = w THEN sign * Quantity[v] ELSE 0) \in Nat
  BY DEF Moved
<1>1. free[w][v] \in Nat /\ Quantity[v] \in Nat
  BY OriginAssumption DEF Sight, Setting
<1>2. CASE sign = 1
  BY <1>1, <1>2
<1>3. CASE sign = -1
  <2>1. items[v] = w => free[w][v] >= Quantity[v]
    BY <1>3 DEF Enough
  <2> QED BY <1>1, <1>3, <2>1
<1> QED BY <1>2, <1>3

LEMMA TakeSees ==
    ASSUME Known, NEW c \in Calls, Take(c)
    PROVE  Sight'
<1>1. call[c].step \in {"sync", "take"}
  BY DEF Take, At
<1>2. CASE ~Enough(Lines(c))
  <2>1. Throw(c) /\ UNCHANGED <<places, hold>> /\ undisturbed' = undisturbed
    BY <1>2 DEF Take, places
  <2> QED BY <1>1, <2>1, ThrowSees
<1>3. CASE Enough(Lines(c))
  <2>1. /\ hold' = [state |-> call[c].stage, at |-> Lines(c)] /\ free' = Moved(Lines(c), -1)
        /\ undisturbed' = {} /\ Become(c, Idle) /\ UNCHANGED <<warehouse, address>>
        /\ order' = IF call[c].kind = "create" THEN [order EXCEPT !.exists = TRUE] ELSE order
    BY <1>3 DEF Take, Done, End
  <2>2. order'.origin = order.origin /\ order'.items = order.items /\ order'.status = order.status
    BY <2>1 DEF Known, IInv, Shape, IsOrder
  <2>3. Lines(c) \in Items
    BY DEF Lines, Known, Sight, Goes, Bound
  <2>4. call[c].stage \in {"reserved", "confirmed", "released"}
    BY <1>1 DEF Known, IInv, Creation, Runs
  <2>5. Setting'
    <3>1. free' \in [Warehouses -> [Variants -> Nat]]
      BY <1>3, <2>1, <2>3, MovedIs DEF Known
    <3> QED BY <2>1, <3>1 DEF Known, Sight, Setting
  <2>6. Placed'
    BY <2>1, <2>2, <2>3, <2>4 DEF Known, Sight, Placed
  <2> QED BY <2>1, <2>5, <2>6, IdleIsBound, OthersGoOn
<1> QED BY <1>2, <1>3

\* Consolidated units are where they were.
LEMMA SameLinesSees ==
    ASSUME Known, NEW c \in Calls, SameLines(c)
    PROVE  Sight'
<1>1. /\ At(c, "sync") /\ hold.state # "none" /\ Become(c, Idle)
      /\ hold' = [hold EXCEPT !.state = IF @ = "reserved" THEN call[c].stage ELSE @]
      /\ UNCHANGED <<places, order, undisturbed>>
  BY DEF SameLines, End, history
<1>2. call[c].stage \in {"reserved", "confirmed", "released"}
  BY <1>1 DEF At, Known, IInv, Creation, Runs
<1>3. /\ hold'.at = hold.at
      /\ hold'.state = IF hold.state = "reserved" THEN call[c].stage ELSE hold.state
  BY <1>1 DEF Known, IInv, Shape, IsHold
<1>4. Setting' /\ Placed'
  BY <1>1, <1>2, <1>3 DEF Known, Sight, Setting, Placed, places
<1>5. c \notin undisturbed
  BY <1>1 DEF At, Known, Sight, Fresh, Current
<1>6. Undisturbing(c, Idle)
  BY <1>1, <1>2, <1>3, <1>5 DEF Undisturbing
<1> QED BY <1>1, <1>4, <1>6, IdleIsBound, OthersGoOn

\* Units are given back: the stock has them again.
LEMMA UnitsReturn ==
    ASSUME Known, NEW c \in Calls, NEW x, Become(c, x), Bound(x), Reading(x),
           hold' = [hold EXCEPT !.state = "released"], free' = Moved(hold.at, 1),
           undisturbed' = {}, UNCHANGED <<warehouse, address, order>>
    PROVE  Sight'
<1>1. Setting'
  <2>1. free' \in [Warehouses -> [Variants -> Nat]]
    BY MovedIs DEF Known, Sight, Placed
  <2> QED BY <2>1 DEF Known, Sight, Setting
<1>2. Placed'
  <2>1. hold'.state = "released" /\ hold'.at = hold.at
    BY DEF Known, IInv, Shape, IsHold
  <2> QED BY <2>1 DEF Known, Sight, Placed
<1> QED BY <1>1, <1>2, OthersGoOn

LEMMA ReleaseSees ==
    ASSUME Known, NEW c \in Calls, Release(c)
    PROVE  Sight'
BY IdleIsBound, UnitsReturn DEF Release, End

LEMMA GiveBackSees ==
    ASSUME Known, NEW c \in Calls, GiveBack(c)
    PROVE  Sight'
<1>1. PICK x : x = [call[c] EXCEPT !.step = "take", !.stage = hold.state]
  OBVIOUS
<1>2. /\ x.step = "take" /\ x.kind = call[c].kind /\ x.items = call[c].items
  <2>1. IsCall(call[c])
    BY DEF Known, IInv, Shape
  <2> QED BY <1>1, <2>1 DEF IsCall, CallFields
<1>3. Bound(x) /\ Reading(x)
  BY <1>2 DEF Known, Sight, Goes, Bound, Steps, Reading
<1> QED BY <1>1, <1>3, UnitsReturn DEF GiveBack

LEMMA LeavesSees ==
    ASSUME Known, NEW c \in Calls, NotActive(c) \/ Conflict(c)
    PROVE  Sight'
<1>1. /\ Throw(c) /\ UNCHANGED <<places, hold>> /\ undisturbed' = undisturbed
      /\ call[c].step \notin {"load", "assess"}
  BY DEF NotActive, Conflict, At, history
<1> QED BY <1>1, ThrowSees

\* A change of the warehouses or of the stock by others disturbs every reading.
LEMMA OthersSee ==
    ASSUME Known, NEW w \in Warehouses, patchWarehouse(w) \/ \E v \in Variants : StockMoves(w, v)
    PROVE  Sight'
<1>1. UNCHANGED <<address, order, hold, call>> /\ undisturbed' = {}
  BY DEF patchWarehouse, StockMoves
<1>2. Setting'
  <2>1. CASE patchWarehouse(w)
    <3>1. PICK cfg \in Offered[w] : warehouse' = [warehouse EXCEPT ![w] = cfg] /\ free' = free
      BY <2>1 DEF patchWarehouse
    <3>2. \A u \in Warehouses : warehouse'[u] \in Offered[u]
      BY <3>1 DEF Known, Sight, Setting
    <3>3. warehouse' = [u \in Warehouses |-> warehouse'[u]]
      BY <3>1 DEF Known, Sight, Setting
    <3>4. warehouse' \in [Warehouses -> UNION {Offered[u] : u \in Warehouses}]
      BY <3>2, <3>3
    <3> QED BY <1>1, <3>1, <3>2, <3>4 DEF Known, Sight, Setting
  <2>2. ASSUME NEW v \in Variants, StockMoves(w, v) PROVE Setting'
    <3>1. PICK n \in {0, Quantity[v]} : free' = [free EXCEPT ![w][v] = n] /\ warehouse' = warehouse
      BY <2>2 DEF StockMoves
    <3>2. n \in Nat
      BY OriginAssumption
    <3> QED BY <1>1, <3>1, <3>2 DEF Known, Sight, Setting
  <2> QED BY <2>1, <2>2
<1>3. Placed' /\ \A c \in Calls : Goes(c)'
  BY <1>1 DEF Known, Sight, Placed, Goes
<1> QED BY <1>1, <1>2, <1>3 DEF Sight, Fresh

LEMMA StartsKnown == Init => Known
<1> SUFFICES ASSUME Init PROVE Known
  OBVIOUS
<1>1. IInv
  BY Start
<1>2. order = NoOrder /\ hold = NoHold /\ call = [c \in Calls |-> Idle] /\ undisturbed = {}
  BY DEF Init
<1>3. Setting
  BY OriginAssumption DEF Init, Setting
<1>4. Placed
  BY <1>2, DefaultsAreItems DEF Placed, NoOrder, NoHold, Statuses, operationalTransitions
<1>5. Idle.step = "idle"
  BY DEF Idle
<1>6. \A c \in Calls : Goes(c) /\ Fresh(c)
  <2> HIDE DEF Idle
  <2> QED BY <1>2, <1>5, IdleIsBound DEF Goes, Fresh
<1> QED BY <1>1, <1>2, <1>3, <1>4, <1>6 DEF Known, Sight

LEMMA StaysKnown == Known /\ [Next]_vars => Known'
<1> SUFFICES ASSUME Known, [Next]_vars PROVE Sight'
  BY Step DEF Known
<1>1. ASSUME NEW c \in Calls, \/ createOrder(c) \/ applyCommercialConfirmation(c)
                              \/ \E next \in Statuses : transitionOrderStatus(c, next)
                              \/ listDispatchOrders(c) \/ suggestOrderFulfillment(c)
      PROVE  Sight'
  BY <1>1, CreateSees, StatusSees, AskSees
<1>2. ASSUME NEW c \in Calls, Load(c) PROVE Sight'
  BY <1>2, LoadSees
<1>3. ASSUME NEW c \in Calls, Assess(c) PROVE Sight'
  BY <1>3, AssessSees
<1>4. ASSUME NEW c \in Calls, Apply(c) \/ Reassign(c) PROVE Sight'
  BY <1>4, ApplySees
<1>5. ASSUME NEW c \in Calls, Dropped(c) PROVE Sight'
  BY <1>5, DroppedSees
<1>6. ASSUME NEW c \in Calls, NotActive(c) \/ Conflict(c) PROVE Sight'
  BY <1>6, LeavesSees
<1>7. ASSUME NEW c \in Calls, Validate(c) \/ Check(c) PROVE Sight'
  BY <1>7, ValidateSees
<1>8. ASSUME NEW c \in Calls, Take(c) PROVE Sight'
  BY <1>8, TakeSees
<1>9. ASSUME NEW c \in Calls, SameLines(c) PROVE Sight'
  BY <1>9, SameLinesSees
<1>10. ASSUME NEW c \in Calls, Release(c) \/ GiveBack(c) PROVE Sight'
  BY <1>10, ReleaseSees, GiveBackSees
<1>11. ASSUME NEW c \in Calls, NEW w \in Warehouses, assignOrderFulfillment(c, w) PROVE Sight'
  BY <1>11, AssignSees
<1>12. ASSUME NEW w \in Warehouses, patchWarehouse(w) \/ \E v \in Variants : StockMoves(w, v)
       PROVE  Sight'
  BY <1>12, OthersSee
<1>13. CASE UNCHANGED vars
  <2>1. UNCHANGED <<places, order, hold, call, undisturbed>>
    BY <1>13 DEF vars, history
  <2>2. Setting' /\ Placed' /\ \A c \in Calls : Goes(c)'
    BY <2>1 DEF places, Known, Sight, Setting, Placed, Goes
  <2>3. ASSUME NEW c \in Calls PROVE Fresh(c)'
    <3>1. PICK x : x = call[c]
      OBVIOUS
    <3>2. Current(x)' <=> Current(x)
      BY <2>1, SameView
    <3> QED BY <2>1, <3>1, <3>2 DEF Known, Sight, Fresh
  <2> QED BY <2>1, <2>2, <2>3 DEF Known, Sight
<1> QED BY <1>1, <1>2, <1>3, <1>4, <1>5, <1>6, <1>7, <1>8, <1>9, <1>10, <1>11, <1>12, <1>13 DEF Next

LEMMA AlwaysKnown == Spec => []Known
BY StartsKnown, StaysKnown, PTL DEF Spec

\* The order's lines, its origin, its units and the stock have their types.
THEOREM TypeCorrect == Spec => []TypeOK
BY KnownTypes, AlwaysKnown, PTL

\* Nobody but a call of the engine itself ends its reading.
LEMMA EndsItself ==
    ASSUME Known, [Next]_vars, NEW c \in Calls, call[c].step \in {"load", "assess"},
           call'[c] # call[c]
    PROVE  Load(c) \/ Assess(c)
<1>1. ASSUME NEW d \in Calls, NEW x, Become(d, x) PROVE d = c
  BY <1>1, BecomeGives DEF Known, IInv
<1>2. ASSUME NEW d \in Calls, \/ createOrder(d) \/ applyCommercialConfirmation(d)
                              \/ \E next \in Statuses : transitionOrderStatus(d, next)
                              \/ listDispatchOrders(d) \/ suggestOrderFulfillment(d)
                              \/ \E w \in Warehouses : assignOrderFulfillment(d, w)
      PROVE  FALSE
  <2>1. At(d, "idle") /\ \E x : Become(d, x)
    BY <1>2 DEF createOrder, applyCommercialConfirmation, transitionOrderStatus, Advance,
                listDispatchOrders, suggestOrderFulfillment, assignOrderFulfillment, Engine
  <2> QED BY <1>1, <2>1 DEF At
<1>3. ASSUME NEW d \in Calls, Load(d) \/ Assess(d) PROVE d = c
  <2>1. \E x : Become(d, x)
    BY <1>3 DEF Load, Assess, Conclude, End
  <2> QED BY <1>1, <2>1
<1>4. ASSUME NEW d \in Calls, \/ Apply(d) \/ Dropped(d) \/ NotActive(d)
                              \/ Validate(d) \/ Check(d) \/ Reassign(d)
      PROVE  FALSE
  <2>1. /\ call[d].step \in {"build", "validate", "check", "reassign"}
        /\ \E x : Become(d, x)
    BY <1>4 DEF Apply, Dropped, NotActive, Validate, Check, Reassign, At, Throw, End
  <2> QED BY <1>1, <2>1
<1>5. ASSUME NEW d \in Calls, \/ Take(d) \/ SameLines(d) \/ Release(d)
                              \/ GiveBack(d) \/ Conflict(d)
      PROVE  FALSE
  <2>1. call[d].step \in {"sync", "take"} /\ \E x : Become(d, x)
    BY <1>5 DEF Take, SameLines, Release, GiveBack, Conflict, Done, Throw, End, At
  <2> QED BY <1>1, <2>1
<1>6. ASSUME NEW w \in Warehouses, patchWarehouse(w) \/ \E v \in Variants : StockMoves(w, v)
      PROVE  FALSE
  BY <1>6 DEF patchWarehouse, StockMoves
<1>7. ASSUME UNCHANGED vars PROVE FALSE
  BY <1>7 DEF vars
<1> QED BY <1>2, <1>3, <1>4, <1>5, <1>6, <1>7 DEF Next

\* What the engine concludes from all the candidates that can serve is what is documented.
LEMMA ConcludesAsDocumented ==
    ASSUME Known, NEW c \in undisturbed, call[c].kind # "suggest", hold.state # "released",
           NEW candidates, candidates = {w \in Covering(call[c].items) : CanServe(w)},
           Conclude(c, Seen, candidates)
    PROVE  (IF At(c, "build")' THEN call'[c].to ELSE NoWarehouse) = DocumentedOrigin(call[c].items)
<1>1. c \in Calls /\ call[c].items \in Items
  BY DEF Known, Sight, Goes, Bound
<1>2. hold.state \in {"none", "reserved", "confirmed", "released"} /\ hold.state # "released"
  BY DEF Known, Sight, Placed
<1>3. PICK items : items = call[c].items
  OBVIOUS
<1>4. PICK chosen : chosen = Selected(Seen, items, candidates)
  OBVIOUS
<1>5. (IF canAutoAssign(Seen, items, chosen) THEN chosen ELSE NoWarehouse) = DocumentedOrigin(items)
  <2>1. /\ \A w \in Warehouses : warehouse[w] \in Offered[w]
        /\ free \in [Warehouses -> [Variants -> Nat]]
    BY DEF Known, Sight, Setting
  <2> QED BY <1>1, <1>2, <1>3, <1>4, <2>1, PlanIsDocumented
<1>6. CASE canAutoAssign(Seen, items, chosen)
  <2>1. PICK x : x = [Idle EXCEPT !.step = "build", !.kind = call[c].kind,
                                  !.items = call[c].items, !.to = chosen]
    OBVIOUS
  <2>2. Become(c, x)
    BY <1>3, <1>4, <1>6, <2>1 DEF Conclude
  <2>3. call'[c] = x
    BY <1>1, <2>2, BecomeGives DEF Known, IInv
  <2>4. At(c, "build")' /\ call'[c].to = chosen
    BY <2>1, <2>3 DEF At, Idle
  <2> QED BY <1>3, <1>5, <1>6, <2>4
<1>7. CASE ~canAutoAssign(Seen, items, chosen)
  <2>1. \/ \E lines : Become(c, Syncing(call[c].kind, lines, order.status, FALSE))
        \/ Become(c, Idle)
    BY <1>3, <1>4, <1>7 DEF Conclude, End
  <2>2. PICK x : Become(c, x) /\ x.step \in {"sync", "idle"}
    <3>1. Idle.step = "idle"
      BY DEF Idle
    <3>2. \A lines : Syncing(call[c].kind, lines, order.status, FALSE).step = "sync"
      BY DEF Syncing, Idle
    <3> QED BY <2>1, <3>1, <3>2
  <2>3. call'[c] = x
    BY <1>1, <2>2, BecomeGives DEF Known, IInv
  <2>4. ~At(c, "build")'
    BY <2>2, <2>3 DEF At
  <2> QED BY <1>3, <1>5, <1>7, <2>4
<1> QED BY <1>6, <1>7

LEMMA EndsAsDocumented ==
    ASSUME Known, [Next]_vars, NEW c \in undisturbed, call[c].step \in {"load", "assess"},
           call'[c].step \notin {"load", "assess"}, call[c].kind # "suggest",
           hold.state # "released"
    PROVE  (IF At(c, "build")' THEN call'[c].to ELSE NoWarehouse) = DocumentedOrigin(call[c].items)
<1>1. c \in Calls /\ call[c].items \in Items
  BY DEF Known, Sight, Goes, Bound
<1>2. Load(c) \/ Assess(c)
  BY <1>1, EndsItself
<1>3. CASE Load(c)
  <2>1. PICK cov : cov = {w \in DOMAIN Seen : CoverageOf(Seen, call[c].items, w) # NoCoverage}
    OBVIOUS
  <2>2. PICK x : x = [call[c] EXCEPT !.step = "assess", !.seen = Seen, !.pending = cov]
    OBVIOUS
  <2>3. IF cov = {} THEN Conclude(c, Seen, {}) ELSE Become(c, x)
    BY <1>3, <2>1, <2>2 DEF Load, Seen
  <2>4. x.step = "assess"
    <3>1. IsCall(call[c])
      BY <1>1 DEF Known, IInv, Shape
    <3> QED BY <2>2, <3>1 DEF IsCall, CallFields
  <2>5. ~Become(c, x)
    BY <1>1, <2>4, BecomeGives DEF Known, IInv
  <2>6. cov = {} /\ Conclude(c, Seen, {})
    BY <2>3, <2>5
  <2>7. cov = Covering(call[c].items)
    <3>1. DOMAIN Seen = {w \in Warehouses : warehouse[w].active}
      BY DEF Seen
    <3> QED BY <1>1, <2>1, <3>1, SeenCovers DEF Covering
  <2>8. {} = {w \in Covering(call[c].items) : CanServe(w)}
    BY <2>6, <2>7
  <2> QED BY <2>6, <2>8, ConcludesAsDocumented
<1>4. CASE Assess(c)
  <2>1. PICK next \in call[c].pending, found \in SUBSET Warehouses :
          /\ At(c, "assess")
          /\ found = call[c].fits \cup {w \in {next} : CanServe(w)}
          /\ IF call[c].pending = {next} THEN Conclude(c, call[c].seen, found)
             ELSE Become(c, [call[c] EXCEPT !.pending = @ \ {next}, !.fits = found])
    BY <1>1, <1>4, AssessDoes
  <2>2. PICK x : x = [call[c] EXCEPT !.pending = @ \ {next}, !.fits = found]
    OBVIOUS
  <2>3. x.step = "assess"
    <3>1. IsCall(call[c])
      BY <1>1 DEF Known, IInv, Shape
    <3> QED BY <2>1, <2>2, <3>1 DEF IsCall, CallFields, At
  <2>4. ~Become(c, x)
    BY <1>1, <2>3, BecomeGives DEF Known, IInv
  <2>5. call[c].pending = {next} /\ Conclude(c, call[c].seen, found)
    BY <2>1, <2>2, <2>4
  <2>6. /\ call[c].seen = Seen /\ call[c].pending \subseteq Covering(call[c].items)
        /\ call[c].fits = {w \in Covering(call[c].items) \ call[c].pending : CanServe(w)}
    BY <1>1, <2>1 DEF Known, Sight, Fresh, Current, At
  <2>7. found = {w \in Covering(call[c].items) : CanServe(w)}
    BY <2>1, <2>5, <2>6
  <2> QED BY <2>5, <2>6, <2>7, ConcludesAsDocumented
<1> QED BY <1>2, <1>3, <1>4

\* The engine, when nobody changes what it reads while it reads it, assigns the documented
\* origin, and none when the rules leave none or several: its buckets and ranks order the
\* candidates as the elimination does, and it has asked about all of them.
THEOREM PlansAreDocumented == Spec => BestOrigin
<1>1. Known /\ [Next]_vars =>
        [\A c \in undisturbed :
           /\ call[c].step \in {"load", "assess"} /\ call'[c].step \notin {"load", "assess"}
           /\ call[c].kind # "suggest" /\ hold.state # "released"
           => (IF At(c, "build")' THEN call'[c].to ELSE NoWarehouse)
                = DocumentedOrigin(call[c].items)]_vars
  <2> SUFFICES ASSUME Known, [Next]_vars, NEW c \in undisturbed,
                      call[c].step \in {"load", "assess"},
                      call'[c].step \notin {"load", "assess"}, call[c].kind # "suggest",
                      hold.state # "released"
               PROVE  (IF At(c, "build")' THEN call'[c].to ELSE NoWarehouse)
                        = DocumentedOrigin(call[c].items)
    OBVIOUS
  <2> QED BY EndsAsDocumented
<1> QED BY <1>1, AlwaysKnown, PTL DEF Spec, BestOrigin
=============================================================================
