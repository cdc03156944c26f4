------------------------ MODULE InventorySyncProofs ------------------------
(***************************************************************************)
(* Theorems about InventorySync for any orders, warehouses, variants,      *)
(* calls and stock.  With calls for one order overlapping or not: TypeOK,  *)
(* and NoOversell when no adjustment sets a stock level.  With one call    *)
(* per order at a time and no adjustment (Serial): the counters are the    *)
(* units the orders hold (BooksBalanced), an order's own units are never   *)
(* missing (OwnUnitsThere), and the service implements the promise of      *)
(* StockHolds (KeepsPromise), so that every unit held exists.              *)
(***************************************************************************)
EXTENDS InventorySync, FiniteSetTheorems, TLAPS

\* An operation whose check passed leaves a balance of natural numbers.
LEMMA EffectType ==
    ASSUME NEW op \in OrderOps, NEW row \in Row, NEW q \in Nat, Ready(op, row, q)
    PROVE  Effect(op, row, q) \in Row
<1>1. row.stock \in Nat /\ row.reserved \in Nat /\ row.committed \in Nat
  BY DEF Row
<1>2. CASE op = "reserve"
  BY <1>1, <1>2 DEF Effect, Row
<1>3. CASE op = "confirm"
  <2>1. Effect(op, row, q) = [stock |-> row.stock, reserved |-> row.reserved - q,
                              committed |-> row.committed + q]
    BY <1>1, <1>3 DEF Effect, Row
  <2>2. row.reserved >= q
    BY <1>3 DEF Ready
  <2>3. row.reserved - q \in Nat /\ row.committed + q \in Nat
    BY <1>1, <2>2
  <2>4. QED
    BY <1>1, <2>1, <2>3 DEF Row
<1>4. CASE op = "release"
  BY <1>1, <1>4 DEF Effect, Row, Ready
<1>5. CASE op = "reverse"
  BY <1>1, <1>5 DEF Effect, Row, Ready
<1>6. QED
  BY <1>2, <1>3, <1>4, <1>5 DEF OrderOps

\* An operation whose check passed promises no unit the balance has not.
LEMMA EffectSound ==
    ASSUME NEW op \in OrderOps, NEW row \in Row, NEW q \in Nat, Ready(op, row, q), Sound(row)
    PROVE  Sound(Effect(op, row, q))
<1>1. row.stock \in Nat /\ row.reserved \in Nat /\ row.committed \in Nat
  BY DEF Row
<1>2. CASE op = "reserve"
  BY <1>1, <1>2 DEF Effect, Ready, Available, Sound, Row
<1>3. CASE op = "confirm"
  <2>1. Effect(op, row, q) = [stock |-> row.stock, reserved |-> row.reserved - q,
                              committed |-> row.committed + q]
    BY <1>1, <1>3 DEF Effect, Row
  <2>2. (row.reserved - q) + (row.committed + q) <= row.stock
    BY <1>1 DEF Sound
  <2>3. QED
    BY <2>1, <2>2 DEF Sound
<1>4. CASE op = "release"
  BY <1>1, <1>4 DEF Effect, Ready, Sound, Row
<1>5. CASE op = "reverse"
  BY <1>1, <1>5 DEF Effect, Ready, Sound, Row
<1>6. QED
  BY <1>2, <1>3, <1>4, <1>5 DEF OrderOps

\* An order's lines are lines wherever it is assigned.
LEMMA LinesAtType ==
    ASSUME NEW o \in Orders, NEW w \in Assignments
    PROVE  LinesAt(o, w) \in Lines
BY DemandAssumption DEF LinesAt, Lines, Keys

\* A plan is a sequence of operations.
LEMMA PlanType ==
    ASSUME NEW rec \in Record, NEW target \in Targets, NEW lines, NEW allow \in BOOLEAN
    PROVE  Plan(rec, target, lines, allow) \in Seq(OrderOps)
<1>1. <<>> \in Seq(OrderOps)
  OBVIOUS
<1>2. \A x \in OrderOps : <<x>> \in Seq(OrderOps)
  OBVIOUS
<1>3. \A x, y \in OrderOps : <<x, y>> \in Seq(OrderOps)
  OBVIOUS
<1>4. \A x, y, z \in OrderOps : <<x, y, z>> \in Seq(OrderOps)
  OBVIOUS
<1>5. {"reserve", "confirm", "release", "reverse"} \subseteq OrderOps
  BY DEF OrderOps
<1>6. FirstPlan(target) \in Seq(OrderOps)
  BY <1>1, <1>2, <1>3, <1>5, Zenon DEF FirstPlan
<1>7. MovePlan(rec.state) \in Seq(OrderOps)
  BY <1>1, <1>3, <1>4, <1>5, Zenon DEF MovePlan
<1>8. StepPlan(rec.state, target) \in Seq(OrderOps)
  BY <1>1, <1>2, <1>5, Zenon DEF StepPlan
<1>9. CASE rec.state = "none"
  BY <1>6, <1>9 DEF Plan
<1>10. CASE rec.state # "none" /\ rec.lines = lines
  BY <1>8, <1>10 DEF Plan
<1>11. CASE rec.state # "none" /\ rec.lines # lines
  BY <1>7, <1>1, <1>11 DEF Plan
<1>12. QED
  BY <1>9, <1>10, <1>11

\* A call in flight has an order, a target, an operation to run and lines.
LEMMA CallParts ==
    ASSUME TypeOK, NEW c \in Calls, call[c].phase # "idle"
    PROVE  /\ call[c].order \in Orders
           /\ call[c].target \in Targets
           /\ call[c].ops \in Work
           /\ call[c].old \in Lines
           /\ call[c].new \in Lines
           /\ Op(c) \in OrderOps
           /\ Tail(call[c].ops) \in Seq(OrderOps)
           /\ OpLines(c) \in Lines
           /\ \A b \in Keys : OpLines(c)[b] \in Nat
<1>1. call[c] \in Resolving \cup Writing
  BY DEF TypeOK, Idle
<1>2. /\ call[c].order \in Orders
      /\ call[c].target \in Targets
      /\ call[c].ops \in Work
      /\ call[c].old \in Lines
      /\ call[c].new \in Lines
  BY <1>1 DEF Resolving, Writing
<1>3. Op(c) \in OrderOps /\ Tail(call[c].ops) \in Seq(OrderOps)
  BY <1>2 DEF Op, Work
<1>4. OpLines(c) \in Lines
  BY <1>2 DEF OpLines
<1>5. \A b \in Keys : OpLines(c)[b] \in Nat
  BY <1>4 DEF Lines
<1>6. QED
  BY <1>2, <1>3, <1>4, <1>5

\* What the operation of a call makes of the balances it may change.
LEMMA AppliedRows ==
    ASSUME TypeOK, NEW c \in Calls, call[c].phase # "idle",
           NEW keys \in SUBSET Keys, \A b \in keys : CanApply(c, b)
    PROVE  /\ ApplyTo(c, keys) \in [Keys -> Row]
           /\ (\A b \in Keys : Sound(balance[b]))
                => \A b \in Keys : Sound(ApplyTo(c, keys)[b])
<1>1. Op(c) \in OrderOps /\ \A b \in Keys : OpLines(c)[b] \in Nat
  BY CallParts
<1>2. \A b \in Keys : balance[b] \in Row
  BY DEF TypeOK
<1>3. \A b \in keys : Effect(Op(c), balance[b], OpLines(c)[b]) \in Row
  BY <1>1, <1>2, EffectType DEF CanApply
<1>4. \A b \in keys : Sound(balance[b]) => Sound(Effect(Op(c), balance[b], OpLines(c)[b]))
  BY <1>1, <1>2, EffectSound DEF CanApply
<1>5. QED
  BY <1>2, <1>3, <1>4 DEF ApplyTo

----------------------------------------------------------------------------
LEMMA TypeInit == Init => TypeOK
<1> SUFFICES ASSUME Init PROVE TypeOK
  OBVIOUS
<1>1. balance \in [Keys -> Row] /\ db \in [Keys -> Row]
  BY StockAssumption DEF Init, Row
<1>2. reservation \in [Orders -> Record]
  BY DEF Init, Record, NoLines, Lines
<1>3. QED
  BY <1>1, <1>2 DEF Init, TypeOK

LEMMA TypeSyncOrder ==
    ASSUME TypeOK, NEW c \in Calls, NEW o \in Orders, NEW target \in Targets,
           NEW w \in Assignments, NEW allow \in BOOLEAN, SyncOrder(c, o, target, w, allow)
    PROVE  TypeOK'
<1> DEFINE rec  == reservation[o]
           plan == Plan(rec, target, LinesAt(o, w), allow)
<1>1. rec \in Record /\ LinesAt(o, w) \in Lines
  BY LinesAtType DEF TypeOK
<1>2. plan \in Work
  BY <1>1, PlanType DEF SyncOrder, Work
<1>3. rec.lines \in Lines
  BY <1>1 DEF Record
<1>4. [phase |-> "resolving", order |-> o, target |-> target, ops |-> plan,
       old |-> rec.lines, new |-> LinesAt(o, w)] \in Resolving
  BY <1>1, <1>2, <1>3 DEF Resolving
<1>5. call' \in [Calls -> {Idle} \cup Resolving \cup Writing]
  BY <1>4 DEF SyncOrder, TypeOK
<1>6. QED
  BY <1>5 DEF SyncOrder, TypeOK

LEMMA TypeMutate ==
    ASSUME TypeOK, NEW c \in Calls, Mutate(c)
    PROVE  TypeOK'
<1>1. OpKeys(c) \in SUBSET Keys
  BY DEF OpKeys, LineKeys
<1>2. balance' \in [Keys -> Row]
  BY <1>1, AppliedRows DEF Mutate
<1>3. PICK b \in OpKeys(c) :
        call' = [call EXCEPT ![c] =
           [phase |-> "writing", order |-> @.order, target |-> @.target, ops |-> @.ops,
            old |-> @.old, new |-> @.new,
            key |-> b, left |-> OpKeys(c) \ {b}, row |-> balance'[b]]]
  BY DEF Mutate
<1>4. [phase |-> "writing", order |-> call[c].order, target |-> call[c].target,
       ops |-> call[c].ops, old |-> call[c].old, new |-> call[c].new,
       key |-> b, left |-> OpKeys(c) \ {b}, row |-> balance'[b]] \in Writing
  BY <1>1, <1>2, CallParts DEF Mutate, Writing
<1>5. call' \in [Calls -> {Idle} \cup Resolving \cup Writing]
  BY <1>3, <1>4 DEF TypeOK
<1>6. QED
  BY <1>2, <1>5 DEF Mutate, TypeOK

LEMMA TypeThrow ==
    ASSUME TypeOK, NEW c \in Calls, Throw(c)
    PROVE  TypeOK'
<1>1. PICK done \in SUBSET {b \in OpKeys(c) : CanApply(c, b)} : balance' = ApplyTo(c, done)
  BY DEF Throw
<1>2. done \in SUBSET Keys /\ \A b \in done : CanApply(c, b)
  BY DEF OpKeys, LineKeys
<1>3. balance' \in [Keys -> Row]
  BY <1>1, <1>2, AppliedRows DEF Throw
<1>4. call' \in [Calls -> {Idle} \cup Resolving \cup Writing]
  BY DEF Throw, TypeOK
<1>5. QED
  BY <1>3, <1>4 DEF Throw, TypeOK

\* A call that is writing has a row, a key and the keys left.
LEMMA WritingParts ==
    ASSUME TypeOK, NEW c \in Calls, call[c].phase = "writing"
    PROVE  call[c] \in Writing
BY DEF TypeOK, Idle, Resolving

LEMMA TypeUpsertNext ==
    ASSUME TypeOK, NEW c \in Calls, UpsertNext(c)
    PROVE  TypeOK'
<1>1. call[c] \in Writing
  BY WritingParts DEF UpsertNext
<1>2. db' \in [Keys -> Row]
  BY <1>1 DEF UpsertNext, TypeOK, Writing
<1>3. PICK b \in call[c].left :
        call' = [call EXCEPT ![c].key = b, ![c].row = balance[b], ![c].left = @ \ {b}]
  BY DEF UpsertNext
<1>4. b \in Keys /\ balance[b] \in Row
  BY <1>1 DEF Writing, TypeOK
<1>5. [call[c] EXCEPT !.key = b, !.row = balance[b], !.left = @ \ {b}] \in Writing
  BY <1>1, <1>4 DEF Writing
<1>6. call' = [call EXCEPT ![c] =
                 [call[c] EXCEPT !.key = b, !.row = balance[b], !.left = @ \ {b}]]
  BY <1>1, <1>3 DEF Writing
<1>7. call' \in [Calls -> {Idle} \cup Resolving \cup Writing]
  BY <1>5, <1>6 DEF TypeOK
<1>8. QED
  BY <1>2, <1>7 DEF UpsertNext, TypeOK

LEMMA TypeUpsertLast ==
    ASSUME TypeOK, NEW c \in Calls, UpsertLast(c)
    PROVE  TypeOK'
<1>1. call[c] \in Writing
  BY WritingParts DEF UpsertLast
<1>2. db' \in [Keys -> Row]
  BY <1>1 DEF UpsertLast, TypeOK, Writing
<1>3. call[c].phase # "idle"
  BY DEF UpsertLast
<1>4. [state |-> StateAfter(Op(c)), lines |-> OpLines(c)] \in Record
  BY <1>3, CallParts DEF StateAfter, OrderOps, Record, Targets
<1>5. reservation' \in [Orders -> Record]
  BY <1>4 DEF UpsertLast, TypeOK
<1>6. CASE Tail(call[c].ops) = <<>>
  BY <1>2, <1>5, <1>6 DEF UpsertLast, TypeOK
<1>7. CASE Tail(call[c].ops) # <<>>
  <2> DEFINE next == [phase |-> "resolving", order |-> call[c].order,
                      target |-> call[c].target, ops |-> Tail(call[c].ops),
                      old |-> call[c].old, new |-> call[c].new]
  <2>1. Tail(call[c].ops) \in Work
    BY <1>3, <1>7, CallParts DEF Work
  <2>2. next \in Resolving
    BY <1>3, <2>1, CallParts DEF Resolving
  <2>3. call' = [call EXCEPT ![c] = next]
    BY <1>7 DEF UpsertLast
  <2>4. call' \in [Calls -> {Idle} \cup Resolving \cup Writing]
    BY <2>2, <2>3 DEF TypeOK
  <2>5. QED
    BY <1>2, <1>5, <2>4 DEF UpsertLast, TypeOK
<1>8. QED
  BY <1>6, <1>7

LEMMA TypeAdjust ==
    ASSUME TypeOK, NEW b \in Keys, Adjust(b)
    PROVE  TypeOK'
<1>1. db[b] \in Row
  BY DEF TypeOK
<1>2. PICK stock \in {db[b].stock + n : n \in Increases} \cup SetLevels :
        db' = [db EXCEPT ![b].stock = stock]
  BY DEF Adjust
<1>3. stock \in Nat
  <2>1. db[b].stock \in Nat
    BY <1>1 DEF Row
  <2>2. CASE stock \in SetLevels
    BY <2>2, AdjustAssumption
  <2>3. CASE \E n \in Increases : stock = db[b].stock + n
    BY <2>1, <2>3, AdjustAssumption
  <2>4. QED
    BY <2>2, <2>3
<1>4. [db[b] EXCEPT !.stock = stock] \in Row
  BY <1>1, <1>3 DEF Row
<1>5. db' \in [Keys -> Row] /\ db'[b] \in Row
  BY <1>2, <1>4 DEF TypeOK
<1>6. adjustment' \in Applying
  BY <1>5 DEF Adjust, Applying
<1>7. QED
  BY <1>5, <1>6 DEF Adjust, TypeOK

LEMMA TypeApplyAdjustment ==
    ASSUME TypeOK, ApplyAdjustment
    PROVE  TypeOK'
<1>1. adjustment \in Applying
  BY DEF TypeOK, ApplyAdjustment, NoAdjustment
<1>2. QED
  BY <1>1 DEF ApplyAdjustment, TypeOK, Applying

\* Every step keeps the types, whatever the calls in flight.
LEMMA TypeStep == TypeOK /\ [Next]_vars => TypeOK'
<1> SUFFICES ASSUME TypeOK, [Next]_vars PROVE TypeOK'
  OBVIOUS
<1>1. ASSUME NEW c \in Calls, NEW o \in Orders, NEW target \in Targets,
             NEW w \in Assignments, NEW allow \in BOOLEAN, SyncOrder(c, o, target, w, allow)
      PROVE  TypeOK'
  BY <1>1, TypeSyncOrder
<1>2. ASSUME NEW o \in Orders, SyncWithoutEffect(o)
      PROVE  TypeOK'
  BY <1>2 DEF SyncWithoutEffect, TypeOK, vars
<1>3. ASSUME NEW c \in Calls, Continue(c)
      PROVE  TypeOK'
  BY <1>3, TypeMutate, TypeThrow, TypeUpsertNext, TypeUpsertLast DEF Continue
<1>4. ASSUME NEW b \in Keys, Adjust(b)
      PROVE  TypeOK'
  BY <1>4, TypeAdjust
<1>5. CASE ApplyAdjustment
  BY <1>5, TypeApplyAdjustment
<1>6. CASE UNCHANGED vars
  BY <1>6 DEF vars, TypeOK
<1>7. QED
  BY <1>1, <1>2, <1>3, <1>4, <1>5, <1>6 DEF Next, Request

\* The counters are natural numbers in memory, in PostgreSQL and in flight:
\* confirmLines, releaseLines and reverseLines never take a counter below zero.
THEOREM TypeCorrect == Spec => []TypeOK
<1>1. QED
  BY TypeInit, TypeStep, PTL DEF Spec

----------------------------------------------------------------------------
\* NoOversell is not inductive alone: an upsert carries a row read earlier, an
\* adjustment brings a row of PostgreSQL back to memory.  RowsSound says that
\* every such row is sound.

LEMMA RowsSoundInit == Init => RowsSound
<1> SUFFICES ASSUME Init PROVE RowsSound
  OBVIOUS
<1>1. \A b \in Keys : InitialStock[b] \in Nat
  BY StockAssumption
<1>2. \A b \in Keys : Sound(balance[b]) /\ Sound(db[b])
  BY <1>1 DEF Init, Sound
<1>3. QED
  BY <1>2 DEF Init, RowsSound, Idle, NoAdjustment

LEMMA RowsSoundMutate ==
    ASSUME TypeOK, RowsSound, NEW c \in Calls, Mutate(c)
    PROVE  RowsSound'
<1>1. OpKeys(c) \in SUBSET Keys
  BY DEF OpKeys, LineKeys
<1>2. \A b \in Keys : Sound(balance'[b])
  BY <1>1, AppliedRows DEF Mutate, RowsSound
<1>3. PICK b \in OpKeys(c) :
        call' = [call EXCEPT ![c] =
           [phase |-> "writing", order |-> @.order, target |-> @.target, ops |-> @.ops,
            old |-> @.old, new |-> @.new,
            key |-> b, left |-> OpKeys(c) \ {b}, row |-> balance'[b]]]
  BY DEF Mutate
<1>4. Sound(balance'[b])
  BY <1>1, <1>2
<1>5. \A d \in Calls : call'[d].phase = "writing" => Sound(call'[d].row)
  BY <1>3, <1>4 DEF TypeOK, RowsSound
<1>6. QED
  BY <1>2, <1>5 DEF Mutate, RowsSound, Sound

LEMMA RowsSoundThrow ==
    ASSUME TypeOK, RowsSound, NEW c \in Calls, Throw(c)
    PROVE  RowsSound'
<1>1. PICK done \in SUBSET {b \in OpKeys(c) : CanApply(c, b)} : balance' = ApplyTo(c, done)
  BY DEF Throw
<1>2. done \in SUBSET Keys /\ \A b \in done : CanApply(c, b)
  BY DEF OpKeys, LineKeys
<1>3. \A b \in Keys : Sound(balance'[b])
  BY <1>1, <1>2, AppliedRows DEF Throw, RowsSound
<1>4. \A d \in Calls : call'[d].phase = "writing" => Sound(call'[d].row)
  BY DEF Throw, TypeOK, RowsSound, Idle
<1>5. QED
  BY <1>3, <1>4 DEF Throw, RowsSound, Sound

LEMMA RowsSoundUpserts ==
    ASSUME TypeOK, RowsSound, NEW c \in Calls, UpsertNext(c) \/ UpsertLast(c)
    PROVE  RowsSound'
<1>1. call[c] \in Writing /\ Sound(call[c].row)
  BY WritingParts DEF UpsertNext, UpsertLast, RowsSound
<1>2. \A b \in Keys : Sound(balance'[b])
  BY DEF UpsertNext, UpsertLast, RowsSound
<1>3. \A b \in Keys : Sound(db'[b])
  BY <1>1 DEF UpsertNext, UpsertLast, RowsSound, TypeOK
<1>4. \A d \in Calls : call'[d].phase = "writing" => Sound(call'[d].row)
  <2>1. CASE UpsertNext(c)
    <3>1. PICK b \in call[c].left :
            call' = [call EXCEPT ![c].key = b, ![c].row = balance[b], ![c].left = @ \ {b}]
      BY <2>1 DEF UpsertNext
    <3>2. b \in Keys
      BY <1>1 DEF Writing
    <3>3. call'[c].row = balance[b]
      BY <1>1, <3>1 DEF TypeOK, Writing
    <3>4. \A d \in Calls \ {c} : call'[d] = call[d]
      BY <3>1 DEF TypeOK
    <3>5. QED
      BY <3>2, <3>3, <3>4 DEF RowsSound
  <2>2. CASE UpsertLast(c)
    <3>1. call'[c].phase # "writing"
      BY <2>2 DEF UpsertLast, TypeOK, Idle
    <3>2. \A d \in Calls \ {c} : call'[d] = call[d]
      BY <2>2 DEF UpsertLast, TypeOK
    <3>3. QED
      BY <3>1, <3>2 DEF RowsSound
  <2>3. QED
    BY <2>1, <2>2
<1>5. QED
  BY <1>2, <1>3, <1>4 DEF UpsertNext, UpsertLast, RowsSound

\* Only an increase: a level set below the promised units is oversold at once.
LEMMA RowsSoundAdjust ==
    ASSUME SetLevels = {}, TypeOK, RowsSound, NEW b \in Keys, Adjust(b)
    PROVE  RowsSound'
<1>1. PICK n \in Increases : db' = [db EXCEPT ![b].stock = db[b].stock + n]
  BY DEF Adjust
<1>2. n \in Nat /\ db[b] \in Row /\ Sound(db[b])
  BY AdjustAssumption DEF TypeOK, RowsSound
<1>3. Sound([db[b] EXCEPT !.stock = db[b].stock + n])
  BY <1>2 DEF Sound, Row
<1>4. db'[b] = [db[b] EXCEPT !.stock = db[b].stock + n]
  BY <1>1 DEF TypeOK
<1>5. Sound(db'[b]) /\ \A k \in Keys \ {b} : db'[k] = db[k]
  BY <1>1, <1>3, <1>4 DEF TypeOK
<1>6. \A k \in Keys : Sound(balance'[k]) /\ Sound(db'[k])
  BY <1>5 DEF Adjust, RowsSound
<1>7. adjustment'.phase = "applying" => Sound(adjustment'.row)
  BY <1>5 DEF Adjust
<1>8. QED
  BY <1>6, <1>7 DEF Adjust, RowsSound

LEMMA RowsSoundStep ==
    ASSUME SetLevels = {}, TypeOK, RowsSound, [Next]_vars
    PROVE  RowsSound'
<1>1. ASSUME NEW c \in Calls, NEW o \in Orders, NEW target \in Targets,
             NEW w \in Assignments, NEW allow \in BOOLEAN, SyncOrder(c, o, target, w, allow)
      PROVE  RowsSound'
  <2>1. call'[c].phase = "resolving" /\ \A d \in Calls \ {c} : call'[d] = call[d]
    BY <1>1 DEF SyncOrder, TypeOK
  <2>2. QED
    BY <1>1, <2>1 DEF SyncOrder, RowsSound
<1>2. ASSUME NEW o \in Orders, SyncWithoutEffect(o)
      PROVE  RowsSound'
  BY <1>2 DEF SyncWithoutEffect, RowsSound, vars
<1>3. ASSUME NEW c \in Calls, Continue(c)
      PROVE  RowsSound'
  BY <1>3, RowsSoundMutate, RowsSoundThrow, RowsSoundUpserts DEF Continue
<1>4. ASSUME NEW b \in Keys, Adjust(b)
      PROVE  RowsSound'
  BY <1>4, RowsSoundAdjust
<1>5. CASE ApplyAdjustment
  <2>1. adjustment.key \in Keys /\ Sound(adjustment.row)
    BY <1>5 DEF ApplyAdjustment, RowsSound, TypeOK, NoAdjustment, Applying
  <2>2. \A b \in Keys : Sound(balance'[b])
    BY <1>5, <2>1 DEF ApplyAdjustment, RowsSound, TypeOK
  <2>3. QED
    BY <1>5, <2>2 DEF ApplyAdjustment, RowsSound, NoAdjustment
<1>6. CASE UNCHANGED vars
  BY <1>6 DEF vars, RowsSound
<1>7. QED
  BY <1>1, <1>2, <1>3, <1>4, <1>5, <1>6 DEF Next, Request

\* No interleaving of syncs, of one order or of many, promises units a balance
\* has not, in a warehouse whose stock only increases.
THEOREM NeverOversold ==
    ASSUME SetLevels = {}
    PROVE  Spec => []NoOversell
<1>1. Init => TypeOK /\ RowsSound
  BY TypeInit, RowsSoundInit
<1>2. (TypeOK /\ RowsSound) /\ [Next]_vars => (TypeOK /\ RowsSound)'
  BY TypeStep, RowsSoundStep
<1>3. TypeOK /\ RowsSound => NoOversell
  BY DEF RowsSound, NoOversell, Sound
<1>4. QED
  BY <1>1, <1>2, <1>3, PTL DEF Spec

----------------------------------------------------------------------------
\* From here on, the calls for one order do not overlap and nobody adjusts the
\* stock: with an overlap two calls may both release what the order holds once,
\* and an adjustment brings back counters of another moment.
Serial == Overlap = FALSE /\ Increases = {} /\ SetLevels = {}

\* The units held of a balance, one token each, of any assignment h of records
\* to orders, and how many of them are one order's.
Tokens(h, b, s) ==
    UNION {{o} \X (1 .. h[o].lines[b]) : o \in {x \in Orders : h[x].state = s}}
Share(rec, b, s) == IF rec.state = s THEN rec.lines[b] ELSE 0
OthersTokens(h, o, b, s) ==
    UNION {{x} \X (1 .. h[x].lines[b]) : x \in {y \in Orders \ {o} : h[y].state = s}}

\* An order's tokens for n units are n.
LEMMA TokenCount ==
    ASSUME NEW o, NEW n \in Nat
    PROVE  IsFiniteSet({o} \X (1 .. n)) /\ Cardinality({o} \X (1 .. n)) = n
<1>. DEFINE f == [i \in 1 .. n |-> <<o, i>>]
<1>1. IsFiniteSet(1 .. n) /\ Cardinality(1 .. n) = n
  BY FS_Interval
<1>2. f \in [1 .. n -> {o} \X (1 .. n)]
  OBVIOUS
<1>3. ASSUME NEW t \in {o} \X (1 .. n) PROVE \E i \in 1 .. n : f[i] = t
  <2>1. t[2] \in 1 .. n /\ t = <<o, t[2]>>
    OBVIOUS
  <2>. QED BY <2>1
<1>4. f \in Surjection(1 .. n, {o} \X (1 .. n))
  BY <1>2, <1>3 DEF Surjection
<1>5. f \in Injection(1 .. n, {o} \X (1 .. n))
  BY <1>2 DEF Injection, IsInjective
<1>. QED BY <1>1, <1>4, <1>5, FS_Surjection

\* The tokens of one order and those of the others are apart.
LEMMA TokensSplit ==
    ASSUME NEW h \in [Orders -> Record], NEW o \in Orders, NEW b \in Keys, NEW s
    PROVE  /\ Tokens(h, b, s) = OthersTokens(h, o, b, s) \cup ({o} \X (1 .. Share(h[o], b, s)))
           /\ OthersTokens(h, o, b, s) \cap ({o} \X (1 .. Share(h[o], b, s))) = {}
<1>1. ASSUME NEW x \in Orders
      PROVE  h[x].state = s => h[x].lines[b] = Share(h[x], b, s)
  BY DEF Share
<1>2. h[o].state # s => 1 .. Share(h[o], b, s) = {}
  BY DEF Share
<1>3. ASSUME NEW t \in Tokens(h, b, s)
      PROVE  t \in OthersTokens(h, o, b, s) \cup ({o} \X (1 .. Share(h[o], b, s)))
  <2>1. PICK x \in Orders : h[x].state = s /\ t \in {x} \X (1 .. h[x].lines[b])
    BY <1>3 DEF Tokens
  <2>2. CASE x = o
    BY <1>1, <2>1, <2>2
  <2>3. CASE x # o
    BY <2>1, <2>3 DEF OthersTokens
  <2>. QED BY <2>2, <2>3
<1>4. OthersTokens(h, o, b, s) \subseteq Tokens(h, b, s)
  BY DEF OthersTokens, Tokens
<1>5. {o} \X (1 .. Share(h[o], b, s)) \subseteq Tokens(h, b, s)
  <2>1. CASE h[o].state = s
    BY <1>1, <2>1 DEF Tokens
  <2>2. CASE h[o].state # s
    BY <1>2, <2>2
  <2>. QED BY <2>1, <2>2
<1>6. OthersTokens(h, o, b, s) \cap ({o} \X (1 .. Share(h[o], b, s))) = {}
  BY DEF OthersTokens
<1>. QED BY <1>3, <1>4, <1>5, <1>6

\* When one order's record changes, the count changes by its share.
LEMMA TokensChange ==
    ASSUME NEW h \in [Orders -> Record], NEW g \in [Orders -> Record], NEW o \in Orders,
           \A x \in Orders \ {o} : g[x] = h[x],
           NEW b \in Keys, NEW s, IsFiniteSet(Tokens(h, b, s))
    PROVE  /\ IsFiniteSet(Tokens(g, b, s))
           /\ Cardinality(Tokens(h, b, s)) \in Nat
           /\ Share(h[o], b, s) \in Nat /\ Share(g[o], b, s) \in Nat
           /\ Share(h[o], b, s) <= Cardinality(Tokens(h, b, s))
           /\ Cardinality(Tokens(g, b, s)) + Share(h[o], b, s)
                = Cardinality(Tokens(h, b, s)) + Share(g[o], b, s)
<1>. DEFINE others == OthersTokens(h, o, b, s)
            own(rec) == {o} \X (1 .. Share(rec, b, s))
<1>1. Share(h[o], b, s) \in Nat /\ Share(g[o], b, s) \in Nat
  BY DEF Share, Record, Lines
<1>3. OthersTokens(g, o, b, s) = others
  BY DEF OthersTokens
<1>4. Tokens(h, b, s) = others \cup own(h[o]) /\ others \cap own(h[o]) = {}
  BY TokensSplit
<1>5. Tokens(g, b, s) = others \cup own(g[o]) /\ others \cap own(g[o]) = {}
  <2>1. /\ Tokens(g, b, s) = OthersTokens(g, o, b, s) \cup ({o} \X (1 .. Share(g[o], b, s)))
        /\ OthersTokens(g, o, b, s) \cap ({o} \X (1 .. Share(g[o], b, s))) = {}
    BY TokensSplit
  <2>. QED BY <1>3, <2>1, Zenon
<1>6. IsFiniteSet(own(h[o])) /\ Cardinality(own(h[o])) = Share(h[o], b, s)
  BY <1>1, TokenCount
<1>7. IsFiniteSet(own(g[o])) /\ Cardinality(own(g[o])) = Share(g[o], b, s)
  BY <1>1, TokenCount
<1>8. IsFiniteSet(others)
  BY <1>4, FS_Subset
<1>. HIDE DEF others, own
<1>9. Cardinality(others) \in Nat /\ Cardinality({}) = 0
  BY <1>8, FS_CardinalityType, FS_EmptySet
<1>10. Cardinality(Tokens(h, b, s)) = Cardinality(others) + Share(h[o], b, s)
  <2>1. Cardinality(others \cup own(h[o]))
          = Cardinality(others) + Cardinality(own(h[o])) - Cardinality(others \cap own(h[o]))
    BY <1>6, <1>8, FS_Union, Zenon
  <2>2. Cardinality(others \cap own(h[o])) = 0
    BY <1>4, <1>9
  <2>3. Cardinality(others \cup own(h[o])) = Cardinality(Tokens(h, b, s))
    BY <1>4
  <2>. QED BY <1>1, <1>6, <1>9, <2>1, <2>2, <2>3
<1>11. /\ IsFiniteSet(Tokens(g, b, s))
       /\ Cardinality(Tokens(g, b, s)) = Cardinality(others) + Share(g[o], b, s)
  <2>1. /\ IsFiniteSet(others \cup own(g[o]))
        /\ Cardinality(others \cup own(g[o]))
             = Cardinality(others) + Cardinality(own(g[o])) - Cardinality(others \cap own(g[o]))
    BY <1>7, <1>8, FS_Union, Zenon
  <2>2. Cardinality(others \cap own(g[o])) = 0
    BY <1>5, <1>9
  <2>3. Tokens(g, b, s) = others \cup own(g[o])
    BY <1>5
  <2>4. IsFiniteSet(Tokens(g, b, s))
    BY <2>1, <2>3
  <2>5. Cardinality(Tokens(g, b, s)) = Cardinality(others \cup own(g[o]))
    BY <2>3
  <2>. QED BY <1>1, <1>7, <1>9, <2>1, <2>2, <2>4, <2>5
<1>. QED BY <1>1, <1>9, <1>10, <1>11

----------------------------------------------------------------------------
\* The operations a call has to run, at every point of every plan.
Plans == {<<"reserve">>, <<"reserve", "confirm">>, <<"confirm">>,
          <<"release">>, <<"release", "reserve">>,
          <<"reverse">>, <<"reverse", "reserve", "confirm">>}
Wants(ops) == \E i \in 1 .. Len(ops) : ops[i] = "reserve"

OnePerOrder ==
    \A c, d \in Calls :
        call[c].phase # "idle" /\ call[d].phase # "idle" /\ call[c].order = call[d].order
            => c = d

\* The record is in the state the next operation of the call starts from: no
\* other call has moved it since the plan was made.
OnCourse(c) ==
    LET r == reservation[call[c].order]
    IN  /\ call[c].ops \in Plans
        /\ call[c].new \in RequestsOf[call[c].order]
        /\ Op(c) = "reserve" => r.state \in {"none", "released"}
        /\ Op(c) = "confirm" => r.state = "reserved" /\ r.lines = call[c].new
        /\ Op(c) = "release" => r.state = "reserved" /\ r.lines = call[c].old
        /\ Op(c) = "reverse" => r.state = "confirmed" /\ r.lines = call[c].old

Course ==
    /\ OnePerOrder
    /\ \A c \in Calls : call[c].phase # "idle" => OnCourse(c)
    /\ adjustment = NoAdjustment
    /\ \A b \in Keys : balance[b].stock = InitialStock[b]

\* What is left of a plan after its first operation, and whether units are
\* still to be reserved.
LEMMA PlanParts ==
    ASSUME NEW ops \in Plans
    PROVE  /\ Head(ops) \in OrderOps
           /\ Tail(ops) # <<>> => Tail(ops) \in Plans
           /\ Head(ops) = "confirm" => Tail(ops) = <<>>
           /\ Head(ops) = "reserve" => Wants(ops)
           /\ Head(ops) = "reserve" /\ Tail(ops) # <<>> => Head(Tail(ops)) = "confirm"
           /\ Head(ops) \in {"release", "reverse"} /\ Tail(ops) # <<>>
                => Head(Tail(ops)) = "reserve"
           /\ Head(ops) \in {"release", "reverse"} => (Wants(ops) <=> Tail(ops) # <<>>)
<1>. DEFINE P(x) == /\ Head(x) \in OrderOps
                    /\ Tail(x) # <<>> => Tail(x) \in Plans
                    /\ Head(x) = "confirm" => Tail(x) = <<>>
                    /\ Head(x) = "reserve" => Wants(x)
                    /\ Head(x) = "reserve" /\ Tail(x) # <<>> => Head(Tail(x)) = "confirm"
                    /\ Head(x) \in {"release", "reverse"} /\ Tail(x) # <<>>
                         => Head(Tail(x)) = "reserve"
                    /\ Head(x) \in {"release", "reverse"} => (Wants(x) <=> Tail(x) # <<>>)
<1>1. Tail(<<"reserve">>) = <<>> /\ Tail(<<"confirm">>) = <<>> /\ Tail(<<"release">>) = <<>>
      /\ Tail(<<"reverse">>) = <<>>
  OBVIOUS
<1>2. Tail(<<"reserve", "confirm">>) = <<"confirm">> /\ Tail(<<"release", "reserve">>) = <<"reserve">>
  OBVIOUS
<1>3. Tail(<<"reverse", "reserve", "confirm">>) = <<"reserve", "confirm">>
  OBVIOUS
<1>4. P(<<"reserve">>) /\ P(<<"confirm">>) /\ P(<<"release">>) /\ P(<<"reverse">>)
  BY <1>1 DEF Wants, OrderOps, Plans
<1>5. P(<<"reserve", "confirm">>) /\ P(<<"release", "reserve">>)
  BY <1>2 DEF Wants, OrderOps, Plans
<1>6. P(<<"reverse", "reserve", "confirm">>)
  BY <1>3 DEF Wants, OrderOps, Plans
<1>. HIDE DEF P
<1>7. P(ops)
  BY <1>4, <1>5, <1>6 DEF Plans
<1>. QED BY <1>7 DEF P

\* A plan is one of them, and starts from the state the record is in.
LEMMA PlanStarts ==
    ASSUME NEW rec \in Record, NEW target \in Targets, NEW lines, NEW allow \in BOOLEAN,
           NEW ops, ops = Plan(rec, target, lines, allow), ops # <<>>
    PROVE  /\ ops \in Plans
           /\ rec.state # "released"
           /\ Head(ops) = "reserve" => rec.state = "none"
           /\ Head(ops) = "confirm" => rec.state = "reserved" /\ rec.lines = lines
           /\ Head(ops) = "release" => rec.state = "reserved"
           /\ Head(ops) = "reverse" => rec.state = "confirmed"
<1>1. CASE rec.state = "none"
  <2>1. ops = FirstPlan(target)
    BY <1>1 DEF Plan
  <2>2. ops \in {<<"reserve">>, <<"reserve", "confirm">>}
    BY <2>1, Zenon DEF FirstPlan
  <2>3. Head(ops) = "reserve"
    BY <2>2
  <2>. QED BY <1>1, <2>2, <2>3 DEF Plans
<1>2. CASE rec.state # "none" /\ rec.lines = lines
  <2>1. ops = StepPlan(rec.state, target)
    BY <1>2 DEF Plan
  <2>2. \/ rec.state = "reserved" /\ ops = <<"confirm">>
        \/ rec.state = "reserved" /\ ops = <<"release">>
        \/ rec.state = "confirmed" /\ ops = <<"reverse">>
    BY <2>1, Zenon DEF StepPlan
  <2>. QED BY <1>2, <2>2 DEF Plans
<1>3. CASE rec.state # "none" /\ rec.lines # lines
  <2>1. ops = MovePlan(rec.state)
    BY <1>3 DEF Plan
  <2>2. \/ rec.state = "reserved" /\ ops = <<"release", "reserve">>
        \/ rec.state = "confirmed" /\ ops = <<"reverse", "reserve", "confirm">>
    BY <2>1, Zenon DEF MovePlan
  <2>. QED BY <2>2 DEF Plans
<1>. QED BY <1>1, <1>2, <1>3

LEMMA CourseInit == Init => Course
<1> SUFFICES ASSUME Init PROVE Course
  OBVIOUS
<1>1. \A c \in Calls : call[c].phase = "idle"
  BY DEF Init, Idle
<1>2. \A b \in Keys : balance[b].stock = InitialStock[b]
  BY DEF Init
<1>. QED BY <1>1, <1>2 DEF Init, Course, OnePerOrder

\* A step of one call leaves the others on course if it changes no record of
\* theirs.
LEMMA CourseOfOthers ==
    ASSUME TypeOK, Course, NEW c \in Calls, NEW d \in Calls \ {c}, call[d].phase # "idle",
           call'[d] = call[d], reservation'[call[d].order] = reservation[call[d].order]
    PROVE  OnCourse(d)'
BY DEF Course, OnCourse, Op

LEMMA CourseSyncOrder ==
    ASSUME Serial, TypeOK, Course, NEW c \in Calls, NEW o \in Orders, NEW target \in Targets,
           NEW w \in Assignments, NEW allow \in BOOLEAN, SyncOrder(c, o, target, w, allow)
    PROVE  Course'
<1>. DEFINE ops == Plan(reservation[o], target, LinesAt(o, w), allow)
<1>1. /\ call'[c] = [phase |-> "resolving", order |-> o, target |-> target, ops |-> ops,
                     old |-> reservation[o].lines, new |-> LinesAt(o, w)]
      /\ \A d \in Calls \ {c} : call'[d] = call[d]
  BY DEF SyncOrder, TypeOK
<1>2. reservation[o] \in Record /\ ops # <<>>
  BY DEF SyncOrder, TypeOK
<1>3. /\ ops \in Plans
      /\ Head(ops) = "reserve" => reservation[o].state = "none"
      /\ Head(ops) = "confirm" => reservation[o].state = "reserved"
                                  /\ reservation[o].lines = LinesAt(o, w)
      /\ Head(ops) = "release" => reservation[o].state = "reserved"
      /\ Head(ops) = "reverse" => reservation[o].state = "confirmed"
  BY <1>2, PlanStarts
<1>4. LinesAt(o, w) \in RequestsOf[o]
  BY DEF RequestsOf
<1>5. OnCourse(c)'
  <2>. HIDE DEF ops
  <2>. QED BY <1>1, <1>3, <1>4, SMTT(30) DEF OnCourse, Op, SyncOrder, RequestsOf, LinesAt
<1>6. \A d \in Calls \ {c} : call[d].phase # "idle" => call[d].order # o
  BY DEF SyncOrder, InFlight, Serial
<1>7. OnePerOrder'
  BY <1>1, <1>6 DEF Course, OnePerOrder
<1>8. \A d \in Calls \ {c} : call[d].phase # "idle" => OnCourse(d)'
  BY <1>1, CourseOfOthers DEF SyncOrder
<1>. QED BY <1>1, <1>5, <1>7, <1>8 DEF Course, SyncOrder

\* A step that leaves every call's order, plan and lines.
LEMMA SameCourse ==
    ASSUME TypeOK, Course, reservation' = reservation,
           \A d \in Calls : call'[d].phase # "idle" =>
                /\ call[d].phase # "idle"
                /\ call'[d].order = call[d].order /\ call'[d].ops = call[d].ops
                /\ call'[d].old = call[d].old /\ call'[d].new = call[d].new
    PROVE  OnePerOrder' /\ \A d \in Calls : call'[d].phase # "idle" => OnCourse(d)'
<1>1. OnePerOrder'
  BY DEF Course, OnePerOrder
<1>2. ASSUME NEW d \in Calls, call'[d].phase # "idle" PROVE OnCourse(d)'
  BY <1>2 DEF Course, OnCourse, Op
<1>. QED BY <1>1, <1>2

LEMMA EffectKeepsStock ==
    ASSUME NEW op \in OrderOps, NEW row \in Row, NEW q \in Nat
    PROVE  Effect(op, row, q).stock = row.stock
BY DEF Effect, Row, OrderOps

LEMMA ApplyKeepsStock ==
    ASSUME TypeOK, NEW c \in Calls, call[c].phase # "idle", NEW keys
    PROVE  \A b \in Keys : ApplyTo(c, keys)[b].stock = balance[b].stock
<1>1. Op(c) \in OrderOps /\ \A b \in Keys : OpLines(c)[b] \in Nat
  BY CallParts
<1>2. \A b \in Keys : balance[b] \in Row
  BY DEF TypeOK
<1>. QED BY <1>1, <1>2, EffectKeepsStock DEF ApplyTo

LEMMA CourseMutate ==
    ASSUME TypeOK, Course, NEW c \in Calls, Mutate(c)
    PROVE  Course'
<1>1. PICK b \in OpKeys(c) :
        call' = [call EXCEPT ![c] =
           [phase |-> "writing", order |-> @.order, target |-> @.target, ops |-> @.ops,
            old |-> @.old, new |-> @.new,
            key |-> b, left |-> OpKeys(c) \ {b}, row |-> balance'[b]]]
  BY DEF Mutate
<1>2. \A d \in Calls : call'[d].phase # "idle" =>
                /\ call[d].phase # "idle"
                /\ call'[d].order = call[d].order /\ call'[d].ops = call[d].ops
                /\ call'[d].old = call[d].old /\ call'[d].new = call[d].new
  BY <1>1 DEF Mutate, TypeOK
<1>3. \A k \in Keys : balance'[k].stock = InitialStock[k]
  BY ApplyKeepsStock DEF Mutate, Course
<1>. QED BY <1>2, <1>3, SameCourse DEF Mutate, Course

LEMMA CourseThrow ==
    ASSUME TypeOK, Course, NEW c \in Calls, Throw(c)
    PROVE  Course'
<1>1. \A d \in Calls : call'[d].phase # "idle" => call'[d] = call[d]
  BY DEF Throw, TypeOK, Idle
<1>2. \A k \in Keys : balance'[k].stock = InitialStock[k]
  BY ApplyKeepsStock DEF Throw, Course
<1>. QED BY <1>1, <1>2, SameCourse DEF Throw, Course

LEMMA CourseUpsertNext ==
    ASSUME TypeOK, Course, NEW c \in Calls, UpsertNext(c)
    PROVE  Course'
<1>1. PICK b \in call[c].left :
        call' = [call EXCEPT ![c].key = b, ![c].row = balance[b], ![c].left = @ \ {b}]
  BY DEF UpsertNext
<1>2. call[c] \in Writing
  BY WritingParts DEF UpsertNext
<1>3. \A d \in Calls : call'[d].phase # "idle" =>
                /\ call[d].phase # "idle"
                /\ call'[d].order = call[d].order /\ call'[d].ops = call[d].ops
                /\ call'[d].old = call[d].old /\ call'[d].new = call[d].new
  BY <1>1, <1>2 DEF UpsertNext, TypeOK, Writing
<1>. QED BY <1>3, SameCourse DEF UpsertNext, Course

LEMMA CourseUpsertLast ==
    ASSUME TypeOK, Course, NEW c \in Calls, UpsertLast(c)
    PROVE  Course'
<1>. DEFINE o == call[c].order
            ops == call[c].ops
<1>1. call[c] \in Writing /\ call[c].phase # "idle" /\ o \in Orders
  BY WritingParts, CallParts DEF UpsertLast
<1>2. OnCourse(c)
  BY <1>1 DEF Course
<1>3. \A d \in Calls \ {c} : call'[d] = call[d]
  BY DEF UpsertLast, TypeOK
<1>4. \A d \in Calls \ {c} : call[d].phase # "idle" => call[d].order # o
  BY <1>1 DEF Course, OnePerOrder
<1>5. \A x \in Orders \ {o} : reservation'[x] = reservation[x]
  BY DEF UpsertLast, TypeOK
<1>6. reservation'[o] = [state |-> StateAfter(Op(c)), lines |-> OpLines(c)]
  BY <1>1 DEF UpsertLast, TypeOK
<1>7. ASSUME NEW d \in Calls \ {c}, call[d].phase # "idle" PROVE OnCourse(d)'
  <2>1. call[d].order \in Orders
    BY <1>7, CallParts
  <2>. QED BY <1>3, <1>4, <1>5, <1>7, <2>1, CourseOfOthers
<1>8. call'[c].phase # "idle" => call'[c].order = o /\ OnCourse(c)'
  <2>1. CASE Tail(ops) = <<>>
    BY <2>1 DEF UpsertLast, TypeOK, Idle
  <2>2. CASE Tail(ops) # <<>>
    <3>1. call'[c] = [phase |-> "resolving", order |-> o, target |-> call[c].target,
                      ops |-> Tail(ops), old |-> call[c].old, new |-> call[c].new]
      BY <2>2 DEF UpsertLast, TypeOK
    <3>2. /\ Tail(ops) \in Plans
          /\ Op(c) # "confirm"
          /\ Op(c) = "reserve" => Head(Tail(ops)) = "confirm"
          /\ Op(c) \in {"release", "reverse"} => Head(Tail(ops)) = "reserve"
          /\ Op(c) \in OrderOps
      BY <1>2, <2>2, PlanParts DEF OnCourse, Op
    <3>3. /\ Op(c) = "reserve" => reservation'[o] = [state |-> "reserved", lines |-> call[c].new]
          /\ Op(c) \in {"release", "reverse"} => reservation'[o].state = "released"
      BY <1>6 DEF StateAfter, OpLines
    <3>4. call[c].new \in RequestsOf[o]
      BY <1>2 DEF OnCourse
    <3>5. /\ call'[c].order = o /\ call'[c].ops = Tail(ops)
          /\ call'[c].old = call[c].old /\ call'[c].new = call[c].new
      BY <3>1
    <3>6. CASE Op(c) = "reserve"
      <4>1. Head(call'[c].ops) = "confirm" /\ call'[c].ops \in Plans
        BY <3>2, <3>5, <3>6
      <4>2. reservation'[o].state = "reserved" /\ reservation'[o].lines = call'[c].new
        BY <3>3, <3>5, <3>6
      <4>. QED BY <3>4, <3>5, <4>1, <4>2 DEF OnCourse, Op, RequestsOf, LinesAt
    <3>7. CASE Op(c) \in {"release", "reverse"}
      BY <3>2, <3>3, <3>4, <3>5, <3>7 DEF OnCourse, Op, RequestsOf, LinesAt
    <3>. QED BY <3>2, <3>6, <3>7 DEF OrderOps
  <2>. QED BY <2>1, <2>2
<1>9. OnePerOrder'
  BY <1>3, <1>4, <1>8 DEF Course, OnePerOrder
<1>. QED BY <1>3, <1>7, <1>8, <1>9 DEF UpsertLast, Course

LEMMA CourseStep ==
    ASSUME Serial, TypeOK, Course, [Next]_vars
    PROVE  Course'
<1>1. ASSUME NEW c \in Calls, NEW o \in Orders, NEW target \in Targets,
             NEW w \in Assignments, NEW allow \in BOOLEAN, SyncOrder(c, o, target, w, allow)
      PROVE  Course'
  BY <1>1, CourseSyncOrder
<1>2. CASE UNCHANGED vars
  BY <1>2 DEF vars, Course, OnePerOrder, OnCourse, Op
<1>3. ASSUME NEW c \in Calls, Continue(c)
      PROVE  Course'
  BY <1>3, CourseMutate, CourseThrow, CourseUpsertNext, CourseUpsertLast DEF Continue
<1>4. ASSUME NEW b \in Keys, Adjust(b)
      PROVE  FALSE
  BY <1>4 DEF Serial, Adjust
<1>5. ~ApplyAdjustment
  BY DEF Course, ApplyAdjustment, NoAdjustment
<1>. QED BY <1>1, <1>2, <1>3, <1>4, <1>5 DEF Next, Request, SyncWithoutEffect

----------------------------------------------------------------------------
\* What every order holds, and the books that say it twice.  Cardinality says
\* something of finite sets only.
HoldMap == [o \in Orders |-> Hold(o)]
Books ==
    \A b \in Keys :
        /\ IsFiniteSet(Tokens(HoldMap, b, "reserved"))
        /\ IsFiniteSet(Tokens(HoldMap, b, "confirmed"))
        /\ balance[b].reserved = Cardinality(Tokens(HoldMap, b, "reserved"))
        /\ balance[b].committed = Cardinality(Tokens(HoldMap, b, "confirmed"))

LEMMA UnitsAreTokens == \A b, s : UnitsHeld(b, s) = Tokens(HoldMap, b, s)
BY DEF UnitsHeld, Tokens, HoldMap

\* The hold of an order that a call is writing, and of one that none is.
LEMMA HoldUnwritten ==
    ASSUME NEW o \in Orders, Writers(o) = {}
    PROVE  HoldMap[o] = reservation[o]
BY DEF HoldMap, Hold

LEMMA HoldType ==
    ASSUME TypeOK
    PROVE  HoldMap \in [Orders -> Record]
<1>1. ASSUME NEW o \in Orders, NEW c \in Writers(o)
      PROVE  [state |-> StateAfter(Op(c)), lines |-> OpLines(c)] \in Record
  <2>1. c \in Calls /\ call[c].phase # "idle"
    BY DEF Writers
  <2>. QED BY <2>1, CallParts DEF StateAfter, OrderOps, Record, Targets
<1>2. ASSUME NEW o \in Orders
      PROVE  Hold(o) \in Record
  <2>1. CASE Writers(o) = {}
    BY <2>1 DEF Hold, TypeOK
  <2>2. CASE Writers(o) # {}
    <3>1. (CHOOSE c \in Writers(o) : TRUE) \in Writers(o)
      BY <2>2
    <3>. QED BY <1>1, <2>2, <3>1 DEF Hold
  <2>. QED BY <2>1, <2>2
<1>. QED BY <1>2 DEF HoldMap

\* A step with the same writers, of the same lines, and the same records.
LEMMA SameHold ==
    ASSUME NEW o \in Orders, reservation'[o] = reservation[o], Writers(o)' = Writers(o),
           \A d \in Writers(o) : Op(d)' = Op(d) /\ OpLines(d)' = OpLines(d)
    PROVE  Hold(o)' = Hold(o)
<1>1. CASE Writers(o) = {}
  BY <1>1 DEF Hold
<1>2. CASE Writers(o) # {}
  <2>. DEFINE d == CHOOSE d \in Writers(o) : TRUE
  <2>1. d \in Writers(o)
    BY <1>2
  <2>2. Hold(o) = [state |-> StateAfter(Op(d)), lines |-> OpLines(d)]
    BY <1>2 DEF Hold
  <2>3. Hold(o)' = [state |-> StateAfter(Op(d)'), lines |-> OpLines(d)']
    BY <1>2 DEF Hold, StateAfter
  <2>. QED BY <2>1, <2>2, <2>3
<1>. QED BY <1>1, <1>2

\* A step that changes no call but c, which was not writing and is not, and no
\* record.
LEMMA SameHolds ==
    ASSUME TypeOK, NEW c \in Calls, reservation' = reservation,
           \A d \in Calls \ {c} : call'[d] = call[d],
           call[c].phase # "writing", call'[c].phase # "writing"
    PROVE  HoldMap' = HoldMap
<1>1. ASSUME NEW o \in Orders PROVE Hold(o)' = Hold(o)
  <2>1. Writers(o)' = Writers(o)
    BY DEF Writers
  <2>2. \A d \in Writers(o) : call'[d] = call[d]
    BY DEF Writers
  <2>3. \A d \in Writers(o) : Op(d)' = Op(d) /\ OpLines(d)' = OpLines(d)
    BY <2>2 DEF Op, OpLines
  <2>. QED BY <2>1, <2>3, SameHold
<1>. QED BY <1>1 DEF HoldMap

LEMMA HoldsUpsertNext ==
    ASSUME TypeOK, NEW c \in Calls, UpsertNext(c)
    PROVE  HoldMap' = HoldMap
<1>1. PICK b \in call[c].left :
        call' = [call EXCEPT ![c].key = b, ![c].row = balance[b], ![c].left = @ \ {b}]
  BY DEF UpsertNext
<1>2. call[c] \in Writing
  BY WritingParts DEF UpsertNext
<1>3. \A d \in Calls : /\ call'[d].phase = call[d].phase
                       /\ call'[d].order = call[d].order /\ call'[d].ops = call[d].ops
                       /\ call'[d].old = call[d].old /\ call'[d].new = call[d].new
  BY <1>1, <1>2 DEF TypeOK, Writing
<1>4. ASSUME NEW o \in Orders PROVE Hold(o)' = Hold(o)
  <2>1. Writers(o)' = Writers(o)
    BY <1>3 DEF Writers
  <2>2. \A d \in Writers(o) : Op(d)' = Op(d) /\ OpLines(d)' = OpLines(d)
    BY <1>3 DEF Writers, Op, OpLines
  <2>. QED BY <2>1, <2>2, SameHold DEF UpsertNext
<1>. QED BY <1>4 DEF HoldMap

\* The record says at last what the order has held since the balances changed.
LEMMA HoldsUpsertLast ==
    ASSUME TypeOK, Course, NEW c \in Calls, UpsertLast(c)
    PROVE  HoldMap' = HoldMap
<1>1. call[c].phase = "writing"
  BY DEF UpsertLast
<1>. PICK o \in Orders : o = call[c].order
  BY <1>1, CallParts
<1>2. call'[c].phase # "writing" /\ \A d \in Calls \ {c} : call'[d] = call[d]
  BY DEF UpsertLast, TypeOK, Idle
<1>3. Writers(o) = {c} /\ Writers(o)' = {}
  BY <1>1, <1>2 DEF Writers, Course, OnePerOrder
<1>4. Hold(o) = [state |-> StateAfter(Op(c)), lines |-> OpLines(c)]
  <2>1. (CHOOSE d \in Writers(o) : TRUE) = c
    BY <1>3
  <2>. QED BY <1>3, <2>1 DEF Hold
<1>5. Hold(o)' = Hold(o)
  BY <1>1, <1>3, <1>4 DEF Hold, UpsertLast, TypeOK
<1>6. ASSUME NEW x \in Orders \ {o} PROVE Hold(x)' = Hold(x)
  <2>1. Writers(x)' = Writers(x) /\ \A d \in Writers(x) : call'[d] = call[d]
    BY <1>1, <1>2 DEF Writers
  <2>2. \A d \in Writers(x) : Op(d)' = Op(d) /\ OpLines(d)' = OpLines(d)
    BY <2>1 DEF Op, OpLines
  <2>3. reservation'[x] = reservation[x]
    BY DEF UpsertLast, TypeOK
  <2>. QED BY <2>1, <2>2, <2>3, SameHold
<1>. QED BY <1>5, <1>6 DEF HoldMap

\* The check passed and the balances changed: the order holds what the
\* operation gives it, and no other order's hold moves.
LEMMA HoldsMutate ==
    ASSUME TypeOK, Course, NEW c \in Calls, Mutate(c)
    PROVE  /\ HoldMap[call[c].order] = reservation[call[c].order]
           /\ HoldMap' = [HoldMap EXCEPT ![call[c].order] =
                             [state |-> StateAfter(Op(c)), lines |-> OpLines(c)]]
<1>1. call[c].phase = "resolving"
  BY DEF Mutate
<1>. PICK o \in Orders : o = call[c].order
  BY <1>1, CallParts
<1>2. PICK b \in OpKeys(c) :
        call' = [call EXCEPT ![c] =
           [phase |-> "writing", order |-> @.order, target |-> @.target, ops |-> @.ops,
            old |-> @.old, new |-> @.new,
            key |-> b, left |-> OpKeys(c) \ {b}, row |-> balance'[b]]]
  BY DEF Mutate
<1>3. /\ call'[c].phase = "writing" /\ call'[c].order = o /\ call'[c].ops = call[c].ops
      /\ call'[c].old = call[c].old /\ call'[c].new = call[c].new
      /\ \A d \in Calls \ {c} : call'[d] = call[d]
  BY <1>2 DEF TypeOK
<1>4. Writers(o) = {} /\ Writers(o)' = {c}
  BY <1>1, <1>3 DEF Writers, Course, OnePerOrder
<1>5. Op(c)' = Op(c) /\ OpLines(c)' = OpLines(c)
  BY <1>3 DEF Op, OpLines
<1>6. Hold(o)' = [state |-> StateAfter(Op(c)), lines |-> OpLines(c)]
  <2>1. (CHOOSE d \in Writers(o)' : TRUE) = c
    BY <1>4
  <2>2. Hold(o)' = [state |-> StateAfter(Op(c)'), lines |-> OpLines(c)']
    BY <1>4, <2>1 DEF Hold, StateAfter
  <2>. QED BY <1>5, <2>2
<1>7. ASSUME NEW x \in Orders \ {o} PROVE Hold(x)' = Hold(x)
  <2>1. Writers(x)' = Writers(x) /\ \A d \in Writers(x) : call'[d] = call[d]
    BY <1>1, <1>3 DEF Writers
  <2>2. \A d \in Writers(x) : Op(d)' = Op(d) /\ OpLines(d)' = OpLines(d)
    BY <2>1 DEF Op, OpLines
  <2>. QED BY <2>1, <2>2, SameHold DEF Mutate
<1>8. HoldMap[o] = reservation[o]
  BY <1>1, <1>4, HoldUnwritten
<1>. QED BY <1>6, <1>7, <1>8 DEF HoldMap

----------------------------------------------------------------------------
LEMMA HoldsInit ==
    ASSUME Init
    PROVE  HoldMap = [o \in Orders |-> [state |-> "none", lines |-> NoLines]]
BY DEF Init, HoldMap, Hold, Writers, Idle

LEMMA BooksInit == Init => Books
<1> SUFFICES ASSUME Init, NEW b \in Keys
             PROVE  /\ IsFiniteSet(Tokens(HoldMap, b, "reserved"))
                    /\ IsFiniteSet(Tokens(HoldMap, b, "confirmed"))
                    /\ balance[b].reserved = Cardinality(Tokens(HoldMap, b, "reserved"))
                    /\ balance[b].committed = Cardinality(Tokens(HoldMap, b, "confirmed"))
  BY DEF Books
<1>1. Tokens(HoldMap, b, "reserved") = {} /\ Tokens(HoldMap, b, "confirmed") = {}
  BY HoldsInit DEF Tokens
<1>2. balance[b].reserved = 0 /\ balance[b].committed = 0
  BY DEF Init
<1>. QED BY <1>1, <1>2, FS_EmptySet

\* The units an operation other than a reservation takes from a counter are
\* the order's own, so they are there.
LEMMA OwnUnits ==
    ASSUME TypeOK, Course, Books, NEW c \in Calls, call[c].phase = "resolving",
           Op(c) # "reserve", NEW b \in Keys
    PROVE  CanApply(c, b)
<1>. PICK o \in Orders : o = call[c].order
  BY CallParts
<1>1. Writers(o) = {}
  BY DEF Writers, Course, OnePerOrder
<1>2. HoldMap[o] = reservation[o]
  BY <1>1, HoldUnwritten
<1>. DEFINE s == IF Op(c) = "reverse" THEN "confirmed" ELSE "reserved"
<1>3. HoldMap[o].state = s /\ HoldMap[o].lines = OpLines(c) /\ Op(c) \in OrderOps
  BY <1>2, CallParts DEF Course, OnCourse, OpLines, OrderOps
<1>4. HoldMap \in [Orders -> Record] /\ HoldMap = [HoldMap EXCEPT ![o] = HoldMap[o]]
  BY HoldType
<1>5. IsFiniteSet(Tokens(HoldMap, b, s))
  BY DEF Books
<1>6. Share(HoldMap[o], b, s) <= Cardinality(Tokens(HoldMap, b, s))
  <2>. HIDE DEF s
  <2>1. HoldMap[o] \in Record
    BY <1>4
  <2>. QED BY <1>4, <1>5, <2>1, TokensChange
<1>7. Share(HoldMap[o], b, s) = OpLines(c)[b]
  BY <1>3 DEF Share
<1>8. OpLines(c)[b] \in Nat
  BY CallParts
<1>9. CASE Op(c) = "reverse"
  <2>1. OpLines(c)[b] <= balance[b].committed
    BY <1>6, <1>7, <1>9 DEF Books
  <2>. QED BY <1>8, <1>9, <2>1 DEF CanApply, Ready, TypeOK, Row
<1>10. CASE Op(c) \in {"confirm", "release"}
  <2>1. OpLines(c)[b] <= balance[b].reserved
    BY <1>6, <1>7, <1>10 DEF Books
  <2>. QED BY <1>8, <1>10, <2>1 DEF CanApply, Ready, TypeOK, Row
<1>. QED BY <1>3, <1>9, <1>10 DEF OrderOps

\* One operation on one balance changes both counters by what the order's hold
\* gains and loses there.
LEMMA EffectByShares ==
    ASSUME NEW op \in OrderOps, NEW row \in Row, NEW lines \in Lines, NEW b \in Keys,
           NEW rec \in Record, Ready(op, row, lines[b]),
           op = "reserve" => rec.state \in {"none", "released"},
           op \in {"confirm", "release"} => rec.state = "reserved" /\ rec.lines = lines,
           op = "reverse" => rec.state = "confirmed" /\ rec.lines = lines,
           NEW r, r = [state |-> StateAfter(op), lines |-> lines]
    PROVE  /\ Effect(op, row, lines[b]).reserved
                = row.reserved - Share(rec, b, "reserved") + Share(r, b, "reserved")
           /\ Effect(op, row, lines[b]).committed
                = row.committed - Share(rec, b, "confirmed") + Share(r, b, "confirmed")
<1>1. row.reserved \in Nat /\ row.committed \in Nat /\ lines[b] \in Nat
  BY DEF Row, Lines
<1>2. CASE op = "reserve"
  BY <1>1, <1>2 DEF Effect, Share, StateAfter, Row
<1>3. CASE op = "confirm"
  <2>1. /\ Effect(op, row, lines[b]).reserved = row.reserved - lines[b]
        /\ Effect(op, row, lines[b]).committed = row.committed + lines[b]
    BY <1>1, <1>3 DEF Effect, Row
  <2>2. /\ Share(rec, b, "reserved") = lines[b] /\ Share(rec, b, "confirmed") = 0
        /\ Share(r, b, "reserved") = 0 /\ Share(r, b, "confirmed") = lines[b]
    BY <1>3 DEF Share, StateAfter
  <2>. QED BY <1>1, <2>1, <2>2
<1>4. CASE op = "release"
  BY <1>1, <1>4 DEF Effect, Share, StateAfter, Row
<1>5. CASE op = "reverse"
  BY <1>1, <1>5 DEF Effect, Share, StateAfter, Row
<1>. QED BY <1>2, <1>3, <1>4, <1>5 DEF OrderOps

LEMMA BooksMutate ==
    ASSUME TypeOK, Course, Books, NEW c \in Calls, Mutate(c)
    PROVE  Books'
<1>1. call[c].phase = "resolving"
  BY DEF Mutate
<1>. PICK o \in Orders : o = call[c].order
  BY <1>1, CallParts
<1>0. PICK r : r = [state |-> StateAfter(Op(c)), lines |-> OpLines(c)]
  OBVIOUS
<1>2. HoldMap[o] = reservation[o] /\ HoldMap' = [HoldMap EXCEPT ![o] = r]
  BY <1>0, HoldsMutate
<1>3. /\ Op(c) \in OrderOps /\ OpLines(c) \in Lines /\ r \in Record
      /\ \A b \in Keys : OpLines(c)[b] \in Nat
  BY <1>0, <1>1, CallParts DEF StateAfter, OrderOps, Record, Targets
<1>4. /\ Op(c) = "reserve" => HoldMap[o].state \in {"none", "released"}
      /\ Op(c) \in {"confirm", "release"}
           => HoldMap[o].state = "reserved" /\ HoldMap[o].lines = OpLines(c)
      /\ Op(c) = "reverse"
           => HoldMap[o].state = "confirmed" /\ HoldMap[o].lines = OpLines(c)
  BY <1>1, <1>2 DEF Course, OnCourse, OpLines
<1>5. HoldMap \in [Orders -> Record]
  BY HoldType
<1>6. ASSUME NEW b \in Keys
      PROVE  /\ balance'[b].reserved = balance[b].reserved
                  - Share(HoldMap[o], b, "reserved") + Share(r, b, "reserved")
             /\ balance'[b].committed = balance[b].committed
                  - Share(HoldMap[o], b, "confirmed") + Share(r, b, "confirmed")
  <2>1. balance[b] \in Row /\ balance[b].reserved \in Nat /\ balance[b].committed \in Nat
    BY DEF TypeOK, Row
  <2>2. CASE b \in OpKeys(c)
    <3>1. balance'[b] = Effect(Op(c), balance[b], OpLines(c)[b])
      BY <2>2 DEF Mutate, ApplyTo
    <3>2. Ready(Op(c), balance[b], OpLines(c)[b])
      BY <2>2 DEF Mutate, CanApply
    <3>. QED BY <1>0, <1>3, <1>4, <1>5, <2>1, <3>1, <3>2, EffectByShares
  <2>3. CASE b \notin OpKeys(c)
    <3>1. balance'[b] = balance[b]
      BY <2>3 DEF Mutate, ApplyTo
    <3>2. OpLines(c)[b] = 0
      BY <1>3, <2>3 DEF OpKeys, LineKeys
    <3>3. /\ Share(r, b, "reserved") = 0 /\ Share(r, b, "confirmed") = 0
          /\ Share(HoldMap[o], b, "reserved") = 0 /\ Share(HoldMap[o], b, "confirmed") = 0
      BY <1>0, <1>3, <1>4, <3>2 DEF Share, OrderOps
    <3>. QED BY <2>1, <3>1, <3>3
  <2>. QED BY <2>2, <2>3
<1>7. ASSUME NEW b \in Keys, NEW s \in {"reserved", "confirmed"}
      PROVE  /\ IsFiniteSet(Tokens(HoldMap', b, s))
             /\ Cardinality(Tokens(HoldMap', b, s))
                  = Cardinality(Tokens(HoldMap, b, s)) - Share(HoldMap[o], b, s) + Share(r, b, s)
  <2>1. IsFiniteSet(Tokens(HoldMap, b, s))
    BY DEF Books
  <2>2. PICK g : g = HoldMap'
    OBVIOUS
  <2>3. g \in [Orders -> Record] /\ g[o] = r /\ \A x \in Orders \ {o} : g[x] = HoldMap[x]
    BY <1>2, <1>3, <1>5, <2>2
  <2>4. /\ IsFiniteSet(Tokens(g, b, s))
        /\ Cardinality(Tokens(HoldMap, b, s)) \in Nat
        /\ Share(HoldMap[o], b, s) \in Nat /\ Share(r, b, s) \in Nat
        /\ Cardinality(Tokens(g, b, s)) + Share(HoldMap[o], b, s)
             = Cardinality(Tokens(HoldMap, b, s)) + Share(r, b, s)
    BY <1>5, <2>1, <2>3, TokensChange
  <2>5. IsFiniteSet(Tokens(HoldMap', b, s))
    BY <2>2, <2>4
  <2>6. Cardinality(Tokens(HoldMap', b, s)) \in Nat
    BY <2>5, FS_CardinalityType
  <2>. QED BY <2>2, <2>4, <2>5, <2>6
<1>8. ASSUME NEW b \in Keys
      PROVE  /\ IsFiniteSet(Tokens(HoldMap', b, "reserved"))
             /\ IsFiniteSet(Tokens(HoldMap', b, "confirmed"))
             /\ balance'[b].reserved = Cardinality(Tokens(HoldMap', b, "reserved"))
             /\ balance'[b].committed = Cardinality(Tokens(HoldMap', b, "confirmed"))
  BY <1>6, <1>7 DEF Books
<1>. QED BY <1>8 DEF Books, Tokens

\* A throw changes nothing: only a reservation lacks units, and it checks every
\* line before it takes one.
LEMMA ThrowChangesNothing ==
    ASSUME TypeOK, Course, Books, NEW c \in Calls, Throw(c)
    PROVE  Op(c) = "reserve" /\ balance' = balance
<1>1. PICK b \in OpKeys(c) : ~CanApply(c, b)
  BY DEF Throw
<1>2. b \in Keys
  BY DEF OpKeys, LineKeys
<1>3. Op(c) = "reserve"
  BY <1>1, <1>2, OwnUnits DEF Throw
<1>4. balance' = ApplyTo(c, {})
  BY <1>3 DEF Throw
<1>. QED BY <1>3, <1>4 DEF ApplyTo, TypeOK

\* The holds after every step but Mutate are the holds before.
LEMMA HoldsStep ==
    ASSUME Serial, TypeOK, Course, Books, [Next]_vars, \A c \in Calls : ~Mutate(c)
    PROVE  HoldMap' = HoldMap /\ balance' = balance
<1>1. ASSUME NEW c \in Calls, NEW o \in Orders, NEW target \in Targets,
             NEW w \in Assignments, NEW allow \in BOOLEAN, SyncOrder(c, o, target, w, allow)
      PROVE  HoldMap' = HoldMap /\ balance' = balance
  <2>1. /\ call[c].phase # "writing" /\ call'[c].phase # "writing"
        /\ \A d \in Calls \ {c} : call'[d] = call[d]
    BY <1>1 DEF SyncOrder, TypeOK
  <2>. QED BY <1>1, <2>1, SameHolds DEF SyncOrder
<1>2. CASE UNCHANGED vars
  BY <1>2 DEF vars, HoldMap, Hold, Writers, Op, OpLines, StateAfter
<1>3. ASSUME NEW c \in Calls, Throw(c)
      PROVE  HoldMap' = HoldMap /\ balance' = balance
  <2>1. /\ call[c].phase # "writing" /\ call'[c].phase # "writing"
        /\ \A d \in Calls \ {c} : call'[d] = call[d]
    BY <1>3 DEF Throw, TypeOK, Idle
  <2>. QED BY <1>3, <2>1, SameHolds, ThrowChangesNothing DEF Throw
<1>4. ASSUME NEW c \in Calls, UpsertNext(c) \/ UpsertLast(c)
      PROVE  HoldMap' = HoldMap /\ balance' = balance
  BY <1>4, HoldsUpsertNext, HoldsUpsertLast DEF UpsertNext, UpsertLast
<1>5. ASSUME NEW b \in Keys, Adjust(b)
      PROVE  FALSE
  BY <1>5 DEF Serial, Adjust
<1>6. ~ApplyAdjustment
  BY DEF Course, ApplyAdjustment, NoAdjustment
<1>. QED BY <1>1, <1>2, <1>3, <1>4, <1>5, <1>6 DEF Next, Request, SyncWithoutEffect, Continue

LEMMA BooksStep ==
    ASSUME Serial, TypeOK, Course, Books, [Next]_vars
    PROVE  Books'
<1>1. ASSUME NEW c \in Calls, Mutate(c) PROVE Books'
  BY <1>1, BooksMutate
<1>2. CASE \A c \in Calls : ~Mutate(c)
  <2>1. HoldMap' = HoldMap /\ balance' = balance
    BY <1>2, HoldsStep
  <2>2. ASSUME NEW b, NEW s PROVE Tokens(HoldMap, b, s)' = Tokens(HoldMap, b, s)
    BY <2>1 DEF Tokens
  <2>3. ASSUME NEW b \in Keys
        PROVE  /\ IsFiniteSet(Tokens(HoldMap, b, "reserved"))'
               /\ IsFiniteSet(Tokens(HoldMap, b, "confirmed"))'
               /\ balance'[b].reserved = Cardinality(Tokens(HoldMap, b, "reserved"))'
               /\ balance'[b].committed = Cardinality(Tokens(HoldMap, b, "confirmed"))'
    BY <2>1, <2>2 DEF Books
  <2>. QED BY <2>3 DEF Books
<1>. QED BY <1>1, <1>2

\* The three parts of the inductive invariant hold together.
LEMMA SerialInvariant ==
    ASSUME Serial
    PROVE  Spec => [](TypeOK /\ Course /\ Books)
<1>1. Init => TypeOK /\ Course /\ Books
  BY TypeInit, CourseInit, BooksInit
<1>2. (TypeOK /\ Course /\ Books) /\ [Next]_vars => (TypeOK /\ Course /\ Books)'
  BY TypeStep, CourseStep, BooksStep
<1>. QED BY <1>1, <1>2, PTL DEF Spec

\* The reserved and committed counters of every balance are exactly the units
\* the orders hold there, in every await of every call.
THEOREM BooksAlwaysBalanced ==
    ASSUME Serial
    PROVE  Spec => []BooksBalanced
<1>1. Books => BooksBalanced
  BY UnitsAreTokens DEF Books, BooksBalanced
<1>. QED BY <1>1, SerialInvariant, PTL

\* confirmLines, releaseLines and reverseLines never find the counter short,
\* although other orders share it: their conflicts are unreachable.
THEOREM OwnUnitsAlwaysThere ==
    ASSUME Serial
    PROVE  Spec => []OwnUnitsThere
<1>1. TypeOK /\ Course /\ Books => OwnUnitsThere
  BY OwnUnits DEF OwnUnitsThere, OpKeys, LineKeys
<1>. QED BY <1>1, SerialInvariant, PTL

----------------------------------------------------------------------------
\* The refinement of StockHolds.  What is left to reserve is what the only call
\* of the order has in its plan.
LEMMA OneCallWants ==
    ASSUME TypeOK, Course, NEW o \in Orders, NEW c \in Calls,
           call[c].phase # "idle", call[c].order = o
    PROVE  StillToReserve(o) <=> Wants(call[c].ops)
<1>1. InFlight(o) = {c}
  BY DEF InFlight, Course, OnePerOrder
<1>. QED BY <1>1 DEF StillToReserve, Wants

LEMMA AbstractParts ==
    ASSUME TypeOK, NEW o \in Orders
    PROVE  /\ AbstractHold[o].lines = HoldMap[o].lines
           /\ AbstractHold[o] = [state |-> AbstractHold[o].state, lines |-> HoldMap[o].lines]
           /\ HoldMap[o].state # "released" => AbstractHold[o].state = HoldMap[o].state
           /\ HoldMap[o].state = "released" =>
                AbstractHold[o].state = IF StillToReserve(o) THEN "moving" ELSE "released"
<1>1. HoldMap[o] = Hold(o) /\ Hold(o) \in Record
  BY HoldType DEF HoldMap
<1>. QED BY <1>1 DEF AbstractHold, Record

\* Two functions that differ at one argument only.
LEMMA OneDiffers ==
    ASSUME NEW S, NEW f, NEW g, f = [x \in S |-> f[x]], g = [x \in S |-> g[x]],
           NEW o \in S, \A x \in S \ {o} : g[x] = f[x]
    PROVE  g = [f EXCEPT ![o] = g[o]]
OBVIOUS

\* A step that moves neither the hold of an order nor, while it is released,
\* what its call has left to reserve.
LEMMA AbstractSame ==
    ASSUME NEW o \in Orders, HoldMap'[o] = HoldMap[o],
           HoldMap[o].state = "released" => (StillToReserve(o)' <=> StillToReserve(o))
    PROVE  AbstractHold'[o] = AbstractHold[o]
<1>1. Hold(o)' = Hold(o)
  BY DEF HoldMap
<1>2. Hold(o).state = "released" => (StillToReserve(o)' <=> StillToReserve(o))
  BY DEF HoldMap
<1>. QED BY <1>1, <1>2 DEF AbstractHold

\* The calls of the other orders are the same after a step of c.
LEMMA OthersWant ==
    ASSUME TypeOK, NEW c \in Calls, NEW o \in Orders, \A d \in Calls \ {c} : call'[d] = call[d],
           call[c].phase = "idle" \/ call[c].order # o,
           call'[c].phase = "idle" \/ call'[c].order # o
    PROVE  StillToReserve(o)' <=> StillToReserve(o)
<1>1. InFlight(o)' = InFlight(o) /\ \A d \in InFlight(o) : call'[d] = call[d]
  BY DEF InFlight
<1>. QED BY <1>1 DEF StillToReserve

\* The units the promise counts are those of the two counters.
LEMMA HeldInBooks ==
    ASSUME TypeOK, Books, NEW b \in Keys
    PROVE  /\ Cardinality(Promise!HeldAt(b)) \in Nat
           /\ Cardinality(Promise!HeldAt(b)) <= balance[b].reserved + balance[b].committed
<1>. DEFINE R == Tokens(HoldMap, b, "reserved")
            C == Tokens(HoldMap, b, "confirmed")
<1>1. Promise!HeldAt(b) \subseteq R \cup C
  <2>1. ASSUME NEW o \in Orders, AbstractHold[o].state \in {"reserved", "confirmed"}
        PROVE  {o} \X (1 .. AbstractHold[o].lines[b]) \subseteq R \cup C
    <3>1. HoldMap[o].state = AbstractHold[o].state /\ HoldMap[o].lines = AbstractHold[o].lines
      BY <2>1, AbstractParts
    <3>2. CASE HoldMap[o].state = "reserved"
      BY <3>1, <3>2 DEF Tokens
    <3>3. CASE HoldMap[o].state = "confirmed"
      BY <3>1, <3>3 DEF Tokens
    <3>. QED BY <2>1, <3>1, <3>2, <3>3
  <2>. QED BY <2>1 DEF Promise!HeldAt
<1>2. /\ IsFiniteSet(R) /\ Cardinality(R) = balance[b].reserved
      /\ IsFiniteSet(C) /\ Cardinality(C) = balance[b].committed
  BY DEF Books
<1>. HIDE DEF R, C
<1>3. /\ IsFiniteSet(R \cup C)
      /\ Cardinality(R \cup C) = Cardinality(R) + Cardinality(C) - Cardinality(R \cap C)
  BY <1>2, FS_Union
<1>4. IsFiniteSet(R \cap C)
  BY <1>2, FS_Subset
<1>5. IsFiniteSet(Promise!HeldAt(b)) /\ Cardinality(Promise!HeldAt(b)) <= Cardinality(R \cup C)
  BY <1>1, <1>3, FS_Subset
<1>6. /\ Cardinality(Promise!HeldAt(b)) \in Nat /\ Cardinality(R \cup C) \in Nat
      /\ Cardinality(R) \in Nat /\ Cardinality(C) \in Nat /\ Cardinality(R \cap C) \in Nat
  BY <1>2, <1>3, <1>4, <1>5, FS_CardinalityType
<1>. QED BY <1>2, <1>3, <1>5, <1>6

\* The instance counts with its own copy of the same operator.
LEMMA SameCardinality == \A S : Promise!Cardinality(S) = Cardinality(S)
BY DEF Cardinality, Promise!Cardinality

\* reserveLines' check of every line is the promise's.
LEMMA ReserveFits ==
    ASSUME TypeOK, Course, Books, NEW c \in Calls, Mutate(c), Op(c) = "reserve"
    PROVE  Promise!Fits(OpLines(c))
<1>1. SUFFICES ASSUME NEW b \in Keys, OpLines(c)[b] > 0
               PROVE  Cardinality(Promise!HeldAt(b)) + OpLines(c)[b] <= InitialStock[b]
  BY SameCardinality DEF Promise!Fits, Promise!LineKeys, Promise!Keys, Keys
<1>2. CanApply(c, b)
  BY <1>1 DEF Mutate, OpKeys, LineKeys
<1>3. balance[b].stock - balance[b].reserved - balance[b].committed >= OpLines(c)[b]
  BY <1>2 DEF Mutate, CanApply, Ready, Available
<1>4. /\ balance[b].stock = InitialStock[b] /\ InitialStock[b] \in Nat
      /\ balance[b].reserved \in Nat /\ balance[b].committed \in Nat /\ OpLines(c)[b] \in Nat
  BY StockAssumption, CallParts DEF Mutate, Course, TypeOK, Row
<1>. QED BY <1>3, <1>4, HeldInBooks

LEMMA PromiseMutate ==
    ASSUME TypeOK, TypeOK', Course, Course', Books, NEW c \in Calls, Mutate(c)
    PROVE  Promise!HoldNext
<1>1. call[c].phase = "resolving"
  BY DEF Mutate
<1>. PICK o \in Orders : o = call[c].order
  BY <1>1, CallParts
<1>2. /\ call'[c].phase = "writing" /\ call'[c].order = o /\ call'[c].ops = call[c].ops
      /\ \A d \in Calls \ {c} : call'[d] = call[d]
  BY DEF Mutate, TypeOK
<1>3. /\ HoldMap[o] = reservation[o]
      /\ HoldMap'[o] = [state |-> StateAfter(Op(c)), lines |-> OpLines(c)]
      /\ \A x \in Orders \ {o} : HoldMap'[x] = HoldMap[x]
  BY HoldsMutate, HoldType
<1>4. OnCourse(c) /\ Op(c) \in OrderOps /\ OpLines(c) \in Lines
  BY <1>1, CallParts DEF Course
<1>5. StillToReserve(o) <=> Wants(call[c].ops)
  BY <1>1, OneCallWants
<1>6. StillToReserve(o)' <=> Wants(call[c].ops)
  <2>1. InFlight(o)' = {c}
    BY <1>2 DEF InFlight, Course, OnePerOrder
  <2>. QED BY <1>2, <2>1 DEF StillToReserve, Wants
<1>7. \A x \in Orders \ {o} : AbstractHold'[x] = AbstractHold[x]
  BY <1>1, <1>2, <1>3, OthersWant, AbstractSame
<1>8. AbstractHold'[o] = [state |-> IF StateAfter(Op(c)) = "released" /\ Wants(call[c].ops)
                                     THEN "moving" ELSE StateAfter(Op(c)),
                          lines |-> OpLines(c)]
  <2>1. Hold(o)' = [state |-> StateAfter(Op(c)), lines |-> OpLines(c)]
    BY <1>3 DEF HoldMap
  <2>. QED BY <1>6, <2>1 DEF AbstractHold
<1>9. ASSUME NEW r, AbstractHold'[o] = r PROVE AbstractHold' = [AbstractHold EXCEPT ![o] = r]
  BY <1>7, <1>9, ZenonT(40) DEF AbstractHold
<1>10. CASE Op(c) = "reserve"
  <2>1. AbstractHold'[o] = [state |-> "reserved", lines |-> OpLines(c)]
    BY <1>8, <1>10 DEF StateAfter
  <2>2. AbstractHold[o].state \in {"none", "moving"}
    <3>1. Wants(call[c].ops)
      BY <1>4, <1>10, PlanParts DEF OnCourse, Op
    <3>. QED BY <1>3, <1>4, <1>5, <1>10, <3>1, AbstractParts DEF OnCourse
  <2>3. OpLines(c) \in RequestsOf[o]
    BY <1>4, <1>10 DEF OnCourse, OpLines
  <2>4. Promise!TakeUnits(o)
    BY <1>9, <1>10, <2>1, <2>2, <2>3, ReserveFits DEF Promise!TakeUnits
  <2>. QED BY <2>4 DEF Promise!HoldNext
<1>11. CASE Op(c) = "confirm"
  <2>1. AbstractHold'[o] = [state |-> "confirmed", lines |-> OpLines(c)]
    BY <1>8, <1>11 DEF StateAfter
  <2>2. AbstractHold[o] = [state |-> "reserved", lines |-> OpLines(c)]
    <3>1. HoldMap[o].state = "reserved" /\ HoldMap[o].lines = OpLines(c)
      BY <1>3, <1>4, <1>11 DEF OnCourse, OpLines
    <3>2. /\ AbstractHold[o] = [state |-> AbstractHold[o].state, lines |-> HoldMap[o].lines]
          /\ HoldMap[o].state # "released" => AbstractHold[o].state = HoldMap[o].state
      BY AbstractParts
    <3>. QED BY <3>1, <3>2, Zenon
  <2>3. AbstractHold' = [AbstractHold EXCEPT ![o].state = "confirmed"]
    BY <1>9, <2>1, <2>2
  <2>4. Promise!ConfirmHold(o)
    BY <2>2, <2>3 DEF Promise!ConfirmHold
  <2>. QED BY <2>4 DEF Promise!HoldNext
<1>12. CASE Op(c) \in {"release", "reverse"}
  <2>1. AbstractHold'[o] = [state |-> IF Wants(call[c].ops) THEN "moving" ELSE "released",
                            lines |-> OpLines(c)]
    BY <1>8, <1>12 DEF StateAfter
  <2>2. AbstractHold[o].state \in {"reserved", "confirmed"} /\ AbstractHold[o].lines = OpLines(c)
        /\ AbstractHold[o] = [state |-> AbstractHold[o].state, lines |-> OpLines(c)]
    BY <1>3, <1>4, <1>12, AbstractParts DEF OnCourse, OpLines
  <2>3. CASE Wants(call[c].ops)
    <3>1. AbstractHold' = [AbstractHold EXCEPT ![o].state = "moving"]
      BY <1>9, <2>1, <2>2, <2>3
    <3>2. Promise!LiftHold(o)
      BY <2>2, <3>1 DEF Promise!LiftHold
    <3>. QED BY <3>2 DEF Promise!HoldNext
  <2>4. CASE ~Wants(call[c].ops)
    <3>1. AbstractHold' = [AbstractHold EXCEPT ![o].state = "released"]
      BY <1>9, <2>1, <2>2, <2>4
    <3>2. Promise!GiveBack(o)
      BY <2>2, <3>1 DEF Promise!GiveBack
    <3>. QED BY <3>2 DEF Promise!HoldNext
  <2>. QED BY <2>3, <2>4
<1>. QED BY <1>4, <1>10, <1>11, <1>12 DEF OrderOps

\* A first reservation that fails leaves the order as it was; the second half of
\* a move that fails ends the move with nothing held.
LEMMA PromiseThrow ==
    ASSUME Serial, TypeOK, TypeOK', Course, Books, NEW c \in Calls, Throw(c)
    PROVE  Promise!HoldNext \/ AbstractHold' = AbstractHold
<1>1. /\ call[c].phase = "resolving" /\ call'[c].phase = "idle"
      /\ \A d \in Calls \ {c} : call'[d] = call[d]
  BY DEF Throw, TypeOK, Idle
<1>. PICK o \in Orders : o = call[c].order
  BY <1>1, CallParts
<1>2. HoldMap' = HoldMap
  BY <1>1, SameHolds DEF Throw
<1>3. OnCourse(c) /\ Op(c) = "reserve"
  BY <1>1, ThrowChangesNothing DEF Course
<1>4. StillToReserve(o) /\ ~StillToReserve(o)'
  <2>1. Wants(call[c].ops)
    BY <1>3, PlanParts DEF OnCourse, Op
  <2>2. InFlight(o)' = {}
    BY <1>1 DEF InFlight, Course, OnePerOrder
  <2>. QED BY <1>1, <2>1, <2>2, OneCallWants DEF StillToReserve
<1>5. \A x \in Orders \ {o} : AbstractHold'[x] = AbstractHold[x]
  BY <1>1, <1>2, OthersWant, AbstractSame
<1>6. Writers(o) = {}
  BY <1>1 DEF Writers, Course, OnePerOrder
<1>7. HoldMap[o].state \in {"none", "released"}
  BY <1>3, <1>6, HoldUnwritten DEF OnCourse
<1>8. CASE HoldMap[o].state = "none"
  <2>1. AbstractHold'[o] = AbstractHold[o]
    BY <1>2, <1>8, AbstractSame
  <2>. QED BY <1>5, <2>1 DEF AbstractHold
<1>9. CASE HoldMap[o].state = "released"
  <2>1. /\ AbstractHold[o].state = "moving"
        /\ AbstractHold[o] = [state |-> "moving", lines |-> HoldMap[o].lines]
    BY <1>4, <1>9, AbstractParts
  <2>2. AbstractHold'[o] = [state |-> "released", lines |-> HoldMap[o].lines]
    <3>1. Hold(o)' = HoldMap[o] /\ HoldMap[o] \in Record
      BY <1>2, HoldType DEF HoldMap
    <3>2. HoldMap[o] = [state |-> "released", lines |-> HoldMap[o].lines]
      BY <1>9, <3>1 DEF Record
    <3>. QED BY <1>4, <3>1, <3>2 DEF AbstractHold
  <2>3. AbstractHold' = [AbstractHold EXCEPT ![o].state = "released"]
    <3>1. [AbstractHold[o] EXCEPT !.state = "released"] = AbstractHold'[o]
      BY <2>1, <2>2
    <3>2. AbstractHold' = [AbstractHold EXCEPT ![o] = AbstractHold'[o]]
      <4>1. AbstractHold = [x \in Orders |-> AbstractHold[x]]
        BY DEF AbstractHold
      <4>2. AbstractHold' = [x \in Orders |-> AbstractHold'[x]]
        BY DEF AbstractHold
      <4>. QED BY <1>5, <4>1, <4>2, OneDiffers
    <3>. QED BY <3>1, <3>2, Zenon
  <2>4. Promise!GiveBack(o)
    BY <2>1, <2>3 DEF Promise!GiveBack
  <2>. QED BY <2>4 DEF Promise!HoldNext
<1>. QED BY <1>7, <1>8, <1>9

\* The other steps are stutters: a request changes no hold, an upsert writes
\* what is held already.
LEMMA PromiseSyncOrder ==
    ASSUME Serial, TypeOK, Course, NEW c \in Calls, NEW o \in Orders, NEW target \in Targets,
           NEW w \in Assignments, NEW allow \in BOOLEAN, SyncOrder(c, o, target, w, allow)
    PROVE  AbstractHold' = AbstractHold
<1>1. /\ call[c].phase = "idle" /\ call'[c].phase = "resolving" /\ call'[c].order = o
      /\ \A d \in Calls \ {c} : call'[d] = call[d]
  BY DEF SyncOrder, TypeOK
<1>2. HoldMap' = HoldMap
  BY <1>1, SameHolds DEF SyncOrder
<1>3. \A x \in Orders \ {o} : AbstractHold'[x] = AbstractHold[x]
  BY <1>1, <1>2, OthersWant, AbstractSame
<1>4. HoldMap[o].state # "released"
  <2>1. Writers(o) = {}
    BY DEF SyncOrder, Serial, InFlight, Writers
  <2>2. HoldMap[o] = reservation[o]
    BY <2>1, HoldUnwritten
  <2>3. reservation[o] \in Record /\ Plan(reservation[o], target, LinesAt(o, w), allow) # <<>>
    BY DEF SyncOrder, TypeOK
  <2>. QED BY <2>2, <2>3, PlanStarts
<1>5. AbstractHold'[o] = AbstractHold[o]
  BY <1>2, <1>4, AbstractSame
<1>. QED BY <1>3, <1>5 DEF AbstractHold

LEMMA PromiseUpsertNext ==
    ASSUME TypeOK, NEW c \in Calls, UpsertNext(c)
    PROVE  AbstractHold' = AbstractHold
<1>1. PICK b \in call[c].left :
        call' = [call EXCEPT ![c].key = b, ![c].row = balance[b], ![c].left = @ \ {b}]
  BY DEF UpsertNext
<1>2. call[c] \in Writing
  BY WritingParts DEF UpsertNext
<1>3. \A d \in Calls : /\ call'[d].phase = call[d].phase
                       /\ call'[d].order = call[d].order /\ call'[d].ops = call[d].ops
  BY <1>1, <1>2 DEF TypeOK, Writing
<1>4. ASSUME NEW o \in Orders PROVE StillToReserve(o)' <=> StillToReserve(o)
  <2>1. InFlight(o)' = InFlight(o)
    BY <1>3 DEF InFlight
  <2>. QED BY <1>3, <2>1 DEF StillToReserve, InFlight
<1>5. \A o \in Orders : AbstractHold'[o] = AbstractHold[o]
  BY <1>4, HoldsUpsertNext, AbstractSame
<1>. QED BY <1>5 DEF AbstractHold

LEMMA PromiseUpsertLast ==
    ASSUME TypeOK, TypeOK', Course, Course', NEW c \in Calls, UpsertLast(c)
    PROVE  AbstractHold' = AbstractHold
<1>1. call[c].phase = "writing"
  BY DEF UpsertLast
<1>. PICK o \in Orders : o = call[c].order
  BY <1>1, CallParts
<1>2. \A d \in Calls \ {c} : call'[d] = call[d]
  BY DEF UpsertLast, TypeOK
<1>3. HoldMap' = HoldMap
  BY HoldsUpsertLast
<1>4. /\ Tail(call[c].ops) = <<>> => call'[c].phase = "idle"
      /\ Tail(call[c].ops) # <<>> => /\ call'[c].phase = "resolving" /\ call'[c].order = o
                                     /\ call'[c].ops = Tail(call[c].ops)
  BY DEF UpsertLast, TypeOK, Idle
<1>5. \A x \in Orders \ {o} : AbstractHold'[x] = AbstractHold[x]
  BY <1>1, <1>2, <1>3, <1>4, OthersWant, AbstractSame
<1>6. OnCourse(c)
  BY <1>1 DEF Course
<1>7. HoldMap[o].state = StateAfter(Op(c))
  <2>1. Writers(o) = {c}
    BY <1>1 DEF Writers, Course, OnePerOrder
  <2>2. (CHOOSE d \in Writers(o) : TRUE) = c
    BY <2>1
  <2>. QED BY <2>1, <2>2 DEF Hold, HoldMap
<1>8. HoldMap[o].state = "released" => (StillToReserve(o)' <=> StillToReserve(o))
  <2>1. SUFFICES ASSUME HoldMap[o].state = "released"
                 PROVE  StillToReserve(o)' <=> StillToReserve(o)
    OBVIOUS
  <2>2. Op(c) \in {"release", "reverse"}
    BY <1>1, <1>7, <2>1, CallParts DEF StateAfter, OrderOps
  <2>3. StillToReserve(o) <=> Tail(call[c].ops) # <<>>
    BY <1>1, <1>6, <2>2, OneCallWants, PlanParts DEF OnCourse, Op
  <2>4. CASE Tail(call[c].ops) = <<>>
    <3>1. InFlight(o)' = {}
      BY <1>1, <1>2, <1>4, <2>4 DEF InFlight, Course, OnePerOrder
    <3>. QED BY <2>3, <2>4, <3>1 DEF StillToReserve
  <2>5. CASE Tail(call[c].ops) # <<>>
    <3>1. InFlight(o)' = {c}
      BY <1>1, <1>2, <1>4, <2>5 DEF InFlight, Course, OnePerOrder
    <3>2. Tail(call[c].ops) \in Plans /\ Head(Tail(call[c].ops)) = "reserve"
      BY <1>6, <2>2, <2>5, PlanParts DEF OnCourse, Op
    <3>3. Wants(Tail(call[c].ops))
      BY <3>2, PlanParts
    <3>. QED BY <1>4, <2>3, <2>5, <3>1, <3>3 DEF StillToReserve, Wants
  <2>. QED BY <2>4, <2>5
<1>9. AbstractHold'[o] = AbstractHold[o]
  BY <1>3, <1>8, AbstractSame
<1>. QED BY <1>5, <1>9 DEF AbstractHold

LEMMA PromiseStep ==
    ASSUME Serial, TypeOK, TypeOK', Course, Course', Books, [Next]_vars
    PROVE  Promise!HoldNext \/ AbstractHold' = AbstractHold
<1>1. ASSUME NEW c \in Calls, NEW o \in Orders, NEW target \in Targets,
             NEW w \in Assignments, NEW allow \in BOOLEAN, SyncOrder(c, o, target, w, allow)
      PROVE  AbstractHold' = AbstractHold
  BY <1>1, PromiseSyncOrder
<1>2. CASE UNCHANGED vars
  BY <1>2 DEF vars, AbstractHold, StillToReserve, InFlight, Hold, Writers, Op, OpLines, StateAfter
<1>3. ASSUME NEW c \in Calls, Continue(c)
      PROVE  Promise!HoldNext \/ AbstractHold' = AbstractHold
  BY <1>3, PromiseMutate, PromiseThrow, PromiseUpsertNext, PromiseUpsertLast DEF Continue
<1>4. ASSUME NEW b \in Keys, Adjust(b)
      PROVE  FALSE
  BY <1>4 DEF Serial, Adjust
<1>5. ~ApplyAdjustment
  BY DEF Course, ApplyAdjustment, NoAdjustment
<1>. QED BY <1>1, <1>2, <1>3, <1>4, <1>5 DEF Next, Request, SyncWithoutEffect

\* The service implements the promise of StockHolds: with one call per order at
\* a time, no await lets an order see another's units, lose its own, or hold
\* again what it has given back.
THEOREM ServiceKeepsPromise ==
    ASSUME Serial
    PROVE  Spec => KeepsPromise
<1>1. Init => Promise!HoldInit
  BY HoldsInit DEF Init, HoldMap, AbstractHold, Promise!HoldInit, Promise!NoLines, Promise!Keys,
     NoLines, Keys
<1>2. TypeOK /\ TypeOK' /\ Course /\ Course' /\ Books /\ [Next]_vars
        => [Promise!HoldNext]_AbstractHold
  BY PromiseStep
<1>3. Spec => [](TypeOK /\ Course /\ Books)
  BY SerialInvariant
<1>. QED BY <1>1, <1>2, <1>3, PTL DEF Spec, KeepsPromise, Promise!HoldSpec

----------------------------------------------------------------------------
\* What the promise is worth: every unit it holds exists.  Nothing below looks
\* into AbstractHold, so it speaks of whatever implements StockHolds.

\* Cardinality says something of finite sets only.
HeldFit ==
    \A b \in Keys :
        /\ IsFiniteSet(Promise!HeldAt(b))
        /\ Cardinality(Promise!HeldAt(b)) <= InitialStock[b]

LEMMA SameData == Promise!Keys = Keys /\ Promise!Lines = Lines
BY DEF Promise!Keys, Keys, Promise!Lines, Lines

\* A step after which no token is new keeps the tokens within the stock.
LEMMA FewerTokens ==
    ASSUME HeldFit, NEW b \in Keys, Promise!HeldAt(b)' \subseteq Promise!HeldAt(b)
    PROVE  IsFiniteSet(Promise!HeldAt(b)') /\ Cardinality(Promise!HeldAt(b)') <= InitialStock[b]
<1>1. /\ IsFiniteSet(Promise!HeldAt(b)')
      /\ Cardinality(Promise!HeldAt(b)') <= Cardinality(Promise!HeldAt(b))
  BY FS_Subset DEF HeldFit
<1>2. /\ Cardinality(Promise!HeldAt(b)) \in Nat /\ Cardinality(Promise!HeldAt(b)') \in Nat
      /\ InitialStock[b] \in Nat
  BY <1>1, StockAssumption, FS_CardinalityType DEF HeldFit
<1>. QED BY <1>1, <1>2 DEF HeldFit

\* Only the tokens of the order that takes units are new.
LEMMA NewTokens ==
    ASSUME Promise!HoldTypeOK, NEW o \in Orders, NEW lines \in Lines, NEW b \in Keys,
           AbstractHold' = [AbstractHold EXCEPT ![o] = [state |-> "reserved", lines |-> lines]]
    PROVE  Promise!HeldAt(b)' \subseteq Promise!HeldAt(b) \cup ({o} \X (1 .. lines[b]))
<1>1. SUFFICES ASSUME NEW x \in Orders, AbstractHold'[x].state \in {"reserved", "confirmed"},
                      NEW t \in {x} \X (1 .. AbstractHold'[x].lines[b])
               PROVE  t \in Promise!HeldAt(b) \cup ({o} \X (1 .. lines[b]))
  BY DEF Promise!HeldAt
<1>2. CASE x = o
  <2>1. AbstractHold'[x].lines = lines
    BY <1>2 DEF Promise!HoldTypeOK
  <2>. QED BY <1>1, <1>2, <2>1
<1>3. CASE x # o
  <2>1. AbstractHold'[x] = AbstractHold[x]
    BY <1>3 DEF Promise!HoldTypeOK
  <2>. QED BY <1>1, <2>1 DEF Promise!HeldAt
<1>. QED BY <1>2, <1>3

LEMMA TakeFits ==
    ASSUME Promise!HoldTypeOK, HeldFit, NEW o \in Orders, Promise!TakeUnits(o)
    PROVE  HeldFit'
<1>1. PICK lines \in RequestsOf[o] :
        /\ Promise!Fits(lines)
        /\ AbstractHold' = [AbstractHold EXCEPT ![o] = [state |-> "reserved", lines |-> lines]]
  BY DEF Promise!TakeUnits
<1>2. lines \in Lines
  BY LinesAtType DEF RequestsOf
<1>3. SUFFICES ASSUME NEW b \in Keys
               PROVE  /\ IsFiniteSet(Promise!HeldAt(b)')
                      /\ Cardinality(Promise!HeldAt(b)') <= InitialStock[b]
  BY DEF HeldFit
<1>. DEFINE tokens == {o} \X (1 .. lines[b])
<1>4. lines[b] \in Nat
  BY <1>2 DEF Lines
<1>5. Promise!HeldAt(b)' \subseteq Promise!HeldAt(b) \cup tokens
  BY <1>1, <1>2, NewTokens
<1>6. CASE lines[b] = 0
  <2>1. Promise!HeldAt(b)' \subseteq Promise!HeldAt(b)
    BY <1>5, <1>6
  <2>. QED BY <2>1, FewerTokens
<1>7. CASE lines[b] > 0
  <2>1. Cardinality(Promise!HeldAt(b)) + lines[b] <= InitialStock[b]
    BY <1>1, <1>7, SameData, SameCardinality DEF Promise!Fits, Promise!LineKeys
  <2>2. IsFiniteSet(tokens) /\ Cardinality(tokens) = lines[b]
    BY <1>4, TokenCount
  <2>3. IsFiniteSet(Promise!HeldAt(b))
    BY DEF HeldFit
  <2>. HIDE DEF tokens
  <2>4. /\ IsFiniteSet(Promise!HeldAt(b) \cup tokens)
        /\ Cardinality(Promise!HeldAt(b) \cup tokens)
             = Cardinality(Promise!HeldAt(b)) + Cardinality(tokens)
                 - Cardinality(Promise!HeldAt(b) \cap tokens)
    BY <2>2, <2>3, FS_Union
  <2>5. IsFiniteSet(Promise!HeldAt(b) \cap tokens)
    BY <2>3, FS_Subset
  <2>6. /\ IsFiniteSet(Promise!HeldAt(b)')
        /\ Cardinality(Promise!HeldAt(b)') <= Cardinality(Promise!HeldAt(b) \cup tokens)
    BY <1>5, <2>4, FS_Subset
  <2>7. /\ Cardinality(Promise!HeldAt(b)) \in Nat /\ Cardinality(tokens) \in Nat
        /\ Cardinality(Promise!HeldAt(b) \cap tokens) \in Nat
        /\ Cardinality(Promise!HeldAt(b)') \in Nat
        /\ Cardinality(Promise!HeldAt(b) \cup tokens) \in Nat /\ InitialStock[b] \in Nat
    BY <2>2, <2>3, <2>4, <2>5, <2>6, StockAssumption, FS_CardinalityType
  <2>. QED BY <1>4, <2>1, <2>2, <2>4, <2>6, <2>7
<1>. QED BY <1>4, <1>6, <1>7

\* Confirming, lifting and giving back take no new unit.
LEMMA OthersFit ==
    ASSUME Promise!HoldTypeOK, HeldFit, NEW o \in Orders,
           Promise!ConfirmHold(o) \/ Promise!LiftHold(o) \/ Promise!GiveBack(o)
    PROVE  HeldFit'
<1>1. ASSUME NEW x \in Orders
      PROVE  /\ AbstractHold'[x].lines = AbstractHold[x].lines
             /\ AbstractHold'[x].state \in {"reserved", "confirmed"}
                  => AbstractHold[x].state \in {"reserved", "confirmed"}
  BY DEF Promise!ConfirmHold, Promise!LiftHold, Promise!GiveBack, Promise!HoldTypeOK
<1>2. \A b \in Keys : Promise!HeldAt(b)' \subseteq Promise!HeldAt(b)
  BY <1>1 DEF Promise!HeldAt
<1>. QED BY <1>2, FewerTokens DEF HeldFit

LEMMA HoldTypeStep ==
    ASSUME Promise!HoldTypeOK, [Promise!HoldNext]_AbstractHold
    PROVE  Promise!HoldTypeOK'
<1>1. \A o \in Orders : RequestsOf[o] \subseteq Promise!Lines
  BY LinesAtType, SameData DEF RequestsOf
<1>. QED
  BY <1>1 DEF Promise!HoldTypeOK, Promise!HoldNext, Promise!TakeUnits, Promise!ConfirmHold,
     Promise!LiftHold, Promise!GiveBack, Promise!HoldStates

\* No balance is held beyond its stock by what implements StockHolds: the stock
\* check of reserveLines, made when the units are taken, is enough.
THEOREM HeldUnitsExist == Promise!HoldSpec => []Promise!HoldsWithinStock
<1>1. Promise!HoldInit => Promise!HoldTypeOK /\ HeldFit
  <2>. SUFFICES ASSUME Promise!HoldInit PROVE Promise!HoldTypeOK /\ HeldFit
    OBVIOUS
  <2>1. Promise!HoldTypeOK
    BY DEF Promise!HoldInit, Promise!HoldTypeOK, Promise!HoldStates, Promise!NoLines, Promise!Lines
  <2>2. \A b \in Keys : Promise!HeldAt(b) = {}
    BY DEF Promise!HoldInit, Promise!HeldAt
  <2>. QED BY <2>1, <2>2, StockAssumption, FS_EmptySet DEF HeldFit
<1>2. (Promise!HoldTypeOK /\ HeldFit) /\ [Promise!HoldNext]_AbstractHold
        => (Promise!HoldTypeOK /\ HeldFit)'
  <2>. SUFFICES ASSUME Promise!HoldTypeOK, HeldFit, [Promise!HoldNext]_AbstractHold
                PROVE  (Promise!HoldTypeOK /\ HeldFit)'
    OBVIOUS
  <2>1. Promise!HoldTypeOK'
    BY HoldTypeStep
  <2>2. CASE UNCHANGED AbstractHold
    BY <2>1, <2>2 DEF HeldFit, Promise!HeldAt
  <2>3. CASE Promise!HoldNext
    <3>1. PICK o \in Orders : \/ Promise!TakeUnits(o) \/ Promise!ConfirmHold(o)
                              \/ Promise!LiftHold(o) \/ Promise!GiveBack(o)
      BY <2>3 DEF Promise!HoldNext
    <3>. QED BY <2>1, <3>1, TakeFits, OthersFit
  <2>. QED BY <2>2, <2>3
<1>3. HeldFit => Promise!HoldsWithinStock
  BY SameData, SameCardinality DEF HeldFit, Promise!HoldsWithinStock
<1>. QED BY <1>1, <1>2, <1>3, PTL DEF Promise!HoldSpec

\* So the units the orders of the service hold exist, at every await.
THEOREM ServiceHoldsWithinStock ==
    ASSUME Serial
    PROVE  Spec => []Promise!HoldsWithinStock
BY ServiceKeepsPromise, HeldUnitsExist, PTL DEF KeepsPromise

=============================================================================
