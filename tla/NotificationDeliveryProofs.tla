---------------------- MODULE NotificationDeliveryProofs ----------------------
(***************************************************************************)
(* Theorems about NotificationDelivery for any messages, handlers, slots   *)
(* and bounds.                                                             *)
(*                                                                         *)
(* As long as the sections stay apart and PostgreSQL answers, a section    *)
(* that will write has read the row as it still is, so that the row only   *)
(* grows: an id once written keeps its message.  What a handler has seen   *)
(* of an id it then knows for good, and each way a message can still be    *)
(* sent is counted once.                                                   *)
(***************************************************************************)
EXTENDS NotificationDelivery, FiniteSetTheorems, WellFoundedInduction, TLAPS

----------------------------------------------------------------------------
\* Among the members of a set of subsets of a finite set one contains no other.
LEMMA SmallestOf ==
    ASSUME NEW S, IsFiniteSet(S), NEW T \in SUBSET (SUBSET S), T # {}
    PROVE  \E m \in T : \A i \in T : i \subseteq m => i = m
<1>1. T \subseteq FiniteSubsetsOf(S)
  BY FS_Subset DEF FiniteSubsetsOf
<1>2. PICK m \in T : \A i \in T : ~ (<<i, m>> \in StrictSubsetOrdering(S))
  BY <1>1, FS_StrictSubsetOrderingWellFounded, WFMin
<1>. QED BY <1>1, <1>2 DEF StrictSubsetOrdering, FiniteSubsetsOf

\* So a set of ids has a greatest one: of the intervals above its members, the one
\* that contains no other.
LEMMA MaxGreatest ==
    ASSUME NEW S \in SUBSET Ids, S # {}
    PROVE  Max(S) \in S /\ \A i \in S : i <= Max(S)
<1>. DEFINE Above == {i .. MaxId : i \in S}
<1>0. MaxId \in Nat /\ \A i \in S : i \in Nat /\ i <= MaxId
  BY NotificationBoundsAssumption DEF Ids
<1>1. IsFiniteSet(1 .. MaxId)
  BY <1>0, FS_Interval
<1>2. PICK U \in Above : \A V \in Above : V \subseteq U => V = U
  <2>1. PICK S0 : S0 = 1 .. MaxId
    OBVIOUS
  <2>2. PICK T0 : T0 = Above
    OBVIOUS
  <2>3. IsFiniteSet(S0) /\ T0 \in SUBSET (SUBSET S0) /\ T0 # {}
    <3>1. \A i \in S : i .. MaxId \subseteq 1 .. MaxId
      BY <1>0 DEF Ids
    <3>. QED BY <1>1, <2>1, <2>2, <3>1
  <2>4. \E m \in T0 : \A i \in T0 : i \subseteq m => i = m
    BY ONLY <2>3, SmallestOf
  <2>. QED BY <2>4, <2>2
<1>3. PICK m \in S : U = m .. MaxId
  OBVIOUS
<1>4. ASSUME NEW i \in S, ~(i <= m) PROVE FALSE
  <2>1. i .. MaxId \in Above /\ i .. MaxId \subseteq U
    BY <1>0, <1>3, <1>4
  <2>2. m \in U /\ m \notin i .. MaxId
    BY <1>0, <1>3, <1>4
  <2>. QED BY <1>2, <2>1, <2>2
<1>5. \E x \in S : \A y \in S : x >= y
  BY <1>0, <1>4
<1>. QED BY <1>0, <1>5 DEF Max

\* syncSequences never gives out an id that is in use.
LEMMA NextIdIsNew ==
    ASSUME NEW map, NextId(map) \in Ids
    PROVE  NextId(map) \notin Known(map)
<1>1. CASE Known(map) = {}
  BY <1>1
<1>2. CASE Known(map) # {}
  <2>1. Known(map) \in SUBSET Ids
    BY DEF Known
  <2>2. Max(Known(map)) \in Nat /\ \A i \in Known(map) : i <= Max(Known(map))
    BY <1>2, <2>1, MaxGreatest, NotificationBoundsAssumption DEF Ids
  <2>. QED BY <1>2, <2>1, <2>2, NotificationBoundsAssumption DEF NextId, Ids
<1>. QED BY <1>1, <1>2

(***************************************************************************)
(* Types.                                                                  *)
(***************************************************************************)
Phases == {"reading", "rewriting", "read", "landing", "queueing", "sending"}
Goals == {"create", "event", "find", "sent", "failed"}
Doing == [phase : Phases, goal : Goals, of : Messages \cup {AnyMessage}, id : Ids,
          copy : Snapshot, fresh : BOOLEAN, writes : {1, 2}]

\* What a handler of the API, and of the worker, can be doing.
ApiTask(t) ==
    /\ t \in Doing
    /\ t.goal \in {"create", "event"}
    /\ t.phase # "sending"
    /\ t.phase = "queueing" => t.goal = "create"
    /\ t.goal = "create" => t.of \in Messages
WorkerTask(t) ==
    /\ t \in Doing
    /\ t.goal \in {"find", "sent", "failed"}
    /\ t.phase # "queueing"
    /\ t.phase = "sending" => t.goal = "sent" /\ t.of \in Messages
    /\ t.phase = "landing" => t.goal # "find"

Tasks ==
    /\ task \in [Handlers -> {Idle} \cup Doing]
    /\ \A h \in ApiHandlers : task[h] = Idle \/ ApiTask(task[h])
    /\ \A h \in WorkerSlots : task[h] = Idle \/ WorkerTask(task[h])

\* A job that is active is run by one slot, and no slot runs another.
Jobs ==
    /\ job \in [Ids -> [state : {"none", "waiting", "active", "failed"}, tries : 0 .. Attempts]]
    /\ \A n \in Ids : job[n].state \in {"waiting", "active"} => job[n].tries < Attempts
    /\ \A h \in WorkerSlots : task[h] # Idle => job[task[h].id].state = "active"
    /\ \A h, k \in WorkerSlots :
          h # k /\ task[h] # Idle /\ task[k] # Idle => task[h].id # task[k].id

Typed ==
    /\ memory \in [Processes -> Snapshot]
    /\ row \in Snapshot
    /\ requeue \subseteq Ids
    /\ asked \subseteq Messages
    /\ kept \subseteq Messages
    /\ sent \in [Messages -> Nat]
    /\ mixed \in BOOLEAN
    /\ events \in Nat /\ restarts \in Nat /\ faults \in Nat
    /\ Tasks
    /\ Jobs

LEMMA IdleIsNot ==
    /\ Idle \notin Doing
    /\ \A t \in Doing : t # Idle
    /\ Idle.phase = "idle"
BY DEF Idle, Doing, Phases

LEMMA NoneIsNot ==
    /\ None \notin Notification
    /\ \A x \in Notification : x # None /\ x.of \in Messages /\ x.status \in Statuses
BY DEF None, Notification

LEMMA EmptyIsSnapshot == Empty \in Snapshot
BY DEF Empty, Snapshot

LEMMA SectionIs ==
    ASSUME NEW goal \in Goals, NEW m \in Messages \cup {AnyMessage}, NEW n \in Ids
    PROVE  LET s == Section(goal, m, n)
           IN  s \in Doing /\ s.phase = "reading" /\ s.goal = goal /\ s.of = m /\ s.id = n
BY EmptyIsSnapshot DEF Section, Doing, Phases

LEMMA OneIsId == 1 \in Ids
BY NotificationBoundsAssumption DEF Ids

LEMMA WhereIs ==
    ASSUME NEW h \in Handlers
    PROVE  /\ ProcessOf(h) \in Processes
           /\ h \in ApiHandlers => h \notin WorkerSlots /\ ProcessOf(h) = "api"
           /\ h \in WorkerSlots => h \notin ApiHandlers /\ ProcessOf(h) = "worker"
BY HandlersAssumption DEF ProcessOf, Processes, Handlers

LEMMA RestoredIs ==
    ASSUME Typed, NEW h \in Handlers, task[h] \in Doing
    PROVE  Restored(h) \in Snapshot
BY WhereIs DEF Typed, Restored, Doing

\* A step of one handler of the API leaves the others and the jobs as they were.
LEMMA ApiTyped ==
    ASSUME Tasks, NEW h \in ApiHandlers, NEW t, t = Idle \/ ApiTask(t),
           task' = [task EXCEPT ![h] = t]
    PROVE  Tasks' /\ \A k \in WorkerSlots : task'[k] = task[k]
<1>1. h \in Handlers /\ t \in {Idle} \cup Doing
  BY DEF Handlers, ApiTask
<1>2. \A k \in Handlers : task'[k] = IF k = h THEN t ELSE task[k]
  BY <1>1 DEF Tasks
<1>3. \A k \in WorkerSlots : k \in Handlers /\ k # h
  BY <1>1, WhereIs DEF Handlers
<1>4. \A k \in ApiHandlers : k \in Handlers
  BY DEF Handlers
<1>5. task' \in [Handlers -> {Idle} \cup Doing]
  BY <1>1 DEF Tasks
<1>. QED BY <1>1, <1>2, <1>3, <1>4, <1>5 DEF Tasks

LEMMA WorkerTyped ==
    ASSUME Tasks, NEW h \in WorkerSlots, NEW t, t = Idle \/ WorkerTask(t),
           task' = [task EXCEPT ![h] = t]
    PROVE  Tasks' /\ task'[h] = t /\ \A k \in WorkerSlots \ {h} : task'[k] = task[k]
<1>1. h \in Handlers /\ t \in {Idle} \cup Doing
  BY DEF Handlers, WorkerTask
<1>2. \A k \in Handlers : task'[k] = IF k = h THEN t ELSE task[k]
  BY <1>1 DEF Tasks
<1>3. \A k \in ApiHandlers : k \in Handlers /\ k # h
  BY <1>1, WhereIs DEF Handlers
<1>4. \A k \in WorkerSlots : k \in Handlers
  BY DEF Handlers
<1>5. task' \in [Handlers -> {Idle} \cup Doing]
  BY <1>1 DEF Tasks
<1>. QED BY <1>1, <1>2, <1>3, <1>4, <1>5 DEF Tasks

\* The slot goes on with its job, or leaves it.
LEMMA JobGoesOn ==
    ASSUME Jobs, Tasks, NEW h \in WorkerSlots, task[h] # Idle, NEW t \in Doing,
           t.id = task[h].id, UNCHANGED job, task'[h] = t,
           \A k \in WorkerSlots \ {h} : task'[k] = task[k]
    PROVE  Jobs'
BY DEF Jobs

LEMMA JobEnds ==
    ASSUME Jobs, Tasks, NEW h \in WorkerSlots, task[h] # Idle,
           NEW x \in [state : {"none", "waiting", "failed"}, tries : 0 .. Attempts],
           x.state = "waiting" => x.tries < Attempts,
           job' = [job EXCEPT ![task[h].id] = x], task'[h] = Idle,
           \A k \in WorkerSlots \ {h} : task'[k] = task[k]
    PROVE  Jobs'
<1>1. h \in Handlers /\ task[h].id \in Ids
  BY DEF Handlers, Tasks, Doing
<1>2. \A n \in Ids : job'[n] = IF n = task[h].id THEN x ELSE job[n]
  BY <1>1 DEF Jobs
<1>3. job' \in [Ids -> [state : {"none", "waiting", "active", "failed"}, tries : 0 .. Attempts]]
  BY <1>1 DEF Jobs
<1>4. \A n \in Ids : job'[n].state \in {"waiting", "active"} => job'[n].tries < Attempts
  BY <1>2 DEF Jobs
<1>5. \A k \in WorkerSlots : task'[k] # Idle => k # h /\ task[k] # Idle /\ task[k].id \in Ids
  BY DEF Handlers, Tasks, Doing
<1>6. \A k \in WorkerSlots : task'[k] # Idle => job'[task'[k].id].state = "active"
  BY <1>1, <1>2, <1>5 DEF Jobs
<1>. QED BY <1>3, <1>4, <1>5, <1>6 DEF Jobs

LEMMA JobAdded ==
    ASSUME Jobs, Tasks, NEW n \in Ids, job' = Added(n),
           \A k \in WorkerSlots : task'[k] = task[k]
    PROVE  Jobs'
<1>1. \A i \in Ids : job'[i] = IF i = n /\ job[n].state = "none" THEN [state |-> "waiting", tries |-> 0]
                               ELSE job[i]
  BY DEF Jobs, Added
<1>2. job' \in [Ids -> [state : {"none", "waiting", "active", "failed"}, tries : 0 .. Attempts]]
  BY <1>1 DEF Jobs, Added, Attempts
<1>3. \A i \in Ids : job'[i].state \in {"waiting", "active"} => job'[i].tries < Attempts
  BY <1>1 DEF Jobs, Attempts
<1>4. \A k \in WorkerSlots : task[k] # Idle => task[k].id \in Ids
  BY DEF Handlers, Tasks, Doing
<1>5. \A k \in WorkerSlots : task[k] # Idle => job'[task[k].id].state = "active"
  BY <1>1, <1>4 DEF Jobs
<1>. QED BY <1>2, <1>3, <1>5 DEF Jobs

LEMMA JobsKept ==
    ASSUME Jobs, UNCHANGED job, \A k \in WorkerSlots : task'[k] = task[k]
    PROVE  Jobs'
BY DEF Jobs

----------------------------------------------------------------------------
\* The handlers of the API, typed.
LEMMA EnterIs ==
    ASSUME NEW h, NEW s, Enter(h, s), mixed \in BOOLEAN
    PROVE  task' = [task EXCEPT ![h] = s] /\ mixed' \in BOOLEAN
BY Zenon DEF Enter

LEMMA AccessTyped ==
    ASSUME Typed, NEW h \in Handlers, Access(h)
    PROVE  /\ task[h] \in Doing /\ task'[h] \in Doing /\ task'[h].id = task[h].id
           /\ task' = [task EXCEPT ![h] = task'[h]]
           /\ task'[h].goal = task[h].goal /\ task'[h].of = task[h].of
           /\ task'[h].phase \in {"read", "rewriting"}
           /\ row' \in Snapshot /\ faults' \in Nat
<1>1. task[h] # Idle /\ task[h] \in Doing /\ task \in [Handlers -> {Idle} \cup Doing]
  BY IdleIsNot DEF Typed, Tasks, Access, load, loadFails, rewrite
<1>2. ProcessOf(h) \in Processes /\ row \in Snapshot /\ memory \in [Processes -> Snapshot] /\ faults \in Nat
  BY WhereIs DEF Typed
<1>3. CASE load(h)
  <2>. DEFINE t == [task[h] EXCEPT !.phase = "read", !.copy = row, !.fresh = TRUE]
  <2>1. task' = [task EXCEPT ![h] = t] /\ task[h].phase \in {"reading", "rewriting"}
    BY <1>1, <1>3 DEF load
  <2>2. /\ t \in Doing /\ t.id = task[h].id /\ t.goal = task[h].goal /\ t.of = task[h].of
        /\ t.phase \in {"read", "rewriting"}
    BY <1>1, <1>2 DEF Doing, Phases
  <2>3. row' \in Snapshot /\ faults' \in Nat
    BY <1>1, <1>2, <1>3 DEF load, Doing, bounds
  <2>. HIDE DEF t
  <2>4. task'[h] = t
    BY <1>1, <2>1
  <2>. QED BY <1>1, <2>1, <2>2, <2>3, <2>4
<1>4. CASE loadFails(h)
  <2>. DEFINE t == [task[h] EXCEPT !.phase = "rewriting", !.copy = memory[ProcessOf(h)]]
  <2>1. task' = [task EXCEPT ![h] = t] /\ task[h].phase \in {"reading", "rewriting"}
    BY <1>1, <1>4 DEF loadFails
  <2>2. /\ t \in Doing /\ t.id = task[h].id /\ t.goal = task[h].goal /\ t.of = task[h].of
        /\ t.phase \in {"read", "rewriting"}
    BY <1>1, <1>2 DEF Doing, Phases
  <2>3. row' \in Snapshot /\ faults' \in Nat
    BY <1>1, <1>2, <1>4 DEF loadFails, Doing, bounds
  <2>. HIDE DEF t
  <2>4. task'[h] = t
    BY <1>1, <2>1
  <2>. QED BY <1>1, <2>1, <2>2, <2>3, <2>4
<1>5. CASE rewrite(h)
  <2>. DEFINE t == [task[h] EXCEPT !.phase = "read"]
  <2>1. task' = [task EXCEPT ![h] = t] /\ task[h].phase \in {"reading", "rewriting"}
    BY <1>1, <1>5 DEF rewrite
  <2>2. /\ t \in Doing /\ t.id = task[h].id /\ t.goal = task[h].goal /\ t.of = task[h].of
        /\ t.phase \in {"read", "rewriting"}
    BY <1>1, <1>2 DEF Doing, Phases
  <2>3. row' \in Snapshot /\ faults' \in Nat
    BY <1>1, <1>2, <1>5 DEF rewrite, Doing, bounds
  <2>. HIDE DEF t
  <2>4. task'[h] = t
    BY <1>1, <2>1
  <2>. QED BY <1>1, <2>1, <2>2, <2>3, <2>4
<1>. QED BY <1>3, <1>4, <1>5 DEF Access

LEMMA LandedTyped ==
    ASSUME Typed, NEW h \in Handlers, Landed(h)
    PROVE  task[h] \in Doing /\ row' \in Snapshot /\ faults' \in Nat
<1>1. task[h] # Idle /\ task[h] \in Doing
  BY IdleIsNot DEF Typed, Tasks, Landed
<1>. QED BY <1>1 DEF Typed, Landed, Doing

LEMMA WriteTyped ==
    ASSUME Typed, NEW h \in Handlers, task[h] \in Doing, NEW map \in Snapshot, NEW n \in Ids,
           Write(h, map, n)
    PROVE  /\ memory' \in [Processes -> Snapshot]
           /\ task' = [task EXCEPT ![h] = task'[h]]
           /\ task'[h] = [task[h] EXCEPT !.phase = "landing", !.copy = map, !.id = n]
           /\ task'[h] \in Doing
BY WhereIs DEF Typed, Tasks, Write, Doing, Phases

LEMMA CreateTyped ==
    ASSUME Typed, NEW h \in ApiHandlers, Create(h)
    PROVE  Typed'
<1>1. h \in Handlers /\ task[h] \in Doing /\ ApiTask(task[h]) /\ task[h].phase = "read"
      /\ task[h].goal = "create"
  BY IdleIsNot DEF Typed, Tasks, Create, Handlers
<1>. DEFINE map == Restored(h)
            n == NextId(map)
<1>2. map \in Snapshot /\ n \in Ids
  BY <1>1, RestoredIs DEF Create
<1>3. PICK status \in Statuses :
         Write(h, [map EXCEPT ![n] = [status |-> status, of |-> task[h].of]], n)
  BY DEF Create
<1>4. [map EXCEPT ![n] = [status |-> status, of |-> task[h].of]] \in Snapshot
  BY <1>1, <1>2 DEF Snapshot, Notification, ApiTask
<1>. HIDE DEF map, n
<1>5. /\ memory' \in [Processes -> Snapshot]
      /\ task' = [task EXCEPT ![h] = task'[h]]
      /\ task'[h] \in Doing /\ task'[h].phase = "landing"
      /\ task'[h].goal = task[h].goal /\ task'[h].of = task[h].of
  <2>1. /\ memory' \in [Processes -> Snapshot]
        /\ task' = [task EXCEPT ![h] = task'[h]]
        /\ task'[h] = [task[h] EXCEPT !.phase = "landing",
              !.copy = [map EXCEPT ![n] = [status |-> status, of |-> task[h].of]], !.id = n]
        /\ task'[h] \in Doing
    BY <1>1, <1>2, <1>3, <1>4, WriteTyped
  <2>. QED BY <1>1, <2>1 DEF Doing
<1>6. Tasks' /\ \A k \in WorkerSlots : task'[k] = task[k]
  BY <1>1, <1>5, ApiTyped DEF Typed, ApiTask
<1>7. Jobs'
  BY <1>6, JobsKept DEF Typed, Create
<1>. QED BY <1>5, <1>6, <1>7 DEF Typed, Create, bounds

LEMMA EventTyped ==
    ASSUME Typed, NEW h \in ApiHandlers, Event(h)
    PROVE  Typed'
<1>1. h \in Handlers /\ task[h] \in Doing /\ ApiTask(task[h]) /\ task[h].goal = "event"
  BY IdleIsNot DEF Typed, Tasks, Event, Handlers
<1>2. Restored(h) \in Snapshot /\ task[h].id \in Ids
  BY <1>1, RestoredIs DEF Doing
<1>5. /\ memory' \in [Processes -> Snapshot]
      /\ task' = [task EXCEPT ![h] = task'[h]]
      /\ task'[h] \in Doing /\ task'[h].phase = "landing"
      /\ task'[h].goal = task[h].goal /\ task'[h].of = task[h].of
  <2>1. /\ memory' \in [Processes -> Snapshot]
        /\ task' = [task EXCEPT ![h] = task'[h]]
        /\ task'[h] = [task[h] EXCEPT !.phase = "landing", !.copy = Restored(h), !.id = task[h].id]
        /\ task'[h] \in Doing
    BY <1>1, <1>2, WriteTyped DEF Event
  <2>. QED BY <1>1, <2>1 DEF Doing
<1>6. Tasks' /\ \A k \in WorkerSlots : task'[k] = task[k]
  BY <1>1, <1>5, ApiTyped DEF Typed, ApiTask
<1>7. Jobs'
  BY <1>6, JobsKept DEF Typed, Event
<1>. QED BY <1>5, <1>6, <1>7 DEF Typed, Event, bounds

LEMMA SectionOfApi ==
    ASSUME NEW goal \in {"create", "event"}, NEW m \in Messages \cup {AnyMessage}, NEW n \in Ids,
           goal = "create" => m \in Messages
    PROVE  ApiTask(Section(goal, m, n))
BY SectionIs DEF ApiTask, Goals

LEMMA SectionOfWorker ==
    ASSUME NEW goal \in {"find", "sent", "failed"}, NEW m \in Messages \cup {AnyMessage}, NEW n \in Ids
    PROVE  WorkerTask(Section(goal, m, n))
BY SectionIs DEF WorkerTask, Goals

LEMMA ApiStepTyped ==
    ASSUME Typed, NEW h \in ApiHandlers,
           \/ \E m \in Messages : createNotification(h, m)
           \/ recordEvent(h)
           \/ ApiSteps(h)
    PROVE  Typed'
<1>1. h \in Handlers
  BY DEF Handlers
<1>2. ASSUME NEW m \in Messages, createNotification(h, m) PROVE Typed'
  <2>1. ApiTask(Section("create", m, 1))
    BY SectionOfApi, OneIsId
  <2>2. task' = [task EXCEPT ![h] = Section("create", m, 1)] /\ mixed' \in BOOLEAN
    BY <1>2, EnterIs DEF createNotification, Typed
  <2>3. Tasks' /\ \A k \in WorkerSlots : task'[k] = task[k]
    BY <2>1, <2>2, ApiTyped DEF Typed
  <2>. QED BY <1>2, <2>2, <2>3, JobsKept DEF createNotification, Typed, bounds
<1>3. ASSUME recordEvent(h) PROVE Typed'
  <2>1. ApiTask(Section("event", AnyMessage, 1))
    BY SectionOfApi, OneIsId
  <2>2. task' = [task EXCEPT ![h] = Section("event", AnyMessage, 1)] /\ mixed' \in BOOLEAN
    BY <1>3, EnterIs DEF recordEvent, Typed
  <2>3. Tasks' /\ \A k \in WorkerSlots : task'[k] = task[k]
    BY <2>1, <2>2, ApiTyped DEF Typed
  <2>. QED BY <1>3, <2>2, <2>3, JobsKept DEF recordEvent, Typed, bounds
<1>4. ASSUME Access(h) PROVE Typed'
  <2>1. /\ task[h] \in Doing /\ task'[h] \in Doing
        /\ task' = [task EXCEPT ![h] = task'[h]]
        /\ task'[h].goal = task[h].goal /\ task'[h].of = task[h].of
        /\ task'[h].phase \in {"read", "rewriting"}
        /\ row' \in Snapshot /\ faults' \in Nat
    BY <1>1, <1>4, AccessTyped
  <2>2. ApiTask(task'[h])
    BY <2>1, IdleIsNot DEF Typed, Tasks, ApiTask
  <2>3. Tasks' /\ \A k \in WorkerSlots : task'[k] = task[k]
    BY <2>1, <2>2, ApiTyped DEF Typed
  <2>4. UNCHANGED <<memory, job, requeue, asked, kept, sent, mixed, events, restarts>>
    BY <1>4 DEF Access, load, loadFails, rewrite, bounds
  <2>. QED BY <2>1, <2>3, <2>4, JobsKept DEF Typed
<1>5. ASSUME CreateLanded(h) PROVE Typed'
  <2>1. task[h] \in Doing /\ row' \in Snapshot /\ faults' \in Nat /\ ApiTask(task[h])
    BY <1>1, <1>5, LandedTyped, IdleIsNot DEF CreateLanded, Typed, Tasks
  <2>2. task' = [task EXCEPT ![h] = [task[h] EXCEPT !.phase = "queueing"]]
        /\ ApiTask([task[h] EXCEPT !.phase = "queueing"])
    BY <1>1, <1>5, <2>1 DEF CreateLanded, Typed, Tasks, ApiTask, Doing, Phases
  <2>3. Tasks' /\ \A k \in WorkerSlots : task'[k] = task[k]
    BY <2>2, ApiTyped DEF Typed
  <2>4. kept' \subseteq Messages
    BY <1>5, <2>1 DEF CreateLanded, Typed, ApiTask
  <2>. QED BY <1>5, <2>1, <2>3, <2>4, JobsKept DEF CreateLanded, Typed
<1>6. ASSUME Queue(h) PROVE Typed'
  <2>1. task[h] \in Doing
    BY <1>1, <1>6, IdleIsNot DEF Queue, Typed, Tasks
  <2>2. ApiTask(Section("event", AnyMessage, 1))
    BY SectionOfApi, OneIsId
  <2>3. task' = [task EXCEPT ![h] = Section("event", AnyMessage, 1)] /\ mixed' \in BOOLEAN
    BY <1>6, EnterIs DEF Queue, Typed
  <2>4. Tasks' /\ \A k \in WorkerSlots : task'[k] = task[k]
    BY <2>2, <2>3, ApiTyped DEF Typed
  <2>5. Jobs'
    BY <1>6, <2>1, <2>4, JobsKept, JobAdded DEF Queue, Typed, Doing
  <2>6. faults' \in Nat
    BY <1>6 DEF Queue, Typed
  <2>. QED BY <1>6, <2>3, <2>4, <2>5, <2>6 DEF Queue, Typed
<1>7. ASSUME EventLanded(h) PROVE Typed'
  <2>1. row' \in Snapshot /\ faults' \in Nat
    BY <1>1, <1>7, LandedTyped DEF EventLanded
  <2>3. Tasks' /\ \A k \in WorkerSlots : task'[k] = task[k]
    BY <1>7, ApiTyped DEF Typed, EventLanded, End
  <2>. QED BY <1>7, <2>1, <2>3, JobsKept DEF EventLanded, Typed
<1>. QED BY <1>2, <1>3, <1>4, <1>5, <1>6, <1>7, CreateTyped, EventTyped DEF ApiSteps

----------------------------------------------------------------------------
\* The worker, typed.
LEMMA TakeTyped ==
    ASSUME Typed, NEW h \in WorkerSlots, NEW n \in Ids, Take(h, n)
    PROVE  Typed'
<1>1. WorkerTask(Section("find", AnyMessage, n)) /\ Section("find", AnyMessage, n).id = n
  BY SectionOfWorker, SectionIs DEF Goals
<1>2. task' = [task EXCEPT ![h] = Section("find", AnyMessage, n)] /\ mixed' \in BOOLEAN
  BY EnterIs DEF Take, Typed
<1>3. /\ Tasks' /\ task'[h] = Section("find", AnyMessage, n)
      /\ \A k \in WorkerSlots \ {h} : task'[k] = task[k]
  BY <1>1, <1>2, WorkerTyped DEF Typed
<1>4. job[n].state = "waiting" /\ job' = [job EXCEPT ![n].state = "active"] /\ Jobs
  BY DEF Take, Typed
<1>5. /\ \A i \in Ids : job'[i] = IF i = n THEN [job[n] EXCEPT !.state = "active"] ELSE job[i]
      /\ job' \in [Ids -> [state : {"none", "waiting", "active", "failed"}, tries : 0 .. Attempts]]
  BY <1>4 DEF Jobs
<1>6. \A i \in Ids : job'[i].state \in {"waiting", "active"} => job'[i].tries < Attempts
  BY <1>4, <1>5 DEF Jobs
<1>7. \A k \in WorkerSlots : task[k] # Idle => task[k].id \in Ids /\ task[k].id # n
  BY <1>4 DEF Handlers, Typed, Tasks, Doing, Jobs
<1>8. Jobs'
  <2>1. \A k \in WorkerSlots : task'[k] # Idle => job'[task'[k].id].state = "active"
    BY <1>1, <1>3, <1>4, <1>5, <1>7 DEF Jobs
  <2>2. \A j, k \in WorkerSlots :
           j # k /\ task'[j] # Idle /\ task'[k] # Idle => task'[j].id # task'[k].id
    BY <1>1, <1>3, <1>4, <1>7 DEF Jobs
  <2>. QED BY <1>5, <1>6, <2>1, <2>2 DEF Jobs
<1>. QED BY <1>2, <1>3, <1>8 DEF Take, Typed, bounds

LEMMA FindTyped ==
    ASSUME Typed, NEW h \in WorkerSlots, Find(h)
    PROVE  Typed'
<1>1. h \in Handlers /\ task[h] \in Doing /\ task[h] # Idle /\ Restored(h) \in Snapshot
      /\ task[h].id \in Ids
  <2>1. h \in Handlers /\ task[h] \in Doing
    BY IdleIsNot DEF Typed, Tasks, Find, Handlers
  <2>. QED BY <2>1, RestoredIs, IdleIsNot DEF Doing
<1>. DEFINE x == Restored(h)[task[h].id]
            sending == [Section("sent", x.of, task[h].id) EXCEPT !.phase = "sending"]
            marking == Section("sent", AnyMessage, task[h].id)
<1>2. memory' \in [Processes -> Snapshot]
  BY <1>1 DEF Find, Typed, Processes
<1>3. CASE x # None /\ x.of \in Emails
  <2>1. x.of \in Messages
    BY <1>3, MessagesAssumption
  <2>2. WorkerTask(sending) /\ sending.id = task[h].id /\ sending \in Doing
    <3>1. LET s == Section("sent", x.of, task[h].id)
          IN  s \in Doing /\ s.goal = "sent" /\ s.of = x.of /\ s.id = task[h].id
      BY <1>1, <2>1, SectionIs DEF Goals
    <3>. QED BY <2>1, <3>1 DEF WorkerTask, Doing, Phases
  <2>3. task' = [task EXCEPT ![h] = sending] /\ mixed' = mixed
    BY <1>1, <1>3 DEF Find, Typed, Tasks
  <2>. HIDE DEF sending, x
  <2>4. Tasks' /\ task'[h] = sending /\ \A k \in WorkerSlots \ {h} : task'[k] = task[k]
    BY <2>2, <2>3, WorkerTyped DEF Typed
  <2>5. Jobs'
    BY <1>1, <2>2, <2>4, JobGoesOn DEF Typed, Find
  <2>. QED BY <1>2, <2>3, <2>4, <2>5 DEF Find, Typed, bounds
<1>4. CASE ~(x # None /\ x.of \in Emails)
  <2>2. WorkerTask(marking) /\ marking.id = task[h].id /\ marking \in Doing
    <3>1. AnyMessage \in Messages \cup {AnyMessage} /\ "sent" \in {"find", "sent", "failed"}
          /\ "sent" \in Goals
      BY DEF Goals
    <3>. QED BY <1>1, <3>1, SectionOfWorker, SectionIs
  <2>3. task' = [task EXCEPT ![h] = marking] /\ mixed' \in BOOLEAN
    <3>1. Enter(h, marking)
      BY <1>4 DEF Find
    <3>. QED BY <3>1, EnterIs DEF Typed
  <2>. HIDE DEF marking, x
  <2>4. Tasks' /\ task'[h] = marking /\ \A k \in WorkerSlots \ {h} : task'[k] = task[k]
    BY <2>2, <2>3, WorkerTyped DEF Typed
  <2>5. Jobs'
    BY <1>1, <2>2, <2>4, JobGoesOn DEF Typed, Find
  <2>. QED BY <1>2, <2>3, <2>4, <2>5 DEF Find, Typed, bounds
<1>. QED BY <1>3, <1>4

LEMMA SendTyped ==
    ASSUME Typed, NEW h \in WorkerSlots, Send(h)
    PROVE  Typed'
<1>1. h \in Handlers /\ task[h] \in Doing /\ task[h] # Idle /\ WorkerTask(task[h])
      /\ task[h].id \in Ids /\ task[h].of \in Messages
  <2>1. h \in Handlers /\ task[h] \in Doing /\ WorkerTask(task[h])
    BY IdleIsNot DEF Typed, Tasks, Send, Handlers
  <2>. QED BY <2>1, IdleIsNot DEF Doing, WorkerTask, Send
<1>2. PICK accepted \in BOOLEAN, goal \in {"sent", "failed"} :
         /\ sent' = IF accepted THEN [sent EXCEPT ![task[h].of] = @ + 1] ELSE sent
         /\ Enter(h, Section(goal, task[h].of, task[h].id))
  BY DEF Send
<1>3. sent' \in [Messages -> Nat]
  BY <1>1, <1>2 DEF Typed
<1>. DEFINE s == Section(goal, task[h].of, task[h].id)
<1>4. WorkerTask(s) /\ s.id = task[h].id /\ s \in Doing
  BY <1>1, SectionOfWorker, SectionIs DEF Goals
<1>5. task' = [task EXCEPT ![h] = s] /\ mixed' \in BOOLEAN
  BY <1>2, EnterIs DEF Typed
<1>. HIDE DEF s
<1>6. Tasks' /\ task'[h] = s /\ \A k \in WorkerSlots \ {h} : task'[k] = task[k]
  BY <1>4, <1>5, WorkerTyped DEF Typed
<1>7. Jobs'
  BY <1>1, <1>4, <1>6, JobGoesOn DEF Typed, Send
<1>. QED BY <1>3, <1>5, <1>6, <1>7 DEF Send, Typed, bounds

LEMMA MarkTyped ==
    ASSUME Typed, NEW h \in WorkerSlots, Mark(h)
    PROVE  Typed'
<1>1. h \in Handlers /\ task[h] \in Doing /\ task[h] # Idle /\ WorkerTask(task[h])
      /\ task[h].id \in Ids /\ Restored(h) \in Snapshot
  <2>1. h \in Handlers /\ task[h] \in Doing /\ WorkerTask(task[h])
    BY IdleIsNot DEF Typed, Tasks, Mark, Handlers
  <2>. QED BY <2>1, RestoredIs, IdleIsNot DEF Doing
<1>2. CASE Restored(h)[task[h].id] = None
  <2>1. job[task[h].id].state = "active" /\ job[task[h].id].tries \in 0 .. 2
    BY <1>1 DEF Typed, Jobs, Attempts
  <2>2. /\ Tried(job[task[h].id]) \in [state : {"none", "waiting", "failed"}, tries : 0 .. Attempts]
        /\ Tried(job[task[h].id]).state = "waiting" => Tried(job[task[h].id]).tries < Attempts
    BY <2>1 DEF Tried, Attempts
  <2>3. Tasks' /\ task'[h] = Idle /\ \A k \in WorkerSlots \ {h} : task'[k] = task[k]
    BY <1>2, WorkerTyped DEF Typed, Mark, End
  <2>4. job' = [job EXCEPT ![task[h].id] = Tried(job[task[h].id])]
    BY <1>1, <1>2 DEF Mark, Typed, Jobs
  <2>5. Jobs'
    BY <1>1, <2>2, <2>3, <2>4, JobEnds DEF Typed
  <2>6. memory' \in [Processes -> Snapshot]
    BY <1>1, <1>2 DEF Mark, Typed, Processes
  <2>. QED BY <2>3, <2>5, <2>6 DEF Mark, Typed, bounds
<1>3. CASE Restored(h)[task[h].id] # None
  <2>. DEFINE map == [Restored(h) EXCEPT ![task[h].id].status = task[h].goal]
  <2>1. map \in Snapshot
    <3>1. Restored(h)[task[h].id] \in Notification
      BY <1>1, <1>3 DEF Snapshot
    <3>2. [Restored(h)[task[h].id] EXCEPT !.status = task[h].goal] \in Notification
      BY <3>1 DEF Mark, Notification, Statuses
    <3>. QED BY <1>1, <3>2 DEF Snapshot
  <2>2. Write(h, map, task[h].id) /\ UNCHANGED job
    BY <1>3 DEF Mark
  <2>. HIDE DEF map
  <2>3. /\ memory' \in [Processes -> Snapshot]
        /\ task' = [task EXCEPT ![h] = task'[h]]
        /\ task'[h] = [task[h] EXCEPT !.phase = "landing", !.copy = map, !.id = task[h].id]
        /\ task'[h] \in Doing
    BY <1>1, <2>1, <2>2, WriteTyped
  <2>4. WorkerTask(task'[h]) /\ task'[h].id = task[h].id
    BY <1>1, <2>3 DEF WorkerTask, Doing, Mark
  <2>5. Tasks' /\ \A k \in WorkerSlots \ {h} : task'[k] = task[k]
    BY <2>3, <2>4, WorkerTyped DEF Typed
  <2>6. Jobs'
    BY <1>1, <2>2, <2>3, <2>4, <2>5, JobGoesOn DEF Typed
  <2>. QED BY <2>3, <2>5, <2>6 DEF Mark, Typed, bounds
<1>. QED BY <1>2, <1>3

LEMMA MarkLandedTyped ==
    ASSUME Typed, NEW h \in WorkerSlots, MarkLanded(h)
    PROVE  Typed'
<1>1. h \in Handlers /\ task[h] \in Doing /\ row' \in Snapshot /\ faults' \in Nat
  BY LandedTyped DEF Handlers, MarkLanded
<1>2. task[h] # Idle /\ WorkerTask(task[h]) /\ task[h].id \in Ids
  BY <1>1, IdleIsNot DEF Typed, Tasks, Doing
<1>3. CASE task[h].writes = 1
  <2>. DEFINE t == [task[h] EXCEPT !.writes = 2, !.copy = memory["worker"]]
  <2>1. task' = [task EXCEPT ![h] = t] /\ UNCHANGED job
    BY <1>1, <1>3 DEF MarkLanded, Typed, Tasks
  <2>2. WorkerTask(t) /\ t.id = task[h].id /\ t \in Doing
    <3>1. memory["worker"] \in Snapshot
      BY DEF Typed, Processes
    <3>. QED BY <1>2, <3>1 DEF WorkerTask, Doing
  <2>. HIDE DEF t
  <2>3. Tasks' /\ task'[h] = t /\ \A k \in WorkerSlots \ {h} : task'[k] = task[k]
    BY <2>1, <2>2, WorkerTyped DEF Typed
  <2>4. Jobs'
    BY <1>2, <2>1, <2>2, <2>3, JobGoesOn DEF Typed
  <2>. QED BY <1>1, <2>3, <2>4 DEF MarkLanded, Typed
<1>4. CASE task[h].writes # 1
  <2>1. job' = [job EXCEPT ![task[h].id] = NoJob] /\ task' = [task EXCEPT ![h] = Idle]
    BY <1>4 DEF MarkLanded, End
  <2>2. Tasks' /\ task'[h] = Idle /\ \A k \in WorkerSlots \ {h} : task'[k] = task[k]
    BY <2>1, WorkerTyped DEF Typed
  <2>3. NoJob \in [state : {"none", "waiting", "failed"}, tries : 0 .. Attempts]
        /\ NoJob.state # "waiting"
    BY DEF NoJob, Attempts
  <2>4. Jobs'
    BY <1>2, <2>1, <2>2, <2>3, JobEnds DEF Typed
  <2>. QED BY <1>1, <2>2, <2>4 DEF MarkLanded, Typed
<1>. QED BY <1>3, <1>4

LEMMA WorkerStepTyped ==
    ASSUME Typed, NEW h \in WorkerSlots, WorkerSteps(h)
    PROVE  Typed'
<1>1. h \in Handlers
  BY DEF Handlers
<1>2. ASSUME Access(h) PROVE Typed'
  <2>1. /\ task[h] \in Doing /\ task'[h] \in Doing /\ task'[h].id = task[h].id
        /\ task' = [task EXCEPT ![h] = task'[h]]
        /\ task'[h].goal = task[h].goal /\ task'[h].of = task[h].of
        /\ task'[h].phase \in {"read", "rewriting"}
        /\ row' \in Snapshot /\ faults' \in Nat
    BY <1>1, <1>2, AccessTyped
  <2>2. WorkerTask(task'[h]) /\ task[h] # Idle
    BY <2>1, IdleIsNot DEF Typed, Tasks, WorkerTask
  <2>3. Tasks' /\ \A k \in WorkerSlots \ {h} : task'[k] = task[k]
    BY <2>1, <2>2, WorkerTyped DEF Typed
  <2>4. UNCHANGED <<memory, job, requeue, asked, kept, sent, mixed, events, restarts>>
    BY <1>2 DEF Access, load, loadFails, rewrite, bounds
  <2>5. Jobs'
    BY <2>1, <2>2, <2>3, <2>4, JobGoesOn DEF Typed
  <2>. QED BY <2>1, <2>3, <2>4, <2>5 DEF Typed
<1>. QED BY <1>2, TakeTyped, FindTyped, SendTyped, MarkTyped, MarkLandedTyped DEF WorkerSteps

----------------------------------------------------------------------------
LEMMA RestartTyped ==
    ASSUME Typed, RestartApi \/ RestartApiBlind \/ RestartWorker
    PROVE  Typed'
<1>0. ApiHandlers \subseteq Handlers /\ WorkerSlots \subseteq Handlers
      /\ ApiHandlers \cap WorkerSlots = {}
  BY HandlersAssumption DEF Handlers
<1>1. CASE RestartApi \/ RestartApiBlind
  <2>1. task' = [h \in Handlers |-> IF h \in ApiHandlers THEN Idle ELSE task[h]]
    BY <1>1 DEF RestartApi, RestartApiBlind
  <2>2. Tasks' /\ \A k \in WorkerSlots : task'[k] = task[k]
    BY <1>0, <2>1 DEF Typed, Tasks
  <2>3. memory' \in [Processes -> Snapshot] /\ row' \in Snapshot
    BY <1>1, EmptyIsSnapshot DEF RestartApi, RestartApiBlind, Typed, Processes
  <2>4. requeue' \subseteq Ids
    BY <1>1 DEF RestartApi, RestartApiBlind, Pending, Known
  <2>5. restarts' \in Nat /\ faults' \in Nat
    BY <1>1 DEF RestartApi, RestartApiBlind, Typed
  <2>6. UNCHANGED <<job, asked, kept, sent, mixed, events>>
    BY <1>1 DEF RestartApi, RestartApiBlind
  <2>. QED BY <2>2, <2>3, <2>4, <2>5, <2>6, JobsKept DEF Typed
<1>2. CASE RestartWorker
  <2>1. task' = [h \in Handlers |-> IF h \in WorkerSlots THEN Idle ELSE task[h]]
    BY <1>2 DEF RestartWorker
  <2>2. Tasks' /\ \A k \in WorkerSlots : task'[k] = Idle
    BY <1>0, <2>1 DEF Typed, Tasks
  <2>3. memory' \in [Processes -> Snapshot]
    BY <1>2 DEF RestartWorker, Typed, Processes
  <2>4. Jobs'
    <3>1. \A n \in Ids : job'[n] = IF job[n].state = "active" THEN [job[n] EXCEPT !.state = "waiting"]
                                   ELSE job[n]
      BY <1>2 DEF RestartWorker
    <3>2. \A n \in Ids : job'[n] \in [state : {"none", "waiting", "active", "failed"}, tries : 0 .. Attempts]
                         /\ (job'[n].state \in {"waiting", "active"} => job'[n].tries < Attempts)
      BY <3>1 DEF Typed, Jobs
    <3>3. DOMAIN job' = Ids /\ job' = [n \in Ids |-> job'[n]]
      BY <1>2 DEF RestartWorker
    <3>. QED BY <2>2, <3>2, <3>3 DEF Jobs
  <2>. QED BY <1>2, <2>2, <2>3, <2>4 DEF RestartWorker, Typed
<1>. QED BY <1>1, <1>2

LEMMA TypedInit == Init => Typed
<1>. SUFFICES ASSUME Init PROVE Typed
  OBVIOUS
<1>1. Tasks
  BY DEF Init, Tasks, Handlers
<1>2. Jobs
  BY DEF Init, Jobs, NoJob, Attempts, Handlers
<1>. QED BY <1>1, <1>2, EmptyIsSnapshot DEF Init, Typed

LEMMA TypedStep == Typed /\ [Next]_vars => Typed'
<1>. SUFFICES ASSUME Typed, [Next]_vars PROVE Typed'
  OBVIOUS
<1>1. CASE UNCHANGED vars
  BY <1>1 DEF vars, Typed, Tasks, Jobs
<1>2. ASSUME NEW n \in Ids, Requeue(n) PROVE Typed'
  <2>1. Jobs'
    BY <1>2, JobAdded DEF Requeue, Typed
  <2>2. Tasks'
    BY <1>2 DEF Requeue, Typed, Tasks
  <2>. QED BY <1>2, <2>1, <2>2 DEF Requeue, Typed, bounds
<1>. QED BY <1>1, <1>2, ApiStepTyped, WorkerStepTyped, RestartTyped DEF Next

\* Whatever overlaps, fails or restarts, every variable keeps its type; a job that is
\* active is run by one slot.
THEOREM TypeCorrect == Spec => []TypeOK
<1>1. Init => Typed
  BY TypedInit
<1>2. Typed /\ [Next]_vars => Typed'
  BY TypedStep
<1>3. Typed => TypeOK
  BY DEF Typed, Tasks, Jobs, TypeOK, Doing
<1>. QED BY <1>1, <1>2, <1>3, PTL DEF Spec

(***************************************************************************)
(* What handlers know of the row while nothing overlaps or fails.          *)
(***************************************************************************)
Quiet == ~mixed /\ faults = 0

\* Sections in flight are apart.
Lone == \A h, k \in Sections : h # k => Apart(h, task[h].goal, k)

\* One map has what the other has, under the same ids.
Kin(a, b) == \A n \in Known(a) : n \in Known(b) /\ b[n].of = a[n].of

\* A section that will write has read the row as it is; a lookup may be behind.
ReadSound(t) ==
    /\ t.phase # "rewriting"
    /\ t.phase = "read" =>
          /\ t.fresh
          /\ t.goal # "find" => t.copy = row
          /\ t.goal = "find" => Kin(t.copy, row) /\ t.id \in Known(t.copy)

\* What is being written is the row with the section's own change.
LandingSound(t) ==
    t.phase = "landing" =>
       /\ t.goal = "create" =>
             /\ t.id \notin Known(row)
             /\ \E status \in Statuses :
                   t.copy = [row EXCEPT ![t.id] = [status |-> status, of |-> t.of]]
       /\ t.goal = "event" => t.copy = row
       /\ t.goal \in {"sent", "failed"} =>
             t.copy = [row EXCEPT ![t.id].status = t.goal] /\ memory["worker"] = t.copy

\* A creation is of a message that was asked and has no id yet, or has just got one.
CreationSound(t) ==
    /\ t.phase \in {"reading", "read", "landing"} /\ t.goal = "create" =>
          t.of \in asked /\ \A n \in Known(row) : row[n].of # t.of
    /\ t.phase = "queueing" => t.id \in Known(row)

\* A slot works on an id that is in the row, and marks as sent what was accepted.
DispatchSound(t) ==
    /\ t.id \in Known(row)
    /\ t.phase = "sending" => row[t.id].of = t.of
    /\ t.goal = "sent" /\ t.phase # "sending" /\ row[t.id].of \in Emails => sent[row[t.id].of] > 0

HandlersSound ==
    /\ \A h \in Handlers : task[h] # Idle =>
          ReadSound(task[h]) /\ LandingSound(task[h]) /\ CreationSound(task[h])
    /\ \A h \in WorkerSlots : task[h] # Idle => DispatchSound(task[h])
    /\ \A h, k \in Handlers :
          h # k /\ task[h].phase = "queueing" /\ task[k].phase = "queueing"
             => task[h].id # task[k].id

\* Each message has one id, and what was written is there.
RowSound ==
    /\ \A n \in Known(row) : row[n].of \in asked
    /\ \A i, n \in Known(row) : row[i].of = row[n].of => i = n
    /\ \A m \in kept : \E n \in Known(row) : row[n].of = m

JobsSound ==
    /\ \A n \in Ids : job[n].state # "none" => n \in Known(row)
    /\ requeue \subseteq Known(row)

Clean == Quiet => Lone /\ HandlersSound /\ RowSound /\ JobsSound

\* The ways in which a message can still be sent: its creation is still to come or
\* to be queued, its job is to be run, it is to be queued again.
Seeking(t) == t.goal = "find" \/ t.phase = "sending"
Coming(m) ==
    \/ m \notin asked
    \/ \E h \in ApiHandlers :
          /\ task[h].phase \in {"reading", "read", "landing"}
          /\ task[h].goal = "create" /\ task[h].of = m
    \/ \E h \in ApiHandlers : task[h].phase = "queueing" /\ row[task[h].id].of = m
Waiting(m) ==
    \E n \in Known(row) :
       /\ row[n].of = m
       /\ \/ job[n].state = "waiting"
          \/ \E h \in WorkerSlots : task[h] # Idle /\ task[h].id = n /\ Seeking(task[h])
Again(m) == \E n \in requeue : row[n].of = m

Once(P) == IF P THEN 1 ELSE 0
Ways(m) == Once(Coming(m)) + Once(Waiting(m)) + Once(Again(m))
Spent == Quiet => \A m \in Messages : sent[m] + Ways(m) <= 1 + restarts

Calm == Typed /\ Quiet /\ Lone /\ HandlersSound /\ RowSound /\ JobsSound

----------------------------------------------------------------------------
\* What a step starts from: handlers that are not idle, and who is in a section.
LEMMA Working ==
    ASSUME Typed, NEW h \in Handlers, task[h].phase # "idle"
    PROVE  /\ task[h] # Idle /\ task[h] \in Doing /\ task[h].id \in Ids /\ task[h].copy \in Snapshot
           /\ h \in ApiHandlers => ApiTask(task[h])
           /\ h \in WorkerSlots => WorkerTask(task[h])
BY IdleIsNot DEF Typed, Tasks, Doing, Idle

LEMMA InSection ==
    ASSUME NEW h \in Handlers
    PROVE  h \in Sections <=> task[h].phase \in {"reading", "rewriting", "read", "landing"}
BY DEF Sections

LEMMA EnterQuiet ==
    ASSUME NEW h, NEW s, Enter(h, s), ~mixed'
    PROVE  ~mixed /\ \A k \in Sections \ {h} : Apart(h, s.goal, k)
BY Zenon DEF Enter

\* What was quiet after a step was quiet before it.
LEMMA QuietBefore ==
    ASSUME Typed, Next, Quiet'
    PROVE  Quiet /\ faults' = faults
<1>1. /\ ~mixed' /\ faults' = 0 /\ faults \in Nat
  BY DEF Quiet, Typed
<1>2. ASSUME NEW h, NEW s, Enter(h, s) PROVE ~mixed
  BY <1>1, <1>2, EnterQuiet
<1>3. ASSUME NEW h \in ApiHandlers, ApiSteps(h) \/ recordEvent(h) \/ \E m \in Messages : createNotification(h, m)
      PROVE  Quiet /\ faults' = faults
  <2>1. ~mixed
    BY <1>1, <1>2, <1>3 DEF ApiSteps, Access, load, loadFails, rewrite, Create, Event, CreateLanded,
       Queue, EventLanded, recordEvent, createNotification
  <2>2. faults' = faults \/ faults' = faults + 1
    BY <1>3 DEF ApiSteps, Access, load, loadFails, rewrite, Create, Event, CreateLanded,
       Queue, EventLanded, Landed, recordEvent, createNotification, bounds
  <2>. QED BY <1>1, <2>1, <2>2 DEF Quiet
<1>4. ASSUME NEW h \in WorkerSlots, WorkerSteps(h) PROVE Quiet /\ faults' = faults
  <2>1. ~mixed
    <3>1. ASSUME Find(h) PROVE ~mixed
      BY <1>1, <1>2, <3>1 DEF Find
    <3>2. ASSUME Send(h) PROVE ~mixed
      BY <1>2, <3>2 DEF Send
    <3>. QED BY <1>1, <1>2, <1>4, <3>1, <3>2 DEF WorkerSteps, Access, load, loadFails, rewrite, Take, Mark,
         MarkLanded
  <2>2. faults' = faults \/ faults' = faults + 1
    BY <1>4 DEF WorkerSteps, Access, load, loadFails, rewrite, Take, Find, Send, Mark,
       MarkLanded, Landed, bounds
  <2>. QED BY <1>1, <2>1, <2>2 DEF Quiet
<1>5. ASSUME (\E n \in Ids : Requeue(n)) \/ RestartApi \/ RestartApiBlind \/ RestartWorker
      PROVE  Quiet /\ faults' = faults
  BY <1>1, <1>5 DEF Requeue, RestartApi, RestartApiBlind, RestartWorker, bounds, Quiet
<1>. QED BY <1>3, <1>4, <1>5 DEF Next

\* Sections stay apart when a handler leaves its section, goes on in it, or enters one
\* that is apart from all others.
LEMMA StillLone ==
    ASSUME Lone, NEW h \in Handlers, \A k \in Handlers \ {h} : task'[k] = task[k],
           \/ task'[h].phase \notin {"reading", "rewriting", "read", "landing"}
           \/ h \in Sections /\ task'[h].goal = task[h].goal
           \/ \A k \in Sections \ {h} : Apart(h, task'[h].goal, k)
    PROVE  Lone'
<1>. SUFFICES ASSUME NEW j \in Sections', NEW k \in Sections', j # k
              PROVE  ProcessOf(j) # ProcessOf(k) /\ "find" \in {task'[j].goal, task'[k].goal}
  BY DEF Lone, Apart
<1>1. /\ j \in Handlers /\ k \in Handlers
      /\ task'[j].phase \in {"reading", "rewriting", "read", "landing"}
      /\ task'[k].phase \in {"reading", "rewriting", "read", "landing"}
  BY DEF Sections
<1>2. \A i \in Handlers \ {h} : i \in Sections' => i \in Sections
  BY DEF Sections
<1>3. CASE j # h /\ k # h
  BY <1>1, <1>2, <1>3 DEF Lone, Apart
<1>4. CASE j = h
  BY <1>1, <1>2, <1>4 DEF Lone, Apart
<1>5. CASE k = h
  BY <1>1, <1>2, <1>5 DEF Lone, Apart
<1>. QED BY <1>3, <1>4, <1>5

\* What the other handlers know stays true when a step leaves the row alone ...
OthersSound(h) ==
    /\ \A k \in Handlers \ {h} : task[k] # Idle =>
          ReadSound(task[k]) /\ LandingSound(task[k]) /\ CreationSound(task[k])
    /\ \A k \in WorkerSlots \ {h} : task[k] # Idle => DispatchSound(task[k])
    /\ \A j, k \in Handlers \ {h} :
          j # k /\ task[j].phase = "queueing" /\ task[k].phase = "queueing"
             => task[j].id # task[k].id

LEMMA OthersKnow ==
    ASSUME Calm, Typed', NEW h \in Handlers, \A k \in Handlers \ {h} : task'[k] = task[k],
           row' = row, asked \subseteq asked', \A m \in Messages : sent[m] > 0 => sent'[m] > 0,
           memory'["worker"] = memory["worker"] \/ (h \in WorkerSlots /\ h \in Sections)
    PROVE  OthersSound(h)'
<1>1. ASSUME NEW k \in Handlers \ {h}, task[k] # Idle
      PROVE  (ReadSound(task[k]) /\ LandingSound(task[k]) /\ CreationSound(task[k]))'
  <2>1. ReadSound(task[k]) /\ LandingSound(task[k]) /\ CreationSound(task[k]) /\ task'[k] = task[k]
    BY <1>1 DEF Calm, HandlersSound
  <2>2. task[k].phase = "landing" /\ task[k].goal \in {"sent", "failed"}
          => memory'["worker"] = memory["worker"]
    <3>. SUFFICES ASSUME task[k].phase = "landing", task[k].goal \in {"sent", "failed"},
                         h \in WorkerSlots, h \in Sections
                  PROVE  FALSE
      OBVIOUS
    <3>1. k \in WorkerSlots
      BY <1>1, Working DEF Calm, ApiTask, Handlers
    <3>2. k \in Sections
      BY InSection
    <3>3. ProcessOf(k) = "worker" /\ ProcessOf(h) = "worker"
      BY <3>1, WhereIs
    <3>. QED BY <3>2, <3>3 DEF Calm, Lone, Apart
  <2>3. ReadSound(task[k])'
    BY <2>1 DEF ReadSound
  <2>4. LandingSound(task[k])'
    BY <2>1, <2>2 DEF LandingSound
  <2>5. CreationSound(task[k])'
    BY <2>1 DEF CreationSound
  <2>. QED BY <2>3, <2>4, <2>5
<1>2. ASSUME NEW k \in WorkerSlots \ {h}, task[k] # Idle
      PROVE  DispatchSound(task[k])'
  <2>1. DispatchSound(task[k]) /\ task'[k] = task[k]
    BY <1>2 DEF Calm, HandlersSound, Handlers
  <2>2. \A n \in Known(row) : row[n].of \in Messages
    BY NoneIsNot DEF Calm, Typed, Snapshot, Known
  <2>. QED BY <2>1, <2>2 DEF DispatchSound
<1>3. \A k \in WorkerSlots : k \in Handlers
  BY DEF Handlers
<1>4. \A k \in Handlers \ {h} : task'[k] = task[k]
  OBVIOUS
<1>5. \A j, k \in Handlers \ {h} :
          j # k /\ task'[j].phase = "queueing" /\ task'[k].phase = "queueing"
             => task'[j].id # task'[k].id
  BY <1>4 DEF Calm, HandlersSound
<1>. QED BY <1>1, <1>2, <1>3, <1>4, <1>5 DEF OthersSound

\* ... so that only the handler that took the step is left to show.
LEMMA AllKnow ==
    ASSUME NEW h \in Handlers, OthersSound(h)',
           task'[h] # Idle => (ReadSound(task[h]) /\ LandingSound(task[h]) /\ CreationSound(task[h]))',
           h \in WorkerSlots /\ task'[h] # Idle => DispatchSound(task[h])',
           task'[h].phase # "queueing"
    PROVE  HandlersSound'
BY DEF OthersSound, HandlersSound

LEMMA RowStays ==
    ASSUME Calm, row' = row, kept' = kept, asked \subseteq asked',
           \A m \in Messages : sent[m] > 0 => sent'[m] > 0
    PROVE  RowSound'
<1>1. \A n \in Known(row) : row[n].of \in Messages
  BY NoneIsNot DEF Calm, Typed, Snapshot, Known
<1>. QED BY <1>1 DEF Calm, RowSound


----------------------------------------------------------------------------
\* What lands on the row: everything it had, and the change of one section.
LEMMA Grows ==
    ASSUME Calm, NEW h \in Handlers, task[h].phase = "landing"
    PROVE  /\ Kin(row, task[h].copy)
           /\ task[h].goal = "create" =>
                 /\ task[h].id \notin Known(row)
                 /\ Known(task[h].copy) = Known(row) \cup {task[h].id}
                 /\ task[h].copy[task[h].id].of = task[h].of
                 /\ task[h].copy[task[h].id].status \in Statuses
                 /\ \A n \in Known(row) : task[h].copy[n] = row[n]
           /\ task[h].goal = "event" => task[h].copy = row
           /\ task[h].goal \in {"sent", "failed"} =>
                 /\ Known(task[h].copy) = Known(row)
                 /\ task[h].copy[task[h].id].status = task[h].goal
                 /\ \A n \in Known(row) : task[h].copy[n].of = row[n].of
                                          /\ (n # task[h].id => task[h].copy[n] = row[n])
<1>1. /\ task[h] # Idle /\ task[h].id \in Ids /\ row \in Snapshot
      /\ task[h].goal \in {"create", "event", "sent", "failed"}
      /\ h \in ApiHandlers \/ h \in WorkerSlots
  BY Working DEF Calm, Typed, ApiTask, WorkerTask, Handlers
<1>2. LandingSound(task[h])
  BY <1>1 DEF Calm, HandlersSound
<1>3. \A n \in Known(row) : row[n] \in Notification /\ n \in Ids
  BY <1>1 DEF Snapshot, Known
<1>4. CASE task[h].goal = "create"
  <2>1. task[h].id \notin Known(row)
    BY <1>2, <1>4 DEF LandingSound
  <2>2. PICK status \in Statuses :
           task[h].copy = [row EXCEPT ![task[h].id] = [status |-> status, of |-> task[h].of]]
    BY <1>2, <1>4 DEF LandingSound
  <2>3. /\ task[h].copy[task[h].id] = [status |-> status, of |-> task[h].of]
        /\ \A n \in Ids \ {task[h].id} : task[h].copy[n] = row[n]
    BY <1>1, <2>2 DEF Snapshot
  <2>4. [status |-> status, of |-> task[h].of] # None
    BY DEF None, Statuses
  <2>5. Known(task[h].copy) = Known(row) \cup {task[h].id}
    BY <1>1, <2>3, <2>4 DEF Known
  <2>6. \A n \in Known(row) : task[h].copy[n] = row[n]
    BY <1>3, <2>1, <2>3
  <2>. QED BY <1>4, <2>1, <2>3, <2>5, <2>6 DEF Kin
<1>5. CASE task[h].goal = "event"
  BY <1>2, <1>5 DEF LandingSound, Kin
<1>6. CASE task[h].goal \in {"sent", "failed"}
  <2>1. h \in WorkerSlots
    BY <1>1, <1>6, Working DEF Calm, ApiTask
  <2>2. task[h].id \in Known(row)
    BY <1>1, <2>1 DEF Calm, HandlersSound, DispatchSound
  <2>3. task[h].copy = [row EXCEPT ![task[h].id].status = task[h].goal]
    BY <1>2, <1>6 DEF LandingSound
  <2>4. /\ task[h].copy[task[h].id] = [row[task[h].id] EXCEPT !.status = task[h].goal]
        /\ \A n \in Ids \ {task[h].id} : task[h].copy[n] = row[n]
    BY <1>1, <2>3 DEF Snapshot
  <2>5. /\ task[h].copy[task[h].id] \in Notification
        /\ task[h].copy[task[h].id].status = task[h].goal
        /\ task[h].copy[task[h].id].of = row[task[h].id].of
    <3>1. row[task[h].id] \in Notification
      BY <1>3, <2>2
    <3>. QED BY <1>6, <2>4, <3>1 DEF Notification, Statuses
  <2>6. Known(task[h].copy) = Known(row)
    BY <1>1, <2>2, <2>4, <2>5, NoneIsNot DEF Known
  <2>7. \A n \in Known(row) : task[h].copy[n].of = row[n].of
                              /\ (n # task[h].id => task[h].copy[n] = row[n])
    BY <1>3, <2>4, <2>5
  <2>. QED BY <1>6, <2>5, <2>6, <2>7 DEF Kin
<1>. QED BY <1>1, <1>4, <1>5, <1>6

\* While PostgreSQL answers, what is written lands.
LEMMA Lands ==
    ASSUME Calm, Quiet', NEW h \in Handlers, Landed(h)
    PROVE  row' = task[h].copy /\ task[h].phase = "landing"
BY DEF Calm, Quiet, Landed

\* What the others know outlives a landing.
LEMMA OthersSee ==
    ASSUME Calm, NEW h \in Handlers, task[h].phase = "landing",
           \A k \in Handlers \ {h} : task'[k] = task[k],
           row' = task[h].copy, UNCHANGED <<asked, sent>>, memory'["worker"] = memory["worker"]
    PROVE  OthersSound(h)'
<1>1. Kin(row, row') /\ h \in Sections
  BY Grows, InSection
<1>2. task[h].goal # "find"
  BY Working DEF Calm, ApiTask, WorkerTask, Handlers
<1>3. ASSUME NEW k \in Handlers \ {h}, task[k] # Idle
      PROVE  /\ (ReadSound(task[k]) /\ LandingSound(task[k]) /\ CreationSound(task[k]))'
             /\ k \in WorkerSlots => DispatchSound(task[k])'
  <2>1. /\ ReadSound(task[k]) /\ LandingSound(task[k]) /\ CreationSound(task[k])
        /\ k \in WorkerSlots => DispatchSound(task[k])
        /\ task'[k] = task[k]
    BY <1>3 DEF Calm, HandlersSound
  <2>2. k \in Sections => task[k].goal = "find" /\ task[k].phase # "landing"
    <3>. SUFFICES ASSUME k \in Sections PROVE task[k].goal = "find" /\ task[k].phase # "landing"
      OBVIOUS
    <3>1. Apart(h, task[h].goal, k)
      BY <1>1, <1>3 DEF Calm, Lone
    <3>2. task[k].goal = "find"
      BY <1>2, <3>1 DEF Apart
    <3>3. task[k].phase # "idle"
      BY InSection
    <3>. QED BY <3>2, <3>3, Working DEF Calm, ApiTask, WorkerTask, Handlers
  <2>3. k \in Sections <=> task[k].phase \in {"reading", "rewriting", "read", "landing"}
    BY InSection
  <2>4. ReadSound(task[k])'
    BY <1>1, <2>1, <2>2, <2>3 DEF ReadSound, Kin
  <2>5. LandingSound(task[k])'
    BY <2>1, <2>2, <2>3 DEF LandingSound
  <2>6. CreationSound(task[k])'
    BY <1>1, <2>1, <2>2, <2>3 DEF CreationSound, Kin
  <2>7. k \in WorkerSlots => DispatchSound(task[k])'
    BY <1>1, <2>1 DEF DispatchSound, Kin
  <2>. QED BY <2>4, <2>5, <2>6, <2>7
<1>4. \A k \in WorkerSlots : k \in Handlers
  BY DEF Handlers
<1>5. \A k \in Handlers \ {h} : task'[k] = task[k]
  OBVIOUS
<1>6. \A j, k \in Handlers \ {h} :
          j # k /\ task'[j].phase = "queueing" /\ task'[k].phase = "queueing"
             => task'[j].id # task'[k].id
  BY <1>5 DEF Calm, HandlersSound
<1>. QED BY <1>3, <1>4, <1>5, <1>6 DEF OthersSound

----------------------------------------------------------------------------
Sound == Lone /\ HandlersSound /\ RowSound /\ JobsSound

\* A handler's step, seen from its new task.
LEMMA Becomes ==
    ASSUME Typed, NEW h \in Handlers, NEW t, task' = [task EXCEPT ![h] = t]
    PROVE  task'[h] = t /\ \A k \in Handlers \ {h} : task'[k] = task[k]
BY DEF Typed, Tasks

\* A new section has read nothing and knows little.
LEMMA NewSectionNext ==
    ASSUME NEW goal \in Goals, NEW m \in Messages \cup {AnyMessage}, NEW n \in Ids,
           NEW h, task'[h] = Section(goal, m, n)
    PROVE  /\ task'[h] # Idle /\ task'[h].phase = "reading" /\ task'[h].goal = goal
           /\ task'[h].of = m /\ task'[h].id = n
           /\ ReadSound(task[h])' /\ LandingSound(task[h])'
           /\ goal # "create" => CreationSound(task[h])'
BY SectionIs, IdleIsNot DEF ReadSound, LandingSound, CreationSound

LEMMA JobsStay ==
    ASSUME Calm, UNCHANGED <<job, requeue>>, Kin(row, row')
    PROVE  JobsSound'
BY DEF Calm, JobsSound, Kin

LEMMA SameRow == ASSUME row' = row PROVE Kin(row, row')
BY DEF Kin

LEMMA StartKeeps ==
    ASSUME Calm, Typed', Quiet', NEW h \in ApiHandlers,
           (\E m \in Messages : createNotification(h, m)) \/ recordEvent(h)
    PROVE  Sound'
<1>1. h \in Handlers /\ h \notin WorkerSlots
  BY WhereIs DEF Handlers
<1>2. CASE recordEvent(h)
  <2>1. Enter(h, Section("event", AnyMessage, 1)) /\ "event" \in Goals
    BY <1>2 DEF recordEvent, Goals
  <2>2. task'[h] = Section("event", AnyMessage, 1) /\ \A k \in Handlers \ {h} : task'[k] = task[k]
    BY <1>1, <2>1, Becomes DEF Enter, Calm
  <2>3. /\ task'[h] # Idle /\ task'[h].phase = "reading" /\ task'[h].goal = "event"
        /\ ReadSound(task[h])' /\ LandingSound(task[h])' /\ CreationSound(task[h])'
    BY <2>1, <2>2, OneIsId, NewSectionNext
  <2>4. \A k \in Sections \ {h} : Apart(h, Section("event", AnyMessage, 1).goal, k)
    BY <2>1, EnterQuiet DEF Quiet
  <2>5. UNCHANGED <<memory, row, job, requeue, asked, kept, sent>>
    BY <1>2 DEF recordEvent
  <2>6. Lone'
    BY <1>1, <2>2, <2>4, StillLone DEF Calm
  <2>7. OthersSound(h)'
    BY <1>1, <2>2, <2>5, OthersKnow
  <2>8. HandlersSound'
    BY <1>1, <2>3, <2>7, AllKnow
  <2>9. RowSound' /\ JobsSound'
    BY <2>5, RowStays, JobsStay, SameRow
  <2>. QED BY <2>6, <2>8, <2>9 DEF Sound
<1>3. ASSUME NEW m \in Messages, createNotification(h, m) PROVE Sound'
  <2>1. Enter(h, Section("create", m, 1)) /\ "create" \in Goals
    BY <1>3 DEF createNotification, Goals
  <2>2. task'[h] = Section("create", m, 1) /\ \A k \in Handlers \ {h} : task'[k] = task[k]
    BY <1>1, <2>1, Becomes DEF Enter, Calm
  <2>3. /\ task'[h] # Idle /\ task'[h].phase = "reading" /\ task'[h].goal = "create"
        /\ task'[h].of = m /\ ReadSound(task[h])' /\ LandingSound(task[h])'
    BY <2>1, <2>2, OneIsId, NewSectionNext
  <2>4. \A k \in Sections \ {h} : Apart(h, Section("create", m, 1).goal, k)
    BY <2>1, EnterQuiet DEF Quiet
  <2>5. /\ UNCHANGED <<memory, row, job, requeue, kept, sent>>
        /\ asked' = asked \cup {m} /\ m \notin asked
    BY <1>3 DEF createNotification
  <2>6. Lone'
    BY <1>1, <2>2, <2>4, StillLone DEF Calm
  <2>7. OthersSound(h)'
    BY <1>1, <2>2, <2>5, OthersKnow
  <2>8. CreationSound(task[h])'
    <3>1. \A n \in Known(row) : row[n].of \in asked
      BY DEF Calm, RowSound
    <3>. QED BY <2>3, <2>5, <3>1 DEF CreationSound
  <2>9. HandlersSound'
    BY <1>1, <2>3, <2>7, <2>8, AllKnow
  <2>10. RowSound' /\ JobsSound'
    BY <2>5, RowStays, JobsStay, SameRow
  <2>. QED BY <2>6, <2>9, <2>10 DEF Sound
<1>. QED BY <1>2, <1>3

\* Reading the row.
LEMMA AccessKeeps ==
    ASSUME Calm, Typed', Quiet', NEW h \in Handlers, Access(h)
    PROVE  Sound'
<1>1. task[h].phase # "rewriting"
  <2>1. task[h].phase # "idle" => task[h] # Idle
    BY Working DEF Calm
  <2>. QED BY <2>1 DEF Calm, HandlersSound, ReadSound
<1>2. load(h)
  BY <1>1 DEF Access, rewrite, loadFails, Calm, Quiet
<1>3. task[h].phase = "reading" /\ task[h] # Idle /\ task[h] \in Doing
  BY <1>2, Working DEF load, Calm
<1>4. task' = [task EXCEPT ![h] = [task[h] EXCEPT !.phase = "read", !.copy = row, !.fresh = TRUE]]
  BY <1>2, <1>3 DEF load, Calm, Typed, Tasks
<1>5. /\ task'[h].phase = "read" /\ task'[h].copy = row /\ task'[h].fresh
      /\ task'[h].goal = task[h].goal /\ task'[h].of = task[h].of /\ task'[h].id = task[h].id
      /\ \A k \in Handlers \ {h} : task'[k] = task[k]
  <2>. DEFINE t == [task[h] EXCEPT !.phase = "read", !.copy = row, !.fresh = TRUE]
  <2>1. /\ t.phase = "read" /\ t.copy = row /\ t.fresh
        /\ t.goal = task[h].goal /\ t.of = task[h].of /\ t.id = task[h].id
    BY <1>3 DEF Doing
  <2>. HIDE DEF t
  <2>2. task'[h] = t /\ \A k \in Handlers \ {h} : task'[k] = task[k]
    BY <1>4, Becomes DEF Calm, t
  <2>. QED BY <2>1, <2>2
<1>6. UNCHANGED <<memory, row, job, requeue, asked, kept, sent>>
  BY <1>2 DEF load
<1>7. ReadSound(task[h]) /\ LandingSound(task[h]) /\ CreationSound(task[h])
      /\ (h \in WorkerSlots => DispatchSound(task[h]))
  BY <1>3 DEF Calm, HandlersSound
<1>8. task[h].goal = "find" => h \in WorkerSlots
  BY <1>3, Working DEF Calm, ApiTask, Handlers
<1>9. ReadSound(task[h])'
  <2>1. task[h].goal = "find" => task[h].id \in Known(row)
    BY <1>7, <1>8 DEF DispatchSound
  <2>. QED BY <1>5, <1>6, <2>1 DEF ReadSound, Kin
<1>10. LandingSound(task[h])' /\ CreationSound(task[h])'
  BY <1>3, <1>5, <1>6, <1>7 DEF LandingSound, CreationSound
<1>11. h \in WorkerSlots => DispatchSound(task[h])'
  BY <1>3, <1>5, <1>6, <1>7 DEF DispatchSound
<1>12. Lone'
  BY <1>3, <1>5, InSection, StillLone DEF Calm
<1>13. OthersSound(h)'
  BY <1>5, <1>6, OthersKnow
<1>14. HandlersSound'
  BY <1>5, <1>9, <1>10, <1>11, <1>13, AllKnow
<1>. QED BY <1>6, <1>12, <1>14, RowStays, JobsStay, SameRow DEF Sound


\* The memory a section goes on with: the row itself, unless it only looks something up.
LEMMA Reloaded ==
    ASSUME Calm, NEW h \in Handlers, task[h].phase = "read"
    PROVE  /\ Restored(h) = task[h].copy
           /\ task[h].goal # "find" => Restored(h) = row
           /\ task[h].goal = "find" => Kin(Restored(h), row) /\ task[h].id \in Known(Restored(h))
<1>1. task[h] # Idle
  BY Working DEF Calm
<1>2. ReadSound(task[h])
  BY <1>1 DEF Calm, HandlersSound
<1>. QED BY <1>2 DEF ReadSound, Restored

LEMMA Writes ==
    ASSUME Typed, NEW h \in Handlers, task[h] \in Doing, NEW map, NEW n, Write(h, map, n)
    PROVE  /\ task'[h].phase = "landing" /\ task'[h].copy = map /\ task'[h].id = n
           /\ task'[h].goal = task[h].goal /\ task'[h].of = task[h].of
           /\ memory'[ProcessOf(h)] = map
           /\ h \in ApiHandlers => memory'["worker"] = memory["worker"]
           /\ \A k \in Handlers \ {h} : task'[k] = task[k]
<1>. DEFINE t == [task[h] EXCEPT !.phase = "landing", !.copy = map, !.id = n]
<1>1. /\ t.phase = "landing" /\ t.copy = map /\ t.id = n
      /\ t.goal = task[h].goal /\ t.of = task[h].of
  BY DEF Doing
<1>2. task' = [task EXCEPT ![h] = t]
  BY DEF Write, Typed, Tasks
<1>. HIDE DEF t
<1>3. task'[h] = t /\ \A k \in Handlers \ {h} : task'[k] = task[k]
  BY <1>2, Becomes
<1>4. /\ memory'[ProcessOf(h)] = map
      /\ h \in ApiHandlers => memory'["worker"] = memory["worker"]
  BY WhereIs DEF Write, Typed, Processes
<1>. QED BY <1>1, <1>3, <1>4

LEMMA CreateKeeps ==
    ASSUME Calm, Typed', Quiet', NEW h \in ApiHandlers, Create(h)
    PROVE  Sound'
<1>1. h \in Handlers /\ h \notin WorkerSlots
  BY WhereIs DEF Handlers
<1>2. task[h].phase = "read" /\ task[h].goal = "create" /\ task[h] # Idle /\ task[h] \in Doing
  BY <1>1, Working DEF Create, Calm
<1>3. Restored(h) = row
  BY <1>1, <1>2, Reloaded
<1>. DEFINE n == NextId(row)
<1>4. n \in Ids /\ n \notin Known(row)
  BY <1>3, NextIdIsNew DEF Create
<1>5. PICK status \in Statuses :
         Write(h, [row EXCEPT ![n] = [status |-> status, of |-> task[h].of]], n)
  BY <1>3 DEF Create
<1>. DEFINE map == [row EXCEPT ![n] = [status |-> status, of |-> task[h].of]]
<1>6. UNCHANGED <<row, job, requeue, asked, kept, sent>>
  BY DEF Create
<1>7. /\ task'[h].phase = "landing" /\ task'[h].copy = map /\ task'[h].id = n
      /\ task'[h].goal = "create" /\ task'[h].of = task[h].of
      /\ memory'["worker"] = memory["worker"]
      /\ \A k \in Handlers \ {h} : task'[k] = task[k]
  <2>1. Write(h, map, n)
    BY <1>5
  <2>. HIDE DEF map, n
  <2>. QED BY <1>1, <1>2, <2>1, Writes DEF Calm
<1>8. ReadSound(task[h])'
  BY <1>7 DEF ReadSound
<1>9. LandingSound(task[h])'
  BY <1>4, <1>6, <1>7 DEF LandingSound
<1>10. CreationSound(task[h])'
  <2>1. CreationSound(task[h])
    BY <1>1, <1>2 DEF Calm, HandlersSound
  <2>. QED BY <1>2, <1>6, <1>7, <2>1 DEF CreationSound
<1>. HIDE DEF map, n
<1>11. Lone'
  BY <1>1, <1>2, <1>7, InSection, StillLone DEF Calm
<1>12. OthersSound(h)'
  BY <1>1, <1>6, <1>7, OthersKnow
<1>13. HandlersSound'
  BY <1>1, <1>7, <1>8, <1>9, <1>10, <1>12, AllKnow
<1>. QED BY <1>6, <1>11, <1>13, RowStays, JobsStay, SameRow DEF Sound

LEMMA EventKeeps ==
    ASSUME Calm, Typed', Quiet', NEW h \in ApiHandlers, Event(h)
    PROVE  Sound'
<1>1. h \in Handlers /\ h \notin WorkerSlots
  BY WhereIs DEF Handlers
<1>2. task[h].phase = "read" /\ task[h].goal = "event" /\ task[h] # Idle /\ task[h] \in Doing
  BY <1>1, Working DEF Event, Calm
<1>3. Restored(h) = row
  BY <1>1, <1>2, Reloaded
<1>4. UNCHANGED <<row, job, requeue, asked, kept, sent>>
  BY DEF Event
<1>5. /\ task'[h].phase = "landing" /\ task'[h].copy = row
      /\ task'[h].goal = "event" /\ memory'["worker"] = memory["worker"]
      /\ \A k \in Handlers \ {h} : task'[k] = task[k]
  BY <1>1, <1>2, <1>3, Writes DEF Calm, Event
<1>6. (ReadSound(task[h]) /\ LandingSound(task[h]) /\ CreationSound(task[h]))'
  BY <1>4, <1>5 DEF ReadSound, LandingSound, CreationSound
<1>7. Lone'
  BY <1>1, <1>2, <1>5, InSection, StillLone DEF Calm
<1>8. OthersSound(h)'
  BY <1>1, <1>4, <1>5, OthersKnow
<1>9. HandlersSound'
  BY <1>1, <1>5, <1>6, <1>8, AllKnow
<1>. QED BY <1>4, <1>7, <1>9, RowStays, JobsStay, SameRow DEF Sound

LEMMA CreateLandedKeeps ==
    ASSUME Calm, Typed', Quiet', NEW h \in ApiHandlers, CreateLanded(h)
    PROVE  Sound'
<1>1. h \in Handlers /\ h \notin WorkerSlots
  BY WhereIs DEF Handlers
<1>2. row' = task[h].copy /\ task[h].phase = "landing" /\ task[h].goal = "create"
  BY <1>1, Lands DEF CreateLanded
<1>3. task[h] # Idle /\ task[h] \in Doing /\ task[h].id \in Ids /\ task[h].of \in Messages
  BY <1>1, <1>2, Working DEF Calm, ApiTask
<1>4. /\ Kin(row, row') /\ task[h].id \notin Known(row)
      /\ Known(row') = Known(row) \cup {task[h].id}
      /\ row'[task[h].id].of = task[h].of
      /\ row'[task[h].id].status \in Statuses
      /\ \A n \in Known(row) : row'[n] = row[n]
  BY <1>1, <1>2, Grows
<1>5. /\ UNCHANGED <<memory, job, requeue, asked, sent>>
      /\ kept' \subseteq kept \cup {task[h].of}
  BY DEF CreateLanded
<1>6. /\ task'[h].phase = "queueing" /\ task'[h].id = task[h].id /\ task'[h].goal = "create"
      /\ \A k \in Handlers \ {h} : task'[k] = task[k]
  <2>. DEFINE t == [task[h] EXCEPT !.phase = "queueing"]
  <2>1. t.phase = "queueing" /\ t.id = task[h].id /\ t.goal = "create"
    BY <1>2, <1>3 DEF Doing
  <2>2. task' = [task EXCEPT ![h] = t]
    BY <1>1 DEF CreateLanded, Calm, Typed, Tasks
  <2>. HIDE DEF t
  <2>. QED BY <1>1, <2>1, <2>2, Becomes DEF Calm
<1>7. CreationSound(task[h])
  BY <1>1, <1>3 DEF Calm, HandlersSound
<1>8. task[h].of \in asked /\ \A n \in Known(row) : row[n].of # task[h].of
  BY <1>2, <1>7 DEF CreationSound
<1>9. (ReadSound(task[h]) /\ LandingSound(task[h]) /\ CreationSound(task[h]))'
  BY <1>4, <1>6 DEF ReadSound, LandingSound, CreationSound
<1>10. OthersSound(h)'
  BY <1>1, <1>2, <1>5, <1>6, OthersSee
<1>11. ASSUME NEW k \in Handlers \ {h}, task'[k].phase = "queueing"
       PROVE  task'[k].id # task'[h].id
  <2>1. task[k].phase = "queueing" /\ task'[k].id = task[k].id
    BY <1>6, <1>11
  <2>2. task[k] # Idle
    BY <1>11, <2>1, Working DEF Calm
  <2>3. task[k].id \in Known(row)
    BY <2>1, <2>2 DEF Calm, HandlersSound, CreationSound
  <2>. QED BY <1>4, <1>6, <2>1, <2>3
<1>12. HandlersSound'
  BY <1>1, <1>9, <1>10, <1>11 DEF OthersSound, HandlersSound
<1>13. RowSound'
  <2>1. RowSound
    BY DEF Calm
  <2>2. \A n \in Known(row') : row'[n].of \in asked'
    BY <1>4, <1>5, <1>8, <2>1 DEF RowSound
  <2>3. \A i, n \in Known(row') : row'[i].of = row'[n].of => i = n
    BY <1>4, <1>8, <2>1 DEF RowSound
  <2>4. \A m \in kept' : \E n \in Known(row') : row'[n].of = m
    <3>1. ASSUME NEW m \in kept PROVE \E n \in Known(row') : row'[n].of = m
      BY <1>4, <2>1, <3>1 DEF RowSound
    <3>2. \E n \in Known(row') : row'[n].of = task[h].of
      BY <1>4
    <3>. QED BY <1>5, <3>1, <3>2
  <2>. QED BY <2>2, <2>3, <2>4 DEF RowSound
<1>14. Lone'
  BY <1>1, <1>6, StillLone DEF Calm
<1>. QED BY <1>4, <1>5, <1>12, <1>13, <1>14, JobsStay DEF Sound

LEMMA AddedIs ==
    ASSUME Typed, NEW n \in Ids, job' = Added(n)
    PROVE  /\ \A i \in Ids : i # n => job'[i] = job[i]
           /\ job'[n].state = IF job[n].state = "none" THEN "waiting" ELSE job[n].state
BY DEF Typed, Jobs, Added

LEMMA QueueKeeps ==
    ASSUME Calm, Typed', Quiet', NEW h \in ApiHandlers, Queue(h)
    PROVE  Sound'
<1>1. h \in Handlers /\ h \notin WorkerSlots
  BY WhereIs DEF Handlers
<1>2. task[h].phase = "queueing" /\ task[h] # Idle /\ task[h].id \in Ids
  BY <1>1, Working DEF Queue, Calm
<1>3. task[h].id \in Known(row)
  BY <1>1, <1>2 DEF Calm, HandlersSound, CreationSound
<1>4. Enter(h, Section("event", AnyMessage, 1)) /\ "event" \in Goals
  BY DEF Queue, Goals
<1>5. task'[h] = Section("event", AnyMessage, 1) /\ \A k \in Handlers \ {h} : task'[k] = task[k]
  BY <1>1, <1>4, Becomes DEF Enter, Calm
<1>6. /\ task'[h] # Idle /\ task'[h].phase = "reading" /\ task'[h].goal = "event"
      /\ ReadSound(task[h])' /\ LandingSound(task[h])' /\ CreationSound(task[h])'
  BY <1>4, <1>5, OneIsId, NewSectionNext
<1>7. \A k \in Sections \ {h} : Apart(h, Section("event", AnyMessage, 1).goal, k)
  BY <1>4, EnterQuiet DEF Quiet
<1>8. UNCHANGED <<memory, row, requeue, asked, kept, sent>> /\ job' = Added(task[h].id)
  BY DEF Queue, Calm, Quiet
<1>9. Lone'
  BY <1>1, <1>5, <1>7, StillLone DEF Calm
<1>10. OthersSound(h)'
  BY <1>1, <1>5, <1>8, OthersKnow
<1>11. HandlersSound'
  BY <1>1, <1>6, <1>10, AllKnow
<1>12. JobsSound'
  BY <1>2, <1>3, <1>8, AddedIs DEF Calm, JobsSound
<1>. QED BY <1>8, <1>9, <1>11, <1>12, RowStays DEF Sound

LEMMA EventLandedKeeps ==
    ASSUME Calm, Typed', Quiet', NEW h \in ApiHandlers, EventLanded(h)
    PROVE  Sound'
<1>1. h \in Handlers /\ h \notin WorkerSlots
  BY WhereIs DEF Handlers
<1>2. row' = row
  BY <1>1, Lands, Grows DEF EventLanded
<1>3. UNCHANGED <<memory, job, requeue, asked, kept, sent>>
  BY DEF EventLanded
<1>4. task'[h] = Idle /\ \A k \in Handlers \ {h} : task'[k] = task[k]
  BY <1>1, Becomes DEF EventLanded, End, Calm
<1>5. task'[h].phase = "idle"
  BY <1>4, IdleIsNot
<1>6. Lone'
  BY <1>1, <1>4, <1>5, StillLone DEF Calm
<1>7. OthersSound(h)'
  BY <1>1, <1>2, <1>3, <1>4, OthersKnow
<1>8. HandlersSound'
  BY <1>1, <1>4, <1>5, <1>7, AllKnow
<1>. QED BY <1>2, <1>3, <1>6, <1>8, RowStays, JobsStay, SameRow DEF Sound


----------------------------------------------------------------------------
\* The worker's steps.
LEMMA TakeKeeps ==
    ASSUME Calm, Typed', Quiet', NEW h \in WorkerSlots, NEW n \in Ids, Take(h, n)
    PROVE  Sound'
<1>1. h \in Handlers
  BY DEF Handlers
<1>2. job[n].state = "waiting" /\ n \in Known(row)
  BY DEF Take, Calm, JobsSound
<1>3. Enter(h, Section("find", AnyMessage, n)) /\ "find" \in Goals
  BY DEF Take, Goals
<1>4. task'[h] = Section("find", AnyMessage, n) /\ \A k \in Handlers \ {h} : task'[k] = task[k]
  BY <1>1, <1>3, Becomes DEF Enter, Calm
<1>5. /\ task'[h] # Idle /\ task'[h].phase = "reading" /\ task'[h].goal = "find" /\ task'[h].id = n
      /\ ReadSound(task[h])' /\ LandingSound(task[h])' /\ CreationSound(task[h])'
  BY <1>3, <1>4, NewSectionNext
<1>6. \A k \in Sections \ {h} : Apart(h, Section("find", AnyMessage, n).goal, k)
  BY <1>3, EnterQuiet DEF Quiet
<1>7. UNCHANGED <<memory, row, requeue, asked, kept, sent>>
  BY DEF Take
<1>8. Lone'
  BY <1>1, <1>4, <1>6, StillLone DEF Calm
<1>9. OthersSound(h)'
  BY <1>1, <1>4, <1>7, OthersKnow
<1>10. DispatchSound(task[h])'
  BY <1>2, <1>5, <1>7 DEF DispatchSound
<1>11. HandlersSound'
  BY <1>1, <1>5, <1>9, <1>10, AllKnow
<1>12. JobsSound'
  <2>1. \A i \in Ids : i # n => job'[i] = job[i]
    BY DEF Take, Calm, Typed, Jobs
  <2>. QED BY <1>2, <1>7, <2>1 DEF Calm, JobsSound
<1>. QED BY <1>7, <1>8, <1>11, <1>12, RowStays DEF Sound

LEMMA AtWork ==
    ASSUME Calm, NEW h \in WorkerSlots, task[h].phase # "idle"
    PROVE  /\ h \in Handlers /\ task[h] # Idle /\ task[h] \in Doing /\ task[h].id \in Known(row)
           /\ WorkerTask(task[h]) /\ DispatchSound(task[h])
           /\ row[task[h].id] \in Notification
<1>1. h \in Handlers
  BY DEF Handlers
<1>2. task[h] # Idle /\ task[h] \in Doing /\ WorkerTask(task[h])
  BY <1>1, Working DEF Calm
<1>3. DispatchSound(task[h])
  BY <1>2 DEF Calm, HandlersSound
<1>4. task[h].id \in Known(row)
  BY <1>3 DEF DispatchSound
<1>. QED BY <1>1, <1>2, <1>3, <1>4 DEF Calm, Typed, Snapshot, Known

\* A lookup, even of a row that has grown since, finds the message of the id.
LEMMA FindSees ==
    ASSUME Calm, NEW h \in WorkerSlots, Find(h)
    PROVE  /\ Restored(h)[task[h].id] # None
           /\ Restored(h)[task[h].id].of = row[task[h].id].of
<1>1. h \in Handlers /\ task[h].phase = "read" /\ task[h].goal = "find"
  BY DEF Find, Handlers
<1>2. Kin(Restored(h), row) /\ task[h].id \in Known(Restored(h))
  BY <1>1, Reloaded
<1>. QED BY <1>2 DEF Kin, Known

LEMMA FindKeeps ==
    ASSUME Calm, Typed', Quiet', NEW h \in WorkerSlots, Find(h)
    PROVE  Sound'
<1>1. /\ h \in Handlers /\ task[h] \in Doing /\ task[h].id \in Known(row) /\ task[h].id \in Ids
      /\ row[task[h].id] \in Notification
      /\ task[h].phase = "read" /\ h \in Sections
  BY AtWork, InSection DEF Find, Known
<1>. DEFINE m == row[task[h].id].of
            s == [Section("sent", m, task[h].id) EXCEPT !.phase = "sending"]
<1>2. m \in Messages
  BY <1>1, NoneIsNot
<1>3. UNCHANGED <<row, job, requeue, asked, kept, sent>>
  BY DEF Find
<1>4. CASE m \in Emails
  <2>1. task' = [task EXCEPT ![h] = s]
    BY <1>1, <1>4, FindSees DEF Find, Calm, Typed, Tasks
  <2>2. s.phase = "sending" /\ s.goal = "sent" /\ s.of = m /\ s.id = task[h].id
    <3>1. LET t == Section("sent", m, task[h].id)
          IN  t \in Doing /\ t.goal = "sent" /\ t.of = m /\ t.id = task[h].id
      BY <1>1, <1>2, SectionIs DEF Goals
    <3>. QED BY <3>1 DEF Doing
  <2>. HIDE DEF s
  <2>3. task'[h] = s /\ \A k \in Handlers \ {h} : task'[k] = task[k]
    BY <1>1, <2>1, Becomes DEF Calm
  <2>4. (ReadSound(task[h]) /\ LandingSound(task[h]) /\ CreationSound(task[h]))'
    BY <2>2, <2>3 DEF ReadSound, LandingSound, CreationSound
  <2>5. DispatchSound(task[h])'
    BY <1>1, <1>3, <2>2, <2>3 DEF DispatchSound
  <2>6. Lone'
    BY <1>1, <2>2, <2>3, StillLone DEF Calm
  <2>7. OthersSound(h)'
    BY <1>1, <1>3, <2>3, OthersKnow
  <2>8. HandlersSound'
    BY <1>1, <2>2, <2>3, <2>4, <2>5, <2>7, AllKnow
  <2>. QED BY <1>3, <2>6, <2>8, RowStays, JobsStay, SameRow DEF Sound
<1>5. CASE m \notin Emails
  <2>1. Enter(h, Section("sent", AnyMessage, task[h].id)) /\ "sent" \in Goals
    BY <1>5, FindSees DEF Find, Goals
  <2>2. /\ task'[h] = Section("sent", AnyMessage, task[h].id)
        /\ \A k \in Handlers \ {h} : task'[k] = task[k]
    BY <1>1, <2>1, Becomes DEF Enter, Calm
  <2>3. /\ task'[h] # Idle /\ task'[h].phase = "reading" /\ task'[h].goal = "sent"
        /\ task'[h].id = task[h].id
        /\ ReadSound(task[h])' /\ LandingSound(task[h])' /\ CreationSound(task[h])'
    BY <1>1, <2>1, <2>2, NewSectionNext
  <2>4. \A k \in Sections \ {h} : Apart(h, Section("sent", AnyMessage, task[h].id).goal, k)
    BY <2>1, EnterQuiet DEF Quiet
  <2>5. DispatchSound(task[h])'
    BY <1>1, <1>3, <1>5, <2>3 DEF DispatchSound
  <2>6. Lone'
    BY <1>1, <2>2, <2>4, StillLone DEF Calm
  <2>7. OthersSound(h)'
    BY <1>1, <1>3, <2>2, OthersKnow
  <2>8. HandlersSound'
    BY <1>1, <2>3, <2>5, <2>7, AllKnow
  <2>. QED BY <1>3, <2>6, <2>8, RowStays, JobsStay, SameRow DEF Sound
<1>. QED BY <1>4, <1>5

LEMMA SendKeeps ==
    ASSUME Calm, Typed', Quiet', NEW h \in WorkerSlots, Send(h)
    PROVE  Sound'
<1>1. /\ h \in Handlers /\ task[h] \in Doing /\ task[h].id \in Known(row) /\ task[h].id \in Ids
      /\ task[h].phase = "sending" /\ row[task[h].id].of = task[h].of /\ task[h].of \in Messages
  BY AtWork DEF Send, Known, DispatchSound, WorkerTask
<1>2. PICK accepted \in BOOLEAN, goal \in {"sent", "failed"} :
         /\ goal = "sent" => accepted
         /\ sent' = IF accepted THEN [sent EXCEPT ![task[h].of] = @ + 1] ELSE sent
         /\ Enter(h, Section(goal, task[h].of, task[h].id))
  BY DEF Send
<1>3. UNCHANGED <<memory, row, job, requeue, asked, kept>>
  BY DEF Send
<1>4. /\ sent \in [Messages -> Nat]
      /\ \A m \in Messages : sent[m] > 0 => sent'[m] > 0
      /\ goal = "sent" => sent'[task[h].of] > 0
  BY <1>1, <1>2 DEF Calm, Typed
<1>5. goal \in Goals
  BY DEF Goals
<1>6. /\ task'[h] = Section(goal, task[h].of, task[h].id)
      /\ \A k \in Handlers \ {h} : task'[k] = task[k]
  BY <1>1, <1>2, Becomes DEF Enter, Calm
<1>7. /\ task'[h] # Idle /\ task'[h].phase = "reading" /\ task'[h].goal = goal
      /\ task'[h].id = task[h].id
      /\ ReadSound(task[h])' /\ LandingSound(task[h])' /\ CreationSound(task[h])'
  BY <1>1, <1>5, <1>6, NewSectionNext
<1>8. \A k \in Sections \ {h} : Apart(h, Section(goal, task[h].of, task[h].id).goal, k)
  BY <1>2, EnterQuiet DEF Quiet
<1>9. DispatchSound(task[h])'
  BY <1>1, <1>3, <1>4, <1>7 DEF DispatchSound
<1>10. Lone'
  BY <1>1, <1>6, <1>8, StillLone DEF Calm
<1>11. OthersSound(h)'
  BY <1>1, <1>3, <1>4, <1>6, OthersKnow
<1>12. HandlersSound'
  BY <1>1, <1>7, <1>9, <1>11, AllKnow
<1>. QED BY <1>3, <1>4, <1>10, <1>12, RowStays, JobsStay, SameRow DEF Sound

\* markNotificationSent and markNotificationFailed find the record.
LEMMA MarkWrites ==
    ASSUME Calm, NEW h \in WorkerSlots, Mark(h)
    PROVE  /\ task[h].phase = "read" /\ task[h].goal \in {"sent", "failed"}
           /\ Write(h, [row EXCEPT ![task[h].id].status = task[h].goal], task[h].id)
           /\ UNCHANGED job
<1>1. h \in Handlers /\ task[h].id \in Known(row) /\ task[h].phase = "read"
      /\ task[h].goal \in {"sent", "failed"}
  BY AtWork DEF Mark
<1>2. Restored(h) = row
  BY <1>1, Reloaded
<1>3. row[task[h].id] # None
  BY <1>1 DEF Known
<1>. QED BY <1>1, <1>2, <1>3 DEF Mark

LEMMA MarkKeeps ==
    ASSUME Calm, Typed', Quiet', NEW h \in WorkerSlots, Mark(h)
    PROVE  Sound'
<1>1. /\ h \in Handlers /\ task[h] \in Doing /\ task[h].id \in Known(row) /\ task[h] # Idle
      /\ task[h].phase = "read" /\ DispatchSound(task[h]) /\ h \in Sections
      /\ ProcessOf(h) = "worker" /\ h \notin ApiHandlers
  BY AtWork, InSection, WhereIs DEF Mark
<1>. DEFINE map == [row EXCEPT ![task[h].id].status = task[h].goal]
<1>2. task[h].goal \in {"sent", "failed"} /\ Write(h, map, task[h].id) /\ UNCHANGED job
  BY MarkWrites
<1>3. UNCHANGED <<row, requeue, asked, kept, sent>>
  BY DEF Mark
<1>4. /\ task'[h].phase = "landing" /\ task'[h].copy = map /\ task'[h].id = task[h].id
      /\ task'[h].goal = task[h].goal /\ memory'["worker"] = map
      /\ \A k \in Handlers \ {h} : task'[k] = task[k]
  <2>. HIDE DEF map
  <2>. QED BY <1>1, <1>2, Writes DEF Calm
<1>5. (ReadSound(task[h]) /\ LandingSound(task[h]) /\ CreationSound(task[h]))'
  BY <1>2, <1>3, <1>4 DEF ReadSound, LandingSound, CreationSound
<1>6. DispatchSound(task[h])'
  BY <1>1, <1>3, <1>4 DEF DispatchSound
<1>. HIDE DEF map
<1>7. Lone'
  BY <1>1, <1>4, StillLone DEF Calm
<1>8. OthersSound(h)'
  BY <1>1, <1>3, <1>4, OthersKnow
<1>9. HandlersSound'
  BY <1>1, <1>4, <1>5, <1>6, <1>8, AllKnow
<1>. QED BY <1>2, <1>3, <1>7, <1>9, RowStays, JobsStay, SameRow DEF Sound

LEMMA MarkLandedKeeps ==
    ASSUME Calm, Typed', Quiet', NEW h \in WorkerSlots, MarkLanded(h)
    PROVE  Sound'
<1>1. row' = task[h].copy /\ task[h].phase = "landing" /\ task[h].goal \in {"sent", "failed"}
      /\ h \in Handlers
  BY Lands DEF MarkLanded, Handlers
<1>2. /\ task[h] \in Doing /\ task[h].id \in Known(row) /\ task[h] # Idle
      /\ DispatchSound(task[h]) /\ LandingSound(task[h]) /\ h \in Sections
  BY <1>1, AtWork, InSection DEF Calm, HandlersSound
<1>3. /\ Known(row') = Known(row) /\ Kin(row, row')
      /\ row'[task[h].id].status = task[h].goal
      /\ \A n \in Known(row) : row'[n].of = row[n].of /\ (n # task[h].id => row'[n] = row[n])
  BY <1>1, Grows
<1>4. UNCHANGED <<memory, requeue, asked, kept, sent>>
  BY DEF MarkLanded
<1>5. RowSound'
  <2>1. RowSound
    BY DEF Calm
  <2>. QED BY <1>3, <1>4, <2>1 DEF RowSound
<1>6. CASE task[h].writes = 1
  <2>. DEFINE t == [task[h] EXCEPT !.writes = 2, !.copy = memory["worker"]]
  <2>1. task' = [task EXCEPT ![h] = t] /\ UNCHANGED job
    BY <1>1, <1>6 DEF MarkLanded, Calm, Typed, Tasks
  <2>2. t.phase = "landing" /\ t.copy = memory["worker"] /\ t.goal = task[h].goal
        /\ t.id = task[h].id
    BY <1>1, <1>2 DEF Doing
  <2>. HIDE DEF t
  <2>3. task'[h] = t /\ \A k \in Handlers \ {h} : task'[k] = task[k]
    BY <1>1, <2>1, Becomes DEF Calm
  <2>4. memory["worker"] = row'
    BY <1>1, <1>2 DEF LandingSound
  <2>5. row' = [row' EXCEPT ![task[h].id].status = task[h].goal]
    <3>1. row'[task[h].id] \in Notification /\ row' \in Snapshot
      BY <1>2, <1>3 DEF Typed, Snapshot, Known
    <3>2. [row'[task[h].id] EXCEPT !.status = task[h].goal] = row'[task[h].id]
      BY <1>3, <3>1 DEF Notification
    <3>. QED BY <3>1, <3>2 DEF Snapshot
  <2>6. LandingSound(task[h])'
    BY <1>1, <1>4, <2>2, <2>3, <2>4, <2>5 DEF LandingSound
  <2>7. (ReadSound(task[h]) /\ CreationSound(task[h]))'
    BY <1>1, <2>2, <2>3 DEF ReadSound, CreationSound
  <2>8. DispatchSound(task[h])'
    BY <1>1, <1>2, <1>3, <1>4, <2>2, <2>3 DEF DispatchSound
  <2>9. Lone'
    BY <1>1, <1>2, <2>2, <2>3, StillLone DEF Calm
  <2>10. OthersSound(h)'
    BY <1>1, <1>4, <2>3, OthersSee
  <2>11. HandlersSound'
    BY <1>1, <2>2, <2>3, <2>6, <2>7, <2>8, <2>10, AllKnow
  <2>. QED BY <1>3, <1>4, <1>5, <2>1, <2>9, <2>11, JobsStay DEF Sound
<1>7. CASE task[h].writes # 1
  <2>1. job' = [job EXCEPT ![task[h].id] = NoJob] /\ task' = [task EXCEPT ![h] = Idle]
    BY <1>7 DEF MarkLanded, End
  <2>2. task'[h] = Idle /\ \A k \in Handlers \ {h} : task'[k] = task[k]
    BY <1>1, <2>1, Becomes DEF Calm
  <2>3. task'[h].phase = "idle"
    BY <2>2, IdleIsNot
  <2>4. Lone'
    BY <1>1, <2>2, <2>3, StillLone DEF Calm
  <2>5. OthersSound(h)'
    BY <1>1, <1>4, <2>2, OthersSee
  <2>6. HandlersSound'
    BY <1>1, <2>2, <2>3, <2>5, AllKnow
  <2>7. JobsSound'
    <3>1. \A n \in Ids : job'[n] = job[n] \/ n = task[h].id
      BY <2>1 DEF Calm, Typed, Jobs
    <3>. QED BY <1>2, <1>3, <1>4, <3>1 DEF Calm, JobsSound
  <2>. QED BY <1>5, <2>4, <2>6, <2>7 DEF Sound
<1>. QED BY <1>6, <1>7

----------------------------------------------------------------------------
\* Queueing again, and the restarts.
LEMMA SameHandlers ==
    ASSUME HandlersSound, UNCHANGED <<memory, row, task, asked, sent>>
    PROVE  HandlersSound'
<1>1. ASSUME NEW k \in Handlers, task[k] # Idle
      PROVE  (ReadSound(task[k]) /\ LandingSound(task[k]) /\ CreationSound(task[k]))'
  <2>1. ReadSound(task[k]) /\ LandingSound(task[k]) /\ CreationSound(task[k])
    BY <1>1 DEF HandlersSound
  <2>2. ReadSound(task[k])'
    BY <2>1 DEF ReadSound
  <2>3. LandingSound(task[k])'
    BY <2>1 DEF LandingSound
  <2>4. CreationSound(task[k])'
    BY <2>1 DEF CreationSound
  <2>. QED BY <2>2, <2>3, <2>4
<1>2. ASSUME NEW k \in WorkerSlots, task[k] # Idle PROVE DispatchSound(task[k])'
  BY <1>2 DEF HandlersSound, DispatchSound
<1>. QED BY <1>1, <1>2 DEF HandlersSound

LEMMA RequeueKeeps ==
    ASSUME Calm, Typed', Quiet', NEW n \in Ids, Requeue(n)
    PROVE  Sound'
<1>1. /\ n \in requeue /\ requeue' = requeue \ {n} /\ job' = Added(n)
      /\ UNCHANGED <<memory, row, task, asked, kept, sent>>
  BY DEF Requeue
<1>2. Lone'
  BY <1>1 DEF Calm, Lone, Sections, Apart
<1>3. HandlersSound'
  BY <1>1, SameHandlers DEF Calm
<1>4. JobsSound'
  BY <1>1, AddedIs DEF Calm, JobsSound
<1>. QED BY <1>1, <1>2, <1>3, <1>4, RowStays DEF Sound

LEMMA RestartKeeps ==
    ASSUME Calm, Typed', Quiet', RestartApi \/ RestartWorker
    PROVE  Sound'
<1>1. UNCHANGED <<row, asked, kept, sent>>
  BY DEF RestartApi, RestartWorker
<1>2. \A k \in Handlers : task'[k] = task[k] \/ task'[k] = Idle
  BY DEF RestartApi, RestartWorker
<1>3. \A k \in Handlers : task'[k].phase # "idle" => task'[k] = task[k]
  BY <1>2, IdleIsNot
<1>4. Lone'
  BY <1>3, IdleIsNot DEF Calm, Lone, Sections, Apart
<1>5. ASSUME NEW k \in Handlers, task'[k] # Idle
      PROVE  (ReadSound(task[k]) /\ LandingSound(task[k]) /\ CreationSound(task[k]))'
  <2>1. ReadSound(task[k]) /\ LandingSound(task[k]) /\ CreationSound(task[k]) /\ task'[k] = task[k]
    BY <1>2, <1>5 DEF Calm, HandlersSound
  <2>2. task[k].phase = "landing" /\ task[k].goal \in {"sent", "failed"}
           => memory'["worker"] = memory["worker"]
    <3>1. CASE RestartApi
      BY <3>1 DEF RestartApi, Calm, Typed, Processes
    <3>2. CASE RestartWorker
      <4>1. k \notin WorkerSlots
        BY <1>5, <3>2 DEF RestartWorker
      <4>. QED BY <1>5, <2>1, <4>1, Working DEF Calm, ApiTask, Handlers
    <3>. QED BY <3>1, <3>2
  <2>3. ReadSound(task[k])'
    BY <1>1, <2>1 DEF ReadSound
  <2>4. LandingSound(task[k])'
    BY <1>1, <2>1, <2>2 DEF LandingSound
  <2>5. CreationSound(task[k])'
    BY <1>1, <2>1 DEF CreationSound
  <2>. QED BY <2>3, <2>4, <2>5
<1>6. ASSUME NEW k \in WorkerSlots, task'[k] # Idle
      PROVE  DispatchSound(task[k])'
  <2>1. task'[k] = task[k] /\ DispatchSound(task[k])
    BY <1>2, <1>6 DEF Calm, HandlersSound, Handlers
  <2>. QED BY <1>1, <2>1 DEF DispatchSound
<1>7. \A h, k \in Handlers :
          h # k /\ task'[h].phase = "queueing" /\ task'[k].phase = "queueing"
             => task'[h].id # task'[k].id
  BY <1>3 DEF Calm, HandlersSound
<1>8. HandlersSound'
  BY <1>5, <1>6, <1>7 DEF HandlersSound
<1>9. JobsSound'
  <2>1. CASE RestartApi
    BY <2>1 DEF RestartApi, Calm, JobsSound, Pending
  <2>2. CASE RestartWorker
    <3>1. \A n \in Ids : job'[n].state # "none" => job[n].state # "none"
      BY <2>2 DEF RestartWorker
    <3>. QED BY <2>2, <3>1 DEF RestartWorker, Calm, JobsSound
  <2>. QED BY <2>1, <2>2
<1>. QED BY <1>1, <1>4, <1>8, <1>9, RowStays DEF Sound


LEMMA CleanStep ==
    ASSUME Typed, Clean, Next, Quiet'
    PROVE  Calm /\ Sound'
<1>1. Quiet /\ faults' = faults
  BY QuietBefore
<1>2. Calm
  BY <1>1 DEF Clean, Calm
<1>3. Typed'
  BY TypedStep
<1>4. ASSUME NEW h \in ApiHandlers,
             (\E m \in Messages : createNotification(h, m)) \/ recordEvent(h) \/ ApiSteps(h)
      PROVE  Sound'
  <2>1. h \in Handlers
    BY DEF Handlers
  <2>. QED BY <1>2, <1>3, <1>4, <2>1, StartKeeps, AccessKeeps, CreateKeeps, EventKeeps,
              CreateLandedKeeps, QueueKeeps, EventLandedKeeps DEF ApiSteps
<1>5. ASSUME NEW h \in WorkerSlots, WorkerSteps(h) PROVE Sound'
  <2>1. h \in Handlers
    BY DEF Handlers
  <2>. QED BY <1>2, <1>3, <1>5, <2>1, TakeKeeps, AccessKeeps, FindKeeps, SendKeeps, MarkKeeps,
              MarkLandedKeeps DEF WorkerSteps
<1>6. ASSUME NEW n \in Ids, Requeue(n) PROVE Sound'
  BY <1>2, <1>3, <1>6, RequeueKeeps
<1>7. ~RestartApiBlind
  <2>1. RestartApiBlind => faults' = faults + 1 /\ faults \in Nat
    BY DEF RestartApiBlind, Typed
  <2>. QED BY <1>1, <2>1
<1>8. CASE RestartApi \/ RestartWorker
  BY <1>2, <1>3, <1>8, RestartKeeps
<1>. QED BY <1>2, <1>4, <1>5, <1>6, <1>7, <1>8 DEF Next

LEMMA CleanInit == Init => Clean
<1>. SUFFICES ASSUME Init PROVE Lone /\ HandlersSound /\ RowSound /\ JobsSound
  BY DEF Clean
<1>1. \A h \in Handlers : task[h] = Idle /\ task[h].phase = "idle"
  BY IdleIsNot DEF Init
<1>2. Known(row) = {}
  BY DEF Init, Known, Empty
<1>3. \A n \in Ids : job[n].state = "none"
  BY DEF Init, NoJob
<1>4. Lone
  BY <1>1 DEF Lone, Sections
<1>5. HandlersSound
  BY <1>1 DEF HandlersSound, Handlers
<1>. QED BY <1>2, <1>3, <1>4, <1>5 DEF Init, RowSound, JobsSound

LEMMA CleanAlways == Typed /\ Clean /\ [Next]_vars => Clean'
<1>1. CASE UNCHANGED vars
  <2>1. UNCHANGED <<memory, row, job, task, requeue, asked, kept, sent, mixed, faults>>
    BY <1>1 DEF vars
  <2>2. HandlersSound => HandlersSound'
    BY <2>1, SameHandlers
  <2>3. (Quiet' => Quiet) /\ (Lone => Lone') /\ (RowSound => RowSound') /\ (JobsSound => JobsSound')
    BY <2>1 DEF Quiet, Lone, Sections, Apart, RowSound, JobsSound
  <2>. QED BY <2>2, <2>3 DEF Clean
<1>2. CASE Next
  BY <1>2, CleanStep DEF Clean, Sound
<1>. QED BY <1>1, <1>2

\* As long as sections stay apart and PostgreSQL answers, a notification that was
\* written is never overwritten by the memory of the other process (persistState), and
\* keeps one id.
THEOREM NothingLost == Spec => []NoneLost
<1>1. Init => Typed /\ Clean
  BY TypedInit, CleanInit
<1>2. Typed /\ Clean /\ [Next]_vars => (Typed /\ Clean)'
  BY TypedStep, CleanAlways
<1>3. Typed /\ Clean => NoneLost
  <2>. SUFFICES ASSUME Typed, Clean, Quiet, NEW m \in kept PROVE Cardinality(Written(m)) = 1
    BY DEF NoneLost, Quiet
  <2>1. RowSound
    BY DEF Clean
  <2>2. PICK n \in Known(row) : row[n].of = m
    BY <2>1 DEF RowSound
  <2>3. Written(m) = {n}
    BY <2>1, <2>2 DEF RowSound, Written
  <2>. QED BY <2>3, FS_Singleton
<1>. QED BY <1>1, <1>2, <1>3, PTL DEF Spec

\* The row is what it was, or what a handler has written.
LEMMA RowMoves ==
    ASSUME Calm, Next, faults' = faults
    PROVE  \/ row' = row
           \/ \E h \in Handlers : task[h].phase = "landing" /\ row' = task[h].copy
<1>1. ASSUME NEW h \in Handlers, Access(h) PROVE row' = row
  <2>1. task[h].phase # "rewriting"
    BY Working DEF Calm, HandlersSound, ReadSound
  <2>. QED BY <1>1, <2>1 DEF Access, load, loadFails, rewrite
<1>2. ASSUME NEW h \in ApiHandlers,
             (\E m \in Messages : createNotification(h, m)) \/ recordEvent(h) \/ ApiSteps(h)
      PROVE  row' = row \/ (task[h].phase = "landing" /\ row' = task[h].copy)
  <2>1. h \in Handlers
    BY DEF Handlers
  <2>2. ASSUME CreateLanded(h) \/ EventLanded(h)
        PROVE  row' = row \/ (task[h].phase = "landing" /\ row' = task[h].copy)
    BY <2>2 DEF CreateLanded, EventLanded, Landed
  <2>3. ASSUME Create(h) \/ Event(h) \/ Queue(h) \/ recordEvent(h)
               \/ \E m \in Messages : createNotification(h, m)
        PROVE  row' = row
    BY <2>3 DEF Create, Event, Queue, recordEvent, createNotification
  <2>. QED BY <1>1, <1>2, <2>1, <2>2, <2>3 DEF ApiSteps
<1>3. ASSUME NEW h \in WorkerSlots, WorkerSteps(h)
      PROVE  row' = row \/ (task[h].phase = "landing" /\ row' = task[h].copy)
  <2>1. h \in Handlers
    BY DEF Handlers
  <2>2. ASSUME MarkLanded(h)
        PROVE  row' = row \/ (task[h].phase = "landing" /\ row' = task[h].copy)
    BY <2>2 DEF MarkLanded, Landed
  <2>3. ASSUME Find(h) \/ Send(h) \/ Mark(h) \/ \E n \in Ids : Take(h, n)
        PROVE  row' = row
    BY <2>3 DEF Find, Send, Mark, Take
  <2>. QED BY <1>1, <1>3, <2>1, <2>2, <2>3 DEF WorkerSteps
<1>4. ~RestartApiBlind
  <2>1. RestartApiBlind => faults' = faults + 1 /\ faults \in Nat
    BY DEF RestartApiBlind, Calm, Typed
  <2>. QED BY <2>1
<1>5. ASSUME (\E n \in Ids : Requeue(n)) \/ RestartApi \/ RestartWorker PROVE row' = row
  BY <1>5 DEF Requeue, RestartApi, RestartWorker
<1>. QED BY <1>2, <1>3, <1>4, <1>5 DEF Next, Handlers

\* A record turns sent by the write of a slot that marks it, which sent it first.
LEMMA MarkedIsAccepted ==
    ASSUME Typed, Clean, Next, Quiet', NEW n \in Known(row), row[n].of \in Emails,
           row[n].status # "sent", row'[n].status = "sent"
    PROVE  sent[row[n].of] > 0
<1>1. Calm /\ faults' = faults
  BY CleanStep, QuietBefore
<1>2. row' # row
  OBVIOUS
<1>3. PICK h \in Handlers : task[h].phase = "landing" /\ row' = task[h].copy
  BY <1>1, <1>2, RowMoves
<1>4. task[h] # Idle /\ task[h].goal \in {"create", "event", "sent", "failed"}
  BY <1>1, <1>3, Working DEF Calm, ApiTask, WorkerTask, Handlers
<1>5. task[h].goal \in {"sent", "failed"} /\ n = task[h].id /\ row'[n].status = task[h].goal
  BY <1>1, <1>2, <1>3, <1>4, Grows
<1>6. task[h].goal = "sent"
  BY <1>5
<1>7. h \in WorkerSlots
  BY <1>1, <1>3, <1>6, Working DEF Calm, ApiTask, Handlers
<1>8. DispatchSound(task[h])
  BY <1>1, <1>4, <1>7 DEF Calm, HandlersSound
<1>. QED BY <1>3, <1>5, <1>6, <1>8 DEF DispatchSound

\* ... and no email becomes sent in the row that the provider has not accepted, however
\* late the lookup of the worker was and whatever status the email was born with
\* (processNotificationDispatch, markNotificationSent).
THEOREM SentOnlyAccepted == Spec => SentWasAccepted
<1>1. Init => Typed /\ Clean
  BY TypedInit, CleanInit
<1>2. Typed /\ Clean /\ [Next]_vars => (Typed /\ Clean)'
  BY TypedStep, CleanAlways
<1>3. Typed /\ Clean /\ [Next]_vars =>
        [~mixed' /\ faults' = 0 =>
            \A n \in Known(row) :
                /\ row[n].of \in Emails
                /\ row[n].status # "sent"
                /\ row'[n].status = "sent"
                => sent[row[n].of] > 0]_vars
  <2>. SUFFICES ASSUME Typed, Clean, Next, Quiet', NEW n \in Known(row), row[n].of \in Emails,
                       row[n].status # "sent", row'[n].status = "sent"
                PROVE  sent[row[n].of] > 0
    BY DEF Quiet
  <2>. QED BY MarkedIsAccepted
<1>. QED BY <1>1, <1>2, <1>3, PTL DEF Spec, SentWasAccepted


(***************************************************************************)
(* How often a message can still be sent.                                  *)
(***************************************************************************)
LEMMA OnceIs == \A P \in BOOLEAN : Once(P) \in {0, 1}
BY DEF Once

\* A step that opens no new way and sends nothing.
LEMMA NoNewWay ==
    ASSUME Typed, Typed', NEW m \in Messages, sent[m] + Ways(m) <= 1 + restarts,
           sent'[m] = sent[m], restarts' = restarts,
           Coming(m)' => Coming(m), Waiting(m)' => Waiting(m), Again(m)' => Again(m)
    PROVE  sent'[m] + Ways(m)' <= 1 + restarts'
<1>1. sent[m] \in Nat /\ restarts \in Nat
  BY DEF Typed
<1>. QED BY <1>1 DEF Ways, Once

\* One way is taken for another, or to send.
LEMMA OtherWay ==
    ASSUME Typed, Typed', NEW m \in Messages, sent[m] + Ways(m) <= 1 + restarts,
           restarts' = restarts,
           \/ /\ sent'[m] = sent[m]
              /\ \/ Coming(m) /\ ~Coming(m)' /\ (Again(m)' => Again(m))
                 \/ Again(m) /\ ~Again(m)' /\ (Coming(m)' => Coming(m))
           \/ /\ sent'[m] <= sent[m] + 1 /\ Waiting(m) /\ ~Waiting(m)'
              /\ (Coming(m)' => Coming(m)) /\ (Again(m)' => Again(m))
    PROVE  sent'[m] + Ways(m)' <= 1 + restarts'
<1>1. sent[m] \in Nat /\ sent'[m] \in Nat /\ restarts \in Nat
  BY DEF Typed
<1>. QED BY <1>1 DEF Ways, Once

\* A restart can open one way.
LEMMA OneMoreWay ==
    ASSUME Typed, Typed', NEW m \in Messages, sent[m] + Ways(m) <= 1 + restarts,
           sent'[m] = sent[m], restarts' = restarts + 1, Coming(m)' => Coming(m),
           (Waiting(m)' => Waiting(m)) \/ (Again(m)' => Again(m))
    PROVE  sent'[m] + Ways(m)' <= 1 + restarts'
<1>1. sent[m] \in Nat /\ restarts \in Nat
  BY DEF Typed
<1>. QED BY <1>1 DEF Ways, Once

\* What a step of a handler leaves of the ways.
LEMMA AgainStays ==
    ASSUME Calm, Kin(row, row'), requeue' \subseteq requeue, NEW m
    PROVE  Again(m)' => Again(m)
BY DEF Calm, JobsSound, Kin, Again

CreatesFor(h, m) ==
    /\ task[h].phase \in {"reading", "read", "landing"}
    /\ task[h].goal = "create" /\ task[h].of = m
QueuesFor(h, m) == task[h].phase = "queueing" /\ row[task[h].id].of = m

LEMMA ComingIs ==
    ASSUME NEW m
    PROVE  Coming(m) <=> \/ m \notin asked
                         \/ \E h \in ApiHandlers : CreatesFor(h, m) \/ QueuesFor(h, m)
BY DEF Coming, CreatesFor, QueuesFor

LEMMA ComingNext ==
    ASSUME NEW m
    PROVE  Coming(m)' <=> \/ m \notin asked'
                          \/ \E h \in ApiHandlers : CreatesFor(h, m)' \/ QueuesFor(h, m)'
BY DEF Coming, CreatesFor, QueuesFor

LEMMA OthersCome ==
    ASSUME Calm, Kin(row, row'), NEW m, NEW k \in ApiHandlers, task'[k] = task[k],
           CreatesFor(k, m)' \/ QueuesFor(k, m)'
    PROVE  CreatesFor(k, m) \/ QueuesFor(k, m)
<1>1. k \in Handlers
  BY DEF Handlers
<1>2. CASE task[k].phase = "queueing"
  <2>1. task[k].id \in Known(row)
    BY <1>1, <1>2, Working DEF Calm, HandlersSound, CreationSound
  <2>. QED BY <1>2, <2>1 DEF Kin, CreatesFor, QueuesFor
<1>. QED BY <1>2 DEF CreatesFor, QueuesFor

\* A step of the API: the ways in are those there were, but for its own.
LEMMA ComingStays ==
    ASSUME Calm, Kin(row, row'), NEW h \in ApiHandlers, NEW m, asked \subseteq asked',
           \A k \in Handlers \ {h} : task'[k] = task[k],
           CreatesFor(h, m)' \/ QueuesFor(h, m)' => Coming(m)
    PROVE  Coming(m)' => Coming(m)
<1>. SUFFICES ASSUME Coming(m)' PROVE Coming(m)
  OBVIOUS
<1>1. CASE m \notin asked'
  BY <1>1, ComingIs
<1>2. ASSUME NEW k \in ApiHandlers, CreatesFor(k, m)' \/ QueuesFor(k, m)' PROVE Coming(m)
  <2>1. CASE k = h
    BY <1>2, <2>1
  <2>2. CASE k # h
    <3>1. task'[k] = task[k]
      BY <2>2 DEF Handlers
    <3>. QED BY <1>2, <3>1, OthersCome, ComingIs
  <2>. QED BY <2>1, <2>2
<1>. QED BY <1>1, <1>2, ComingNext

LEMMA ComingWaits ==
    ASSUME Calm, Kin(row, row'), NEW m, asked \subseteq asked',
           \A k \in ApiHandlers : task'[k] = task[k]
    PROVE  Coming(m)' => Coming(m)
<1>. SUFFICES ASSUME Coming(m)' PROVE Coming(m)
  OBVIOUS
<1>1. CASE m \notin asked'
  BY <1>1, ComingIs
<1>2. ASSUME NEW k \in ApiHandlers, CreatesFor(k, m)' \/ QueuesFor(k, m)' PROVE Coming(m)
  BY <1>2, OthersCome, ComingIs
<1>. QED BY <1>1, <1>2, ComingNext

Seeks(h, n) == task[h] # Idle /\ task[h].id = n /\ Seeking(task[h])

LEMMA WaitingIs ==
    ASSUME NEW m
    PROVE  Waiting(m) <=> \E n \in Known(row) :
                             /\ row[n].of = m
                             /\ job[n].state = "waiting" \/ \E h \in WorkerSlots : Seeks(h, n)
BY DEF Waiting, Seeks

LEMMA WaitingNext ==
    ASSUME NEW m
    PROVE  Waiting(m)' <=> \E n \in Known(row') :
                             /\ row'[n].of = m
                             /\ job'[n].state = "waiting" \/ \E h \in WorkerSlots : Seeks(h, n)'
BY DEF Waiting, Seeks

\* What is waited for in an id that already was, is waited for as before.
LEMMA WaitingStays ==
    ASSUME Calm, Kin(row, row'), NEW m,
           \A n \in Known(row') : row'[n].of = m /\ job'[n].state = "waiting"
              => job[n].state = "waiting" \/ \E h \in WorkerSlots : Seeks(h, n),
           \A n \in Known(row'), h \in WorkerSlots : row'[n].of = m /\ Seeks(h, n)'
              => job[n].state = "waiting" \/ \E k \in WorkerSlots : Seeks(k, n)
    PROVE  Waiting(m)' => Waiting(m)
<1>. SUFFICES ASSUME NEW n \in Known(row'), row'[n].of = m,
                     job'[n].state = "waiting" \/ \E h \in WorkerSlots : Seeks(h, n)'
              PROVE  Waiting(m)
  BY WaitingNext
<1>1. job[n].state = "waiting" \/ \E h \in WorkerSlots : Seeks(h, n)
  OBVIOUS
<1>2. n \in Known(row)
  <2>1. CASE job[n].state = "waiting"
    BY <2>1 DEF Calm, JobsSound, Known
  <2>2. ASSUME NEW h \in WorkerSlots, Seeks(h, n) PROVE n \in Known(row)
    BY <2>2 DEF Calm, HandlersSound, DispatchSound, Seeks
  <2>. QED BY <1>1, <2>1, <2>2
<1>3. row[n].of = m
  BY <1>2 DEF Kin
<1>. QED BY <1>1, <1>2, <1>3, WaitingIs


----------------------------------------------------------------------------
LEMMA SameSeekers ==
    ASSUME NEW n, \A k \in WorkerSlots : task'[k] = task[k], NEW h \in WorkerSlots, Seeks(h, n)'
    PROVE  Seeks(h, n)
BY DEF Seeks, Seeking

\* A step of the API that queues nothing.
LEMMA ApiSpends ==
    ASSUME Calm, Typed', Sound', Quiet', NEW h \in ApiHandlers, NEW m \in Messages,
           sent[m] + Ways(m) <= 1 + restarts,
           \/ \E x \in Messages : createNotification(h, x)
           \/ recordEvent(h)
           \/ Access(h) \/ Create(h) \/ Event(h) \/ CreateLanded(h) \/ EventLanded(h)
    PROVE  sent'[m] + Ways(m)' <= 1 + restarts'
<1>1. h \in Handlers /\ h \notin WorkerSlots /\ WorkerSlots \subseteq Handlers
  BY WhereIs DEF Handlers
<1>2. UNCHANGED <<job, requeue, sent, restarts>> /\ asked \subseteq asked'
  BY DEF createNotification, recordEvent, Access, load, loadFails, rewrite, Create, Event,
     CreateLanded, EventLanded, bounds
<1>3. \A k \in Handlers \ {h} : task'[k] = task[k]
  <2>1. \E t : task' = [task EXCEPT ![h] = t]
    BY DEF createNotification, recordEvent, Access, load, loadFails, rewrite, Create, Event,
       CreateLanded, EventLanded, Enter, End, Write
  <2>. QED BY <1>1, <2>1, Becomes DEF Calm
<1>4. Kin(row, row')
  <2>1. CASE CreateLanded(h) \/ EventLanded(h)
    BY <1>1, <2>1, Lands, Grows DEF CreateLanded, EventLanded
  <2>2. CASE Access(h)
    <3>1. ~rewrite(h)
      <4>1. task[h].phase # "rewriting"
        <5>1. task[h].phase # "idle" => task[h] # Idle
          BY <1>1, Working DEF Calm
        <5>. QED BY <1>1, <5>1 DEF Calm, HandlersSound, ReadSound
      <4>. QED BY <4>1 DEF rewrite
    <3>. QED BY <2>2, <3>1, SameRow DEF Access, load, loadFails
  <2>3. CASE ~(CreateLanded(h) \/ EventLanded(h) \/ Access(h))
    BY <2>3, SameRow DEF createNotification, recordEvent, Create, Event
  <2>. QED BY <2>1, <2>2, <2>3
<1>5. Again(m)' => Again(m)
  BY <1>2, <1>4, AgainStays
<1>6. Waiting(m)' => Waiting(m)
  <2>1. \A k \in WorkerSlots : task'[k] = task[k]
    BY <1>1, <1>3
  <2>3. ASSUME NEW n \in Known(row'), NEW k \in WorkerSlots, row'[n].of = m, Seeks(k, n)'
        PROVE  \E j \in WorkerSlots : Seeks(j, n)
    BY <2>1, <2>3, SameSeekers
  <2>. QED BY <1>2, <1>4, <2>3, WaitingStays
<1>7. ASSUME CreatesFor(h, m)' \/ QueuesFor(h, m)' PROVE Coming(m)
  <2>1. ASSUME NEW x \in Messages, createNotification(h, x) PROVE Coming(m)
    <3>1. task'[h] = Section("create", x, 1)
      BY <1>1, <2>1, Becomes DEF createNotification, Enter, Calm
    <3>2. task'[h].phase = "reading" /\ task'[h].of = x
      BY <3>1, OneIsId, SectionIs DEF Goals
    <3>3. m = x
      BY <1>7, <3>2 DEF CreatesFor, QueuesFor
    <3>. QED BY <2>1, <3>3, ComingIs DEF createNotification
  <2>2. ASSUME recordEvent(h) PROVE FALSE
    <3>1. task'[h] = Section("event", AnyMessage, 1)
      BY <1>1, <2>2, Becomes DEF recordEvent, Enter, Calm
    <3>2. task'[h].phase = "reading" /\ task'[h].goal = "event"
      BY <3>1, OneIsId, SectionIs DEF Goals
    <3>. QED BY <1>7, <3>2 DEF CreatesFor, QueuesFor
  <2>3. ASSUME Access(h) PROVE Coming(m)
    <3>1. /\ task'[h].goal = task[h].goal /\ task'[h].of = task[h].of
          /\ task'[h].phase \in {"read", "rewriting"}
      BY <1>1, <2>3, AccessTyped DEF Calm
    <3>2. task[h].phase \in {"reading", "rewriting"}
      BY <2>3 DEF Access, load, loadFails, rewrite
    <3>3. task[h].phase # "rewriting"
      <4>1. task[h] # Idle
        BY <1>1, <3>2, Working DEF Calm
      <4>. QED BY <1>1, <4>1 DEF Calm, HandlersSound, ReadSound
    <3>4. CreatesFor(h, m)
      BY <1>7, <3>1, <3>2, <3>3 DEF CreatesFor, QueuesFor
    <3>. QED BY <3>4, ComingIs
  <2>4. ASSUME Create(h) PROVE Coming(m)
    <3>1. task[h].phase = "read" /\ task[h].goal = "create" /\ task[h] \in Doing
      BY <1>1, <2>4, Working DEF Create, Calm
    <3>2. \E map, n : Write(h, map, n)
      BY <2>4 DEF Create
    <3>3. task'[h].phase = "landing" /\ task'[h].of = task[h].of
      BY <1>1, <3>1, <3>2, Writes DEF Calm
    <3>4. CreatesFor(h, m)
      BY <1>7, <3>1, <3>3 DEF CreatesFor, QueuesFor
    <3>. QED BY <3>4, ComingIs
  <2>5. ASSUME Event(h) PROVE FALSE
    <3>1. task[h].phase = "read" /\ task[h].goal = "event" /\ task[h] \in Doing
      BY <1>1, <2>5, Working DEF Event, Calm
    <3>2. task'[h].phase = "landing" /\ task'[h].goal = task[h].goal
      BY <1>1, <2>5, <3>1, Writes DEF Calm, Event
    <3>. QED BY <1>7, <3>1, <3>2 DEF CreatesFor, QueuesFor
  <2>6. ASSUME CreateLanded(h) PROVE Coming(m)
    <3>1. task[h].phase = "landing" /\ task[h].goal = "create" /\ row' = task[h].copy
      BY <1>1, <2>6, Lands DEF CreateLanded
    <3>2. row'[task[h].id].of = task[h].of /\ task[h] \in Doing
      BY <1>1, <3>1, Grows, Working DEF Calm
    <3>3. task'[h] = [task[h] EXCEPT !.phase = "queueing"]
      BY <1>1, <2>6 DEF CreateLanded, Calm, Typed, Tasks
    <3>4. task'[h].phase = "queueing" /\ task'[h].id = task[h].id
      BY <3>2, <3>3 DEF Doing
    <3>5. CreatesFor(h, m)
      BY <1>7, <3>1, <3>2, <3>4 DEF CreatesFor, QueuesFor
    <3>. QED BY <3>5, ComingIs
  <2>7. ASSUME EventLanded(h) PROVE FALSE
    <3>1. task'[h] = Idle
      BY <1>1, <2>7, Becomes DEF EventLanded, End, Calm
    <3>. QED BY <1>7, <3>1, IdleIsNot DEF CreatesFor, QueuesFor
  <2>. QED BY <2>1, <2>2, <2>3, <2>4, <2>5, <2>6, <2>7
<1>8. Coming(m)' => Coming(m)
  BY <1>2, <1>3, <1>4, <1>7, ComingStays
<1>. QED BY <1>2, <1>5, <1>6, <1>8, NoNewWay DEF Calm

\* A creation that is queued becomes a job.
LEMMA QueueSpends ==
    ASSUME Calm, Typed', Sound', Quiet', NEW h \in ApiHandlers, NEW m \in Messages,
           sent[m] + Ways(m) <= 1 + restarts, Queue(h)
    PROVE  sent'[m] + Ways(m)' <= 1 + restarts'
<1>1. h \in Handlers /\ h \notin WorkerSlots /\ WorkerSlots \subseteq Handlers
  BY WhereIs DEF Handlers
<1>2. task[h].phase = "queueing" /\ task[h] # Idle /\ task[h].id \in Ids /\ task[h].id \in Known(row)
  <2>1. task[h].phase = "queueing" /\ task[h] # Idle /\ task[h].id \in Ids
    BY <1>1, Working DEF Queue, Calm
  <2>. QED BY <1>1, <2>1 DEF Calm, HandlersSound, CreationSound
<1>3. /\ UNCHANGED <<row, requeue, asked, sent, restarts>> /\ job' = Added(task[h].id)
  BY DEF Queue, Calm, Quiet
<1>4. task'[h] = Section("event", AnyMessage, 1) /\ \A k \in Handlers \ {h} : task'[k] = task[k]
  BY <1>1, Becomes DEF Queue, Enter, Calm
<1>5. task'[h].phase = "reading" /\ task'[h].goal = "event"
  BY <1>4, OneIsId, SectionIs DEF Goals
<1>6. ~CreatesFor(h, m)' /\ ~QueuesFor(h, m)'
  BY <1>5 DEF CreatesFor, QueuesFor
<1>7. Kin(row, row')
  BY <1>3, SameRow
<1>8. Again(m)' => Again(m)
  BY <1>3, <1>7, AgainStays
<1>9. Coming(m)' => Coming(m)
  BY <1>3, <1>4, <1>6, <1>7, ComingStays
<1>10. CASE row[task[h].id].of = m
  <2>1. Coming(m)
    BY <1>2, <1>10, ComingIs DEF QueuesFor
  <2>2. m \in asked
    BY <1>2, <1>10 DEF Calm, RowSound
  <2>3. ASSUME NEW k \in ApiHandlers, CreatesFor(k, m)' \/ QueuesFor(k, m)' PROVE FALSE
    <3>1. k # h /\ k \in Handlers /\ task'[k] = task[k]
      BY <1>4, <1>6, <2>3 DEF Handlers
    <3>2. task[k].phase # "idle"
      BY <2>3, <3>1 DEF CreatesFor, QueuesFor
    <3>3. task[k] # Idle
      BY <3>1, <3>2, Working DEF Calm
    <3>4. CreationSound(task[k])
      BY <3>1, <3>3 DEF Calm, HandlersSound
    <3>5. ~CreatesFor(k, m)'
      BY <1>2, <1>10, <3>1, <3>4 DEF CreationSound, CreatesFor
    <3>6. task[k].phase = "queueing" /\ row[task[k].id].of = m
      BY <1>3, <2>3, <3>1, <3>5 DEF QueuesFor
    <3>7. task[k].id \in Known(row)
      BY <3>4, <3>6 DEF CreationSound
    <3>8. task[k].id = task[h].id
      BY <1>2, <1>10, <3>6, <3>7 DEF Calm, RowSound
    <3>. QED BY <1>1, <1>2, <3>1, <3>6, <3>8 DEF Calm, HandlersSound
  <2>4. ~Coming(m)'
    BY <1>3, <2>2, <2>3, ComingNext
  <2>. QED BY <1>3, <1>8, <2>1, <2>4, OtherWay DEF Calm
<1>11. CASE row[task[h].id].of # m
  <2>1. \A k \in WorkerSlots : task'[k] = task[k]
    BY <1>1, <1>4
  <2>2. ASSUME NEW n \in Known(row'), NEW k \in WorkerSlots, row'[n].of = m, Seeks(k, n)'
        PROVE  \E j \in WorkerSlots : Seeks(j, n)
    BY <2>1, <2>2, SameSeekers
  <2>3. \A n \in Known(row') : row'[n].of = m => n # task[h].id /\ n \in Ids
    BY <1>3, <1>11 DEF Known
  <2>4. \A n \in Known(row') : row'[n].of = m => job'[n] = job[n]
    BY <1>2, <1>3, <2>3, AddedIs DEF Calm
  <2>5. Waiting(m)' => Waiting(m)
    BY <1>7, <2>2, <2>4, WaitingStays
  <2>. QED BY <1>3, <1>8, <1>9, <2>5, NoNewWay DEF Calm
<1>. QED BY <1>10, <1>11


\* The worker's steps that send nothing.
LEMMA WorkerSpends ==
    ASSUME Calm, Typed', Sound', Quiet', NEW h \in WorkerSlots, NEW m \in Messages,
           sent[m] + Ways(m) <= 1 + restarts,
           \/ \E n \in Ids : Take(h, n)
           \/ Access(h) \/ Find(h) \/ Mark(h) \/ MarkLanded(h)
    PROVE  sent'[m] + Ways(m)' <= 1 + restarts'
<1>1. h \in Handlers /\ h \notin ApiHandlers /\ WorkerSlots \subseteq Handlers
      /\ ApiHandlers \subseteq Handlers
  BY WhereIs DEF Handlers
<1>2. UNCHANGED <<requeue, sent, restarts, asked>>
  BY DEF Take, Access, load, loadFails, rewrite, Find, Mark, MarkLanded, bounds
<1>3. \A k \in Handlers \ {h} : task'[k] = task[k]
  <2>1. \E t : task' = [task EXCEPT ![h] = t]
    <3>1. ASSUME NEW n \in Ids, Take(h, n) PROVE \E t : task' = [task EXCEPT ![h] = t]
      BY <3>1 DEF Take, Enter
    <3>2. ASSUME Access(h) PROVE \E t : task' = [task EXCEPT ![h] = t]
      BY <3>2 DEF Access, load, loadFails, rewrite
    <3>3. ASSUME Find(h) PROVE \E t : task' = [task EXCEPT ![h] = t]
      BY <3>3 DEF Find, Enter
    <3>4. ASSUME Mark(h) PROVE \E t : task' = [task EXCEPT ![h] = t]
      BY <3>4 DEF Mark, Write, End
    <3>5. ASSUME MarkLanded(h) PROVE \E t : task' = [task EXCEPT ![h] = t]
      BY <3>5 DEF MarkLanded, End
    <3>. QED BY <3>1, <3>2, <3>3, <3>4, <3>5
  <2>. QED BY <1>1, <2>1, Becomes DEF Calm
<1>4. task[h].phase = "rewriting" => FALSE
  <2>1. task[h].phase # "idle" => task[h] # Idle
    BY <1>1, Working DEF Calm
  <2>. QED BY <1>1, <2>1 DEF Calm, HandlersSound, ReadSound
<1>5. Kin(row, row')
  <2>1. CASE MarkLanded(h)
    BY <1>1, <2>1, Lands, Grows DEF MarkLanded
  <2>2. CASE ~MarkLanded(h)
    BY <1>4, <2>2, SameRow DEF Take, Access, load, loadFails, rewrite, Find, Mark
  <2>. QED BY <2>1, <2>2
<1>6. Again(m)' => Again(m)
  BY <1>2, <1>5, AgainStays
<1>7. Coming(m)' => Coming(m)
  BY <1>1, <1>2, <1>3, <1>5, ComingWaits
<1>8. ASSUME NEW k \in WorkerSlots \ {h}, NEW n, Seeks(k, n)'
      PROVE  Seeks(k, n)
  <2>1. task'[k] = task[k]
    BY <1>1, <1>3
  <2>. QED BY <1>8, <2>1 DEF Seeks, Seeking
\* What the slot looks for after its step, it looked for before or has just taken.
<1>9. ASSUME NEW n, Seeks(h, n)' PROVE Seeks(h, n) \/ job[n].state = "waiting"
  <2>1. ASSUME NEW i \in Ids, Take(h, i) PROVE job[n].state = "waiting"
    <3>1. task'[h] = Section("find", AnyMessage, i)
      BY <1>1, <2>1, Becomes DEF Take, Enter, Calm
    <3>2. task'[h].id = i
      BY <3>1, SectionIs DEF Goals
    <3>. QED BY <1>9, <2>1, <3>2 DEF Seeks, Take
  <2>2. ASSUME Access(h) PROVE Seeks(h, n)
    <3>1. /\ task'[h].goal = task[h].goal /\ task'[h].id = task[h].id /\ task[h] \in Doing
          /\ task'[h].phase \in {"read", "rewriting"}
      BY <1>1, <2>2, AccessTyped DEF Calm
    <3>. QED BY <1>9, <3>1, IdleIsNot DEF Seeks, Seeking
  <2>3. ASSUME Find(h) PROVE Seeks(h, n)
    <3>1. task[h] # Idle /\ task[h] \in Doing /\ task[h].goal = "find" /\ task[h].id \in Ids
          /\ row[task[h].id].of \in Messages
      BY <2>3, AtWork, NoneIsNot DEF Find, Known
    <3>2. task'[h].id = task[h].id
      <4>1. CASE row[task[h].id].of \in Emails
        <5>. DEFINE s == Section("sent", row[task[h].id].of, task[h].id)
        <5>1. task'[h] = [s EXCEPT !.phase = "sending"]
          BY <1>1, <2>3, <4>1, FindSees DEF Find, Calm, Typed, Tasks
        <5>2. s \in Doing /\ s.id = task[h].id
          BY <3>1, SectionIs DEF Goals
        <5>. HIDE DEF s
        <5>. QED BY <5>1, <5>2 DEF Doing
      <4>2. CASE row[task[h].id].of \notin Emails
        <5>1. Enter(h, Section("sent", AnyMessage, task[h].id))
          BY <2>3, <4>2, FindSees DEF Find
        <5>2. task'[h] = Section("sent", AnyMessage, task[h].id)
          BY <1>1, <5>1, Becomes DEF Enter, Calm
        <5>3. Section("sent", AnyMessage, task[h].id).id = task[h].id
          <6>1. "sent" \in Goals /\ AnyMessage \in Messages \cup {AnyMessage}
            BY DEF Goals
          <6>. QED BY ONLY <3>1, <6>1, SectionIs
        <5>. QED BY ONLY <5>2, <5>3
      <4>. QED BY <4>1, <4>2
    <3>. QED BY <1>9, <3>1, <3>2 DEF Seeks, Seeking
  <2>4. ASSUME Mark(h) PROVE FALSE
    <3>1. task[h] \in Doing /\ task[h].goal \in {"sent", "failed"}
      BY <2>4, MarkWrites, AtWork
    <3>2. task'[h].goal = task[h].goal /\ task'[h].phase = "landing"
      BY <1>1, <2>4, <3>1, MarkWrites, Writes DEF Calm
    <3>. QED BY <1>9, <3>1, <3>2 DEF Seeks, Seeking
  <2>5. ASSUME MarkLanded(h) PROVE FALSE
    <3>1. task[h].phase = "landing" /\ task[h].goal \in {"sent", "failed"} /\ task[h] \in Doing
      BY <1>1, <2>5, Working DEF MarkLanded, Landed, Calm
    <3>2. task'[h] = Idle \/ task'[h] = [task[h] EXCEPT !.writes = 2, !.copy = memory["worker"]]
      BY <1>1, <2>5 DEF MarkLanded, End, Calm, Typed, Tasks
    <3>. QED BY <1>9, <3>1, <3>2 DEF Seeks, Seeking, Doing
  <2>. QED BY <2>1, <2>2, <2>3, <2>4, <2>5
<1>10. ASSUME NEW n \in Ids, job'[n].state = "waiting" PROVE job[n].state = "waiting"
  <2>1. ASSUME NEW i \in Ids, Take(h, i) PROVE job[n].state = "waiting"
    BY <1>10, <2>1 DEF Take, Calm, Typed, Jobs
  <2>2. ASSUME Access(h) \/ Find(h) PROVE job[n].state = "waiting"
    BY <1>10, <2>2 DEF Access, load, loadFails, rewrite, Find
  <2>3. ASSUME Mark(h) PROVE job[n].state = "waiting"
    BY <1>10, <2>3, MarkWrites
  <2>4. ASSUME MarkLanded(h) PROVE job[n].state = "waiting"
    BY <1>10, <2>4 DEF MarkLanded, NoJob, Calm, Typed, Jobs
  <2>. QED BY <2>1, <2>2, <2>3, <2>4
<1>11. Waiting(m)' => Waiting(m)
  <2>1. \A n \in Known(row') : n \in Ids
    BY DEF Known
  <2>2. ASSUME NEW n \in Known(row'), NEW k \in WorkerSlots, Seeks(k, n)'
        PROVE  job[n].state = "waiting" \/ \E j \in WorkerSlots : Seeks(j, n)
    BY <1>8, <1>9, <2>2
  <2>. QED BY <1>5, <1>10, <2>1, <2>2, WaitingStays
<1>. QED BY <1>2, <1>6, <1>7, <1>11, NoNewWay DEF Calm

\* Sending uses up the job's way: no other slot runs it, and it waits no more.
LEMMA SendSpends ==
    ASSUME Calm, Typed', Sound', Quiet', NEW h \in WorkerSlots, NEW m \in Messages,
           sent[m] + Ways(m) <= 1 + restarts, Send(h)
    PROVE  sent'[m] + Ways(m)' <= 1 + restarts'
<1>1. h \in Handlers /\ h \notin ApiHandlers /\ WorkerSlots \subseteq Handlers
      /\ ApiHandlers \subseteq Handlers
  BY WhereIs DEF Handlers
<1>2. /\ task[h] \in Doing /\ task[h] # Idle /\ task[h].id \in Known(row) /\ task[h].id \in Ids
      /\ task[h].phase = "sending" /\ row[task[h].id].of = task[h].of /\ task[h].of \in Messages
  BY AtWork DEF Send, Known, DispatchSound, WorkerTask
<1>3. UNCHANGED <<row, job, requeue, asked, restarts>>
  BY DEF Send, bounds
<1>4. PICK accepted \in BOOLEAN, goal \in {"sent", "failed"} :
         /\ sent' = IF accepted THEN [sent EXCEPT ![task[h].of] = @ + 1] ELSE sent
         /\ Enter(h, Section(goal, task[h].of, task[h].id))
  BY DEF Send
<1>5. /\ task'[h] = Section(goal, task[h].of, task[h].id)
      /\ \A k \in Handlers \ {h} : task'[k] = task[k]
  BY <1>1, <1>4, Becomes DEF Enter, Calm
<1>6. task'[h].goal = goal /\ task'[h].phase = "reading"
  BY <1>2, <1>5, SectionIs DEF Goals
<1>7. \A n : ~Seeks(h, n)'
  BY <1>6 DEF Seeks, Seeking
<1>8. Kin(row, row')
  BY <1>3, SameRow
<1>9. Again(m)' => Again(m)
  BY <1>3, <1>8, AgainStays
<1>10. Coming(m)' => Coming(m)
  BY <1>1, <1>3, <1>5, <1>8, ComingWaits
<1>11. ASSUME NEW k \in WorkerSlots, NEW n, Seeks(k, n)' PROVE k # h /\ Seeks(k, n)
  <2>1. k # h
    BY <1>7, <1>11
  <2>2. task'[k] = task[k]
    BY <1>1, <1>5, <2>1
  <2>. QED BY <1>11, <2>1, <2>2 DEF Seeks, Seeking
<1>12. CASE task[h].of = m
  <2>1. Waiting(m)
    BY <1>2, <1>12, WaitingIs DEF Seeks, Seeking
  <2>2. ASSUME NEW n \in Known(row'), row'[n].of = m,
               job'[n].state = "waiting" \/ \E k \in WorkerSlots : Seeks(k, n)'
        PROVE  FALSE
    <3>1. n = task[h].id
      BY <1>2, <1>3, <1>12, <2>2 DEF Calm, RowSound
    <3>2. job[n].state = "active"
      BY <1>2, <3>1 DEF Calm, Typed, Jobs
    <3>3. PICK k \in WorkerSlots : Seeks(k, n)'
      BY <1>3, <2>2, <3>2
    <3>4. k # h /\ task[k] # Idle /\ task[k].id = n
      BY <1>11, <3>3 DEF Seeks
    <3>. QED BY <1>2, <3>1, <3>4 DEF Calm, Typed, Jobs
  <2>3. ~Waiting(m)'
    BY <2>2, WaitingNext
  <2>4. sent'[m] <= sent[m] + 1
    BY <1>2, <1>4, <1>12 DEF Calm, Typed
  <2>. QED BY <1>3, <1>9, <1>10, <2>1, <2>3, <2>4, OtherWay DEF Calm
<1>13. CASE task[h].of # m
  <2>1. sent'[m] = sent[m]
    BY <1>2, <1>4, <1>13 DEF Calm, Typed
  <2>2. Waiting(m)' => Waiting(m)
    BY <1>3, <1>8, <1>11, WaitingStays
  <2>. QED BY <1>3, <1>9, <1>10, <2>1, <2>2, NoNewWay DEF Calm
<1>. QED BY <1>12, <1>13

LEMMA RequeueSpends ==
    ASSUME Calm, Typed', Sound', Quiet', NEW i \in Ids, Requeue(i), NEW m \in Messages,
           sent[m] + Ways(m) <= 1 + restarts
    PROVE  sent'[m] + Ways(m)' <= 1 + restarts'
<1>1. /\ i \in requeue /\ requeue' = requeue \ {i} /\ job' = Added(i)
      /\ UNCHANGED <<row, task, asked, sent, restarts>>
  BY DEF Requeue, bounds
<1>2. i \in Known(row) /\ requeue \subseteq Known(row)
  BY <1>1 DEF Calm, JobsSound
<1>3. Kin(row, row')
  BY <1>1, SameRow
<1>4. Coming(m)' => Coming(m)
  BY <1>1, <1>3, ComingWaits
<1>5. CASE row[i].of = m
  <2>1. Again(m)
    BY <1>1, <1>5 DEF Again
  <2>2. ~Again(m)'
    BY <1>1, <1>2, <1>5 DEF Again, Calm, RowSound
  <2>. QED BY <1>1, <1>4, <2>1, <2>2, OtherWay DEF Calm
<1>6. CASE row[i].of # m
  <2>1. Again(m)' => Again(m)
    BY <1>1, <1>3, AgainStays
  <2>2. \A n \in Known(row') : row'[n].of = m => job'[n] = job[n]
    BY <1>1, <1>6, AddedIs DEF Calm, Known
  <2>3. ASSUME NEW n \in Known(row'), NEW k \in WorkerSlots, Seeks(k, n)'
        PROVE  \E j \in WorkerSlots : Seeks(j, n)
    BY <1>1, <2>3, SameSeekers
  <2>4. Waiting(m)' => Waiting(m)
    BY <1>3, <2>2, <2>3, WaitingStays
  <2>. QED BY <1>1, <1>4, <2>1, <2>4, NoNewWay DEF Calm
<1>. QED BY <1>5, <1>6

LEMMA RestartSpends ==
    ASSUME Calm, Typed', Sound', Quiet', RestartApi \/ RestartWorker, NEW m \in Messages,
           sent[m] + Ways(m) <= 1 + restarts
    PROVE  sent'[m] + Ways(m)' <= 1 + restarts'
<1>1. UNCHANGED <<row, asked, sent>> /\ restarts' = restarts + 1
  BY DEF RestartApi, RestartWorker
<1>2. Kin(row, row')
  BY <1>1, SameRow
<1>3. WorkerSlots \subseteq Handlers /\ ApiHandlers \subseteq Handlers
      /\ ApiHandlers \cap WorkerSlots = {}
  BY HandlersAssumption DEF Handlers
<1>4. CASE RestartApi
  <2>1. \A k \in WorkerSlots : task'[k] = task[k]
    BY <1>3, <1>4 DEF RestartApi
  <2>2. \A k \in ApiHandlers : task'[k].phase = "idle"
    BY <1>3, <1>4, IdleIsNot DEF RestartApi
  <2>3. Coming(m)' => Coming(m)
    <3>1. \A k \in ApiHandlers : ~CreatesFor(k, m)' /\ ~QueuesFor(k, m)'
      BY <2>2 DEF CreatesFor, QueuesFor
    <3>. QED BY <1>1, <3>1, ComingIs, ComingNext
  <2>4. ASSUME NEW n \in Known(row'), NEW k \in WorkerSlots, Seeks(k, n)'
        PROVE  \E j \in WorkerSlots : Seeks(j, n)
    BY <2>1, <2>4, SameSeekers
  <2>5. Waiting(m)' => Waiting(m)
    BY <1>2, <1>4, <2>4, WaitingStays DEF RestartApi
  <2>. QED BY <1>1, <2>3, <2>5, OneMoreWay DEF Calm
<1>5. CASE RestartWorker
  <2>1. \A k \in ApiHandlers : task'[k] = task[k]
    BY <1>3, <1>5 DEF RestartWorker
  <2>2. Coming(m)' => Coming(m)
    BY <1>1, <1>2, <2>1, ComingWaits
  <2>3. Again(m)' => Again(m)
    BY <1>2, <1>5, AgainStays DEF RestartWorker
  <2>. QED BY <1>1, <2>2, <2>3, OneMoreWay DEF Calm
<1>. QED BY <1>4, <1>5

LEMMA SpentStep == Typed /\ Clean /\ Spent /\ [Next]_vars => Spent'
<1>. SUFFICES ASSUME Typed, Clean, Spent, [Next]_vars, Quiet', NEW m \in Messages
              PROVE  sent'[m] + Ways(m)' <= 1 + restarts'
  BY DEF Spent
<1>1. CASE UNCHANGED vars
  <2>1. UNCHANGED <<row, job, task, requeue, asked, sent, restarts, mixed, faults>>
    BY <1>1 DEF vars
  <2>2. sent[m] + Ways(m) <= 1 + restarts
    BY <2>1 DEF Spent, Quiet
  <2>3. Ways(m)' = Ways(m)
    BY <2>1 DEF Ways, Coming, Waiting, Again, Seeking
  <2>. QED BY <2>1, <2>2, <2>3
<1>2. CASE Next
  <2>1. Calm /\ Sound' /\ Typed'
    BY <1>2, CleanStep, TypedStep
  <2>2. sent[m] + Ways(m) <= 1 + restarts
    BY <2>1 DEF Spent, Calm
  <2>3. ASSUME NEW h \in ApiHandlers,
               (\E x \in Messages : createNotification(h, x)) \/ recordEvent(h) \/ ApiSteps(h)
        PROVE  sent'[m] + Ways(m)' <= 1 + restarts'
    BY <2>1, <2>2, <2>3, ApiSpends, QueueSpends DEF ApiSteps
  <2>4. ASSUME NEW h \in WorkerSlots, WorkerSteps(h) PROVE sent'[m] + Ways(m)' <= 1 + restarts'
    BY <2>1, <2>2, <2>4, WorkerSpends, SendSpends DEF WorkerSteps
  <2>5. ASSUME NEW n \in Ids, Requeue(n) PROVE sent'[m] + Ways(m)' <= 1 + restarts'
    BY <2>1, <2>2, <2>5, RequeueSpends
  <2>6. ~RestartApiBlind
    <3>1. RestartApiBlind => faults' = faults + 1 /\ faults \in Nat
      BY DEF RestartApiBlind, Typed
    <3>2. faults' = faults
      BY <1>2, QuietBefore
    <3>. QED BY <3>1, <3>2
  <2>7. CASE RestartApi \/ RestartWorker
    BY <2>1, <2>2, <2>7, RestartSpends
  <2>. QED BY <1>2, <2>3, <2>4, <2>5, <2>6, <2>7 DEF Next
<1>. QED BY <1>1, <1>2

\* ... and the provider accepts each message at most once, and once more for each restart
\* of either process (processNotificationDispatch, enqueuePendingNotifications).
THEOREM SentAtMostOnce == Spec => []SentOnce
<1>1. Init => Typed /\ Clean /\ Spent
  <2>. SUFFICES ASSUME Init, NEW m \in Messages PROVE sent[m] + Ways(m) <= 1 + restarts
    BY TypedInit, CleanInit DEF Spent
  <2>1. Known(row) = {} /\ requeue = {} /\ sent[m] = 0 /\ restarts = 0
    BY DEF Init, Known, Empty
  <2>2. ~Waiting(m) /\ ~Again(m)
    BY <2>1 DEF Waiting, Again
  <2>. QED BY <2>1, <2>2 DEF Ways, Once
<1>2. Typed /\ Clean /\ Spent /\ [Next]_vars => (Typed /\ Clean /\ Spent)'
  BY TypedStep, CleanAlways, SpentStep
<1>3. Typed /\ Clean /\ Spent => SentOnce
  <2>. SUFFICES ASSUME Typed, Spent, Quiet, NEW m \in Messages PROVE sent[m] <= 1 + restarts
    BY DEF SentOnce, Quiet
  <2>1. sent[m] + Ways(m) <= 1 + restarts /\ sent[m] \in Nat /\ restarts \in Nat
    BY DEF Typed, Spent
  <2>. QED BY <2>1 DEF Ways, Once
<1>. QED BY <1>1, <1>2, <1>3, PTL DEF Spec
=============================================================================
