------------------------ MODULE NotificationDelivery ------------------------
(***************************************************************************)
(* NotificationsService in two processes, the queue between them and the   *)
(* worker that sends, at the granularity of their awaits.                  *)
(*                                                                         *)
(* API and worker each keep every notification in memory and share one row *)
(* of module_snapshots.  A handler reloads the whole row over its memory   *)
(* (refreshState), changes one record and writes the whole memory back     *)
(* (persistState); nothing keeps two of these sections apart.  A queued    *)
(* notification is a BullMQ job whose id is the notification's id.         *)
(*                                                                         *)
(* Each message is the subject of one request.  Logs are left out: they    *)
(* travel with the notifications in every read and write.                  *)
(***************************************************************************)
EXTENDS Integers, FiniteSetsExt

CONSTANTS
    Messages,       \* what is asked to be sent, each once
    Emails,         \* those on the email channel, to an address: the others are internal,
                    \* or addressed to a customer's name, as LoyaltyService does
    MaxId,          \* notification ids 1 .. MaxId, ntf-001 onwards
    ApiHandlers,    \* requests of the API in flight
    WorkerSlots,    \* jobs the worker runs at once (WORKER_CONCURRENCY)
    MaxEvents,      \* bound on the events other modules record
    MaxRestarts,    \* bound on the restarts of either process
    MaxFaults       \* bound on the reads and writes that PostgreSQL or Redis refuse

ASSUME MessagesAssumption == Emails \subseteq Messages
ASSUME HandlersAssumption == ApiHandlers \cap WorkerSlots = {}
ASSUME NotificationBoundsAssumption ==
    /\ MaxId \in Nat \ {0}
    /\ MaxEvents \in Nat
    /\ MaxRestarts \in Nat
    /\ MaxFaults \in Nat

VARIABLES
    memory,         \* NotificationsService.notifications, in each process
    row,            \* the snapshot of the module
    job,            \* the notifications queue
    task,           \* the handlers in flight
    requeue,        \* what enqueuePendingNotifications has still to add
    asked,          \* the messages asked so far
    kept,           \* history: the messages whose record has been written
    sent,           \* history: how often the provider has accepted each message
    mixed,          \* history: have two sections overlapped?
    events, restarts, faults

vars == <<memory, row, job, task, requeue, asked, kept, sent, mixed, events, restarts, faults>>
bounds == <<events, restarts, faults>>

Ids == 1 .. MaxId
Processes == {"api", "worker"}
Handlers == ApiHandlers \cup WorkerSlots
ProcessOf(h) == IF h \in ApiHandlers THEN "api" ELSE "worker"

None == [status |-> "none"]
Statuses == {"pending", "sent", "delivered", "failed"}
Notification == [status : Statuses, of : Messages]
Snapshot == [Ids -> {None} \cup Notification]
Empty == [n \in Ids |-> None]

Attempts == 3
NoJob == [state |-> "none", tries |-> 0]

Idle == [phase |-> "idle"]

Init ==
    /\ memory = [p \in Processes |-> Empty]
    /\ row = Empty
    /\ job = [n \in Ids |-> NoJob]
    /\ task = [h \in Handlers |-> Idle]
    /\ requeue = {}
    /\ asked = {}
    /\ kept = {}
    /\ sent = [m \in Messages |-> 0]
    /\ mixed = FALSE
    /\ events = 0 /\ restarts = 0 /\ faults = 0

----------------------------------------------------------------------------
\* A section: from the read of refreshState to the last write it leads to.
Sections == {h \in Handlers : task[h].phase \in {"reading", "rewriting", "read", "landing"}}

\* What a section is for: "create" and "event" in the API; in the worker "find", and
\* "sent" or "failed", which write twice.
Section(goal, m, n) ==
    [phase |-> "reading", goal |-> goal, of |-> m, id |-> n, copy |-> Empty, fresh |-> FALSE,
     writes |-> 1]

\* The worker's lookup only reads: it can run beside a section of the API, whose
\* memory it does not touch.
Apart(h, goal, k) == ProcessOf(h) # ProcessOf(k) /\ "find" \in {goal, task[k].goal}

Enter(h, section) ==
    /\ task' = [task EXCEPT ![h] = section]
    /\ mixed' = (mixed \/ \E k \in Sections \ {h} : ~Apart(h, section.goal, k))
End(h) == task' = [task EXCEPT ![h] = Idle]

AnyMessage == CHOOSE m \in Messages : TRUE

createNotification(h, m) ==
    /\ task[h] = Idle
    /\ m \notin asked
    /\ asked' = asked \cup {m}
    /\ Enter(h, Section("create", m, 1))
    /\ UNCHANGED <<memory, row, job, requeue, kept, sent, bounds>>

\* recordEvent, called by the other modules of the API.
recordEvent(h) ==
    /\ task[h] = Idle
    /\ events < MaxEvents
    /\ events' = events + 1
    /\ Enter(h, Section("event", AnyMessage, 1))
    /\ UNCHANGED <<memory, row, job, requeue, asked, kept, sent, restarts, faults>>

----------------------------------------------------------------------------
\* ModuleStateService.  A read that fails answers null, and the process then writes
\* its own memory over the row; a write that fails is only logged.

load(h) ==
    /\ task[h].phase = "reading"
    /\ task' = [task EXCEPT ![h].phase = "read", ![h].copy = row, ![h].fresh = TRUE]
    /\ UNCHANGED <<memory, row, job, requeue, asked, kept, sent, mixed, bounds>>

loadFails(h) ==
    /\ task[h].phase = "reading"
    /\ faults < MaxFaults
    /\ faults' = faults + 1
    /\ task' = [task EXCEPT ![h].phase = "rewriting", ![h].copy = memory[ProcessOf(h)]]
    /\ UNCHANGED <<memory, row, job, requeue, asked, kept, sent, mixed, events, restarts>>

rewrite(h) ==
    /\ task[h].phase = "rewriting"
    /\ row' = task[h].copy
    /\ task' = [task EXCEPT ![h].phase = "read"]
    /\ UNCHANGED <<memory, job, requeue, asked, kept, sent, mixed, bounds>>

\* The memory a handler continues with; mutated, it is not reloaded.
RestoredStale(h) == memory[ProcessOf(h)]
Restored(h) == IF task[h].fresh THEN task[h].copy ELSE memory[ProcessOf(h)]

\* A write has landed, or was refused.
Landed(h) ==
    /\ task[h].phase = "landing"
    /\ \/ row' = task[h].copy /\ faults' = faults
       \/ row' = row /\ faults < MaxFaults /\ faults' = faults + 1

----------------------------------------------------------------------------
\* What a handler does with the memory it reloaded, up to its next await.

Known(map) == {n \in Ids : map[n] # None}

\* syncSequences; mutated, it counts the notifications instead.
NextIdByCount(map) == Cardinality({n \in Known(map) : map[n].status = "pending"}) + 1
NextId(map) == IF Known(map) = {} THEN 1 ELSE Max(Known(map)) + 1

Write(h, map, n) ==
    /\ memory' = [memory EXCEPT ![ProcessOf(h)] = map]
    /\ task' = [task EXCEPT ![h].phase = "landing", ![h].copy = map, ![h].id = n]

\* A notification is born with the status the request gives: POST admin/notifications may
\* give any, LoyaltyService gives sent, the others none, which is pending. It is queued, and
\* an email delivered, all the same.
Create(h) ==
    LET map == Restored(h)
        n == NextId(map)
    IN  /\ task[h].phase = "read"
        /\ task[h].goal = "create"
        /\ n \in Ids
        /\ \E status \in Statuses :
              Write(h, [map EXCEPT ![n] = [status |-> status, of |-> task[h].of]], n)
        /\ UNCHANGED <<row, job, requeue, asked, kept, sent, mixed, bounds>>

Event(h) ==
    /\ task[h].phase = "read"
    /\ task[h].goal = "event"
    /\ Write(h, Restored(h), task[h].id)
    /\ UNCHANGED <<row, job, requeue, asked, kept, sent, mixed, bounds>>

\* BullMqService.enqueue: a job with the same id, waiting, active or failed, makes
\* add do nothing.
Added(n) == [job EXCEPT ![n] = IF @.state = "none" THEN [state |-> "waiting", tries |-> 0] ELSE @]

\* The creation is queued and then recorded as an event.  An enqueue that Redis
\* refuses is only logged.
CreateLanded(h) ==
    /\ Landed(h)
    /\ task[h].goal = "create"
    /\ kept' = IF faults' = faults THEN kept \cup {task[h].of} ELSE kept
    /\ task' = [task EXCEPT ![h].phase = "queueing"]
    /\ UNCHANGED <<memory, job, requeue, asked, sent, mixed, events, restarts>>

Queue(h) ==
    /\ task[h].phase = "queueing"
    /\ \/ job' = Added(task[h].id) /\ faults' = faults
       \/ job' = job /\ faults < MaxFaults /\ faults' = faults + 1
    /\ Enter(h, Section("event", AnyMessage, 1))
    /\ UNCHANGED <<memory, row, requeue, asked, kept, sent, events, restarts>>

EventLanded(h) ==
    /\ Landed(h)
    /\ task[h].goal = "event"
    /\ End(h)
    /\ UNCHANGED <<memory, job, requeue, asked, kept, sent, mixed, events, restarts>>

----------------------------------------------------------------------------
\* The worker: processNotificationDispatch.

Take(h, n) ==
    /\ task[h] = Idle
    /\ job[n].state = "waiting"
    /\ job' = [job EXCEPT ![n].state = "active"]
    /\ Enter(h, Section("find", AnyMessage, n))
    /\ UNCHANGED <<memory, row, requeue, asked, kept, sent, bounds>>

\* findByIdFresh.  Only an email is really sent; everything else goes on to be
\* marked sent, and a record that is gone fails there.
Find(h) ==
    LET map == Restored(h)
        x == map[task[h].id]
    IN  /\ task[h].phase = "read"
        /\ task[h].goal = "find"
        /\ memory' = [memory EXCEPT !["worker"] = map]
        /\ IF x # None /\ x.of \in Emails
           THEN /\ task' = [task EXCEPT ![h] = [Section("sent", x.of, @.id) EXCEPT !.phase = "sending"]]
                /\ mixed' = mixed
           ELSE Enter(h, Section("sent", AnyMessage, task[h].id))
        /\ UNCHANGED <<row, job, requeue, asked, kept, sent, bounds>>

\* sendEmailViaResend: accepted, refused, or accepted with the answer lost.  Mutated,
\* a refusal is taken for an acceptance.
SendUnchecked(h) ==
    /\ task[h].phase = "sending"
    /\ \E accepted \in BOOLEAN :
         /\ sent' = IF accepted THEN [sent EXCEPT ![task[h].of] = @ + 1] ELSE sent
         /\ Enter(h, Section("sent", task[h].of, task[h].id))
    /\ UNCHANGED <<memory, row, job, requeue, asked, kept, bounds>>

Send(h) ==
    /\ task[h].phase = "sending"
    /\ \E accepted \in BOOLEAN, goal \in {"sent", "failed"} :
         /\ goal = "sent" => accepted
         /\ sent' = IF accepted THEN [sent EXCEPT ![task[h].of] = @ + 1] ELSE sent
         /\ Enter(h, Section(goal, task[h].of, task[h].id))
    /\ UNCHANGED <<memory, row, job, requeue, asked, kept, bounds>>

\* An attempt that failed, the third being the last.
Tried(x) == [state |-> IF x.tries + 1 = Attempts THEN "failed" ELSE "waiting", tries |-> x.tries + 1]

\* markNotificationSent and markNotificationFailed write twice.  The record may be
\* gone: the attempt fails.
Mark(h) ==
    LET map == Restored(h)
        n == task[h].id
    IN  /\ task[h].phase = "read"
        /\ task[h].goal \in {"sent", "failed"}
        /\ IF map[n] = None
           THEN /\ job' = [job EXCEPT ![n] = Tried(@)]
                /\ memory' = [memory EXCEPT !["worker"] = map]
                /\ End(h)
           ELSE /\ job' = job
                /\ Write(h, [map EXCEPT ![n].status = task[h].goal], n)
        /\ UNCHANGED <<row, requeue, asked, kept, sent, mixed, bounds>>

\* removeOnComplete.  Mutated, the job is left to be taken again.
MarkLandedTwice(h) ==
    /\ Landed(h)
    /\ task[h].goal \in {"sent", "failed"}
    /\ job' = [job EXCEPT ![task[h].id].state = "waiting"]
    /\ End(h)
    /\ UNCHANGED <<memory, requeue, asked, kept, sent, mixed, events, restarts>>

MarkLanded(h) ==
    /\ Landed(h)
    /\ task[h].goal \in {"sent", "failed"}
    /\ IF task[h].writes = 1
       THEN /\ task' = [task EXCEPT ![h].writes = 2, ![h].copy = memory["worker"]]
            /\ job' = job
       ELSE /\ job' = [job EXCEPT ![task[h].id] = NoJob]
            /\ End(h)
    /\ UNCHANGED <<memory, requeue, asked, kept, sent, mixed, events, restarts>>

----------------------------------------------------------------------------
\* Restarts.  The API reads the row and then queues what is pending in it, one by
\* one; the worker does not, and BullMQ gives back the jobs it was running.

Pending(map) == {n \in Known(map) : map[n].status = "pending"}

RestartApi ==
    /\ restarts < MaxRestarts
    /\ restarts' = restarts + 1
    /\ memory' = [memory EXCEPT !["api"] = row]
    /\ requeue' = Pending(row)
    /\ task' = [h \in Handlers |-> IF h \in ApiHandlers THEN Idle ELSE task[h]]
    /\ UNCHANGED <<row, job, asked, kept, sent, mixed, events, faults>>

\* The read at start fails: the empty memory is written over the row.
RestartApiBlind ==
    /\ restarts < MaxRestarts
    /\ faults < MaxFaults
    /\ restarts' = restarts + 1
    /\ faults' = faults + 1
    /\ memory' = [memory EXCEPT !["api"] = Empty]
    /\ row' = Empty
    /\ requeue' = {}
    /\ task' = [h \in Handlers |-> IF h \in ApiHandlers THEN Idle ELSE task[h]]
    /\ UNCHANGED <<job, asked, kept, sent, mixed, events>>

Requeue(n) ==
    /\ n \in requeue
    /\ requeue' = requeue \ {n}
    /\ job' = Added(n)
    /\ UNCHANGED <<memory, row, task, asked, kept, sent, mixed, bounds>>

RestartWorker ==
    /\ restarts < MaxRestarts
    /\ restarts' = restarts + 1
    /\ memory' = [memory EXCEPT !["worker"] = row]
    /\ job' = [n \in Ids |-> IF job[n].state = "active" THEN [job[n] EXCEPT !.state = "waiting"]
                             ELSE job[n]]
    /\ task' = [h \in Handlers |-> IF h \in WorkerSlots THEN Idle ELSE task[h]]
    /\ UNCHANGED <<row, requeue, asked, kept, sent, mixed, events, faults>>

----------------------------------------------------------------------------
Access(h) == load(h) \/ loadFails(h) \/ rewrite(h)

ApiSteps(h) == Access(h) \/ Create(h) \/ Event(h) \/ CreateLanded(h) \/ Queue(h) \/ EventLanded(h)

WorkerSteps(h) ==
    \/ \E n \in Ids : Take(h, n)
    \/ Access(h)
    \/ Find(h)
    \/ Send(h)
    \/ Mark(h)
    \/ MarkLanded(h)

Next ==
    \/ \E h \in ApiHandlers :
         \/ \E m \in Messages : createNotification(h, m)
         \/ recordEvent(h)
         \/ ApiSteps(h)
    \/ \E h \in WorkerSlots : WorkerSteps(h)
    \/ \E n \in Ids : Requeue(n)
    \/ RestartApi
    \/ RestartApiBlind
    \/ RestartWorker

Spec == Init /\ [][Next]_vars

\* A handler goes on when what it awaits answers, the worker takes what is queued,
\* and the start of the API goes through its list.
FairSpec ==
    /\ Spec
    /\ \A h \in ApiHandlers : WF_vars(ApiSteps(h))
    /\ \A h \in WorkerSlots : WF_vars(WorkerSteps(h))
    /\ \A n \in Ids : WF_vars(Requeue(n))

----------------------------------------------------------------------------
TypeOK ==
    /\ memory \in [Processes -> Snapshot]
    /\ row \in Snapshot
    /\ job \in [Ids -> [state : {"none", "waiting", "active", "failed"}, tries : 0 .. Attempts]]
    /\ \A h \in Handlers : task[h] # Idle => task[h].copy \in Snapshot /\ task[h].id \in Ids
    /\ requeue \subseteq Ids
    /\ asked \subseteq Messages
    /\ kept \subseteq Messages
    /\ sent \in [Messages -> Nat]

Written(m) == {n \in Known(row) : row[n].of = m}

\* As long as the sections stay apart and PostgreSQL answers, no process writes its
\* memory over what the other has written: every notification that was written once
\* stays, under one id.
NoneLost == ~mixed /\ faults = 0 => \A m \in kept : Cardinality(Written(m)) = 1

\* ... no email becomes sent in the row, restarts or not, that the provider has not
\* accepted; one that was born sent says nothing, and neither does a message that is no
\* email to an address, which the worker marks sent without asking the provider.
SentWasAccepted ==
    [][~mixed' /\ faults' = 0 =>
          \A n \in Known(row) :
              /\ row[n].of \in Emails
              /\ row[n].status # "sent"
              /\ row'[n].status = "sent"
              => sent[row[n].of] > 0]_vars

\* ... and the provider is asked once, and once more for each restart that falls
\* between the sending and the marking or between reading what is pending and
\* queueing it.
SentOnce == ~mixed /\ faults = 0 => \A m \in Messages : sent[m] <= 1 + restarts

\* ... and all of them end as sent or failed, unless a restart takes the job or its
\* enqueue away.
AllSettled ==
    \A m \in Messages :
        (m \in kept) ~> (\/ \E n \in Written(m) : row[n].status # "pending"
                         \/ mixed
                         \/ faults + restarts > 0)
=============================================================================
