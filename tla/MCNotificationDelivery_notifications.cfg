CONSTANTS
    Messages = {m1, m2}
    Emails = {m1}
    MaxId = 2
    ApiHandlers = {a1}
    WorkerSlots = {k1, k2}
    MaxEvents = 1
    MaxRestarts = 1
    MaxFaults = 1
SPECIFICATION FairSpec
INVARIANT NoneLost
INVARIANT SentOnce
PROPERTY SentWasAccepted
PROPERTY AllSettled
CONSTRAINT Explored
CHECK_DEADLOCK FALSE
