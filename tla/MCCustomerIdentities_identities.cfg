CONSTANTS
    a = a
    b = b
    o1 = o1
    o2 = o2
    d1 = d1
    p1 = p1
    Ids = {a, b, c}
    Orders = {o1, o2}
    Clues = {d1, p1}
    KindOf <- MCKindOf
    OrderClues <- MCOrderClues
    Registered <- MCRegistered
    Calls = {k1, k2}
    None = None
    MaxEdits = 1
    MaxRestarts = 1
SPECIFICATION Spec
INVARIANT MergedEndActive
INVARIANT LinksResolve
INVARIANT ConflictsListed
INVARIANT DecisionKept
SYMMETRY CallSymmetry
CHECK_DEADLOCK FALSE
CONSTRAINT Explored
