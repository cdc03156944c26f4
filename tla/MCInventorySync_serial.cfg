CONSTANTS
    o1 = o1
    o2 = o2
    w1 = w1
    w2 = w2
    v1 = v1
    v2 = v2
    Orders = {o1, o2}
    Warehouses = {w1, w2}
    Variants = {v1, v2}
    Calls = {c1, c2}
    NoWarehouse = NoWarehouse
    Assignments = {NoWarehouse, w2}
    Demand <- MCDemand
    DefaultWarehouse <- MCDefaultWarehouse
    InitialStock <- MCInitialStock
    Overlap = FALSE
    Increases = {}
    SetLevels = {}
    MaxStock = 2
SPECIFICATION FairSpec
INVARIANT BooksBalanced
INVARIANT OwnUnitsThere
PROPERTY KeepsPromise
PROPERTY ReleaseEnds
