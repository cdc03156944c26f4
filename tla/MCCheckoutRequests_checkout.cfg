CONSTANTS
    Customers = {a, b}
    OrderNumbers <- MCNumbers
    NoNumber = 0
    RedemptionPoints = {1}
    MaxManual = 1
    MaxRedemptions = 1
    MaxDecisions = 2
    Warehouses = {w1, w2}
    DefaultWarehouse = w1
    NoWarehouse = NoWarehouse
    Stock <- MCStock
    Calls = {c1, c2}
    NoCall = NoCall
    MaxNumber = 3
    MaxIds = 2
    MaxFaults = 2
SPECIFICATION Spec
INVARIANT OneOrderPerRequest
INVARIANT UnitsOfOrders
INVARIANT PointsBooks
INVARIANT NeverShort
PROPERTY AnswerIsOwn
SYMMETRY Symmetry
CHECK_DEADLOCK FALSE
CONSTRAINT Explored
