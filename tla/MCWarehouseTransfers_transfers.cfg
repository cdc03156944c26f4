CONSTANTS
    o1 = o1
    w1 = w1
    w2 = w2
    v1 = v1
    v2 = v2
    Numbers = 2
    Warehouses = {w1, w2}
    Variants = {v1, v2}
    Asks <- MCAsks
    Receipts <- MCReceipts
    InitialStock <- MCInitialStock
    Orders = {o1}
    OrderKey <- MCOrderKey
    Calls = {c1, c2}
    Overlap = FALSE
    MaxReceived = 2
    MaxRestarts = 1
SPECIFICATION Spec
INVARIANT ReservedAccounted
INVARIANT StockAccounted
INVARIANT NoDoubleUse
INVARIANT OwnReservationThere
SYMMETRY CallSymmetry
CONSTRAINT OneStepAfterRestart
