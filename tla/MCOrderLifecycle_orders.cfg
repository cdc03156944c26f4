CONSTANTS
    Orders = {o1}
    Warehouses = {w1, w2}
    DefaultWarehouse = w1
    NoWarehouse = NoWarehouse
    Capacity <- MCCapacity
    Handlers = {h1, h2}
    MaxRestarts = 1
SPECIFICATION Spec
INVARIANT TypeOK
INVARIANT SoldIsPaid
 
 
INVARIANT ApprovedSaleSettles
PROPERTY PaymentIsFinal
PROPERTY PointsFollowPayment
SYMMETRY Symmetry
VIEW Memory
