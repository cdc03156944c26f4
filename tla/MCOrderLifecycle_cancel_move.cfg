CONSTANTS
    Orders = {o1}
    Warehouses = {w1, w2}
    DefaultWarehouse = w1
    NoWarehouse = NoWarehouse
    Capacity <- MCCapacity
    Handlers = {h1, h2}
    MaxRestarts = 0
SPECIFICATION Spec
INVARIANT CancelledHoldsNothing
SYMMETRY Symmetry
VIEW Memory
