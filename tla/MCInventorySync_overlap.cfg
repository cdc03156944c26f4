CONSTANTS
    o1 = o1
    o2 = o2
    w1 = w1
    w2 = w2
    v1 = v1
    v2 = v2
    Orders = {o1, o2}
    Warehouses = {w1, w2}
    Variants = {v1}
    Calls = {c1, c2}
    NoWarehouse = NoWarehouse
    Assignments = {NoWarehouse}
    Demand <- MCOneVariantDemand
    DefaultWarehouse <- MCOneVariant
    InitialStock <- MCOneVariantStock
    Overlap = TRUE
    Increases = {1}
    SetLevels = {}
    MaxStock = 2
SPECIFICATION Spec
INVARIANT TypeOK
INVARIANT NoOversell
SYMMETRY CallSymmetry
