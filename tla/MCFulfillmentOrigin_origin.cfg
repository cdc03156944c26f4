CONSTANTS
    w1 = w1
    w2 = w2
    w3 = w3
    w4 = w4
    v1 = v1
    v2 = v2
    Warehouses = {w1, w2, w3, w4}
    Code <- MCCode
    Offered <- MCOffered
    Variants = {v1, v2}
    Quantity <- MCQuantity
    DefaultOf <- MCDefaultOf
    Addresses <- MCAddresses
    NoUbigeo = NoUbigeo
    Stocks <- MCStocks
    Calls = {c1, c2}
    NoWarehouse = NoWarehouse
    MaxChanges = 1
SPECIFICATION Spec
 
PROPERTY BestOrigin
PROPERTY AssignmentKept
SYMMETRY CallSymmetry
CONSTRAINT Explored
VIEW Unshown
