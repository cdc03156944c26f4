CONSTANTS
    o1 = o1
    o2 = o2
    month = month
    Orders = {o1, o2}
    Vendors = {a}
    NoVendor = NoVendor
    NoPayout = NoPayout
    NoCommission = NoCommission
    NoWrite = NoWrite
    NoJob = NoJob
    FailedJob = FailedJob
    Periods = {month}
    PeriodOf <- MCPeriodOf
    Totals <- MCTotals
    Rates = {1, 2}
    FirstRate = 1
    Adjustments <- MCAdjustments
    UseQueue = TRUE
    MaxUpdates = 2
    MaxMoves = 1
    MaxRestarts = 2
SPECIFICATION Spec
INVARIANT TypeOK
INVARIANT SyncIsStable
INVARIANT PaidIsNotDue
INVARIANT PaidOnceUnmoved
SYMMETRY OrderSymmetry
CONSTRAINT TwoDisturbances
