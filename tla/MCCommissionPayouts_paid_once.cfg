CONSTANTS
    o1 = o1
    o2 = o2
    month = month
    Orders = {o1, o2}
    Vendors = {a, b}
    NoVendor = NoVendor
    NoPayout = NoPayout
    NoCommission = NoCommission
    NoWrite = NoWrite
    NoJob = NoJob
    FailedJob = FailedJob
    Periods = {month}
    PeriodOf <- MCPeriodOf
    Totals <- MCTotals
    Rates = {1}
    FirstRate = 1
    Adjustments <- MCAdjustments
    UseQueue = FALSE
    MaxUpdates = 2
    MaxMoves = 1
    MaxRestarts = 0
SPECIFICATION Spec
INVARIANT PaidOnce
SYMMETRY OrderSymmetry
