\* Two slots, two participants, two orders, one request that fails, two session changes.
SPECIFICATION Spec
CONSTANTS
    HttpConcurrency = 2
    Jobs = {j1, j2, j3}
    Count = 2
    MaxIntents = 2
    MaxOrders = 2
    MaxSessions = 2
    MaxFaults = 1
    IdleMayTimeOut = TRUE
SYMMETRY JobSymmetry
INVARIANTS SlotAccounting NothingForgotten DrainLeavesNothing BlankCancelHarmless RoundRobin
CHECK_DEADLOCK FALSE
