SPECIFICATION TraderSpec
CONSTANTS
    Reference = 5
    Steps = {1, 2, 7}
    Offsets = {0, 1, 2}
    IntervalTicks = {1, 2, 3}
    Seeds <- MCSeeds
    Prices = {1, 2, 4, 5, 6, 9}
    MaxTick = 6
INVARIANTS QuotesSound RolesKept
PROPERTY DueEachInterval
CHECK_DEADLOCK FALSE
