\* Three orders, two prices and quantities, a clock of two with expiry after one, compaction at every dead entry.
SPECIFICATION Spec
CONSTANTS
    MaxOrders = 3
    Prices = {1, 2}
    Quantities = {1, 2}
    MaxAge = 1
    MaxClock = 2
    RecentTradeCapacity = 1
    CompactMinDead = 0
INVARIANTS LazyDeletionExact AnswersLikeReference
PROPERTIES ImplementsReference CallReturns
