\* Two request threads over two trading days.
SPECIFICATION Spec
CONSTANTS
    Threads = {t1, t2}
    Symbols = {s1}
    MaxOrders = 2
    MaxBooks = 3
    MaxDay = 3
    TradingDays = {1, 3}
    MarketMode = "scheduled"
    ExpiryOn = TRUE
    NoThread = NoThread
    NoSymbol = NoSymbol
INVARIANTS SomeoneRuns MapExact GoneStaysGone SessionsApart
