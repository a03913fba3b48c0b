\* Two traders, one event id that both sources use, two orders per reaction, four ticks.
SPECIFICATION FairSpec
CONSTANTS
    Traders = {u1, u2}
    Live = {e1, e2}
    Fixture = {e2}
    Starts = {1}
    Delays = {0}
    Counts = {2}
    Intervals = {1}
    MayRaise = TRUE
    MaxLag = 0
    LastEventTick = 2
    MaxTick = 4
    MaxElapsed = 3
INVARIANTS EveryOrderAccounted CompletedSendsNothing
PROPERTIES SentOnce EventCompletes
CHECK_DEADLOCK FALSE
