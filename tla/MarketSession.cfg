SPECIFICATION SessionSpec
CONSTANTS
    Start <- MCStart
    Interval = 45
    Lateness = {0, 1, 100}
    Until = 21600
INVARIANTS SleepsToOpening EachDayOnce
CHECK_DEADLOCK FALSE
