\* One runner, two threads, two events of which one cannot be applied, polls of one event, one request given up, one crash.
SPECIFICATION FairSpec
CONSTANTS
    N = 2
    Runners = {r1}
    Threads = {t1, t2}
    Limit = 1
    Clashing = {1}
    MaxFaults = 1
    MaxCrashes = 1
INVARIANTS DispatchedWasPlanned AckLastsUntilOld
PROPERTIES AckedNotPlannedAgain PendingEnds
CHECK_DEADLOCK FALSE
