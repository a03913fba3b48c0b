\* One slot (HTTP_CONCURRENCY=1), a participant with up to two intents, one failing request.
SPECIFICATION FairSpec
CONSTANTS
    HttpConcurrency = 1
    Jobs = {j1, j2}
    Count = 1
    MaxIntents = 2
    MaxOrders = 2
    MaxSessions = 1
    MaxFaults = 1
    IdleMayTimeOut = TRUE
PROPERTIES StopEnds ListedGoes
CHECK_DEADLOCK FALSE
