SPECIFICATION Spec
CONSTANTS
    Users = {1, 2, 3}
    Profiles <- MCProfiles
    Symbol = s
    Starts = {0, 2500}
    TickIntervals = {300, 1000, 1500}
    Samples <- MCSamples
INVARIANTS ShareActivated NeverEarly Spaced
CHECK_DEADLOCK FALSE
