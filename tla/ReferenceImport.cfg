\* Two importers of two dates; one of three tickers is selected, so that a DELETE waits for
\* a row the other import deletes while that one inserts another.
SPECIFICATION FairImportSpec
CONSTANTS
    Importers = {p1, p2}
    Tickers = {1, 2, 3}
    Values = {0, 1}
    TopCount = 1
    Yesterday = 2
    LookbackDays = 2
    MaxAttempts = 2
    Requests = {0, 1}
INVARIANTS NewestDay WholeDates
PROPERTIES OnlySuccessWrites RunEnds
CHECK_DEADLOCK FALSE
