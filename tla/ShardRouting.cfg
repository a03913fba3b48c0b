\* Four tickers of which three are simulated, two shards, two imports.
SPECIFICATION RoutingSpec
CONSTANTS
    Tickers = {a, b, c, d}
    Fallback = a
    ShardCount = 2
    Limit = 3
    RowCount = 4
    MaxImports = 2
INVARIANTS ServedAfterRestart OneBookWhileAgreed
