SPECIFICATION Spec
CONSTANTS
    Conns = {c1, c2, c3}
    Tickers = {a, b, k}
    Lettered = {k}
    Unknown = z
    ShardCount = 2
SYMMETRY GatewaySymmetry
INVARIANTS InFlightExact AcceptedUntilServed ForwardedToOwner
CHECK_DEADLOCK FALSE
