---------------------------- MODULE ShardRouting ----------------------------
(***************************************************************************)
(* The processes that agree, or not, on the owner of a symbol: the matcher *)
(* shards, which load the universe when they start and keep it             *)
(* (simulation.py); the gateway, which loads it once from the symbols API  *)
(* of shard 0 (universe.py, routing.py); and the runners, which take the   *)
(* traders of one shard each (profiles.py).  An import replaces the        *)
(* reference data behind their backs.                                      *)
(*                                                                         *)
(* A version is the number of the import whose data a universe was loaded  *)
(* from.                                                                   *)
(***************************************************************************)
EXTENDS Sharding, FiniteSets

CONSTANTS
    Fallback,      \* FALLBACK_SYMBOL
    Limit,         \* SIMULATION_SYMBOL_LIMIT
    RowCount,      \* rows of a trade date (100)
    MaxImports     \* bound: imports

ASSUME ShardRoutingAssumption ==
    /\ Fallback \in Tickers /\ ShardCount \in Nat \ {0} /\ Limit \in Nat \ {0}
    /\ RowCount \in Nat \ {0} /\ MaxImports \in Nat

\* What an import may leave: RowCount rows, one per symbol, in the order of rank.
Selections == {u \in [1 .. RowCount -> Tickers] : \A p, q \in 1 .. RowCount : u[p] = u[q] => p = q}

VARIABLES
    rows,       \* MarketDaily of the latest trade date, in rank order
    imports,    \* imports so far
    universe,   \* _cached_tickers of each matcher
    gateway,    \* tickers of the gateway
    runner,     \* symbols of the traders of each runner
    books       \* symbols with a book in the memory of each matcher

routingVars == <<rows, imports, universe, gateway, runner, books>>

NotLoaded == [tickers |-> << >>, version |-> -1]
NotStarted == [symbols |-> {}, version |-> -1]

RoutingInit ==
    /\ rows = << >> /\ imports = 0
    /\ universe = [i \in Shards |-> NotLoaded]
    /\ gateway = NotLoaded
    /\ runner = [i \in Shards |-> NotStarted]
    /\ books = [i \in Shards |-> {}]

-----------------------------------------------------------------------------
(* Matchers *)

\* The first Limit rows, or the fallback when there is no reference data.
LoadSimulatedTickers ==
    IF rows = << >> THEN <<Fallback>>
    ELSE SubSeq(rows, 1, IF Len(rows) < Limit THEN Len(rows) ELSE Limit)

\* simulated_tickers(): loaded at the first use, kept afterwards.
Simulated(i) ==
    IF universe[i] = NotLoaded THEN [tickers |-> LoadSimulatedTickers, version |-> imports]
    ELSE universe[i]

Used(i) == [universe EXCEPT ![i] = Simulated(i)]

\* Mutant of IsOwned: every simulated symbol is accepted.
IsSimulated(i, t) == t \in TickersOf(Simulated(i).tickers)

IsOwned(i, t) == t \in OwnedTickers(Simulated(i).tickers, i, ShardCount)

\* Another trade date is imported; no process is told.
Import ==
    /\ imports < MaxImports
    /\ rows' \in Selections
    /\ imports' = imports + 1
    /\ UNCHANGED <<universe, gateway, runner, books>>

\* A matcher starts with empty books.  The universe is loaded, unless the
\* tables are missing, in which case the first request loads it.
StartMatcher(i) ==
    /\ universe' \in {[universe EXCEPT ![i] = NotLoaded],
                      [universe EXCEPT ![i] = [tickers |-> LoadSimulatedTickers, version |-> imports]]}
    /\ books' = [books EXCEPT ![i] = {}]
    /\ UNCHANGED <<rows, imports, gateway, runner>>

-----------------------------------------------------------------------------
(* The symbols API of shard 0, and its readers *)

\* Rows of the latest date that shard 0 simulates, in rank order.
EnabledRows ==
    LET kept[k \in 0 .. Len(rows)] ==
            IF k = 0 THEN << >>
            ELSE IF rows[k] \in TickersOf(Simulated(0).tickers) THEN Append(kept[k - 1], rows[k])
            ELSE kept[k - 1]
    IN  kept[Len(rows)]

\* wait_for_tickers: without rows the gateway does not start.
StartGateway ==
    /\ EnabledRows # << >>
    /\ gateway' = [tickers |-> EnabledRows, version |-> Simulated(0).version]
    /\ universe' = Used(0)
    /\ UNCHANGED <<rows, imports, runner, books>>

\* Symbols whose matcher_shard is the runner's: the position is the one in the
\* universe of shard 0.
RunnerSymbols(r) ==
    {t \in TickersOf(EnabledRows) : ShardForTicker(Simulated(0).tickers, t, ShardCount) = r}

StartRunner(r) ==
    /\ EnabledRows # << >>
    /\ runner' = [runner EXCEPT ![r] = [symbols |-> RunnerSymbols(r), version |-> Simulated(0).version]]
    /\ universe' = Used(0)
    /\ UNCHANGED <<rows, imports, gateway, books>>

-----------------------------------------------------------------------------
(* Requests *)

Route(t) == ShardForTicker(gateway.tickers, t, ShardCount)

\* An order through the gateway: a symbol without a route is refused by the
\* gateway, a symbol the shard does not own by the matcher.
Submit(t) ==
    /\ gateway # NotLoaded /\ Route(t) # NoShard
    /\ LET i == Route(t)
       IN /\ universe' = Used(i)
          /\ books' = IF IsOwned(i, t) THEN [books EXCEPT ![i] = @ \cup {t}] ELSE books
    /\ UNCHANGED <<rows, imports, gateway, runner>>

RoutingNext ==
    \/ Import \/ StartGateway
    \/ \E i \in Shards : StartMatcher(i) \/ StartRunner(i)
    \/ \E t \in Tickers : Submit(t)

RoutingSpec == RoutingInit /\ [][RoutingNext]_routingVars

-----------------------------------------------------------------------------
(* Properties *)

\* The types of every process: no copy of the universe is newer than the last
\* import or longer than SIMULATION_SYMBOL_LIMIT.
RoutingTypeOK ==
    /\ rows \in Selections \cup {<< >>} /\ imports \in 0 .. MaxImports
    /\ universe \in [Shards -> [tickers : Seq(Tickers), version : -1 .. imports]]
    /\ \A i \in Shards : Len(universe[i].tickers) <= Limit
    /\ gateway \in [tickers : Seq(Tickers), version : -1 .. imports]
    /\ runner \in [Shards -> [symbols : SUBSET Tickers, version : -1 .. imports]]
    /\ books \in [Shards -> SUBSET Tickers]

\* All matchers hold the universe of one import.
MatchersAgree(v) == \A i \in Shards : universe[i].version = v

Owners(t) == {i \in Shards : universe[i] # NotLoaded /\ IsOwned(i, t)}

\* Once every matcher has been started after the latest import, and the gateway
\* and the runners after shard 0, each simulated symbol has one owner, the
\* gateway sends its requests there, and exactly one runner trades it
\* (simulation.py, sharding.py, universe.py, profiles.py).
ServedAfterRestart ==
    imports > 0 /\ MatchersAgree(imports) =>
        \A t \in TickersOf(LoadSimulatedTickers) :
            /\ Cardinality(Owners(t)) = 1
            /\ gateway.version = imports => Route(t) \in Owners(t)
            /\ (\A r \in Shards : runner[r].version = imports) =>
                  Cardinality({r \in Shards : t \in runner[r].symbols}) = 1

\* While all matchers hold the same universe, the orders of a symbol rest in one
\* matcher only, whatever the gateway and earlier restarts have done; no copy of
\* the universe is newer than the last import or too long (RoutingTypeOK).
OneBookWhileAgreed ==
    /\ RoutingTypeOK
    /\ \A v \in 0 .. imports : MatchersAgree(v) =>
        \A t \in Tickers : Cardinality({i \in Shards : t \in books[i]}) <= 1

=============================================================================
