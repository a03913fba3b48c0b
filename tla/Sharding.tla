------------------------------ MODULE Sharding ------------------------------
(***************************************************************************)
(* Which matcher owns a ticker: exchange/sharding.py.  A universe is the   *)
(* sequence of tickers in the order of their trading-value rank; shards    *)
(* are numbered from 0.                                                    *)
(***************************************************************************)
EXTENDS Integers, Sequences

CONSTANTS
    Tickers,      \* tickers of a universe
    ShardCount    \* SIMULATION_SHARD_COUNT

Shards == 0 .. ShardCount - 1

\* Tickers of a universe.
TickersOf(u) == {u[p] : p \in DOMAIN u}

MatcherShard(position, count) == position % count

\* Mutant of OwnedTickers: contiguous blocks in place of every count-th ticker.
OwnedTickersBlock(u, index, count) == {u[p] : p \in {q \in DOMAIN u : (q - 1) \div count = index}}

\* Every count-th ticker, beginning with the one at index.
OwnedTickers(u, index, count) ==
    {u[p] : p \in {q \in DOMAIN u : MatcherShard(q - 1, count) = index}}

\* tickers.index(t): the first position.
FirstPosition(u, t) == CHOOSE p \in DOMAIN u : u[p] = t /\ \A q \in DOMAIN u : u[q] = t => p <= q

NoShard == -1

\* Mutant of ShardForTicker: positions counted from 1.
ShardForTickerFromOne(u, t, count) ==
    IF t \in TickersOf(u) THEN MatcherShard(FirstPosition(u, t), count) ELSE NoShard

ShardForTicker(u, t, count) ==
    IF t \in TickersOf(u) THEN MatcherShard(FirstPosition(u, t) - 1, count) ELSE NoShard
=============================================================================
