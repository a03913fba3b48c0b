--------------------------- MODULE GatewayProofs ---------------------------
(***************************************************************************)
(* Theorems about the sharding rule and the gateway, for every universe,   *)
(* shard count and number of connections; and about the matchers, gateway  *)
(* and runners that use the rule, for every number of rows and imports.    *)
(***************************************************************************)
EXTENDS Gateway, ShardRouting, FiniteSetTheorems, WellFoundedInduction, TLAPS

-----------------------------------------------------------------------------
(* The sharding rule *)

\* A universe in which every ticker stands once.
NoRepetition(u) == \A p, q \in DOMAIN u : u[p] = u[q] => p = q

\* The position of a ticker is the first one, the only one.
LEMMA PositionFound ==
    ASSUME NEW n \in Nat, NEW T, NEW u \in [1 .. n -> T], NoRepetition(u), NEW t \in TickersOf(u)
    PROVE  FirstPosition(u, t) \in 1 .. n /\ u[FirstPosition(u, t)] = t
<1>1. PICK p \in DOMAIN u : u[p] = t
  BY DEF TickersOf
<1>2. u[p] = t /\ \A q \in DOMAIN u : u[q] = t => p <= q
  BY <1>1 DEF NoRepetition
<1>3. \E m \in DOMAIN u : u[m] = t /\ \A q \in DOMAIN u : u[q] = t => m <= q
  BY <1>2
<1> QED BY <1>3 DEF FirstPosition

\* The gateway's lookup and the matchers' slices agree: the shard that
\* shard_for_ticker names is the one shard whose owned_tickers hold the ticker.
THEOREM ShardOwnsTicker ==
    ASSUME NEW n \in Nat, NEW T, NEW u \in [1 .. n -> T], NoRepetition(u),
           NEW t \in TickersOf(u), NEW count \in Nat \ {0}
    PROVE  /\ ShardForTicker(u, t, count) \in 0 .. count - 1
           /\ \A i \in 0 .. count - 1 :
                 t \in OwnedTickers(u, i, count) <=> i = ShardForTicker(u, t, count)
<1> DEFINE p == FirstPosition(u, t)
<1>1. p \in 1 .. n /\ u[p] = t
  BY PositionFound
<1>2. ShardForTicker(u, t, count) = (p - 1) % count
  BY DEF ShardForTicker, MatcherShard
<1>3. (p - 1) % count \in 0 .. count - 1
  BY <1>1
<1>4. ASSUME NEW i \in 0 .. count - 1
      PROVE  t \in OwnedTickers(u, i, count) <=> i = (p - 1) % count
  <2>1. \A q \in DOMAIN u : u[q] = t => q = p
    BY <1>1 DEF NoRepetition
  <2>2. ASSUME t \in OwnedTickers(u, i, count) PROVE i = (p - 1) % count
    <3>1. PICK q \in DOMAIN u : MatcherShard(q - 1, count) = i /\ u[q] = t
      BY <2>2 DEF OwnedTickers
    <3> QED BY <2>1, <3>1 DEF MatcherShard
  <2>3. ASSUME i = (p - 1) % count PROVE t \in OwnedTickers(u, i, count)
    BY <1>1, <2>3 DEF OwnedTickers, MatcherShard
  <2> QED BY <2>2, <2>3
<1> HIDE DEF p
<1> QED BY <1>2, <1>3, <1>4

\* A ticker outside the universe has no shard, and no matcher owns it.
THEOREM UnknownOwnedByNobody ==
    ASSUME NEW u, NEW t, t \notin TickersOf(u), NEW count
    PROVE  ShardForTicker(u, t, count) = NoShard /\ \A i : t \notin OwnedTickers(u, i, count)
  BY DEF ShardForTicker, OwnedTickers, TickersOf

-----------------------------------------------------------------------------
(* Types *)

LEMMA UniverseOnce ==
    ASSUME tickers \in Universes
    PROVE  NoRepetition(tickers) /\ tickers \in [1 .. Cardinality(Tickers) -> Tickers]
  BY DEF Universes, NoRepetition

\* What a connection holds.
ConnType ==
    [at : {"new", "queued", "refused", "reading", "closed"} \cup Handling,
     req : Requests \cup {NoRequest}, shard : Shards \cup {NoShard}, status : Statuses]

\* A request about a symbol that has a shard has the one that owns the symbol.
SentToOwner(k) ==
    k.req.kind \in {"book", "symbol"} /\ k.shard # NoShard =>
        k.req.arg \in OwnedTickers(tickers, k.shard, ShardCount)

\* The kinds of requests that route_request decides about.
Routed == {"book", "symbol", "indexed", "blank", "default", "other"}

LEMMA CardinalityNat == Cardinality(Tickers) \in Nat
  BY GatewayAssumption, FS_CardinalityType DEF GatewayAssumption

\* A request is routed to a shard or refused, and by symbol only to the owner.
LEMMA RouteCases ==
    ASSUME tickers \in Universes, NEW q \in Requests, q.kind \in Routed
    PROVE  LET route == RouteRequest(q)
           IN  /\ \/ route = ToShard(route.shard) /\ route.shard \in Shards
                  \/ route \in {RoutingError(400), RoutingError(404)}
               /\ q.kind \in {"book", "symbol"} /\ route.shard # NoShard =>
                     q.arg \in OwnedTickers(tickers, route.shard, ShardCount)
<1>1. CASE q.kind = "indexed"
  BY <1>1 DEF RouteRequest, RequireShardIndex, ToShard, RoutingError
<1>2. CASE q.kind = "default"
  <2>1. RouteRequest(q) = ToShard(0)
    BY <1>2 DEF RouteRequest
  <2>2. 0 \in Shards
    BY GatewayAssumption DEF GatewayAssumption, Shards
  <2> QED BY <1>2, <2>1, <2>2 DEF ToShard
<1>3. CASE q.kind \in {"blank", "other"}
  BY <1>3 DEF RouteRequest
<1>4. CASE q.kind = "book" /\ q.arg \in Lettered
  <2>1. RouteRequest(q) = RoutingError(404)
    BY <1>4 DEF RouteRequest
  <2> QED BY <2>1 DEF RoutingError
<1>5. CASE q.kind = "symbol" \/ (q.kind = "book" /\ q.arg \notin Lettered)
  <2> DEFINE shard == ShardForTicker(tickers, q.arg, ShardCount)
  <2>1. RouteRequest(q) = IF shard = NoShard THEN RoutingError(400) ELSE ToShard(shard)
    BY <1>5 DEF RouteRequest
  <2>2. CASE q.arg \notin TickersOf(tickers)
    <3>1. shard = NoShard
      BY <2>2, UnknownOwnedByNobody
    <3> QED BY <2>1, <3>1 DEF RoutingError
  <2>3. CASE q.arg \in TickersOf(tickers)
    <3>1. shard \in Shards /\ q.arg \in OwnedTickers(tickers, shard, ShardCount)
      BY <2>3, UniverseOnce, CardinalityNat, ShardOwnsTicker, GatewayAssumption DEF GatewayAssumption, Shards
    <3>2. shard # NoShard
      BY <3>1, GatewayAssumption DEF Shards, NoShard, GatewayAssumption
    <3> QED BY <2>1, <3>1, <3>2 DEF ToShard
  <2> QED BY <2>2, <2>3
<1> QED BY <1>1, <1>2, <1>3, <1>4, <1>5 DEF Routed

\* Where a handler goes first.
LEMMA FirstStepCases ==
    ASSUME tickers \in Universes, NEW q \in Requests
    PROVE  FirstStep(q) \in ConnType /\ FirstStep(q).at \in Handling /\ SentToOwner(FirstStep(q))
<1> DEFINE route == RouteRequest(q)
<1> DEFINE goes(place, shard, status) == [at |-> place, req |-> q, shard |-> shard, status |-> status]
<1>1. CASE q.kind = "garbled"
  <2>1. FirstStep(q) = goes("finish", NoShard, 0)
    BY <1>1 DEF FirstStep
  <2> QED BY <2>1 DEF ConnType, SentToOwner, Handling, Statuses
<1>2. CASE q.kind \in {"discovery", "hostless"}
  <2>1. FirstStep(q) \in {goes("answer", NoShard, 200), goes("answer", NoShard, 400)}
    BY <1>2 DEF FirstStep
  <2> QED BY <2>1 DEF ConnType, SentToOwner, Handling, Statuses
<1>3. CASE q.kind \in Routed
  <2>1. FirstStep(q) = goes(IF route.status = 0 THEN "upstream" ELSE "answer", route.shard, route.status)
    BY <1>3 DEF FirstStep, Routed
  <2>2. /\ route.shard \in Shards \cup {NoShard} /\ route.status \in Statuses
        /\ q.kind \in {"book", "symbol"} /\ route.shard # NoShard =>
              q.arg \in OwnedTickers(tickers, route.shard, ShardCount)
    BY <1>3, RouteCases DEF ToShard, RoutingError, Statuses
  <2> HIDE DEF route
  <2> QED BY <2>1, <2>2 DEF ConnType, SentToOwner, Handling
<1> QED BY <1>1, <1>2, <1>3 DEF Requests, Routed

LEMMA ConnOf ==
    TypeOK <=> /\ tickers \in Universes /\ conn \in [Conns -> ConnType] /\ acceptedAt \subseteq Conns
               /\ inFlight \in Nat /\ requests \in [Statuses -> Nat] /\ upstreamErrors \in [Shards -> Nat]
  BY DEF TypeOK, ConnType

LEMMA ConnOfPrime ==
    TypeOK' <=> /\ tickers' \in Universes /\ conn' \in [Conns -> ConnType] /\ acceptedAt' \subseteq Conns
                /\ inFlight' \in Nat /\ requests' \in [Statuses -> Nat] /\ upstreamErrors' \in [Shards -> Nat]
  BY DEF TypeOK, ConnType

-----------------------------------------------------------------------------
(* The inductive invariant *)

Inv == TypeOK /\ ForwardedToOwner /\ AcceptedUntilServed /\ InFlightExact

\* What the step of one connection c does to the sets the invariant speaks of,
\* with k what c holds afterwards.
LEMMA OneConnection ==
    ASSUME tickers \in Universes, conn \in [Conns -> ConnType], ForwardedToOwner,
           NEW c \in Conns, NEW k \in ConnType, SentToOwner(k),
           conn' = [conn EXCEPT ![c] = k], UNCHANGED tickers
    PROVE  /\ conn' \in [Conns -> ConnType]
           /\ ForwardedToOwner'
           /\ Handled' = (Handled \ {c}) \cup (IF k.at \in Handling THEN {c} ELSE {})
           /\ \A d \in Conns, place \in {"queued", "refused"} :
                 At(d, place)' <=> IF d = c THEN k.at = place ELSE At(d, place)
<1>1. conn' \in [Conns -> ConnType] /\ conn'[c] = k /\ \A d \in Conns : d # c => conn'[d] = conn[d]
  OBVIOUS
<1>2. ForwardedToOwner'
  <2>1. ASSUME NEW d \in Conns, conn'[d].req.kind \in {"book", "symbol"}, conn'[d].shard # NoShard
        PROVE  conn'[d].req.arg \in OwnedTickers(tickers, conn'[d].shard, ShardCount)
    BY <1>1, <2>1 DEF SentToOwner, ForwardedToOwner
  <2> QED BY <2>1 DEF ForwardedToOwner
<1>3. Handled' = (Handled \ {c}) \cup (IF k.at \in Handling THEN {c} ELSE {})
  BY <1>1 DEF Handled
<1> QED BY <1>1, <1>2, <1>3 DEF At

\* Handled is a finite set, and its cardinality follows one connection.
LEMMA HandledCount ==
    ASSUME NEW c \in Conns
    PROVE  /\ IsFiniteSet(Handled) /\ Cardinality(Handled) \in Nat
           /\ c \in Handled => Cardinality(Handled) > 0 /\ Cardinality(Handled \ {c}) = Cardinality(Handled) - 1
           /\ c \notin Handled => Cardinality(Handled \cup {c}) = Cardinality(Handled) + 1
<1>1. IsFiniteSet(Handled)
  BY FS_Subset, GatewayAssumption DEF GatewayAssumption, Handled
<1>2. Cardinality(Handled) \in Nat
  BY <1>1, FS_CardinalityType
<1>3. c \in Handled => Cardinality(Handled \ {c}) = Cardinality(Handled) - 1
  BY <1>1, FS_RemoveElement
<1>4. c \in Handled => Cardinality(Handled) > 0
  BY <1>1, <1>2, FS_EmptySet
<1>5. c \notin Handled => Cardinality(Handled \cup {c}) = Cardinality(Handled) + 1
  BY <1>1, FS_AddElement
<1> QED BY <1>1, <1>2, <1>3, <1>4, <1>5
\* One connection moves, _accepted_at and the gauge follow it: the invariant is kept.
LEMMA MoveKeepsInv ==
    ASSUME Inv, NEW c \in Conns, NEW k \in ConnType, SentToOwner(k),
           conn' = [conn EXCEPT ![c] = k], UNCHANGED tickers,
           requests' \in [Statuses -> Nat], upstreamErrors' \in [Shards -> Nat],
           acceptedAt' = IF k.at \in {"queued", "refused"} THEN acceptedAt \cup {c} ELSE acceptedAt \ {c},
           inFlight' = (inFlight + (IF k.at \in Handling THEN 1 ELSE 0))
                         - (IF conn[c].at \in Handling THEN 1 ELSE 0)
    PROVE  Inv'
<1>1. /\ tickers \in Universes /\ conn \in [Conns -> ConnType] /\ acceptedAt \subseteq Conns
      /\ inFlight \in Nat /\ ForwardedToOwner
  BY ConnOf DEF Inv
<1>2. /\ conn' \in [Conns -> ConnType] /\ ForwardedToOwner'
      /\ Handled' = (Handled \ {c}) \cup (IF k.at \in Handling THEN {c} ELSE {})
      /\ \A d \in Conns, place \in {"queued", "refused"} :
            At(d, place)' <=> IF d = c THEN k.at = place ELSE At(d, place)
  BY <1>1, OneConnection
<1>3. AcceptedUntilServed'
  <2>1. acceptedAt = {d \in Conns : At(d, "queued") \/ At(d, "refused")}
    BY DEF Inv, AcceptedUntilServed
  <2>2. \A d \in Conns : d \in acceptedAt' <=> (At(d, "queued")' \/ At(d, "refused")')
    BY <1>2, <2>1
  <2>3. acceptedAt' \subseteq Conns
    BY <1>1
  <2> QED BY <2>2, <2>3 DEF AcceptedUntilServed
<1>4. InFlightExact' /\ inFlight' \in Nat
  <2>1. inFlight = Cardinality(Handled) /\ (c \in Handled <=> conn[c].at \in Handling)
    BY DEF Inv, InFlightExact, Handled
  <2>2. CASE k.at \in Handling /\ c \in Handled
    <3>1. Handled' = Handled
      BY <1>2, <2>2
    <3> QED BY <1>1, <2>1, <2>2, <3>1 DEF InFlightExact
  <2>3. CASE k.at \in Handling /\ c \notin Handled
    <3>1. Handled' = Handled \cup {c}
      BY <1>2, <2>3
    <3> QED BY <1>1, <2>1, <2>3, <3>1, HandledCount DEF InFlightExact
  <2>4. CASE k.at \notin Handling /\ c \in Handled
    <3>1. Handled' = Handled \ {c}
      BY <1>2, <2>4
    <3>2. inFlight' = inFlight - 1
      BY <1>1, <2>1, <2>4
    <3>3. Cardinality(Handled) > 0 /\ Cardinality(Handled \ {c}) = Cardinality(Handled) - 1
      BY <2>4, HandledCount
    <3> QED BY <1>1, <2>1, <3>1, <3>2, <3>3 DEF InFlightExact
  <2>5. CASE k.at \notin Handling /\ c \notin Handled
    <3>1. Handled' = Handled
      BY <1>2, <2>5
    <3> QED BY <1>1, <2>1, <2>5, <3>1 DEF InFlightExact
  <2> QED BY <2>2, <2>3, <2>4, <2>5
<1>5. tickers' \in Universes /\ acceptedAt' \subseteq Conns
  BY <1>1
<1> QED BY <1>2, <1>3, <1>4, <1>5, ConnOfPrime DEF Inv

LEMMA InitInv == Init => Inv
<1> SUFFICES ASSUME Init PROVE Inv
  OBVIOUS
<1>1. conn \in [Conns -> ConnType] /\ Handled = {}
  BY DEF Init, ConnType, Handled, Handling, Statuses
<1>2. TypeOK
  BY <1>1, ConnOf DEF Init
<1>3. ForwardedToOwner
  BY DEF Init, ForwardedToOwner
<1>4. AcceptedUntilServed
  BY DEF Init, AcceptedUntilServed, At
<1>5. InFlightExact
  BY <1>1, FS_EmptySet DEF Init, InFlightExact
<1> QED BY <1>2, <1>3, <1>4, <1>5 DEF Inv

\* Every step keeps the invariant.
LEMMA NextInv == Inv /\ [Next]_vars => Inv'
<1> SUFFICES ASSUME Inv, [Next]_vars PROVE Inv'
  OBVIOUS
<1>0. /\ tickers \in Universes /\ conn \in [Conns -> ConnType] /\ acceptedAt \subseteq Conns
      /\ inFlight \in Nat /\ requests \in [Statuses -> Nat] /\ upstreamErrors \in [Shards -> Nat]
      /\ \A d \in Conns : SentToOwner(conn[d])
      /\ \A d \in Conns : d \in acceptedAt <=> conn[d].at \in {"queued", "refused"}
  <2>1. \A d \in Conns : SentToOwner(conn[d])
    BY DEF Inv, ForwardedToOwner, SentToOwner
  <2>2. \A d \in Conns : d \in acceptedAt <=> conn[d].at \in {"queued", "refused"}
    BY DEF Inv, AcceptedUntilServed, At
  <2> QED BY <2>1, <2>2, ConnOf DEF Inv
<1>1. CASE UNCHANGED vars
  <2>1. UNCHANGED <<tickers, conn, acceptedAt, inFlight, requests, upstreamErrors>>
    BY <1>1 DEF vars, metricVars
  <2>2. TypeOK'
    BY <1>0, <2>1, ConnOfPrime
  <2>3. ForwardedToOwner' /\ AcceptedUntilServed'
    BY <2>1 DEF Inv, ForwardedToOwner, AcceptedUntilServed, At
  <2>4. Handled' = Handled
    BY <2>1 DEF Handled
  <2> QED BY <2>1, <2>2, <2>3, <2>4 DEF Inv, InFlightExact
<1>2. ASSUME NEW c \in Conns, Accept(c) PROVE Inv'
  <2> DEFINE k == [conn[c] EXCEPT !.at = "queued"]
  <2>1. k \in ConnType /\ SentToOwner(k) /\ k.at = "queued" /\ k.at \notin Handling
    BY <1>0, <1>2 DEF ConnType, SentToOwner, Handling, Statuses, Accept, At, Move
  <2>2. conn[c].at \notin Handling /\ conn' = [conn EXCEPT ![c] = k]
    BY <1>0, <1>2 DEF Handling, ConnType, Accept, At, Move
  <2>3. acceptedAt' = acceptedAt \cup {c} /\ UNCHANGED inFlight /\ UNCHANGED <<tickers, requests, upstreamErrors>>
    BY <1>0, <1>2 DEF metricVars, Accept, At, Move
  <2>4. /\ acceptedAt' = IF k.at \in {"queued", "refused"} THEN acceptedAt \cup {c} ELSE acceptedAt \ {c}
        /\ inFlight' = (inFlight + (IF k.at \in Handling THEN 1 ELSE 0))
                         - (IF conn[c].at \in Handling THEN 1 ELSE 0)
    BY <1>0, <2>1, <2>2, <2>3 DEF Handling
  <2> HIDE DEF k
  <2> QED BY <1>0, <2>1, <2>2, <2>3, <2>4, MoveKeepsInv
<1>3. ASSUME NEW c \in Conns, ThreadFails(c) PROVE Inv'
  <2> DEFINE k == [conn[c] EXCEPT !.at = "refused"]
  <2>1. k \in ConnType /\ SentToOwner(k) /\ k.at = "refused" /\ k.at \notin Handling
    BY <1>0, <1>3 DEF ConnType, SentToOwner, Handling, Statuses, ThreadFails, At, Move
  <2>2. conn[c].at = "queued" /\ conn' = [conn EXCEPT ![c] = k]
    BY <1>0, <1>3 DEF Handling, ConnType, ThreadFails, At, Move
  <2>3. UNCHANGED acceptedAt /\ UNCHANGED inFlight /\ UNCHANGED <<tickers, requests, upstreamErrors>>
    BY <1>0, <1>3 DEF metricVars, ThreadFails, At, Move
  <2>4. /\ acceptedAt' = IF k.at \in {"queued", "refused"} THEN acceptedAt \cup {c} ELSE acceptedAt \ {c}
        /\ inFlight' = (inFlight + (IF k.at \in Handling THEN 1 ELSE 0))
                         - (IF conn[c].at \in Handling THEN 1 ELSE 0)
    BY <1>0, <2>1, <2>2, <2>3 DEF Handling
  <2> HIDE DEF k
  <2> QED BY <1>0, <2>1, <2>2, <2>3, <2>4, MoveKeepsInv
<1>4. ASSUME NEW c \in Conns, StartThread(c) PROVE Inv'
  <2> DEFINE k == [conn[c] EXCEPT !.at = "reading"]
  <2>1. k \in ConnType /\ SentToOwner(k) /\ k.at = "reading" /\ k.at \notin Handling
    BY <1>0, <1>4 DEF ConnType, SentToOwner, Handling, Statuses, StartThread, At, Move
  <2>2. conn[c].at = "queued" /\ conn' = [conn EXCEPT ![c] = k]
    BY <1>0, <1>4 DEF Handling, ConnType, StartThread, At, Move
  <2>3. acceptedAt' = acceptedAt \ {c} /\ UNCHANGED inFlight /\ UNCHANGED <<tickers, requests, upstreamErrors>>
    BY <1>0, <1>4 DEF metricVars, StartThread, At, Move
  <2>4. /\ acceptedAt' = IF k.at \in {"queued", "refused"} THEN acceptedAt \cup {c} ELSE acceptedAt \ {c}
        /\ inFlight' = (inFlight + (IF k.at \in Handling THEN 1 ELSE 0))
                         - (IF conn[c].at \in Handling THEN 1 ELSE 0)
    BY <1>0, <2>1, <2>2, <2>3 DEF Handling
  <2> HIDE DEF k
  <2> QED BY <1>0, <2>1, <2>2, <2>3, <2>4, MoveKeepsInv
<1>5. ASSUME NEW c \in Conns, ServeMetrics(c) PROVE Inv'
  <2> DEFINE k == [conn[c] EXCEPT !.at = "closed"]
  <2>1. k \in ConnType /\ SentToOwner(k) /\ k.at = "closed" /\ k.at \notin Handling
    BY <1>0, <1>5 DEF ConnType, SentToOwner, Handling, Statuses, ServeMetrics, At, Move
  <2>2. conn[c].at = "reading" /\ conn' = [conn EXCEPT ![c] = k]
    BY <1>0, <1>5 DEF Handling, ConnType, ServeMetrics, At, Move
  <2>3. UNCHANGED acceptedAt /\ UNCHANGED inFlight /\ UNCHANGED <<tickers, requests, upstreamErrors>>
    BY <1>0, <1>5 DEF metricVars, ServeMetrics, At, Move
  <2>4. /\ acceptedAt' = IF k.at \in {"queued", "refused"} THEN acceptedAt \cup {c} ELSE acceptedAt \ {c}
        /\ inFlight' = (inFlight + (IF k.at \in Handling THEN 1 ELSE 0))
                         - (IF conn[c].at \in Handling THEN 1 ELSE 0)
    BY <1>0, <2>1, <2>2, <2>3 DEF Handling
  <2> HIDE DEF k
  <2> QED BY <1>0, <2>1, <2>2, <2>3, <2>4, MoveKeepsInv
<1>6. ASSUME NEW c \in Conns, NEW q \in Requests, Begin(c, q) PROVE Inv'
  <2> DEFINE k == FirstStep(q)
  <2>1. k \in ConnType /\ SentToOwner(k) /\ k.at \in Handling
    BY <1>0, <1>6, FirstStepCases DEF ConnType, SentToOwner, Handling, Statuses, Begin, At
  <2>2. conn[c].at = "reading" /\ conn' = [conn EXCEPT ![c] = k]
    BY <1>0, <1>6 DEF Handling, ConnType, Begin, At
  <2>3. UNCHANGED acceptedAt /\ inFlight' = inFlight + 1 /\ UNCHANGED <<tickers, requests, upstreamErrors>>
    BY <1>0, <1>6 DEF metricVars, Begin, At
  <2>4. /\ acceptedAt' = IF k.at \in {"queued", "refused"} THEN acceptedAt \cup {c} ELSE acceptedAt \ {c}
        /\ inFlight' = (inFlight + (IF k.at \in Handling THEN 1 ELSE 0))
                         - (IF conn[c].at \in Handling THEN 1 ELSE 0)
    BY <1>0, <2>1, <2>2, <2>3 DEF Handling
  <2> HIDE DEF k
  <2> QED BY <1>0, <2>1, <2>2, <2>3, <2>4, MoveKeepsInv
<1>7. ASSUME NEW c \in Conns, NEW status \in {200, 400, 404}, UpstreamAnswers(c, status) PROVE Inv'
  <2> DEFINE k == [at |-> "relay", req |-> conn[c].req, shard |-> conn[c].shard, status |-> status]
  <2>1. k \in ConnType /\ SentToOwner(k) /\ k.at \in Handling
    BY <1>0, <1>7 DEF ConnType, SentToOwner, Handling, Statuses, UpstreamAnswers, At
  <2>2. conn[c].at = "upstream" /\ conn' = [conn EXCEPT ![c] = k]
    BY <1>0, <1>7 DEF MoveWith, Handling, ConnType, UpstreamAnswers, At
  <2>3. UNCHANGED acceptedAt /\ UNCHANGED inFlight /\ UNCHANGED <<tickers, requests, upstreamErrors>>
    BY <1>0, <1>7 DEF metricVars, UpstreamAnswers, At
  <2>4. /\ acceptedAt' = IF k.at \in {"queued", "refused"} THEN acceptedAt \cup {c} ELSE acceptedAt \ {c}
        /\ inFlight' = (inFlight + (IF k.at \in Handling THEN 1 ELSE 0))
                         - (IF conn[c].at \in Handling THEN 1 ELSE 0)
    BY <1>0, <2>1, <2>2, <2>3 DEF Handling
  <2> HIDE DEF k
  <2> QED BY <1>0, <2>1, <2>2, <2>3, <2>4, MoveKeepsInv
<1>8. ASSUME NEW c \in Conns, UpstreamFails(c) PROVE Inv'
  <2> DEFINE k == [at |-> "answer", req |-> conn[c].req, shard |-> conn[c].shard, status |-> 502]
  <2>1. k \in ConnType /\ SentToOwner(k) /\ k.at \in Handling
    BY <1>0, <1>8 DEF ConnType, SentToOwner, Handling, Statuses, UpstreamFails, At
  <2>2. conn[c].at = "upstream" /\ conn' = [conn EXCEPT ![c] = k]
    BY <1>0, <1>8 DEF MoveWith, Handling, ConnType, UpstreamFails, At
  <2>3. UNCHANGED acceptedAt /\ UNCHANGED inFlight /\ UNCHANGED <<tickers, requests>>
    BY <1>0, <1>8 DEF metricVars, UpstreamFails, At
  <2>5. upstreamErrors' \in [Shards -> Nat]
    <3>1. upstreamErrors' = [upstreamErrors EXCEPT ![conn[c].shard] = upstreamErrors[conn[c].shard] + 1]
      BY <1>8 DEF UpstreamFails
    <3>2. CASE conn[c].shard \in Shards
      BY <1>0, <3>1, <3>2
    <3>3. CASE conn[c].shard \notin Shards
      BY <1>0, <3>1, <3>3
    <3> QED BY <3>2, <3>3
  <2>4. /\ acceptedAt' = IF k.at \in {"queued", "refused"} THEN acceptedAt \cup {c} ELSE acceptedAt \ {c}
        /\ inFlight' = (inFlight + (IF k.at \in Handling THEN 1 ELSE 0))
                         - (IF conn[c].at \in Handling THEN 1 ELSE 0)
    BY <1>0, <2>1, <2>2, <2>3 DEF Handling
  <2> HIDE DEF k
  <2> QED BY <1>0, <2>1, <2>2, <2>3, <2>4, <2>5, MoveKeepsInv
<1>9. ASSUME NEW c \in Conns, Escape(c) PROVE Inv'
  <2> DEFINE k == [conn[c] EXCEPT !.at = "finish"]
  <2>1. k \in ConnType /\ SentToOwner(k) /\ k.at \in Handling
    BY <1>0, <1>9 DEF ConnType, SentToOwner, Handling, Statuses, Escape, At, Move
  <2>2. conn[c].at = "upstream" /\ conn' = [conn EXCEPT ![c] = k]
    BY <1>0, <1>9 DEF Handling, ConnType, Escape, At, Move
  <2>3. UNCHANGED acceptedAt /\ UNCHANGED inFlight /\ UNCHANGED <<tickers, requests, upstreamErrors>>
    BY <1>0, <1>9 DEF metricVars, Escape, At, Move
  <2>4. /\ acceptedAt' = IF k.at \in {"queued", "refused"} THEN acceptedAt \cup {c} ELSE acceptedAt \ {c}
        /\ inFlight' = (inFlight + (IF k.at \in Handling THEN 1 ELSE 0))
                         - (IF conn[c].at \in Handling THEN 1 ELSE 0)
    BY <1>0, <2>1, <2>2, <2>3 DEF Handling
  <2> HIDE DEF k
  <2> QED BY <1>0, <2>1, <2>2, <2>3, <2>4, MoveKeepsInv
<1>10. ASSUME NEW c \in Conns, Reply(c) PROVE Inv'
  <2> DEFINE k == [conn[c] EXCEPT !.at = "finish"]
  <2>1. k \in ConnType /\ SentToOwner(k) /\ k.at \in Handling
    BY <1>0, <1>10 DEF ConnType, SentToOwner, Handling, Statuses, Reply, At, Move
  <2>2. conn[c].at \in {"relay", "answer"} /\ conn' = [conn EXCEPT ![c] = k]
    BY <1>0, <1>10 DEF Handling, ConnType, Reply, At, Move
  <2>3. UNCHANGED acceptedAt /\ UNCHANGED inFlight /\ UNCHANGED <<tickers, requests, upstreamErrors>>
    BY <1>0, <1>10 DEF metricVars, Reply, At, Move
  <2>4. /\ acceptedAt' = IF k.at \in {"queued", "refused"} THEN acceptedAt \cup {c} ELSE acceptedAt \ {c}
        /\ inFlight' = (inFlight + (IF k.at \in Handling THEN 1 ELSE 0))
                         - (IF conn[c].at \in Handling THEN 1 ELSE 0)
    BY <1>0, <2>1, <2>2, <2>3 DEF Handling
  <2> HIDE DEF k
  <2> QED BY <1>0, <2>1, <2>2, <2>3, <2>4, MoveKeepsInv
<1>11. ASSUME NEW c \in Conns, ClientGone(c) PROVE Inv'
  <2> DEFINE k == [at |-> "answer", req |-> conn[c].req, shard |-> conn[c].shard, status |-> 502]
  <2>1. k \in ConnType /\ SentToOwner(k) /\ k.at \in Handling
    BY <1>0, <1>11 DEF ConnType, SentToOwner, Handling, Statuses, ClientGone, At
  <2>2. conn[c].at = "relay" /\ conn' = [conn EXCEPT ![c] = k]
    BY <1>0, <1>11 DEF MoveWith, Handling, ConnType, ClientGone, At
  <2>3. UNCHANGED acceptedAt /\ UNCHANGED inFlight /\ UNCHANGED <<tickers, requests, upstreamErrors>>
    BY <1>0, <1>11 DEF metricVars, ClientGone, At
  <2>4. /\ acceptedAt' = IF k.at \in {"queued", "refused"} THEN acceptedAt \cup {c} ELSE acceptedAt \ {c}
        /\ inFlight' = (inFlight + (IF k.at \in Handling THEN 1 ELSE 0))
                         - (IF conn[c].at \in Handling THEN 1 ELSE 0)
    BY <1>0, <2>1, <2>2, <2>3 DEF Handling
  <2> HIDE DEF k
  <2> QED BY <1>0, <2>1, <2>2, <2>3, <2>4, MoveKeepsInv
<1>12. ASSUME NEW c \in Conns, Finish(c) PROVE Inv'
  <2> DEFINE k == [conn[c] EXCEPT !.at = "closed"]
  <2>1. k \in ConnType /\ SentToOwner(k) /\ k.at = "closed" /\ k.at \notin Handling
    BY <1>0, <1>12 DEF ConnType, SentToOwner, Handling, Statuses, Finish, At, Move
  <2>2. conn[c].at = "finish" /\ conn' = [conn EXCEPT ![c] = k]
    BY <1>0, <1>12 DEF Handling, ConnType, Finish, At, Move
  <2>3. UNCHANGED acceptedAt /\ inFlight' = inFlight - 1 /\ UNCHANGED <<tickers, upstreamErrors>>
    BY <1>0, <1>12 DEF metricVars, Finish, At, Move
  <2>5. requests' \in [Statuses -> Nat]
    BY <1>0, <1>12 DEF Statuses, ConnType, Finish, At, Move
  <2>4. /\ acceptedAt' = IF k.at \in {"queued", "refused"} THEN acceptedAt \cup {c} ELSE acceptedAt \ {c}
        /\ inFlight' = (inFlight + (IF k.at \in Handling THEN 1 ELSE 0))
                         - (IF conn[c].at \in Handling THEN 1 ELSE 0)
    BY <1>0, <2>1, <2>2, <2>3 DEF Handling
  <2> HIDE DEF k
  <2> QED BY <1>0, <2>1, <2>2, <2>3, <2>4, <2>5, MoveKeepsInv
<1> QED
  BY <1>1, <1>2, <1>3, <1>4, <1>5, <1>6, <1>7, <1>8, <1>9, <1>10, <1>11, <1>12 DEF Next

-----------------------------------------------------------------------------
(* Theorems *)

LEMMA AlwaysInv == Spec => []Inv
  BY InitInv, NextInv, PTL DEF Spec

\* The gateway keeps its types: statuses it knows, shards that exist, gauges
\* that are never negative, for any number of connections and shards.
THEOREM TypeCorrect == Spec => []TypeOK
<1>1. Inv => TypeOK
  BY DEF Inv
<1> QED BY <1>1, AlwaysInv, PTL

\* Every request about a symbol that is forwarded goes to the matcher whose
\* owned_tickers hold the symbol (routing.py, sharding.py).
THEOREM AlwaysForwardedToOwner == Spec => []ForwardedToOwner
<1>1. Inv => ForwardedToOwner
  BY DEF Inv
<1> QED BY <1>1, AlwaysInv, PTL

\* _accepted_at holds the connections that wait for their thread and those that
\* never got one, and no other.
THEOREM AcceptedExact == Spec => []AcceptedUntilServed
<1>1. Inv => AcceptedUntilServed
  BY DEF Inv
<1> QED BY <1>1, AlwaysInv, PTL

\* The gauge of requests in flight counts the handlers that run, whatever way
\* they are left (_proxy's finally clause).
THEOREM GaugeInFlightExact == Spec => []InFlightExact
<1>1. Inv => InFlightExact
  BY DEF Inv
<1> QED BY <1>1, AlwaysInv, PTL

-----------------------------------------------------------------------------
(***************************************************************************)
(* The processes that use the sharding rule: matchers, gateway and runners *)
(* with the universes they were started with (ShardRouting).               *)
(***************************************************************************)

\* What the runner of shard r trades of the newest universe.
Share(r) ==
    {t \in TickersOf(LoadSimulatedTickers) :
        ShardForTicker(LoadSimulatedTickers, t, ShardCount) = r}

\* A version names one universe: the empty one before it is loaded, the one of the
\* database when it is the newest, and the same one in every matcher.
OneUniverse(i) ==
    /\ universe[i].version = -1 => universe[i].tickers = << >>
    /\ universe[i].version = imports => universe[i].tickers = LoadSimulatedTickers
    /\ \A j \in Shards : universe[j].version = universe[i].version => universe[j].tickers = universe[i].tickers
    /\ NoRepetition(universe[i].tickers)

\* A matcher has books only of the symbols it owns in the universe it holds.
BooksOwned(i) == books[i] \subseteq OwnedTickers(universe[i].tickers, i, ShardCount)

\* What a gateway or runner with the newest version was told.
ReadersTold ==
    /\ imports > 0 /\ gateway.version = imports => gateway.tickers = LoadSimulatedTickers
    /\ \A r \in Shards : imports > 0 /\ runner[r].version = imports => runner[r].symbols = Share(r)

RoutingInv ==
    /\ RoutingTypeOK
    /\ rows = << >> <=> imports = 0
    /\ \A i \in Shards : OneUniverse(i) /\ BooksOwned(i)
    /\ ReadersTold

-----------------------------------------------------------------------------
(* The rows shard 0 announces *)

LEMMA RoutingConstants ==
    /\ Fallback \in Tickers /\ ShardCount \in Nat \ {0} /\ Limit \in Nat \ {0}
    /\ RowCount \in Nat \ {0} /\ MaxImports \in Nat
BY ShardRoutingAssumption

LEMMA LeastNumber ==
    ASSUME NEW T \in SUBSET Nat, T # {}
    PROVE  \E x \in T : \A y \in T : x <= y
<1>1. PICK x \in T : \A y \in T : ~(<<y, x>> \in OpToRel(<, Nat))
  BY NatLessThanWellFounded, WFMin
<1>2. ASSUME NEW y \in T PROVE x <= y
  <2>1. <<y, x>> \in Nat \X Nat /\ <<y, x>>[1] = y /\ <<y, x>>[2] = x
    OBVIOUS
  <2>2. ~(y < x)
    BY <1>1, <2>1 DEF OpToRel
  <2> QED BY <2>2
<1> QED BY <1>2

\* h is how EnabledRows is computed: the elements of q in S, in their order.
IsFiltered(h, q, S, n) ==
    h = [k \in 0 .. n |->
            IF k = 0 THEN << >>
            ELSE IF q[k] \in S THEN Append(h[k - 1], q[k])
            ELSE h[k - 1]]

\* What the recursion says of its values.
Filters(h, q, S, n) ==
    /\ h[0] = << >>
    /\ \A k \in 1 .. n : h[k] = IF q[k] \in S THEN Append(h[k - 1], q[k]) ELSE h[k - 1]

LEMMA FilterStep ==
    ASSUME NEW q, NEW S, NEW n \in Nat, NEW h, IsFiltered(h, q, S, n)
    PROVE  Filters(h, q, S, n)
<1> DEFINE Of(k) == IF k = 0 THEN << >>
                    ELSE IF q[k] \in S THEN Append(h[k - 1], q[k]) ELSE h[k - 1]
<1>1. h = [k \in 0 .. n |-> Of(k)]
  BY DEF IsFiltered
<1>2. \A k \in 0 .. n : h[k] = Of(k)
  <2> HIDE DEF Of
  <2> QED BY <1>1
<1>3. 0 \in 0 .. n /\ \A k \in 1 .. n : k \in 0 .. n /\ k # 0
  OBVIOUS
<1>4. h[0] = << >>
  BY <1>2, <1>3
<1>5. ASSUME NEW k \in 1 .. n PROVE h[k] = IF q[k] \in S THEN Append(h[k - 1], q[k]) ELSE h[k - 1]
  BY <1>2, <1>3
<1> QED BY <1>4, <1>5 DEF Filters

LEMMA FilterExists ==
    ASSUME NEW q, NEW S, NEW n \in Nat
    PROVE  \E h : IsFiltered(h, q, S, n)
<1> DEFINE T == {m \in Nat : ~\E h : IsFiltered(h, q, S, m)}
<1> SUFFICES ASSUME T # {} PROVE FALSE
  OBVIOUS
<1>1. PICK m \in T : \A y \in T : m <= y
  <2>1. T \in SUBSET Nat
    OBVIOUS
  <2> HIDE DEF T
  <2> QED BY <2>1, LeastNumber
<1>2. m # 0
  <2> DEFINE g == [k \in 0 .. 0 |-> << >>]
  <2>1. g[0] = << >>
    OBVIOUS
  <2>2. IsFiltered(g, q, S, 0)
    BY DEF IsFiltered
  <2> HIDE DEF g
  <2> QED BY <1>1, <2>2
<1>3. m \in Nat /\ m - 1 \in Nat /\ m - 1 \notin T
  <2>1. m \in Nat
    BY <1>1
  <2> HIDE DEF T
  <2> QED BY <1>1, <1>2, <2>1
<1>4. PICK g : IsFiltered(g, q, S, m - 1)
  BY <1>3
<1>7. /\ g[0] = << >>
      /\ \A i \in 1 .. m - 1 : g[i] = IF q[i] \in S THEN Append(g[i - 1], q[i]) ELSE g[i - 1]
  <2> HIDE DEF T
  <2>1. Filters(g, q, S, m - 1)
    BY <1>3, <1>4, FilterStep
  <2> QED BY <2>1 DEF Filters
<1> DEFINE h == [k \in 0 .. m |-> IF k < m THEN g[k]
                                  ELSE IF q[m] \in S THEN Append(g[m - 1], q[m]) ELSE g[m - 1]]
<1>5. \A k \in 0 .. m :
        h[k] = IF k = 0 THEN << >>
               ELSE IF q[k] \in S THEN Append(h[k - 1], q[k]) ELSE h[k - 1]
  <2> SUFFICES ASSUME NEW k \in 0 .. m
               PROVE  h[k] = IF k = 0 THEN << >>
                             ELSE IF q[k] \in S THEN Append(h[k - 1], q[k]) ELSE h[k - 1]
    OBVIOUS
  <2>2. CASE k = 0
    BY <1>2, <1>3, <1>7, <2>2
  <2>3. CASE k # 0
    <3>1. h[k - 1] = g[k - 1]
      BY <1>3, <2>3
    <3>2. h[k] = IF k < m THEN g[k] ELSE IF q[m] \in S THEN Append(g[m - 1], q[m]) ELSE g[m - 1]
      OBVIOUS
    <3> HIDE DEF h
    <3> QED BY <1>3, <1>7, <2>3, <3>1, <3>2
  <2> QED BY <2>2, <2>3
<1>6. IsFiltered(h, q, S, m)
  <2>1. h = [k \in 0 .. m |-> h[k]]
    OBVIOUS
  <2> HIDE DEF h
  <2>2. h = [k \in 0 .. m |->
               IF k = 0 THEN << >>
               ELSE IF q[k] \in S THEN Append(h[k - 1], q[k]) ELSE h[k - 1]]
    BY <1>5, <2>1
  <2> QED BY <2>2 DEF IsFiltered
<1> HIDE DEF h
<1> QED BY <1>1, <1>6

\* The elements of q in S are the first m of its n.
Leads(q, S, n, m) == \A k \in 1 .. n : q[k] \in S <=> k <= m

\* The rows that are kept are a sequence of tickers; when these are the first m of
\* q, they are kept in their places.
LEMMA FilterKeeps ==
    ASSUME NEW n \in Nat, NEW R, NEW q \in [1 .. n -> R], NEW S, NEW h, IsFiltered(h, q, S, n)
    PROVE  /\ h[n] \in Seq(R)
           /\ \A m \in 0 .. n : Leads(q, S, n, m) => h[n] = SubSeq(q, 1, m)
<1>1. /\ h[0] = << >>
      /\ \A k \in 1 .. n : h[k] = IF q[k] \in S THEN Append(h[k - 1], q[k]) ELSE h[k - 1]
  <2>1. Filters(h, q, S, n)
    BY FilterStep
  <2> QED BY <2>1 DEF Filters
<1>4. << >> \in Seq(R) /\ \A s \in Seq(R) : \A x \in R : Append(s, x) \in Seq(R)
  OBVIOUS
<1>2. \A k \in 0 .. n : h[k] \in Seq(R)
  <2> DEFINE T == {k \in 0 .. n : h[k] \notin Seq(R)}
  <2> SUFFICES ASSUME T # {} PROVE FALSE
    OBVIOUS
  <2>1. PICK k \in T : \A y \in T : k <= y
    <3>1. T \in SUBSET Nat
      OBVIOUS
    <3> HIDE DEF T
    <3> QED BY <3>1, LeastNumber
  <2>2. k # 0
    BY <1>1, <1>4, <2>1
  <2>3. k \in 1 .. n /\ k - 1 \in 0 .. n /\ k - 1 \notin T
    <3>1. k \in 0 .. n
      BY <2>1
    <3> HIDE DEF T
    <3> QED BY <2>1, <2>2, <3>1
  <2>4. h[k - 1] \in Seq(R) /\ q[k] \in R
    BY <2>3
  <2>5. h[k] \in Seq(R)
    <3> HIDE DEF T
    <3> QED BY <1>1, <1>4, <2>3, <2>4
  <2> QED BY <2>1, <2>5
<1>6. ASSUME NEW m \in 0 .. n, Leads(q, S, n, m)
      PROVE  h[n] = SubSeq(q, 1, m)
  <2>0. \A k \in 1 .. n : q[k] \in S <=> k <= m
    BY <1>6 DEF Leads
  <2> DEFINE Reached(k) == IF k <= m THEN k ELSE m
             Right(k) == Len(h[k]) = Reached(k) /\ \A i \in 1 .. Reached(k) : h[k][i] = q[i]
             T == {k \in 0 .. n : ~Right(k)}
  <2>1. T = {}
    <3> SUFFICES ASSUME T # {} PROVE FALSE
      OBVIOUS
    <3>1. PICK k \in T : \A y \in T : k <= y
      <4>1. T \in SUBSET Nat
        OBVIOUS
      <4> HIDE DEF T
      <4> QED BY <4>1, LeastNumber
    <3>2. k # 0
      BY <1>1
    <3>3. k \in 1 .. n /\ k - 1 \in 0 .. n /\ k - 1 \notin T
      <4>1. k \in 0 .. n
        BY <3>1
      <4> HIDE DEF T
      <4> QED BY <3>1, <3>2, <4>1
    <3>4. Right(k - 1) /\ h[k - 1] \in Seq(R)
      BY <1>2, <3>3
    <3>5. CASE k <= m
      <4>1. h[k] = Append(h[k - 1], q[k]) /\ Len(h[k - 1]) = k - 1 /\ \A i \in 1 .. k - 1 : h[k - 1][i] = q[i]
        <5>1. q[k] \in S /\ h[k] = IF q[k] \in S THEN Append(h[k - 1], q[k]) ELSE h[k - 1]
          BY <1>1, <2>0, <3>3, <3>5
        <5>2. Reached(k - 1) = k - 1
          BY <3>3, <3>5
        <5> QED BY <3>4, <5>1, <5>2
      <4>2. Len(h[k]) = k /\ h[k][k] = q[k] /\ \A i \in 1 .. k - 1 : h[k][i] = q[i]
        BY <3>3, <3>4, <4>1
      <4>3. \A i \in 1 .. k : i = k \/ i \in 1 .. k - 1
        BY <3>3
      <4>4. Right(k)
        BY <3>5, <4>2, <4>3
      <4> QED BY <3>1, <4>4
    <3>6. CASE ~(k <= m)
      <4>1. h[k] = h[k - 1]
        BY <1>1, <2>0, <3>3, <3>6
      <4>2. Reached(k) = m /\ Reached(k - 1) = m
        BY <3>3, <3>6
      <4>3. Right(k)
        BY <3>4, <4>1, <4>2
      <4> QED BY <3>1, <4>3
    <3> QED BY <3>5, <3>6
  <2>2. n \in 0 .. n /\ Reached(n) = m /\ Right(n)
    BY <2>1
  <2>3. h[n] \in Seq(R) /\ Len(h[n]) = m /\ \A i \in 1 .. m : h[n][i] = q[i]
    BY <1>2, <2>2
  <2>4. q \in Seq(R) /\ Len(q) = n
    OBVIOUS
  <2>5. SubSeq(q, 1, m) \in Seq(R) /\ Len(SubSeq(q, 1, m)) = m /\ \A i \in 1 .. m : SubSeq(q, 1, m)[i] = q[i]
    BY <2>4
  <2> QED BY <2>3, <2>5
<1>5. h[n] \in Seq(R)
  BY <1>2
<1> QED BY <1>5, <1>6

\* The elements of q in S, in their order.
Filtered(q, S) ==
    LET kept[k \in 0 .. Len(q)] ==
            IF k = 0 THEN << >>
            ELSE IF q[k] \in S THEN Append(kept[k - 1], q[k])
            ELSE kept[k - 1]
    IN  kept[Len(q)]

LEMMA FilteredSound ==
    ASSUME NEW R, NEW q \in Seq(R), NEW S
    PROVE  /\ Filtered(q, S) \in Seq(R)
           /\ q = << >> => Filtered(q, S) = << >>
           /\ \A m \in 0 .. Len(q) :
                Leads(q, S, Len(q), m) => Filtered(q, S) = SubSeq(q, 1, m)
<1> DEFINE n == Len(q)
           h == CHOOSE g : IsFiltered(g, q, S, n)
<1>1. n \in Nat /\ q \in [1 .. n -> R]
  OBVIOUS
<1>2. Filtered(q, S) = h[n]
  BY DEF Filtered, IsFiltered
<1>3. q = << >> => n = 0
  OBVIOUS
<1> HIDE DEF n
<1>4. IsFiltered(h, q, S, n)
  BY <1>1, FilterExists
<1> HIDE DEF h
<1>5. /\ h[n] \in Seq(R)
      /\ \A m \in 0 .. n : Leads(q, S, n, m) => h[n] = SubSeq(q, 1, m)
  BY <1>1, <1>4, FilterKeeps
<1>6. h[0] = << >>
  <2>1. Filters(h, q, S, n)
    BY <1>1, <1>4, FilterStep
  <2> QED BY <2>1 DEF Filters
<1> USE DEF n
<1> QED BY <1>2, <1>3, <1>5, <1>6

\* The universe of the database: sequences without repetition, not empty and not longer
\* than the limit.
LEMMA LoadSound ==
    ASSUME rows \in Selections \cup {<< >>},
           NEW u, u = LoadSimulatedTickers
    PROVE  /\ u \in Seq(Tickers) /\ Len(u) \in 1 .. Limit /\ NoRepetition(u)
           /\ rows # << >> => \E m \in 1 .. RowCount : rows \in [1 .. RowCount -> Tickers] /\ u = SubSeq(rows, 1, m)
<1>1. CASE rows = << >>
  <2>1. u = <<Fallback>>
    BY <1>1 DEF LoadSimulatedTickers
  <2>2. u \in Seq(Tickers) /\ Len(u) \in 1 .. Limit /\ DOMAIN u = {1}
    BY <2>1, RoutingConstants
  <2> QED BY <1>1, <2>2 DEF NoRepetition
<1>2. CASE rows # << >>
  <2> DEFINE m == IF Len(rows) < Limit THEN Len(rows) ELSE Limit
  <2>1. /\ rows \in [1 .. RowCount -> Tickers]
        /\ \A p, q \in 1 .. RowCount : rows[p] = rows[q] => p = q
    BY <1>2 DEF Selections
  <2>2. rows \in Seq(Tickers) /\ Len(rows) = RowCount /\ RowCount \in Nat \ {0} /\ Limit \in Nat \ {0}
    BY <2>1, RoutingConstants
  <2>3. u = SubSeq(rows, 1, m)
    BY <1>2 DEF LoadSimulatedTickers
  <2>4. m \in 1 .. RowCount /\ m <= Limit
    BY <2>2
  <2> HIDE DEF m
  <2>5. /\ u \in Seq(Tickers) /\ Len(u) = m /\ DOMAIN u = 1 .. m
        /\ \A k \in 1 .. m : u[k] = rows[k]
    BY <2>2, <2>3, <2>4
  <2>6. \A k \in 1 .. m : k \in 1 .. RowCount
    BY <2>2, <2>4
  <2>7. NoRepetition(u)
    BY <2>1, <2>5, <2>6 DEF NoRepetition
  <2>8. Len(u) \in 1 .. Limit
    BY <2>2, <2>4, <2>5
  <2> QED BY <2>1, <2>3, <2>4, <2>5, <2>7, <2>8
<1> QED BY <1>1, <1>2

\* A matcher that holds the newest universe announces it row by row, in its order.
LEMMA AnnouncedRows ==
    ASSUME rows \in Selections \cup {<< >>}
    PROVE  /\ EnabledRows \in Seq(Tickers)
           /\ rows = << >> => EnabledRows = << >>
           /\ rows # << >> /\ Simulated(0).tickers = LoadSimulatedTickers =>
                EnabledRows = LoadSimulatedTickers
<1> DEFINE S == TickersOf(Simulated(0).tickers)
           n == Len(rows)
           u == LoadSimulatedTickers
<1>1. rows \in Seq(Tickers)
  <2>1. CASE rows = << >>
    BY <2>1
  <2>2. CASE rows # << >>
    <3>1. rows \in [1 .. RowCount -> Tickers]
      BY <2>2 DEF Selections
    <3> QED BY <3>1, RoutingConstants
  <2> QED BY <2>1, <2>2
<1>2. EnabledRows = Filtered(rows, S)
  BY DEF EnabledRows, Filtered
<1> HIDE DEF S
<1>3. /\ Filtered(rows, S) \in Seq(Tickers)
      /\ rows = << >> => Filtered(rows, S) = << >>
      /\ \A m \in 0 .. n : Leads(rows, S, n, m) => Filtered(rows, S) = SubSeq(rows, 1, m)
  BY <1>1, FilteredSound
<1> HIDE DEF n
<1>6. ASSUME rows # << >>, Simulated(0).tickers = u PROVE Filtered(rows, S) = u
  <2>0. /\ NoRepetition(u)
        /\ \E m \in 1 .. RowCount : rows \in [1 .. RowCount -> Tickers] /\ u = SubSeq(rows, 1, m)
    BY <1>6, LoadSound
  <2>1. PICK m \in 1 .. RowCount : rows \in [1 .. RowCount -> Tickers] /\ u = SubSeq(rows, 1, m)
    BY <2>0
  <2>2. n = RowCount /\ RowCount \in Nat \ {0} /\ rows \in Seq(Tickers)
    BY <2>1, RoutingConstants DEF n
  <2>3. \A p, q \in 1 .. n : rows[p] = rows[q] => p = q
    BY <1>6, <2>2 DEF Selections
  <2>4. DOMAIN u = 1 .. m /\ \A k \in 1 .. m : u[k] = rows[k]
    BY <2>1, <2>2
  <2>5. S = {u[k] : k \in 1 .. m}
    BY <1>6, <2>4 DEF S, TickersOf
  <2> HIDE DEF u
  <2>6. \A k \in 1 .. m : k \in 1 .. n
    BY <2>2
  <2>7. ASSUME NEW k \in 1 .. n PROVE rows[k] \in S <=> k <= m
    <3>1. k <= m => k \in 1 .. m
      BY <2>2
    <3>2. rows[k] \in S <=> \E j \in 1 .. m : rows[k] = rows[j]
      BY <2>4, <2>5
    <3>3. k \in 1 .. m => k <= m
      BY <2>2
    <3> QED BY <2>3, <2>6, <3>1, <3>2, <3>3
  <2>8. m \in 0 .. n
    BY <2>2
  <2>9. Leads(rows, S, n, m)
    BY <2>7 DEF Leads
  <2> QED BY <1>3, <2>1, <2>8, <2>9
<1> QED BY <1>2, <1>3, <1>6

-----------------------------------------------------------------------------
(* The inductive invariant *)

\* Every ticker of a universe is routed to one of the shards.
LEMMA RoutedToShard ==
    ASSUME NEW u \in Seq(Tickers), NEW t \in TickersOf(u), NEW count \in Nat \ {0}
    PROVE  ShardForTicker(u, t, count) \in 0 .. count - 1
<1> DEFINE T == {p \in DOMAIN u : u[p] = t}
           p == FirstPosition(u, t)
<1>1. T \in SUBSET Nat /\ T # {} /\ DOMAIN u \subseteq Nat \ {0}
  BY DEF TickersOf
<1>2. \E x \in T : \A y \in T : x <= y
  <2> HIDE DEF T
  <2> QED BY <1>1, LeastNumber
<1>3. \E x \in DOMAIN u : u[x] = t /\ \A q \in DOMAIN u : u[q] = t => x <= q
  BY <1>2
<1>4. p \in DOMAIN u
  BY <1>3 DEF FirstPosition
<1>5. ShardForTicker(u, t, count) = (p - 1) % count
  BY DEF ShardForTicker, MatcherShard
<1>6. (p - 1) % count \in 0 .. count - 1
  BY <1>1, <1>4
<1> QED BY <1>5, <1>6

\* The parts of the types and of the constants the steps need.
LEMMA RoutingTypes ==
    ASSUME RoutingTypeOK
    PROVE  /\ rows \in Selections \cup {<< >>} /\ imports \in Nat /\ imports <= MaxImports
           /\ DOMAIN universe = Shards
           /\ \A i \in Shards :
                /\ universe[i] \in [tickers : Seq(Tickers), version : -1 .. imports]
                /\ Len(universe[i].tickers) <= Limit /\ books[i] \subseteq Tickers
           /\ 0 \in Shards
<1>1. 0 \in Shards
  BY RoutingConstants DEF Shards
<1>2. MaxImports \in Nat
  BY RoutingConstants
<1> QED BY <1>1, <1>2 DEF RoutingTypeOK

\* What a matcher uses is the universe it holds, or the one it loads now.
LEMMA SimulatedSound ==
    ASSUME RoutingInv, NEW i \in Shards,
           NEW u, u = Simulated(i)
    PROVE  /\ u = universe[i] \/ u = [tickers |-> LoadSimulatedTickers, version |-> imports]
           /\ u \in [tickers : Seq(Tickers), version : -1 .. imports]
           /\ u.version = imports => u.tickers = LoadSimulatedTickers
           /\ books[i] \subseteq OwnedTickers(u.tickers, i, ShardCount)
<1> DEFINE L == LoadSimulatedTickers
<1>1. /\ rows \in Selections \cup {<< >>} /\ imports \in Nat
      /\ universe[i] \in [tickers : Seq(Tickers), version : -1 .. imports]
  BY RoutingTypes DEF RoutingInv
<1>2. L \in Seq(Tickers)
  BY <1>1, LoadSound
<1>3. OneUniverse(i) /\ BooksOwned(i)
  BY DEF RoutingInv
<1> HIDE DEF L
<1>4. CASE universe[i] = NotLoaded
  <2>1. u = [tickers |-> L, version |-> imports]
    BY <1>4 DEF Simulated, L
  <2>2. universe[i].tickers = << >>
    BY <1>4 DEF NotLoaded
  <2>3. books[i] = {}
    BY <1>3, <2>2 DEF BooksOwned, OwnedTickers
  <2>4. imports \in -1 .. imports
    BY <1>1
  <2>5. u \in [tickers : Seq(Tickers), version : -1 .. imports] /\ u.tickers = L
    BY <1>2, <2>1, <2>4
  <2> QED BY <2>1, <2>3, <2>5 DEF L
<1>5. CASE universe[i] # NotLoaded
  <2>1. u = universe[i]
    BY <1>5 DEF Simulated
  <2> QED BY <1>1, <1>3, <2>1 DEF OneUniverse, BooksOwned
<1> QED BY <1>4, <1>5

\* A matcher may lose its universe, keep it, or load the newest: a version still names
\* one universe.
LEMMA MatcherLoads ==
    ASSUME RoutingInv, NEW i \in Shards,
           NEW u, \/ u = universe[i] \/ u = NotLoaded
                  \/ u = [tickers |-> LoadSimulatedTickers, version |-> imports],
           universe' = [universe EXCEPT ![i] = u], rows' = rows, imports' = imports
    PROVE  /\ \A j \in Shards : universe'[j] = IF j = i THEN u ELSE universe[j]
           /\ universe' \in [Shards -> [tickers : Seq(Tickers), version : -1 .. imports]]
           /\ \A j \in Shards : Len(universe'[j].tickers) <= Limit
           /\ \A j \in Shards : OneUniverse(j)'
<1> DEFINE L == LoadSimulatedTickers
<1>1. /\ rows \in Selections \cup {<< >>} /\ imports \in Nat /\ DOMAIN universe = Shards
      /\ \A j \in Shards : /\ universe[j] \in [tickers : Seq(Tickers), version : -1 .. imports]
                           /\ Len(universe[j].tickers) <= Limit
  BY RoutingTypes DEF RoutingInv
<1>2. L \in Seq(Tickers) /\ Len(L) \in 1 .. Limit /\ NoRepetition(L)
  BY <1>1, LoadSound
<1>3. Limit \in Nat /\ Len(<< >>) <= Limit /\ << >> \in Seq(Tickers)
  BY RoutingConstants
<1>4. L' = L
  BY DEF LoadSimulatedTickers
<1>5. \A j \in Shards : OneUniverse(j)
  BY DEF RoutingInv
<1>6. \A j \in Shards : universe'[j] = IF j = i THEN u ELSE universe[j]
  <2>1. universe' = [universe EXCEPT ![i] = u]
    OBVIOUS
  <2> QED BY <1>1, <2>1
<1>7. NotLoaded.tickers = << >> /\ NotLoaded.version = -1
      /\ NotLoaded \in [tickers : Seq(Tickers), version : -1 .. imports]
  BY <1>1, <1>3 DEF NotLoaded
<1> HIDE DEF L
<1>8. /\ u \in [tickers : Seq(Tickers), version : -1 .. imports] /\ Len(u.tickers) <= Limit
      /\ u.version = -1 => u.tickers = << >>
      /\ u.version = imports => u.tickers = L
      /\ NoRepetition(u.tickers)
      /\ \A j \in Shards : universe[j].version = u.version => universe[j].tickers = u.tickers
  <2>1. CASE u = universe[i]
    <3>1. \A j \in Shards : universe[j].version = universe[i].version => universe[j].tickers = universe[i].tickers
      BY <1>5 DEF OneUniverse
    <3>2. OneUniverse(i)
      BY <1>5
    <3> QED BY <1>1, <2>1, <3>1, <3>2 DEF OneUniverse, L
  <2>2. CASE u = NotLoaded
    <3>1. u.tickers = << >> /\ u.version = -1 /\ u \in [tickers : Seq(Tickers), version : -1 .. imports]
      BY <1>7, <2>2
    <3>2. NoRepetition(<< >>)
      BY DEF NoRepetition
    <3>3. \A j \in Shards : universe[j].version = -1 => universe[j].tickers = << >>
      BY <1>5 DEF OneUniverse
    <3>4. -1 # imports
      BY <1>1
    <3> QED BY <1>3, <3>1, <3>2, <3>3, <3>4
  <2>3. CASE u = [tickers |-> L, version |-> imports]
    <3>1. imports \in -1 .. imports /\ imports # -1
      BY <1>1
    <3>2. u.tickers = L /\ u.version = imports /\ u \in [tickers : Seq(Tickers), version : -1 .. imports]
      BY <1>2, <2>3, <3>1
    <3>3. \A j \in Shards : universe[j].version = imports => universe[j].tickers = L
      BY <1>5 DEF OneUniverse, L
    <3>4. Len(L) <= Limit
      BY <1>2, <1>3
    <3> QED BY <1>2, <3>1, <3>2, <3>3, <3>4
  <2> QED BY <2>1, <2>2, <2>3 DEF L
<1>9. universe' \in [Shards -> [tickers : Seq(Tickers), version : -1 .. imports]]
  <2>1. universe' = [universe EXCEPT ![i] = u]
    OBVIOUS
  <2>2. universe \in [Shards -> [tickers : Seq(Tickers), version : -1 .. imports]]
    BY DEF RoutingInv, RoutingTypeOK
  <2> QED BY <1>8, <2>1, <2>2
<1>10. \A j \in Shards : Len(universe'[j].tickers) <= Limit
  BY <1>1, <1>6, <1>8
<1>11. ASSUME NEW j \in Shards PROVE OneUniverse(j)'
  <2>1. /\ universe'[j].version = -1 => universe'[j].tickers = << >>
        /\ universe'[j].version = imports => universe'[j].tickers = L
        /\ NoRepetition(universe'[j].tickers)
    <3>1. CASE j = i
      BY <1>6, <1>8, <3>1
    <3>2. CASE j # i
      <4>1. universe'[j] = universe[j]
        BY <1>6, <3>2
      <4>2. OneUniverse(j)
        BY <1>5
      <4> QED BY <4>1, <4>2 DEF OneUniverse, L
    <3> QED BY <3>1, <3>2
  <2>2. ASSUME NEW k \in Shards, universe'[k].version = universe'[j].version
        PROVE  universe'[k].tickers = universe'[j].tickers
    <3>1. \A a, b \in Shards : universe[a].version = universe[b].version => universe[a].tickers = universe[b].tickers
      BY <1>5 DEF OneUniverse
    <3> QED BY <1>6, <1>8, <2>2, <3>1
  <2>3. imports' = imports /\ LoadSimulatedTickers' = L
    BY <1>4 DEF L
  <2>4. NoRepetition(universe[j].tickers)' <=> NoRepetition(universe'[j].tickers)
    BY DEF NoRepetition
  <2> QED BY <2>1, <2>2, <2>3, <2>4 DEF OneUniverse
<1> QED BY <1>6, <1>9, <1>10, <1>11

LEMMA RoutingStart ==
    ASSUME RoutingInit
    PROVE  RoutingInv
<1> USE DEF RoutingInit
<1>1. /\ << >> \in Seq(Tickers) /\ Len(<< >>) <= Limit /\ MaxImports \in Nat
      /\ 0 \in 0 .. MaxImports /\ -1 \in -1 .. 0
  BY RoutingConstants
<1>2. NotLoaded.tickers = << >> /\ NotLoaded.version = -1
      /\ NotLoaded \in [tickers : Seq(Tickers), version : -1 .. 0]
  BY <1>1 DEF NotLoaded
<1>3. NotStarted.version = -1 /\ NotStarted \in [symbols : SUBSET Tickers, version : -1 .. 0]
  BY <1>1 DEF NotStarted
<1>4. \A i \in Shards : universe[i] = NotLoaded /\ books[i] = {} /\ runner[i] = NotStarted
  OBVIOUS
<1>5. RoutingTypeOK
  <2>1. universe \in [Shards -> [tickers : Seq(Tickers), version : -1 .. 0]]
    BY <1>2
  <2>2. runner \in [Shards -> [symbols : SUBSET Tickers, version : -1 .. 0]]
    BY <1>3
  <2>3. books \in [Shards -> SUBSET Tickers]
    OBVIOUS
  <2>4. \A i \in Shards : Len(universe[i].tickers) <= Limit
    BY <1>1, <1>2, <1>4
  <2> QED BY <1>1, <1>2, <2>1, <2>2, <2>3, <2>4 DEF RoutingTypeOK
<1>6. ASSUME NEW i \in Shards PROVE OneUniverse(i) /\ BooksOwned(i)
  <2>1. NoRepetition(<< >>)
    BY DEF NoRepetition
  <2>2. -1 # imports
    OBVIOUS
  <2> QED BY <1>2, <1>4, <2>1, <2>2 DEF OneUniverse, BooksOwned
<1>7. ReadersTold
  BY DEF ReadersTold
<1> QED BY <1>5, <1>6, <1>7 DEF RoutingInv

\* After an import no process holds the newest universe.
LEMMA ImportStep ==
    ASSUME RoutingInv, Import
    PROVE  RoutingInv'
<1> USE DEF Import
<1>1. imports \in Nat /\ imports' = imports + 1 /\ imports' \in 0 .. MaxImports
  BY RoutingConstants DEF RoutingInv, RoutingTypeOK
<1>2. -1 .. imports \subseteq -1 .. imports' /\ imports' \notin -1 .. imports
  BY <1>1
<1>3. RoutingTypeOK'
  <2>1. universe' \in [Shards -> [tickers : Seq(Tickers), version : -1 .. imports']]
    BY <1>2 DEF RoutingInv, RoutingTypeOK
  <2>2. gateway' \in [tickers : Seq(Tickers), version : -1 .. imports']
    BY <1>2 DEF RoutingInv, RoutingTypeOK
  <2>3. runner' \in [Shards -> [symbols : SUBSET Tickers, version : -1 .. imports']]
    BY <1>2 DEF RoutingInv, RoutingTypeOK
  <2>4. \A i \in Shards : Len(universe'[i].tickers) <= Limit
    BY DEF RoutingInv, RoutingTypeOK
  <2>5. books' \in [Shards -> SUBSET Tickers] /\ rows' \in Selections
    BY DEF RoutingInv, RoutingTypeOK
  <2>6. Selections' = Selections
    BY DEF Selections
  <2> QED BY <1>1, <2>1, <2>2, <2>3, <2>4, <2>5, <2>6 DEF RoutingTypeOK
<1>4. rows' # << >>
  <2>1. rows' \in [1 .. RowCount -> Tickers] /\ 1 \in 1 .. RowCount
    BY RoutingConstants DEF Selections
  <2>2. DOMAIN rows' # {}
    BY <2>1
  <2> QED BY <2>2
<1>5. ASSUME NEW i \in Shards PROVE OneUniverse(i)' /\ BooksOwned(i)'
  <2>1. OneUniverse(i) /\ BooksOwned(i) /\ universe[i].version \in -1 .. imports
    BY RoutingTypes DEF RoutingInv
  <2> QED BY <1>2, <2>1 DEF OneUniverse, BooksOwned, NoRepetition
<1>6. ReadersTold'
  <2>1. gateway.version \in -1 .. imports /\ \A r \in Shards : runner[r].version \in -1 .. imports
    BY DEF RoutingInv, RoutingTypeOK
  <2> QED BY <1>2, <2>1 DEF ReadersTold
<1> QED BY <1>1, <1>3, <1>4, <1>5, <1>6 DEF RoutingInv

\* One matcher loads, keeps or loses its universe, and the imports stand still: what is
\* left to show is about the books, the gateway and the runners.
LEMMA MatcherStep ==
    ASSUME RoutingInv, NEW i \in Shards,
           NEW u, \/ u = universe[i] \/ u = NotLoaded
                  \/ u = [tickers |-> LoadSimulatedTickers, version |-> imports],
           universe' = [universe EXCEPT ![i] = u], rows' = rows, imports' = imports,
           gateway' \in [tickers : Seq(Tickers), version : -1 .. imports],
           runner' \in [Shards -> [symbols : SUBSET Tickers, version : -1 .. imports]],
           books' \in [Shards -> SUBSET Tickers],
           \A j \in Shards : j # i => books'[j] = books[j],
           books'[i] \subseteq OwnedTickers(u.tickers, i, ShardCount),
           ReadersTold'
    PROVE  RoutingInv'
<1>1. /\ \A j \in Shards : universe'[j] = IF j = i THEN u ELSE universe[j]
      /\ universe' \in [Shards -> [tickers : Seq(Tickers), version : -1 .. imports]]
      /\ \A j \in Shards : Len(universe'[j].tickers) <= Limit
      /\ \A j \in Shards : OneUniverse(j)'
  BY MatcherLoads
<1>2. ASSUME NEW j \in Shards PROVE BooksOwned(j)'
  <2>1. BooksOwned(j)
    BY DEF RoutingInv
  <2>2. CASE j = i
    BY <1>1, <2>2 DEF BooksOwned, OwnedTickers
  <2>3. CASE j # i
    <3>1. books'[j] = books[j] /\ universe'[j] = universe[j]
      BY <1>1, <2>3
    <3> QED BY <2>1, <3>1 DEF BooksOwned, OwnedTickers
  <2> QED BY <2>2, <2>3
<1>3. RoutingTypeOK'
  <2>1. Selections' = Selections
    BY DEF Selections
  <2>2. rows' \in Selections \cup {<< >>} /\ imports' \in 0 .. MaxImports
    BY DEF RoutingInv, RoutingTypeOK
  <2> QED BY <1>1, <2>1, <2>2 DEF RoutingTypeOK
<1>4. (rows = << >> <=> imports = 0)'
  BY DEF RoutingInv
<1> QED BY <1>1, <1>2, <1>3, <1>4 DEF RoutingInv

\* A step that leaves the readers alone leaves what they were told.
LEMMA ReadersUnchanged ==
    ASSUME ReadersTold, rows' = rows, imports' = imports, gateway' = gateway, runner' = runner
    PROVE  ReadersTold'
<1>1. LoadSimulatedTickers' = LoadSimulatedTickers
  BY DEF LoadSimulatedTickers
<1>2. \A r : Share(r)' = Share(r)
  BY <1>1 DEF Share, TickersOf, ShardForTicker, FirstPosition
<1> QED BY <1>1, <1>2 DEF ReadersTold

LEMMA StartMatcherStep ==
    ASSUME RoutingInv, NEW i \in Shards, StartMatcher(i)
    PROVE  RoutingInv'
<1> USE DEF StartMatcher
<1>1. PICK u \in {NotLoaded, [tickers |-> LoadSimulatedTickers, version |-> imports]} :
        universe' = [universe EXCEPT ![i] = u]
  OBVIOUS
<1>2. /\ books' \in [Shards -> SUBSET Tickers] /\ books'[i] = {}
      /\ \A j \in Shards : j # i => books'[j] = books[j]
  <2>1. books \in [Shards -> SUBSET Tickers] /\ books' = [books EXCEPT ![i] = {}]
    BY DEF RoutingInv, RoutingTypeOK
  <2> QED BY <2>1
<1>3. /\ gateway' \in [tickers : Seq(Tickers), version : -1 .. imports]
      /\ runner' \in [Shards -> [symbols : SUBSET Tickers, version : -1 .. imports]]
  BY DEF RoutingInv, RoutingTypeOK
<1>4. ReadersTold'
  BY ReadersUnchanged DEF RoutingInv
<1>5. rows' = rows /\ imports' = imports /\ books'[i] \subseteq OwnedTickers(u.tickers, i, ShardCount)
  BY <1>2
<1> QED BY <1>1, <1>2, <1>3, <1>4, <1>5, MatcherStep

\* Shard 0 answers with the rows of the universe it uses.
LEMMA StartGatewayStep ==
    ASSUME RoutingInv, StartGateway
    PROVE  RoutingInv'
<1> DEFINE u == Simulated(0)
           L == LoadSimulatedTickers
<1>1. /\ gateway' = [tickers |-> EnabledRows, version |-> u.version]
      /\ universe' = [universe EXCEPT ![0] = u]
      /\ rows' = rows /\ imports' = imports /\ runner' = runner /\ books' = books
      /\ EnabledRows # << >>
  BY DEF StartGateway, Used
<1>2. 0 \in Shards /\ rows \in Selections \cup {<< >>}
  BY RoutingTypes DEF RoutingInv
<1>3. /\ u = universe[0] \/ u = [tickers |-> L, version |-> imports]
      /\ u \in [tickers : Seq(Tickers), version : -1 .. imports]
      /\ u.version = imports => u.tickers = L
      /\ books[0] \subseteq OwnedTickers(u.tickers, 0, ShardCount)
  BY <1>2, SimulatedSound
<1>4. /\ EnabledRows \in Seq(Tickers)
      /\ rows # << >> /\ u.tickers = L => EnabledRows = L
  BY <1>2, AnnouncedRows
<1> HIDE DEF u
<1>5. gateway' \in [tickers : Seq(Tickers), version : -1 .. imports]
  BY <1>1, <1>3, <1>4
<1>6. imports > 0 /\ u.version = imports => EnabledRows = L
  <2>1. imports > 0 => rows # << >>
    BY DEF RoutingInv
  <2> QED BY <1>3, <1>4, <2>1
<1>7. L' = L
  BY <1>1 DEF LoadSimulatedTickers
<1>8. \A r : Share(r)' = Share(r)
  BY <1>7 DEF Share, TickersOf, ShardForTicker, FirstPosition
<1>9. ReadersTold'
  <2>1. imports' > 0 /\ gateway'.version = imports' => gateway'.tickers = L'
    BY <1>1, <1>6, <1>7
  <2>2. \A r \in Shards : imports' > 0 /\ runner'[r].version = imports' => runner'[r].symbols = Share(r)'
    BY <1>1, <1>8 DEF RoutingInv, ReadersTold
  <2> QED BY <2>1, <2>2 DEF ReadersTold
<1>10. /\ runner' \in [Shards -> [symbols : SUBSET Tickers, version : -1 .. imports]]
       /\ books' \in [Shards -> SUBSET Tickers]
  BY <1>1 DEF RoutingInv, RoutingTypeOK
<1>11. /\ \A j \in Shards : j # 0 => books'[j] = books[j]
       /\ books'[0] \subseteq OwnedTickers(u.tickers, 0, ShardCount)
  BY <1>1, <1>3
<1> QED BY <1>1, <1>2, <1>3, <1>5, <1>9, <1>10, <1>11, MatcherStep

\* The runner takes its symbols from the same answer.
LEMMA StartRunnerStep ==
    ASSUME RoutingInv, NEW r \in Shards, StartRunner(r)
    PROVE  RoutingInv'
<1> DEFINE u == Simulated(0)
           L == LoadSimulatedTickers
           told == [symbols |-> RunnerSymbols(r), version |-> u.version]
<1>1. /\ runner' = [runner EXCEPT ![r] = told]
      /\ universe' = [universe EXCEPT ![0] = u]
      /\ rows' = rows /\ imports' = imports /\ gateway' = gateway /\ books' = books
  BY DEF StartRunner, Used
<1>2. 0 \in Shards /\ rows \in Selections \cup {<< >>}
  BY RoutingTypes DEF RoutingInv
<1>3. /\ u = universe[0] \/ u = [tickers |-> L, version |-> imports]
      /\ u \in [tickers : Seq(Tickers), version : -1 .. imports]
      /\ u.version = imports => u.tickers = L
      /\ books[0] \subseteq OwnedTickers(u.tickers, 0, ShardCount)
  BY <1>2, SimulatedSound
<1>4. /\ EnabledRows \in Seq(Tickers)
      /\ rows # << >> /\ u.tickers = L => EnabledRows = L
  BY <1>2, AnnouncedRows
<1>5. RunnerSymbols(r) =
        {t \in TickersOf(EnabledRows) : ShardForTicker(u.tickers, t, ShardCount) = r}
  BY DEF RunnerSymbols
<1> HIDE DEF u
<1>6. told.symbols = RunnerSymbols(r) /\ told.version = u.version
  OBVIOUS
<1>7. told \in [symbols : SUBSET Tickers, version : -1 .. imports]
  <2>1. TickersOf(EnabledRows) \subseteq Tickers
    BY <1>4 DEF TickersOf
  <2>2. RunnerSymbols(r) \subseteq Tickers
    BY <1>5, <2>1
  <2> QED BY <1>3, <2>2
<1>8. imports > 0 /\ u.version = imports => RunnerSymbols(r) = Share(r)
  <2>1. imports > 0 => rows # << >>
    BY DEF RoutingInv
  <2>2. ASSUME imports > 0, u.version = imports
        PROVE  u.tickers = L /\ EnabledRows = L
    BY <1>3, <1>4, <2>1, <2>2
  <2> QED BY <1>5, <2>2 DEF Share
<1> HIDE DEF told
<1>9. L' = L
  BY <1>1 DEF LoadSimulatedTickers
<1>10. \A s : Share(s)' = Share(s)
  BY <1>9 DEF Share, TickersOf, ShardForTicker, FirstPosition
<1>11. runner \in [Shards -> [symbols : SUBSET Tickers, version : -1 .. imports]]
  BY DEF RoutingInv, RoutingTypeOK
<1>12. \A s \in Shards : runner'[s] = IF s = r THEN told ELSE runner[s]
  BY <1>1, <1>11
<1>13. ReadersTold'
  <2>1. imports' > 0 /\ gateway'.version = imports' => gateway'.tickers = L'
    BY <1>1, <1>9 DEF RoutingInv, ReadersTold
  <2>2. ASSUME NEW s \in Shards, imports' > 0, runner'[s].version = imports'
        PROVE  runner'[s].symbols = Share(s)'
    <3>1. CASE s = r
      BY <1>1, <1>6, <1>8, <1>10, <1>12, <2>2, <3>1
    <3>2. CASE s # r
      <4>1. runner'[s] = runner[s]
        BY <1>12, <3>2
      <4> QED BY <1>1, <1>10, <2>2, <4>1 DEF RoutingInv, ReadersTold
    <3> QED BY <3>1, <3>2
  <2> QED BY <2>1, <2>2 DEF ReadersTold
<1>14. /\ runner' \in [Shards -> [symbols : SUBSET Tickers, version : -1 .. imports]]
       /\ gateway' \in [tickers : Seq(Tickers), version : -1 .. imports]
       /\ books' \in [Shards -> SUBSET Tickers]
  BY <1>1, <1>7, <1>11 DEF RoutingInv, RoutingTypeOK
<1>15. /\ \A j \in Shards : j # 0 => books'[j] = books[j]
       /\ books'[0] \subseteq OwnedTickers(u.tickers, 0, ShardCount)
  BY <1>1, <1>3
<1> QED BY <1>1, <1>2, <1>3, <1>13, <1>14, <1>15, MatcherStep

\* An order opens a book only at the matcher that owns its symbol.
LEMMA SubmitStep ==
    ASSUME RoutingInv, NEW t \in Tickers, Submit(t)
    PROVE  RoutingInv'
<1> DEFINE i == Route(t)
           u == Simulated(i)
<1>1. /\ i # NoShard /\ universe' = [universe EXCEPT ![i] = u]
      /\ books' = IF IsOwned(i, t) THEN [books EXCEPT ![i] = @ \cup {t}] ELSE books
      /\ rows' = rows /\ imports' = imports /\ gateway' = gateway /\ runner' = runner
  BY DEF Submit, Used
<1>2. i = ShardForTicker(gateway.tickers, t, ShardCount)
  BY DEF Route
<1>3. IsOwned(i, t) <=> t \in OwnedTickers(u.tickers, i, ShardCount)
  BY DEF IsOwned
<1> HIDE DEF i
<1>4. i \in Shards
  <2>1. t \in TickersOf(gateway.tickers)
    BY <1>1, <1>2 DEF ShardForTicker
  <2>2. gateway.tickers \in Seq(Tickers)
    BY DEF RoutingInv, RoutingTypeOK
  <2> QED BY <1>2, <2>1, <2>2, RoutedToShard, RoutingConstants DEF Shards
<1>5. /\ u = universe[i] \/ u = [tickers |-> LoadSimulatedTickers, version |-> imports]
      /\ books[i] \subseteq OwnedTickers(u.tickers, i, ShardCount)
  BY <1>4, SimulatedSound
<1> HIDE DEF u
<1>6. books \in [Shards -> SUBSET Tickers]
  BY DEF RoutingInv, RoutingTypeOK
<1>7. /\ books' \in [Shards -> SUBSET Tickers]
      /\ \A j \in Shards : j # i => books'[j] = books[j]
      /\ books'[i] \subseteq OwnedTickers(u.tickers, i, ShardCount)
  <2>1. CASE t \in OwnedTickers(u.tickers, i, ShardCount)
    <3>1. books' = [books EXCEPT ![i] = books[i] \cup {t}]
      BY <1>1, <1>3, <2>1
    <3> QED BY <1>4, <1>5, <1>6, <2>1, <3>1
  <2>2. CASE t \notin OwnedTickers(u.tickers, i, ShardCount)
    <3>1. books' = books
      BY <1>1, <1>3, <2>2
    <3> QED BY <1>5, <1>6, <3>1
  <2> QED BY <2>1, <2>2
<1>8. /\ gateway' \in [tickers : Seq(Tickers), version : -1 .. imports]
      /\ runner' \in [Shards -> [symbols : SUBSET Tickers, version : -1 .. imports]]
  BY <1>1 DEF RoutingInv, RoutingTypeOK
<1>9. ReadersTold'
  BY <1>1, ReadersUnchanged DEF RoutingInv
<1> QED BY <1>1, <1>4, <1>5, <1>7, <1>8, <1>9, MatcherStep

LEMMA RoutingStep ==
    ASSUME RoutingInv, [RoutingNext]_routingVars
    PROVE  RoutingInv'
<1>1. CASE UNCHANGED routingVars
  <2>1. /\ rows' = rows /\ imports' = imports /\ universe' = universe /\ gateway' = gateway
        /\ runner' = runner /\ books' = books
    BY <1>1 DEF routingVars
  <2>2. /\ \A i \in Shards : OneUniverse(i) /\ BooksOwned(i)
        /\ LoadSimulatedTickers' = LoadSimulatedTickers
    BY <2>1 DEF RoutingInv, LoadSimulatedTickers
  <2>3. \A i \in Shards : OneUniverse(i)' /\ BooksOwned(i)'
    BY <2>1, <2>2 DEF OneUniverse, BooksOwned, OwnedTickers, NoRepetition
  <2>4. ReadersTold'
    BY <2>1, ReadersUnchanged DEF RoutingInv
  <2>5. RoutingTypeOK'
    BY <2>1 DEF RoutingInv, RoutingTypeOK, Selections
  <2> QED BY <2>1, <2>3, <2>4, <2>5 DEF RoutingInv
<1>2. CASE RoutingNext
  <2>1. CASE Import
    BY <2>1, ImportStep
  <2>2. CASE StartGateway
    BY <2>2, StartGatewayStep
  <2>3. CASE \E i \in Shards : StartMatcher(i) \/ StartRunner(i)
    BY <2>3, StartMatcherStep, StartRunnerStep
  <2>4. CASE \E t \in Tickers : Submit(t)
    BY <2>4, SubmitStep
  <2> QED BY <1>2, <2>1, <2>2, <2>3, <2>4 DEF RoutingNext
<1> QED BY <1>1, <1>2

LEMMA RoutingInvariant == RoutingSpec => []RoutingInv
<1>1. RoutingInit => RoutingInv
  BY RoutingStart
<1>2. RoutingInv /\ [RoutingNext]_routingVars => RoutingInv'
  BY RoutingStep
<1> QED BY <1>1, <1>2, PTL DEF RoutingSpec

-----------------------------------------------------------------------------
(* What follows from the invariant *)

\* While all matchers hold one universe, the orders of a symbol rest in one matcher
\* only: the books of every other one are of symbols it owns itself.
THEOREM OneBookEach == RoutingSpec => []OneBookWhileAgreed
<1>1. RoutingInv => OneBookWhileAgreed
  <2> SUFFICES ASSUME RoutingInv, NEW v \in 0 .. imports, MatchersAgree(v), NEW t \in Tickers
               PROVE  Cardinality({i \in Shards : t \in books[i]}) <= 1
    BY DEF RoutingInv, OneBookWhileAgreed
  <2> DEFINE u == universe[0].tickers
             S == {i \in Shards : t \in books[i]}
             s == ShardForTicker(u, t, ShardCount)
  <2>1. /\ 0 \in Shards /\ ShardCount \in Nat \ {0}
        /\ \A i \in Shards : universe[i] \in [tickers : Seq(Tickers), version : -1 .. imports]
    BY RoutingTypes, RoutingConstants DEF RoutingInv
  <2>2. u \in Seq(Tickers) /\ NoRepetition(u)
    BY <2>1 DEF RoutingInv, OneUniverse
  <2>3. \A i \in Shards : universe[i].version = v
    BY DEF MatchersAgree
  <2>4. \A i \in Shards : universe[i].tickers = u
    BY <2>1, <2>3 DEF RoutingInv, OneUniverse
  <2> HIDE DEF u
  <2>5. \A i \in Shards : t \in books[i] => t \in OwnedTickers(u, i, ShardCount)
    BY <2>4 DEF RoutingInv, BooksOwned
  <2>6. S \subseteq {s}
    <3>1. CASE t \in TickersOf(u)
      <4>1. Len(u) \in Nat /\ u \in [1 .. Len(u) -> Tickers]
        BY <2>2
      <4>2. \A i \in 0 .. ShardCount - 1 : t \in OwnedTickers(u, i, ShardCount) <=> i = s
        BY <2>1, <2>2, <3>1, <4>1, ShardOwnsTicker
      <4> QED BY <2>5, <4>2 DEF Shards
    <3>2. CASE t \notin TickersOf(u)
      BY <2>5, <3>2, UnknownOwnedByNobody
    <3> QED BY <3>1, <3>2
  <2>7. IsFiniteSet({s}) /\ Cardinality({s}) = 1
    BY FS_Singleton
  <2> HIDE DEF S, s
  <2>8. Cardinality(S) <= 1
    BY <2>6, <2>7, FS_Subset
  <2> QED BY <2>8 DEF S
<1> QED BY <1>1, RoutingInvariant, PTL

\* Once every process has been restarted after the import, each symbol of the universe
\* has one owner, its requests go there, and one runner trades it.
THEOREM ServedAfterRestarts == RoutingSpec => []ServedAfterRestart
<1>1. RoutingInv => ServedAfterRestart
  <2> DEFINE L == LoadSimulatedTickers
  <2> SUFFICES ASSUME RoutingInv, imports > 0, MatchersAgree(imports), NEW t \in TickersOf(L)
               PROVE  /\ Cardinality(Owners(t)) = 1
                      /\ gateway.version = imports => Route(t) \in Owners(t)
                      /\ (\A r \in Shards : runner[r].version = imports) =>
                            Cardinality({r \in Shards : t \in runner[r].symbols}) = 1
    BY DEF ServedAfterRestart
  <2> DEFINE s == ShardForTicker(L, t, ShardCount)
  <2>1. rows \in Selections \cup {<< >>} /\ imports \in Nat /\ ShardCount \in Nat \ {0}
    BY RoutingTypes, RoutingConstants DEF RoutingInv
  <2>2. L \in Seq(Tickers) /\ NoRepetition(L)
    BY <2>1, LoadSound
  <2>3. Len(L) \in Nat /\ L \in [1 .. Len(L) -> Tickers]
    BY <2>2
  <2>4. \A i \in Shards : universe[i].version = imports /\ universe[i].tickers = L
    BY DEF MatchersAgree, RoutingInv, OneUniverse
  <2>5. \A i \in Shards : universe[i] # NotLoaded /\ Simulated(i) = universe[i]
    <3>1. NotLoaded.version = -1
      BY DEF NotLoaded
    <3> QED BY <2>1, <2>4, <3>1 DEF Simulated
  <2> HIDE DEF L
  <2>6. /\ s \in Shards
        /\ \A i \in Shards : t \in OwnedTickers(L, i, ShardCount) <=> i = s
    BY <2>1, <2>2, <2>3, ShardOwnsTicker DEF Shards
  <2>7. \A i \in Shards : IsOwned(i, t) <=> i = s
    BY <2>4, <2>5, <2>6 DEF IsOwned
  <2> HIDE DEF s
  <2>8. Owners(t) = {s}
    <3>1. Owners(t) = {i \in Shards : universe[i] # NotLoaded /\ IsOwned(i, t)}
      BY DEF Owners
    <3> QED BY <2>5, <2>6, <2>7, <3>1
  <2>9. gateway.version = imports => Route(t) = s
    BY DEF RoutingInv, ReadersTold, Route, s, L
  <2>10. ASSUME \A r \in Shards : runner[r].version = imports
         PROVE  {r \in Shards : t \in runner[r].symbols} = {s}
    <3>1. \A r \in Shards : runner[r].symbols = Share(r)
      BY <2>10 DEF RoutingInv, ReadersTold
    <3>2. \A r : t \in Share(r) <=> r = s
      BY DEF Share, s, L
    <3> QED BY <2>6, <3>1, <3>2
  <2>11. Cardinality({s}) = 1
    BY FS_Singleton
  <2> QED BY <2>8, <2>9, <2>10, <2>11
<1> QED BY <1>1, RoutingInvariant, PTL
=============================================================================
