------------------------------ MODULE Gateway ------------------------------
(***************************************************************************)
(* The gateway: requests on their way through GatewayHTTPServer and        *)
(* GatewayHandler (proxy.py), the routing of a request (routing.py), and   *)
(* the counters of GatewayMetrics (metrics.py).                            *)
(*                                                                         *)
(* Each connection carries one request and has a thread of its own.  The   *)
(* connection to the matcher may fail, break in the middle or answer; the  *)
(* client may be gone when the answer is written.                          *)
(***************************************************************************)
EXTENDS Sharding, FiniteSets, Functions

CONSTANTS
    Conns,        \* connections
    Lettered,     \* tickers with a letter, as KRX short codes may have
    Unknown       \* a symbol outside the universe

ASSUME GatewayAssumption ==
    /\ IsFiniteSet(Conns) /\ IsFiniteSet(Tickers) /\ Lettered \subseteq Tickers
    /\ Unknown \notin Tickers /\ ShardCount \in Nat \ {0}

\* The requests the routing tells apart: for the book of a symbol (in the
\* path), by symbol in the query or body (trades, create and cancel), with an
\* empty symbol or body, with a body or length that cannot be decoded, by shard
\* number (/metrics/0, /ready/0), for shard 0 (events, symbols, traders,
\* health), any other path, and service discovery with and without a Host
\* header.  The gateway's own metrics are ServeMetrics.
Requests ==
    [kind : {"book", "symbol"}, arg : Tickers \cup {Unknown}]
    \cup [kind : {"indexed"}, arg : 0 .. ShardCount]
    \cup [kind : {"blank", "garbled", "default", "other", "discovery", "hostless"}, arg : {0}]

VARIABLES
    tickers,        \* the universe the gateway was started with
    conn,           \* each connection: where it is, its request, shard and status
    acceptedAt,     \* _accepted_at
    inFlight,       \* _in_flight
    requests,       \* _requests by status
    upstreamErrors  \* _upstream_errors by shard

metricVars == <<inFlight, requests, upstreamErrors>>
vars == <<tickers, conn, acceptedAt, metricVars>>

NoRequest == [kind |-> "none", arg |-> 0]
Statuses == {0, 200, 400, 404, 502}

\* The tickers of the universe in any order, each once.
Universes ==
    {u \in [1 .. Cardinality(Tickers) -> Tickers] :
        \A p, q \in 1 .. Cardinality(Tickers) : u[p] = u[q] => p = q}

Init ==
    /\ tickers \in Universes
    /\ conn = [c \in Conns |-> [at |-> "new", req |-> NoRequest, shard |-> NoShard, status |-> 0]]
    /\ acceptedAt = {} /\ inFlight = 0
    /\ requests = [s \in Statuses |-> 0]
    /\ upstreamErrors = [i \in Shards |-> 0]

At(c, place) == conn[c].at = place
Move(c, place) == conn' = [conn EXCEPT ![c].at = place]
MoveWith(c, place, status) ==
    conn' = [conn EXCEPT ![c] = [at |-> place, req |-> @.req, shard |-> @.shard, status |-> status]]

-----------------------------------------------------------------------------
(* Routing *)

\* A route to a shard, and a RoutingError with its status.
ToShard(shard) == [shard |-> shard, status |-> 0]
RoutingError(status) == [shard |-> NoShard, status |-> status]

RequireShardIndex(index) == IF index \in Shards THEN ToShard(index) ELSE RoutingError(404)

\* The shard of a request, or the error that refuses it.
RouteRequest(q) ==
    CASE q.kind = "indexed" -> RequireShardIndex(q.arg)
      [] q.kind = "default" -> ToShard(0)
      [] q.kind = "book" /\ q.arg \in Lettered -> RoutingError(404)
      [] q.kind = "symbol" \/ (q.kind = "book" /\ q.arg \notin Lettered) ->
           LET shard == ShardForTicker(tickers, q.arg, ShardCount)
           IN  IF shard = NoShard THEN RoutingError(400) ELSE ToShard(shard)
      [] q.kind = "blank" -> RoutingError(400)
      [] q.kind = "other" -> RoutingError(404)

-----------------------------------------------------------------------------
(* Threads and requests *)

\* The accept loop notes the time and starts a thread.
Accept(c) ==
    /\ At(c, "new")
    /\ acceptedAt' = acceptedAt \cup {c}
    /\ Move(c, "queued")
    /\ UNCHANGED <<tickers, metricVars>>

\* No thread can be started: the connection is closed, its time stays noted.
ThreadFails(c) ==
    /\ At(c, "queued")
    /\ Move(c, "refused")
    /\ UNCHANGED <<tickers, acceptedAt, metricVars>>

\* Mutant of StartThread: the time is read and not taken out.
StartThreadKeeps(c) ==
    /\ At(c, "queued")
    /\ Move(c, "reading")
    /\ UNCHANGED <<tickers, acceptedAt, metricVars>>

\* The thread runs.
StartThread(c) ==
    /\ At(c, "queued")
    /\ acceptedAt' = acceptedAt \ {c}
    /\ Move(c, "reading")
    /\ UNCHANGED <<tickers, metricVars>>

\* The gateway's own metrics are answered and not counted.
ServeMetrics(c) ==
    /\ At(c, "reading")
    /\ Move(c, "closed")
    /\ UNCHANGED <<tickers, acceptedAt, metricVars>>

\* Where the handler of a request goes first: it raises, it is answered by the
\* gateway itself, it is refused, or it goes to a shard.
FirstStep(q) ==
    LET goes(place, shard, status) == [at |-> place, req |-> q, shard |-> shard, status |-> status]
        route == RouteRequest(q)
    IN  CASE q.kind = "garbled"   -> goes("finish", NoShard, 0)
          [] q.kind = "discovery" -> goes("answer", NoShard, 200)
          [] q.kind = "hostless"  -> goes("answer", NoShard, 400)
          [] OTHER -> goes(IF route.status = 0 THEN "upstream" ELSE "answer", route.shard, route.status)

\* The handler of any other request begins.
Begin(c, q) ==
    /\ At(c, "reading")
    /\ inFlight' = inFlight + 1
    /\ conn' = [conn EXCEPT ![c] = FirstStep(q)]
    /\ UNCHANGED <<tickers, acceptedAt, requests, upstreamErrors>>

\* The matcher answers, with whatever status.
UpstreamAnswers(c, status) ==
    /\ At(c, "upstream")
    /\ MoveWith(c, "relay", status)
    /\ UNCHANGED <<tickers, acceptedAt, metricVars>>

\* Connecting, sending or reading fails with an OSError, the timeout included.
UpstreamFails(c) ==
    /\ At(c, "upstream")
    /\ upstreamErrors' = [upstreamErrors EXCEPT ![conn[c].shard] = @ + 1]
    /\ MoveWith(c, "answer", 502)
    /\ UNCHANGED <<tickers, acceptedAt, inFlight, requests>>

\* Any other exception of http.client (an answer cut short) leaves the handler
\* without an answer: the status stays 0.
Escape(c) ==
    /\ At(c, "upstream")
    /\ Move(c, "finish")
    /\ UNCHANGED <<tickers, acceptedAt, metricVars>>

\* The answer is written.  One of the gateway's own that cannot be written
\* raises, and its status is counted all the same.
Reply(c) ==
    /\ At(c, "relay") \/ At(c, "answer")
    /\ Move(c, "finish")
    /\ UNCHANGED <<tickers, acceptedAt, metricVars>>

\* The client is gone: writing a matcher's answer raises an OSError, which is
\* taken for a failed matcher.
ClientGone(c) ==
    /\ At(c, "relay")
    /\ MoveWith(c, "answer", 502)
    /\ UNCHANGED <<tickers, acceptedAt, metricVars>>

\* Mutant of Finish: the gauge is not taken down when the handler raised.
FinishAnswered(c) ==
    /\ At(c, "finish")
    /\ inFlight' = IF conn[c].status = 0 THEN inFlight ELSE inFlight - 1
    /\ requests' = [requests EXCEPT ![conn[c].status] = @ + 1]
    /\ Move(c, "closed")
    /\ UNCHANGED <<tickers, acceptedAt, upstreamErrors>>

\* request_finished, in a finally clause.
Finish(c) ==
    /\ At(c, "finish")
    /\ inFlight' = inFlight - 1
    /\ requests' = [requests EXCEPT ![conn[c].status] = @ + 1]
    /\ Move(c, "closed")
    /\ UNCHANGED <<tickers, acceptedAt, upstreamErrors>>

Next == \E c \in Conns :
    \/ Accept(c) \/ ThreadFails(c) \/ StartThread(c) \/ ServeMetrics(c)
    \/ \E q \in Requests : Begin(c, q)
    \/ \E status \in {200, 400, 404} : UpstreamAnswers(c, status)
    \/ UpstreamFails(c) \/ Escape(c) \/ Reply(c) \/ ClientGone(c) \/ Finish(c)

Spec == Init /\ [][Next]_vars

-----------------------------------------------------------------------------
(* Properties *)

\* Where a handler is between request_started and request_finished.
Handling == {"upstream", "relay", "answer", "finish"}
Handled == {c \in Conns : conn[c].at \in Handling}

\* The types of the gateway's state: only statuses it knows are written.
TypeOK ==
    /\ tickers \in Universes
    /\ conn \in [Conns -> [at : {"new", "queued", "refused", "reading", "closed"} \cup Handling,
                           req : Requests \cup {NoRequest},
                           shard : Shards \cup {NoShard}, status : Statuses]]
    /\ acceptedAt \subseteq Conns
    /\ inFlight \in Nat
    /\ requests \in [Statuses -> Nat]
    /\ upstreamErrors \in [Shards -> Nat]

\* gateway_in_flight_requests is the number of requests being handled, whatever
\* way a handler is left: answered, refused, failed or with an exception.
InFlightExact == inFlight = Cardinality(Handled)

\* _accepted_at forgets a connection as soon as its thread runs.  What is left
\* in it for ever are the connections that never got a thread.
AcceptedUntilServed == acceptedAt = {c \in Conns : At(c, "queued") \/ At(c, "refused")}

\* A request about a symbol is forwarded to the matcher that owns the symbol by
\* owned_tickers, which the matchers use, not only by the gateway's own lookup.
ForwardedToOwner ==
    \A c \in Conns :
        conn[c].req.kind \in {"book", "symbol"} /\ conn[c].shard # NoShard =>
            conn[c].req.arg \in OwnedTickers(tickers, conn[c].shard, ShardCount)

=============================================================================
