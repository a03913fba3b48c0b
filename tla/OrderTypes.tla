----------------------------- MODULE OrderTypes -----------------------------
(***************************************************************************)
(* The values an order book handles (backend/exchange/orderbook/types.py)  *)
(* and the bounds of a model of one book.  An order's id is the number of  *)
(* its submission: uuid4 is modelled by what it is used for, a fresh name. *)
(***************************************************************************)
EXTENDS Integers, Sequences

CONSTANTS
    MaxOrders,           \* bound: orders submitted in a behaviour
    Prices,              \* limit prices an order may carry
    Quantities,          \* quantities an order may carry
    MaxAge,              \* max_age_seconds; 0 disables expiry
    MaxClock,            \* bound: last value of the monotonic clock
    RecentTradeCapacity  \* recent_trade_capacity

\* types.py:28-31 and book.py:177-180: the constructors reject anything else.
ASSUME PriceAssumption == Prices \subseteq (Nat \ {0})
ASSUME QuantityAssumption == Quantities \subseteq (Nat \ {0})
ASSUME BoundAssumption == /\ MaxOrders \in Nat
                          /\ MaxAge \in Nat
                          /\ MaxClock \in Nat
                          /\ RecentTradeCapacity \in Nat \ {0}

Ids == 1 .. MaxOrders
Sides == {"BUY", "SELL"}
Opposite(sd) == IF sd = "BUY" THEN "SELL" ELSE "BUY"

NoOrder == [side |-> "BUY", price |-> 0, quantity |-> 0]
Order == [side : Sides, price : Prices, quantity : Quantities]
Trade == [price : Prices, quantity : Nat, buy : Ids, sell : Ids]

Lesser(a, b) == IF a < b THEN a ELSE b

\* Whether the limit of an incoming order reaches a resting one.
Crosses(incoming, resting) ==
    IF incoming.side = "BUY" THEN incoming.price >= resting.price
                             ELSE incoming.price <= resting.price

\* The execution of q units of the incoming order against the resting one.
TradeOf(id, incoming, restingId, resting, q) ==
    [price |-> resting.price,
     quantity |-> q,
     buy  |-> IF incoming.side = "BUY" THEN id ELSE restingId,
     sell |-> IF incoming.side = "BUY" THEN restingId ELSE id]

\* deque(maxlen = RecentTradeCapacity) after extend: only the newest stay.
Newest(tape) ==
    IF Len(tape) <= RecentTradeCapacity THEN tape
    ELSE SubSeq(tape, Len(tape) - RecentTradeCapacity + 1, Len(tape))
=============================================================================
