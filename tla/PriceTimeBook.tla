--------------------------- MODULE PriceTimeBook ---------------------------
(***************************************************************************)
(* The promise of one symbol's limit order book: price-time priority, the  *)
(* maker's price, and no trade with an order that had already rested for   *)
(* the maximum age when the call began.                                    *)
(*                                                                         *)
(* It is the book of backend/exchange/orderbook/reference_book.py, the     *)
(* repository's "slow but obviously correct oracle": the two sorted lists  *)
(* are the set `resting` under the relation Before, opposing_orders[0] is  *)
(* the order nothing comes Before.  Expiry, which the oracle does not      *)
(* have, is the contract of OrderBook.max_age_seconds.                     *)
(*                                                                         *)
(* A call holds the book's lock from its first step to its last, so one    *)
(* call is in progress at a time; its loop iterations are separate steps,  *)
(* between which only the clock moves.                                     *)
(***************************************************************************)
EXTENDS OrderTypes

NoCall == [op |-> "none", id |-> 0, rem |-> 0, trades |-> << >>, deadline |-> 0]

VARIABLES
    issued,     \* orders constructed so far; ids are 1, 2, ... (uuid4: fresh)
    order,      \* the immutable Order of each issued id
    resting,    \* ids of the resting orders, both sides
    rem,        \* remaining quantity of each resting order, 0 for the others
    seq,        \* insertion sequence of each order that ever rested
    restedAt,   \* clock when it started resting
    sequence,   \* the book's insertion counter
    recent,     \* the bounded tape of executions, oldest first
    filled,     \* history: quantity of each order executed so far
    withdrawn,  \* history: quantity of each order canceled or expired
    now,        \* the monotonic clock
    call        \* the call that holds the lock

vars == <<issued, order, resting, rem, seq, restedAt, sequence, recent,
          filled, withdrawn, now, call>>

Init ==
    /\ issued = 0
    /\ order = [o \in Ids |-> NoOrder]
    /\ resting = {}
    /\ rem = [o \in Ids |-> 0]
    /\ seq = [o \in Ids |-> 0]
    /\ restedAt = [o \in Ids |-> 0]
    /\ sequence = 0
    /\ recent = << >>
    /\ filled = [o \in Ids |-> 0]
    /\ withdrawn = [o \in Ids |-> 0]
    /\ now = 0
    /\ call = NoCall

-----------------------------------------------------------------------------
\* Priority on one side: better price first, then arrival order.
Before(a, b) ==
    \/ IF order[a].side = "BUY" THEN order[a].price > order[b].price
                                ELSE order[a].price < order[b].price
    \/ order[a].price = order[b].price /\ seq[a] < seq[b]

OnSide(sd) == {o \in resting : order[o].side = sd}

IsFront(o) ==
    /\ o \in resting
    /\ \A p \in OnSide(order[o].side) : p = o \/ Before(o, p)

\* The resting orders the call would match.
Matchable == {o \in OnSide(Opposite(order[call.id].side)) : Crosses(order[call.id], order[o])}

-----------------------------------------------------------------------------
Begin(op, id, q) ==
    /\ call.op = "none"
    /\ call' = [op |-> op, id |-> id, rem |-> q, trades |-> << >>,
                deadline |-> now - MaxAge]

SubmitBegin(sd, p, q) ==
    /\ issued < MaxOrders
    /\ issued' = issued + 1
    /\ order' = [order EXCEPT ![issued + 1] = [side |-> sd, price |-> p, quantity |-> q]]
    /\ Begin("submit", issued + 1, q)
    /\ UNCHANGED <<resting, rem, seq, restedAt, sequence, recent, filled, withdrawn, now>>

CancelBegin(o) ==
    /\ o <= issued
    /\ Begin("cancel", o, 0)
    /\ UNCHANGED <<issued, order, resting, rem, seq, restedAt, sequence, recent,
                   filled, withdrawn, now>>

ReadBegin ==
    /\ Begin("read", 0, 0)
    /\ UNCHANGED <<issued, order, resting, rem, seq, restedAt, sequence, recent,
                   filled, withdrawn, now>>

Expirable(o) == o \in resting /\ MaxAge > 0 /\ restedAt[o] <= call.deadline

\* Takes what is left of a resting order out of the book.
Withdraw(o) ==
    /\ resting' = resting \ {o}
    /\ rem' = [rem EXCEPT ![o] = 0]
    /\ withdrawn' = [withdrawn EXCEPT ![o] = @ + rem[o]]

Expire(o) ==
    /\ call.op # "none"
    /\ Expirable(o)
    /\ Withdraw(o)
    /\ UNCHANGED <<issued, order, seq, restedAt, sequence, recent, filled, now, call>>

\* Every body runs once no expirable order is left.
InBody(op) == call.op = op /\ \A o \in resting : ~Expirable(o)

Match(o) ==
    /\ InBody("submit")
    /\ call.rem > 0
    /\ IsFront(o) /\ o \in Matchable
    /\ LET q == Lesser(call.rem, rem[o]) IN
       /\ call' = [op |-> "submit", id |-> call.id, rem |-> call.rem - q,
                   trades |-> Append(call.trades,
                                     TradeOf(call.id, order[call.id], o, order[o], q)),
                   deadline |-> call.deadline]
       /\ rem' = [rem EXCEPT ![o] = @ - q]
       /\ resting' = IF rem[o] = q THEN resting \ {o} ELSE resting
       /\ filled' = [x \in Ids |-> IF x \in {o, call.id} THEN filled[x] + q ELSE filled[x]]
    /\ UNCHANGED <<issued, order, seq, restedAt, sequence, recent, withdrawn, now>>

SubmitFilled ==
    /\ InBody("submit")
    /\ call.rem = 0
    /\ recent' = Newest(recent \o call.trades)
    /\ call' = NoCall
    /\ UNCHANGED <<issued, order, resting, rem, seq, restedAt, sequence, filled,
                   withdrawn, now>>

SubmitRest ==
    /\ InBody("submit")
    /\ call.rem > 0
    /\ Matchable = {}
    /\ sequence' = sequence + 1
    /\ resting' = resting \cup {call.id}
    /\ rem' = [rem EXCEPT ![call.id] = call.rem]
    /\ seq' = [seq EXCEPT ![call.id] = sequence + 1]
    /\ restedAt' = [restedAt EXCEPT ![call.id] = IF MaxAge > 0 THEN now ELSE 0]
    /\ recent' = Newest(recent \o call.trades)
    /\ call' = NoCall
    /\ UNCHANGED <<issued, order, filled, withdrawn, now>>

CancelOpen ==
    /\ InBody("cancel")
    /\ call.id \in resting
    /\ Withdraw(call.id)
    /\ call' = NoCall
    /\ UNCHANGED <<issued, order, seq, restedAt, sequence, recent, filled, now>>

\* OrderNotFoundError
CancelClosed ==
    /\ InBody("cancel")
    /\ call.id \notin resting
    /\ call' = NoCall
    /\ UNCHANGED <<issued, order, resting, rem, seq, restedAt, sequence, recent,
                   filled, withdrawn, now>>

ReadEnd ==
    /\ InBody("read")
    /\ call' = NoCall
    /\ UNCHANGED <<issued, order, resting, rem, seq, restedAt, sequence, recent,
                   filled, withdrawn, now>>

Tick ==
    /\ now < MaxClock
    /\ now' = now + 1
    /\ UNCHANGED <<issued, order, resting, rem, seq, restedAt, sequence, recent,
                   filled, withdrawn, call>>

Next ==
    \/ \E sd \in Sides, p \in Prices, q \in Quantities : SubmitBegin(sd, p, q)
    \/ \E o \in Ids : CancelBegin(o)
    \/ ReadBegin
    \/ \E o \in Ids : Expire(o)
    \/ \E o \in Ids : Match(o)
    \/ SubmitFilled
    \/ SubmitRest
    \/ CancelOpen
    \/ CancelClosed
    \/ ReadEnd
    \/ Tick

Spec == Init /\ [][Next]_vars

-----------------------------------------------------------------------------
Call == [op : {"none", "submit", "cancel", "read"}, id : 0 .. MaxOrders,
         rem : Nat, trades : Seq(Trade), deadline : Int]

\* The types of the book's state; quantities never go negative.
TypeOK ==
    /\ issued \in 0 .. MaxOrders
    /\ order \in [Ids -> Order \cup {NoOrder}]
    /\ \A o \in 1 .. issued : order[o] \in Order
    /\ resting \subseteq 1 .. issued
    /\ rem \in [Ids -> Nat]
    /\ seq \in [Ids -> Nat]
    /\ restedAt \in [Ids -> Nat]
    /\ sequence \in Nat
    /\ recent \in Seq(Trade)
    /\ filled \in [Ids -> Nat]
    /\ withdrawn \in [Ids -> Nat]
    /\ now \in Nat
    /\ call \in Call
    /\ call.id <= issued
    /\ call.op \in {"submit", "cancel"} => call.id # 0

\* No resting bid reaches a resting ask: submit never leaves a match undone,
\* whatever was canceled or expired around it.
Uncrossed ==
    \A b \in OnSide("BUY"), a \in OnSide("SELL") : order[b].price < order[a].price

\* Quantity is conserved order by order: what was executed, what was canceled
\* or expired, what still rests and what a submit has yet to place add up to
\* the order's quantity.
Conservation ==
    \A o \in 1 .. issued :
        order[o].quantity =
            filled[o] + withdrawn[o] + rem[o]
                + (IF call.op = "submit" /\ call.id = o THEN call.rem ELSE 0)

\* Every execution on the tape (and every one of the submit in progress) is at
\* a price both orders' limits allow, between a buy and a sell order.
WithinLimits(tape) ==
    \A i \in 1 .. Len(tape) :
        LET t == tape[i] IN
        /\ order[t.buy].side = "BUY" /\ order[t.sell].side = "SELL"
        /\ order[t.sell].price <= t.price /\ t.price <= order[t.buy].price
        /\ t.quantity > 0

TradesWithinLimits == WithinLimits(recent) /\ WithinLimits(call.trades)

\* Before orders the resting orders of a side totally, so the order a match
\* takes is determined: no two of them share a price and a sequence number.
PriorityTotal ==
    \A a, b \in resting :
        order[a].side = order[b].side /\ a # b => (Before(a, b) /\ ~Before(b, a))
                                               \/ (Before(b, a) /\ ~Before(a, b))
=============================================================================
